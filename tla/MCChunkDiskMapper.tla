--------------------------- MODULE MCChunkDiskMapper ---------------------------
(***************************************************************************)
(* pkg/tsdb.  A file of ChunkDiskMapper holds three small chunks, or one   *)
(* big one, which is larger than the writer's buffer.  XorChunk has values *)
(* of 4 bits and times of 6, with fields of 2, 3 and 4 bits for a          *)
(* difference.                                                             *)
(***************************************************************************)
EXTENDS ChunkDiskMapper, XorChunk

MCSizes == {1, 3}
MCFields == <<2, 3, 4>>

MCTimes == 0..63
MCValues == [1..4 -> {0, 1}]

(* Series of four samples: every second and third time, so that there is
   every difference of distances, then one of three; or every value after
   the first. *)
TimeSample(n) ==
    {[t |-> t, v |-> <<0, 1, 1, 0>>] : t \in
        CASE n = 1 -> {5} [] n \in {2, 3} -> MCTimes [] n = 4 -> {0, 1, 63}}
ValueSample(n) ==
    {[t |-> 7 * n, v |-> v] : v \in IF n = 1 THEN {Zeros(4)} ELSE MCValues}
SampleAfter(s) ==
    LET n == Len(s) + 1
    IN  (IF s = << >> \/ s[1] \in TimeSample(1) THEN TimeSample(n) ELSE {})
        \cup (IF s = << >> \/ s[1] \in ValueSample(1) THEN ValueSample(n) ELSE {})

(* The chunk in memory and the files share nothing: a behaviour is of one
   or of the other. *)
MCInit == Init /\ XorInit

ChunkStep ==
    /\ spent.chunks = 0 /\ spent.opens = 1 /\ spent.truncates = 0 /\ m.state = "open"
    /\ work = NoWork
    /\ \/ Len(series) < 4 /\ \E s \in SampleAfter(series) : AppendToChunk(s)
       \/ NewAppender
    /\ UNCHANGED vars
FileStep == series = << >> /\ Next /\ UNCHANGED xorVars

MCSpec == MCInit /\ [][ChunkStep \/ FileStep]_<<vars, xorVars>>
================================================================================
