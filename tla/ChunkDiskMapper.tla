---------------------------- MODULE ChunkDiskMapper ----------------------------
(***************************************************************************)
(* pkg/tsdb/chunks/head_chunks.go: chunks appended to numbered files       *)
(* through a writer's buffer, read back by the reference WriteChunk gave,  *)
(* found again after a restart, and truncated file by file.                *)
(*                                                                         *)
(* The methods hold writePathMtx, so each is one step, but for Truncate    *)
(* and DeleteCorrupted, which choose, cut, unmap and remove in steps of    *)
(* their own: chunks are written in between and the power may fail.  A     *)
(* reference is a file and the place of the chunk in it (its offset).  No  *)
(* call of the file system fails; a file is synced when it is finalized.   *)
(***************************************************************************)
EXTENDS Naturals, Sequences, SequencesExt, FiniteSets

CONSTANTS
    Sizes, MaxTime,          \* of chunks, and their latest maxt
    MaxHeadChunkFileSize, WriteBufferSize, HeaderSize,
    MaxChunks, MaxOpens, MaxTruncates

ASSUME ChunkAssumption ==
    /\ HeaderSize \in Nat \ {0} /\ MaxTime \in Nat /\ Sizes \subseteq Nat
    /\ MaxHeadChunkFileSize \in Nat /\ HeaderSize <= MaxHeadChunkFileSize
    /\ \A size \in Sizes : HeaderSize + size <= MaxHeadChunkFileSize

Times == 1..MaxTime

VARIABLES
    disk,     \* file -> its chunks as flushed, its state: whole, torn, empty
    m,        \* the ChunkDiskMapper
    work,     \* a Truncate or DeleteCorrupted in progress
    given,    \* references this process was given, with their chunks (history)
    whole,    \* every mapped file's maxt is set (history)
    brokenOff, \* the power failed within DeleteCorrupted (history)
    spent     \* chunks written, times opened, times truncated

vars == <<disk, m, work, given, whole, brokenOff, spent>>

NoWork == [kind |-> "none", stage |-> "", files |-> {}, mint |-> 0, whole |-> TRUE]

(* files: the maxt of each mapped file; cur = 0: no file is open. *)
Fresh(state, mapped) ==
    [state |-> state, files |-> [f \in mapped |-> 0], cur |-> 0, bytes |-> 0,
     maxt |-> 0, pending |-> << >>, buffer |-> {}, fileMaxtSet |-> FALSE]

Highest(S) == IF S = {} THEN 0 ELSE Max(S)

Ref(f, place) == <<f, place>>
Sum(chunks) == FoldLeft(LAMBDA n, c : n + c.size, 0, chunks)

-----------------------------------------------------------------------------
(* NewChunkDiskMapper: an empty last file is removed; mutation: it is not. *)
NotRepaired(files) == files
repairLastChunkFile(files) ==
    IF files # << >> /\ files[Highest(DOMAIN files)].state = "empty"
    THEN [f \in DOMAIN files \ {Highest(DOMAIN files)} |-> files[f]]
    ELSE files

(* A gap between two numbers, or a file without a header, is an error. *)
openMMapFiles(files) ==
    Fresh(IF /\ \A f \in DOMAIN files : files[f].state # "empty"
             /\ \A f, g \in DOMAIN files : f..g \subseteq DOMAIN files
          THEN "open" ELSE "failed", DOMAIN files)

Init ==
    /\ disk = << >>
    /\ m = openMMapFiles(disk)
    /\ work = NoWork /\ given = {} /\ whole = FALSE /\ brokenOff = FALSE
    /\ spent = [chunks |-> 0, opens |-> 1, truncates |-> 0]

NewChunkDiskMapper ==
    /\ m.state = "closed"
    /\ spent.opens < MaxOpens
    /\ spent' = [spent EXCEPT !.opens = @ + 1]
    /\ disk' = repairLastChunkFile(disk)
    /\ m' = openMMapFiles(disk')
    /\ given' = {} /\ whole' = FALSE
    /\ UNCHANGED <<work, brokenOff>>

-----------------------------------------------------------------------------
(* The writer: s is the mapper with what is on the disk beside it. *)
Both == [m |-> m, disk |-> disk]

flushBuffer(s) ==
    [disk |-> [s.disk EXCEPT ![s.m.cur].chunks = @ \o s.m.pending],
     m |-> [s.m EXCEPT !.pending = << >>, !.buffer = {}]]

(* Mutation: the writer is reset with chunks in its buffer. *)
NotFlushed(s) == s
finalizeCurFile(s) == IF s.m.cur = 0 THEN s ELSE flushBuffer(s)

(* A new file behind the last of the directory, with its header. *)
nextSequenceFile(files) == Highest(DOMAIN files) + 1
cutSegmentFile(files) ==
    [f \in DOMAIN files \cup {nextSequenceFile(files)} |->
        IF f \in DOMAIN files THEN files[f]
                              ELSE [chunks |-> << >>, state |-> "whole"]]

(* The file left has its maxt now, and the new one is written to. *)
cut(s) ==
    LET t == finalizeCurFile(s)
        next == nextSequenceFile(t.disk)
        files == [f \in DOMAIN t.m.files \cup {next} |->
                    IF f = next THEN 0
                    ELSE IF f = t.m.cur THEN t.m.maxt ELSE t.m.files[f]]
    IN  [disk |-> cutSegmentFile(t.disk),
         m |-> [t.m EXCEPT !.files = files, !.cur = next, !.bytes = HeaderSize,
                           !.maxt = 0, !.pending = << >>]]

(* Mutation: the chunk's own size is left out. *)
CutsLate(s, size) == s.m.bytes = 0 \/ s.m.bytes > MaxHeadChunkFileSize
shouldCutNewFile(s, size) == s.m.bytes = 0 \/ s.m.bytes + size > MaxHeadChunkFileSize

(* Mutation: the last chunk written is taken for the latest. *)
LastTime(old, new) == new
LaterTime(old, new) == IF new > old THEN new ELSE old

Put(s, c) ==
    LET place == Len(s.disk[s.m.cur].chunks) + Len(s.m.pending) + 1
    IN  [s EXCEPT !.m.pending = Append(@, c),
                  !.m.bytes = @ + c.size,
                  !.m.maxt = LaterTime(@, c.maxt),
                  !.m.buffer = @ \cup {[ref |-> Ref(s.m.cur, place), chunk |-> c]}]

(* A chunk as big as the buffer goes to the file at once. *)
Written(c) ==
    LET big == c.size >= WriteBufferSize
        a == IF shouldCutNewFile(Both, c.size) THEN cut(Both) ELSE Both
        full == ~big /\ WriteBufferSize < Sum(a.m.pending) + c.size
        b == IF full THEN flushBuffer(a) ELSE a
    IN  IF big THEN flushBuffer(Put(b, c)) ELSE Put(b, c)

LastRef(s) == Ref(s.m.cur, Len(s.disk[s.m.cur].chunks) + Len(s.m.pending))

WriteChunk ==
    /\ m.state = "open"
    /\ work.kind # "corrupted"
    /\ spent.chunks < MaxChunks
    /\ spent' = [spent EXCEPT !.chunks = @ + 1]
    /\ \E size \in Sizes, maxt \in Times :
          LET c == [id |-> spent.chunks + 1, size |-> size, maxt |-> maxt]
          IN  /\ m' = Written(c).m /\ disk' = Written(c).disk
              /\ given' = given \cup {[ref |-> LastRef(Written(c)), chunk |-> c]}
    /\ UNCHANGED <<work, whole, brokenOff>>

(* Chunk(ref): the buffer first, if it is the file written to, then the
   mapped file.  It takes readPathMtx only and may run within a WriteChunk;
   here it is read between whole calls.  (flushBuffer flushes before it clears
   the buffer: in between a chunk is in both places, never in neither.) *)
Chunk(ref) ==
    LET f == ref[1]
        buffered == {b \in m.buffer : f = m.cur /\ b.ref = ref}
    IN  IF buffered # {} THEN {b.chunk : b \in buffered}
        ELSE IF f \in DOMAIN m.files /\ ref[2] <= Len(disk[f].chunks)
             THEN {disk[f].chunks[ref[2]]}
             ELSE {}

-----------------------------------------------------------------------------
(* IterateAllChunks: the files in their order, as far as what is flushed;
   it ends at a torn one, or where the caller's function returns an error
   (after the file before stop).  fileMaxtSet is set in every case. *)

Torn == {f \in DOMAIN m.files : disk[f].state = "torn"}

IterateAllChunks ==
    \E stop \in {Highest(DOMAIN m.files) + 1} \cup DOMAIN m.files :
        LET end == Min({stop} \cup Torn)
            seen == {f \in DOMAIN m.files : f < end \/ (f = end /\ f \in Torn)}
            times(f) == {c.maxt : c \in ToSet(disk[f].chunks)}
            corrupted == end \in Torn
        IN  /\ m.state = "open" /\ work = NoWork
            /\ m' = [m EXCEPT !.fileMaxtSet = TRUE,
                       !.files = [f \in DOMAIN m.files |->
                           IF f \in seen THEN Highest({m.files[f]} \cup times(f))
                                         ELSE m.files[f]]]
            /\ given' = given \cup UNION {{[ref |-> Ref(f, k), chunk |-> disk[f].chunks[k]] :
                                            k \in DOMAIN disk[f].chunks} : f \in seen}
            /\ whole' = (whole \/ (seen = DOMAIN m.files /\ ~corrupted))
            (* The caller deletes the corruption it finds before it writes,
               and writes again when that is done: a file cut in between
               would be left behind a gap. *)
            /\ work' = IF ~corrupted \/ m.cur # 0 THEN NoWork
                       ELSE [kind |-> "corrupted", stage |-> "unmap", mint |-> 0,
                             files |-> {f \in DOMAIN m.files : f >= end},
                             whole |-> FALSE]
    /\ UNCHANGED <<disk, brokenOff, spent>>

(* Truncate chooses the files: in their order, up to one that holds a
   chunk of mint or later, or that is written to. *)
Truncate ==
    \E mint \in Times :
        LET stays == {f \in DOMAIN m.files : f = m.cur \/ m.files[f] >= mint}
            removed == {f \in DOMAIN m.files : \A g \in stays : f < g}
        IN  /\ m.state = "open" /\ work = NoWork
            /\ m.fileMaxtSet
            /\ spent.truncates < MaxTruncates
            /\ spent' = [spent EXCEPT !.truncates = @ + 1]
            /\ work' = [kind |-> "truncate", stage |-> "cut",
                        files |-> removed, mint |-> mint, whole |-> whole]
    /\ UNCHANGED <<disk, m, given, whole, brokenOff>>

(* A new file, if the current one has chunks. *)
CutNewFile ==
    /\ m.state = "open" /\ work.stage = "cut"
    /\ work' = [work EXCEPT !.stage = "unmap"]
    /\ IF m.bytes > HeaderSize
       THEN m' = cut(Both).m /\ disk' = cut(Both).disk
       ELSE UNCHANGED <<m, disk>>
    /\ UNCHANGED <<given, whole, brokenOff, spent>>

(* deleteFiles: from the maps, under readPathMtx ... *)
Unmap ==
    /\ m.state = "open" /\ work.stage = "unmap"
    /\ m' = [m EXCEPT !.files = [f \in DOMAIN m.files \ work.files |-> m.files[f]]]
    /\ given' = {g \in given : g.ref[1] \notin work.files}
    /\ whole' = (whole \/ work.kind = "corrupted")
    /\ work' = IF work.files = {} THEN NoWork ELSE [work EXCEPT !.stage = "remove"]
    /\ UNCHANGED <<disk, brokenOff, spent>>

(* ... and then, one by one, from the disk: Truncate has sorted them, the
   others come in the order of a map. *)
RemoveFile ==
    /\ m.state = "open" /\ work.stage = "remove"
    /\ \E f \in work.files :
          /\ work.kind = "truncate" => \A g \in work.files : f <= g
          /\ disk' = [g \in DOMAIN disk \ {f} |-> disk[g]]
          /\ work' = IF work.files = {f} THEN NoWork
                     ELSE [work EXCEPT !.files = @ \ {f}]
    /\ UNCHANGED <<m, given, whole, brokenOff, spent>>

Close ==
    /\ m.state = "open" /\ work = NoWork
    /\ disk' = finalizeCurFile(Both).disk
    /\ m' = Fresh("closed", {})
    /\ UNCHANGED <<work, given, whole, brokenOff, spent>>

(* The power fails: of the file written to, which was never synced, some
   chunks are left and perhaps a part of one, or not even its header. *)
PowerLoss ==
    /\ m.state = "open"
    /\ \/ m.cur = 0 /\ disk' = disk
       \/ /\ m.cur # 0
          /\ LET written == disk[m.cur].chunks \o m.pending
             IN  \/ disk' = [disk EXCEPT ![m.cur] = [chunks |-> << >>, state |-> "empty"]]
                 \/ \E n \in 0..Len(written) :
                    \E state \in IF n < Len(written) THEN {"whole", "torn"} ELSE {"whole"} :
                       disk' = [disk EXCEPT ![m.cur] =
                                  [chunks |-> SubSeq(written, 1, n), state |-> state]]
    /\ m' = Fresh("closed", {})
    /\ work' = NoWork
    /\ brokenOff' = (brokenOff \/ work.kind = "corrupted")
    /\ UNCHANGED <<given, whole, spent>>

Next ==
    \/ NewChunkDiskMapper \/ WriteChunk \/ IterateAllChunks
    \/ Truncate \/ CutNewFile \/ Unmap \/ RemoveFile
    \/ Close \/ PowerLoss

Spec == Init /\ [][Next]_vars

-----------------------------------------------------------------------------
(* The types: the file written to is on the disk and the last one, holds as
   many bytes as are counted, and never more than a file may. *)
TypeOK ==
    /\ m.state \in {"open", "closed", "failed"}
    /\ m.cur # 0 => /\ m.cur = Highest(DOMAIN disk) /\ m.cur \in DOMAIN m.files
                    /\ m.bytes = HeaderSize + Sum(disk[m.cur].chunks) + Sum(m.pending)
                    /\ m.bytes <= MaxHeadChunkFileSize
    /\ m.state = "open" => DOMAIN m.files \subseteq DOMAIN disk
    /\ work.stage \in {"", "cut", "unmap", "remove"}

(* Every reference handed out, by WriteChunk or in an iteration, reads the
   chunk it was given for until its file is truncated: from the buffer or
   the file, across flushes, cuts and truncations of other files. *)
EveryRefReads ==
    m.state = "open" => \A g \in given : Chunk(g.ref) = {g.chunk}

(* After any sequence of power losses, some of them within a Truncate, the
   directory opens again.  (DeleteCorrupted removes its files in the order
   of a map: a power loss within it may leave a gap for good.) *)
OpensAgain == m.state = "failed" => brokenOff

(* "Truncate deletes the head chunk files which are strictly below the
   mint": no file it removes holds a chunk of mint or later, whatever order
   the chunks came in.  (After an iteration that ended early the maxt of
   the later files is 0 and they are taken for old ones.) *)
TruncateKeepsNewer ==
    [][(work.kind = "truncate" /\ work.whole) =>
         \A f \in DOMAIN disk \ DOMAIN disk' : \A c \in ToSet(disk[f].chunks) :
            c.maxt < work.mint]_vars
================================================================================
