------------------------ MODULE ChunkDiskMapperProofs ------------------------
(***************************************************************************)
(* Proofs about pkg/tsdb.  Of ChunkDiskMapper, for any sizes and times of  *)
(* chunks and any number of chunks, restarts and truncations: a reference  *)
(* that was given out reads its chunk, the directory opens again after a   *)
(* power loss, and a truncation removes nothing newer than it was asked    *)
(* to.  Of XorChunk, for any widths and samples: an iteration gives back   *)
(* what was appended.                                                      *)
(***************************************************************************)
EXTENDS ChunkDiskMapper, XorChunk, VariableTableProofs

Chunks == [id : Nat, size : Sizes, maxt : Times]
Files == [chunks : Seq(Chunks), state : {"whole", "torn", "empty"}]
Maxts == Times \cup {0}

(* What a file holds and will hold: its chunks and, of the file written to,
   those still in the buffer.  s is a mapper with its disk, as in Both. *)
Content(s, f) ==
    IF f = s.m.cur THEN s.disk[f].chunks \o s.m.pending ELSE s.disk[f].chunks

(* No chunk of the file is later than n. *)
NoLater(chunks, n) == \A k \in 1..Len(chunks) : chunks[k].maxt <= n

DiskOK(d) ==
    /\ DOMAIN d \subseteq Nat \ {0}
    /\ \A f \in DOMAIN d : d[f] \in Files
    /\ \E n \in Nat : \A f \in DOMAIN d : f <= n

MapperOK(p) ==
    /\ p \in [state : {"open", "closed", "failed"}, files : {p.files}, cur : Nat,
              bytes : {p.bytes}, maxt : Maxts, pending : Seq(Chunks),
              buffer : {p.buffer}, fileMaxtSet : BOOLEAN]
    /\ \A f \in DOMAIN p.files : p.files[f] \in Maxts

(* The buffer holds what is pending, each chunk under its reference. *)
BufferOK(s) ==
    s.m.buffer = {[ref |-> Ref(s.m.cur, Len(s.disk[s.m.cur].chunks) + k),
                   chunk |-> s.m.pending[k]] : k \in 1..Len(s.m.pending)}

WriterOK(s) ==
    /\ s.m.cur = 0 => s.m.pending = << >> /\ s.m.bytes = 0
    /\ s.m.cur # 0 => /\ s.m.cur \in DOMAIN s.m.files
                      /\ \A f \in DOMAIN s.disk : f <= s.m.cur
                      /\ NoLater(Content(s, s.m.cur), s.m.maxt)

(* The file written to has the bytes that are counted, and room for them. *)
BytesOK(s) ==
    s.m.cur # 0 =>
       /\ s.m.bytes = HeaderSize + Sum(s.disk[s.m.cur].chunks) + Sum(s.m.pending)
       /\ s.m.bytes <= MaxHeadChunkFileSize

Good(s) ==
    /\ s = [m |-> s.m, disk |-> s.disk]
    /\ DiskOK(s.disk)
    /\ MapperOK(s.m)
    /\ s.m.state = "open" => DOMAIN s.m.files \subseteq DOMAIN s.disk
    /\ s.m.state # "open" => s.m.cur = 0
    /\ BufferOK(s)
    /\ WriterOK(s)

(* The files that a deletion is about to take, and those that are mapped. *)
WorkInv ==
    /\ work = [kind |-> work.kind, stage |-> work.stage, files |-> work.files,
               mint |-> work.mint, whole |-> work.whole]
    /\ work.kind \in {"none", "truncate", "corrupted"}
    /\ m.state # "open" => work = NoWork
    /\ work.kind = "none" => work = NoWork
    /\ work.kind # "none" => work.stage \in {"cut", "unmap", "remove"}
    /\ work.kind = "corrupted" => work.stage # "cut" /\ m.cur = 0
    /\ work.files \subseteq DOMAIN disk
    /\ m.cur \notin work.files
    /\ m.state = "open" =>
          DOMAIN m.files = IF work.stage = "remove" THEN DOMAIN disk \ work.files
                                                    ELSE DOMAIN disk
    /\ work.kind = "truncate" =>
          \A f \in work.files, g \in DOMAIN disk \ work.files : f < g

(* The numbers of the files follow one another; in DeleteCorrupted, those of
   the files that stay.  A file without a header is the last. *)
Follow(S) == \A f, g \in S : f..g \subseteq S

OrderInv ==
    /\ m.state = "open" =>
          /\ Follow(IF work.kind = "corrupted" THEN DOMAIN disk \ work.files
                                               ELSE DOMAIN disk)
          /\ \A f \in DOMAIN disk : disk[f].state # "empty"
    /\ m.state = "closed" /\ ~brokenOff =>
          /\ Follow(DOMAIN disk)
          /\ \A f, g \in DOMAIN disk : disk[f].state = "empty" => g <= f
    /\ m.state = "failed" => brokenOff

(* A file that is not written to has its maxt, if an iteration has set it;
   what a truncation takes is older than its mint. *)
Timed(s, f) == NoLater(s.disk[f].chunks, s.m.files[f])

TimeInv ==
    /\ m.state = "open" /\ whole =>
          \A f \in DOMAIN m.files \ {m.cur} : Timed(Both, f)
    /\ work.kind = "corrupted" =>
          \A f \in DOMAIN m.files \ work.files : Timed(Both, f)
    /\ work.kind = "truncate" /\ work.whole =>
          \A f \in work.files : \A k \in 1..Len(disk[f].chunks) :
             disk[f].chunks[k].maxt < work.mint

(* The file g refers to is mapped and has g's chunk in g's place. *)
Keeps(s, g) ==
    /\ g = [ref |-> Ref(g.ref[1], g.ref[2]), chunk |-> g.chunk]
    /\ g.ref[1] \in DOMAIN s.m.files
    /\ g.ref[2] \in 1..Len(Content(s, g.ref[1]))
    /\ Content(s, g.ref[1])[g.ref[2]] = g.chunk

GivenInv == m.state = "open" => \A g \in given : Keeps(Both, g)

SpentInv ==
    /\ spent = [chunks |-> spent.chunks, opens |-> spent.opens, truncates |-> spent.truncates]
    /\ spent.chunks \in Nat

BytesInv == BytesOK(Both)

IInv ==
    SpentInv /\ Good(Both) /\ BytesInv /\ WorkInv /\ OrderInv /\ TimeInv /\ GivenInv

-----------------------------------------------------------------------------
(* Facts about bounded sets and about sequences. *)

LEMMA BoundedHasTop ==
    ASSUME NEW S \in SUBSET Nat, NEW n \in Nat, S # {}, \A x \in S : x <= n
    PROVE  /\ Highest(S) \in S
           /\ \A x \in S : x <= Highest(S)
BY HasHighest DEF Highest

LEMMA Concat ==
    ASSUME NEW S, NEW a \in Seq(S), NEW b \in Seq(S)
    PROVE  /\ a \o b \in Seq(S)
           /\ Len(a) \in Nat /\ Len(b) \in Nat
           /\ Len(a \o b) = Len(a) + Len(b)
           /\ \A k \in 1..Len(a) : (a \o b)[k] = a[k]
           /\ \A k \in 1..Len(b) : (a \o b)[Len(a) + k] = b[k]
OBVIOUS

LEMMA ConcatEmpty ==
    ASSUME NEW S, NEW a \in Seq(S)
    PROVE  a \o << >> = a
OBVIOUS

LEMMA ConcatAppend ==
    ASSUME NEW S, NEW a \in Seq(S), NEW b \in Seq(S), NEW c \in S
    PROVE  /\ a \o Append(b, c) \in Seq(S)
           /\ Len(a \o Append(b, c)) = Len(a \o b) + 1
           /\ \A k \in 1..Len(a \o b) : (a \o Append(b, c))[k] = (a \o b)[k]
           /\ (a \o Append(b, c))[Len(a \o b) + 1] = c
<1>1. /\ Append(b, c) \in Seq(S) /\ Len(Append(b, c)) = Len(b) + 1
      /\ \A k \in 1..Len(b) : Append(b, c)[k] = b[k]
      /\ Append(b, c)[Len(b) + 1] = c
  OBVIOUS
<1>2. /\ Len(a \o b) = Len(a) + Len(b) /\ Len(a) \in Nat /\ Len(b) \in Nat
      /\ \A k \in 1..Len(a) : (a \o b)[k] = a[k]
      /\ \A k \in 1..Len(b) : (a \o b)[Len(a) + k] = b[k]
  BY Concat
<1>3. /\ a \o Append(b, c) \in Seq(S)
      /\ Len(a \o Append(b, c)) = Len(a) + Len(b) + 1
      /\ \A k \in 1..Len(a) : (a \o Append(b, c))[k] = a[k]
      /\ \A k \in 1..(Len(b) + 1) : (a \o Append(b, c))[Len(a) + k] = Append(b, c)[k]
  BY <1>1, <1>2, Concat
<1>4. \A k \in 1..Len(a \o b) : (a \o Append(b, c))[k] = (a \o b)[k]
  <2> SUFFICES ASSUME NEW k \in 1..Len(a \o b)
               PROVE  (a \o Append(b, c))[k] = (a \o b)[k]
    OBVIOUS
  <2>1. CASE k <= Len(a)
    BY <1>2, <1>3, <2>1
  <2>2. CASE k > Len(a)
    <3>1. k - Len(a) \in 1..Len(b) /\ k = Len(a) + (k - Len(a))
      BY <1>2, <2>2
    <3>2. QED BY <1>1, <1>2, <1>3, <3>1
  <2>3. QED BY <1>2, <2>1, <2>2
<1>5. (a \o Append(b, c))[Len(a \o b) + 1] = c
  BY <1>1, <1>2, <1>3
<1>6. QED BY <1>2, <1>3, <1>4, <1>5

(* The number of the next file is beyond all others, just behind the last. *)
LEMMA NextNumber ==
    ASSUME NEW d, DiskOK(d)
    PROVE  /\ nextSequenceFile(d) \in Nat \ {0}
           /\ \A f \in DOMAIN d : f < nextSequenceFile(d)
           /\ DOMAIN d # {} => nextSequenceFile(d) - 1 \in DOMAIN d
<1>1. CASE DOMAIN d = {}
  BY <1>1 DEF nextSequenceFile, Highest
<1>2. CASE DOMAIN d # {}
  <2>1. DOMAIN d \in SUBSET Nat
    BY DEF DiskOK
  <2>2. PICK n \in Nat : \A f \in DOMAIN d : f <= n
    BY DEF DiskOK
  <2>3. /\ Highest(DOMAIN d) \in DOMAIN d
        /\ \A f \in DOMAIN d : f <= Highest(DOMAIN d)
    BY <1>2, <2>1, <2>2, BoundedHasTop
  <2>4. QED BY <2>1, <2>3 DEF nextSequenceFile
<1>3. QED BY <1>1, <1>2

-----------------------------------------------------------------------------
(* What Sum computes: 0 of nothing, and of two lists behind each other the
   sum of their sums. *)

LEMMA ChunkSize == \A c \in Chunks : c.size \in Nat
BY ChunkAssumption DEF Chunks

(* Sum, as it is defined: the iteration of a fold through sets of places. *)
SumFold(it, s) ==
    it = [T \in SUBSET DOMAIN s |->
             IF T = {} THEN 0 ELSE it[T \ {Max(T)}] + s[Max(T)].size]

(* What the chunks sum up to after each. *)
Sums(r, s) ==
    /\ r \in [0..Len(s) -> Nat]
    /\ r[0] = 0
    /\ \A k \in 1..Len(s) : r[k] = r[k - 1] + s[k].size

LEMMA SumRuns ==
    ASSUME NEW s \in Seq(Chunks)
    PROVE  \E r : Sums(r, s) /\ Sum(s) = r[Len(s)]
<1> DEFINE n == Len(s)
           step == [i \in 1..n |-> [v \in Nat |-> v + s[i].size]]
<1>1. n \in Nat /\ DOMAIN s = 1..n /\ \A i \in 1..n : s[i].size \in Nat
  <2>1. n \in Nat /\ DOMAIN s = 1..n /\ \A i \in 1..n : s[i] \in Chunks
    OBVIOUS
  <2> HIDE DEF n
  <2>2. QED BY <2>1, ChunkSize
<1>2. \A T \in SUBSET (1..n) : T # {} => Max(T) \in T
  <2> SUFFICES ASSUME NEW T \in SUBSET (1..n), T # {} PROVE Max(T) \in T
    OBVIOUS
  <2>1. T \in SUBSET Nat /\ \A x \in T : x <= n
    BY <1>1
  <2>2. QED BY <1>1, <2>1, HasHighest
<1>3. \E it : SumFold(it, s)
  <2>1. \A i \in 1..n, v \in Nat : step[i][v] \in Nat
    BY <1>1
  <2> HIDE DEF n, step
  <2>2. 0 \in Nat
    OBVIOUS
  <2>3. PICK it \in [SUBSET (1..n) -> Nat] : Iterates(it, n, 0, step)
    BY <1>1, <2>1, <2>2, IterationExists
  <2>4. \A T \in SUBSET (1..n) :
          it[T] = IF T = {} THEN 0 ELSE step[Max(T)][it[T \ {Max(T)}]]
    BY <2>3 DEF Iterates
  <2>5. \A T \in SUBSET (1..n) :
          it[T] = IF T = {} THEN 0 ELSE it[T \ {Max(T)}] + s[Max(T)].size
    <3> SUFFICES ASSUME NEW T \in SUBSET (1..n), T # {}
                 PROVE  it[T] = it[T \ {Max(T)}] + s[Max(T)].size
      BY <2>4
    <3>1. Max(T) \in 1..n /\ T \ {Max(T)} \in SUBSET (1..n)
      BY <1>2
    <3>2. it[T \ {Max(T)}] \in Nat
      BY <2>3, <3>1
    <3>3. it[T] = step[Max(T)][it[T \ {Max(T)}]]
      BY <2>4
    <3>4. \A i \in 1..n, v \in Nat : step[i][v] = v + s[i].size
      BY DEF step
    <3>5. QED BY <3>1, <3>2, <3>3, <3>4
  <2>6. it = [T \in SUBSET (1..n) |->
                IF T = {} THEN 0 ELSE it[T \ {Max(T)}] + s[Max(T)].size]
    BY <2>3, <2>5
  <2>7. QED BY <1>1, <2>6 DEF SumFold
<1> DEFINE it == CHOOSE it : SumFold(it, s)
           r == [k \in 0..n |-> it[1..k]]
<1>4. SumFold(it, s)
  BY <1>3
<1>5. Sum(s) = it[DOMAIN s]
  BY DEF Sum, FoldLeft, MapThenFoldSet, SumFold
<1> HIDE DEF it, n
<1>6. \A T \in SUBSET (1..n) :
        it[T] = IF T = {} THEN 0 ELSE it[T \ {Max(T)}] + s[Max(T)].size
  BY <1>1, <1>4 DEF SumFold
<1>7. r[0] = 0
  <2>1. 1..0 = {} /\ 0 \in 0..n
    BY <1>1
  <2>2. QED BY <1>6, <2>1
<1>8. ASSUME NEW k \in 1..n PROVE r[k] = r[k - 1] + s[k].size
  <2>1. Max(1..k) = k
    <3>1. 1..k \in SUBSET Nat /\ k \in 1..k /\ \A i \in 1..k : i <= k
      BY <1>1
    <3>2. QED BY <3>1, HighestOf
  <2>2. /\ 1..k \in SUBSET (1..n) /\ 1..k # {} /\ (1..k) \ {k} = 1..(k - 1)
        /\ k \in 0..n /\ k - 1 \in 0..n
    <3>1. n \in Nat /\ k \in Nat /\ k >= 1 /\ k <= n
      BY <1>1
    <3>2. k \in 1..k /\ k \in 0..n /\ k - 1 \in 0..n
      BY <3>1
    <3>3. (1..k) \ {k} = 1..(k - 1)
      BY <3>1
    <3>4. \A i \in 1..k : i \in 1..n
      BY <3>1
    <3>5. QED BY <3>2, <3>3, <3>4
  <2>3. it[1..k] = it[(1..k) \ {Max(1..k)}] + s[Max(1..k)].size
    BY <1>6, <2>2
  <2>4. it[1..k] = it[1..(k - 1)] + s[k].size
    BY <2>1, <2>2, <2>3
  <2>5. r[k] = it[1..k] /\ r[k - 1] = it[1..(k - 1)]
    BY <2>2
  <2> HIDE DEF r
  <2>6. QED BY <2>4, <2>5
<1>9. \A k \in 0..n : r[k] \in Nat
  <2> DEFINE S == {k \in Nat : k <= n => r[k] \in Nat}
  <2> HIDE DEF r
  <2>1. 0 \in S
    BY <1>7
  <2>2. ASSUME NEW k \in Nat, k \in S PROVE k + 1 \in S
    <3> SUFFICES ASSUME k + 1 <= n PROVE r[k + 1] \in Nat
      OBVIOUS
    <3>1. k + 1 \in 1..n /\ (k + 1) - 1 = k /\ r[k] \in Nat
      BY <1>1, <2>2
    <3>2. r[k + 1] = r[k] + s[k + 1].size
      BY <1>8, <3>1
    <3>3. QED BY <1>1, <3>1, <3>2
  <2> HIDE DEF S
  <2>3. Nat \subseteq S
    BY <2>1, <2>2, SetInduction
  <2>4. QED BY <1>1, <2>3 DEF S
<1>10. Sums(r, s)
  <2>1. r \in [0..n -> Nat]
    <3>1. r = [k \in 0..n |-> r[k]]
      OBVIOUS
    <3> HIDE DEF r
    <3>2. QED BY <1>9, <3>1
  <2> HIDE DEF r
  <2>2. QED BY <1>7, <1>8, <2>1 DEF Sums, n
<1>11. Sum(s) = r[n]
  BY <1>1, <1>5
<1>12. QED BY <1>10, <1>11 DEF n

LEMMA SumType ==
    ASSUME NEW s \in Seq(Chunks)
    PROVE  Sum(s) \in Nat
<1>1. PICK r : Sums(r, s) /\ Sum(s) = r[Len(s)]
  BY SumRuns
<1>2. Len(s) \in 0..Len(s)
  OBVIOUS
<1>3. QED BY <1>1, <1>2 DEF Sums

LEMMA SumEmpty == Sum(<< >>) = 0
<1>1. << >> \in Seq(Chunks) /\ Len(<< >>) = 0
  OBVIOUS
<1>2. PICK r : Sums(r, << >>) /\ Sum(<< >>) = r[Len(<< >>)]
  BY <1>1, SumRuns
<1>3. QED BY <1>1, <1>2 DEF Sums

LEMMA SumOne ==
    ASSUME NEW c \in Chunks
    PROVE  Sum(<<c>>) = c.size
<1>1. <<c>> \in Seq(Chunks) /\ Len(<<c>>) = 1 /\ <<c>>[1] = c
  OBVIOUS
<1>2. PICK r : Sums(r, <<c>>) /\ Sum(<<c>>) = r[Len(<<c>>)]
  BY <1>1, SumRuns
<1>3. r[0] = 0 /\ r[1] = r[0] + c.size
  <2>1. 1 \in 1..1 /\ 1 - 1 = 0
    OBVIOUS
  <2>2. \A k \in 1..1 : r[k] = r[k - 1] + <<c>>[k].size
    BY <1>1, <1>2 DEF Sums
  <2>3. QED BY <1>1, <1>2, <2>1, <2>2 DEF Sums
<1>4. c.size \in Nat
  BY ChunkSize
<1>5. QED BY <1>1, <1>2, <1>3, <1>4

LEMMA SumConcat ==
    ASSUME NEW a \in Seq(Chunks), NEW b \in Seq(Chunks)
    PROVE  Sum(a \o b) = Sum(a) + Sum(b)
<1> DEFINE ab == a \o b
           n == Len(a)
           l == Len(b)
<1>1. /\ ab \in Seq(Chunks) /\ n \in Nat /\ l \in Nat /\ Len(ab) = n + l
      /\ \A k \in 1..n : ab[k] = a[k]
      /\ \A k \in 1..l : ab[n + k] = b[k]
  OBVIOUS
<1>2. PICK p : Sums(p, a) /\ Sum(a) = p[n]
  BY SumRuns
<1>3. PICK q : Sums(q, b) /\ Sum(b) = q[l]
  BY SumRuns
<1> HIDE DEF ab
<1>4. PICK r : Sums(r, ab) /\ Sum(ab) = r[n + l]
  BY <1>1, SumRuns
<1>5. /\ p \in [0..n -> Nat] /\ p[0] = 0
      /\ \A k \in 1..n : p[k] = p[k - 1] + a[k].size
  BY <1>2 DEF Sums
<1>6. /\ q \in [0..l -> Nat] /\ q[0] = 0
      /\ \A k \in 1..l : q[k] = q[k - 1] + b[k].size
  BY <1>3 DEF Sums
<1>7. /\ r \in [0..(n + l) -> Nat] /\ r[0] = 0
      /\ \A k \in 1..(n + l) : r[k] = r[k - 1] + ab[k].size
  BY <1>1, <1>4 DEF Sums
<1> HIDE DEF n, l
<1>8. r[n] = p[n]
  <2> DEFINE S == {k \in Nat : k <= n => r[k] = p[k]}
  <2>1. 0 \in S
    BY <1>5, <1>7
  <2>2. ASSUME NEW k \in Nat, k \in S PROVE k + 1 \in S
    <3> SUFFICES ASSUME k + 1 <= n PROVE r[k + 1] = p[k + 1]
      OBVIOUS
    <3>1. r[k] = p[k]
      <4>1. k <= n
        BY <1>1
      <4>2. QED BY <2>2, <4>1
    <3> HIDE DEF S
    <3>2. k + 1 \in 1..n /\ k + 1 \in 1..(n + l) /\ (k + 1) - 1 = k
      BY <1>1
    <3>3. p[k + 1] = p[k] + a[k + 1].size /\ r[k + 1] = r[k] + ab[k + 1].size
      BY <1>5, <1>7, <3>2
    <3>4. QED BY <1>1, <3>1, <3>2, <3>3
  <2> HIDE DEF S
  <2>3. Nat \subseteq S
    BY <2>1, <2>2, SetInduction
  <2>4. QED BY <1>1, <2>3 DEF S
<1>9. r[n + l] = p[n] + q[l]
  <2> DEFINE S == {k \in Nat : k <= l => r[n + k] = p[n] + q[k]}
  <2>0. p[n] \in Nat
    BY <1>1, <1>5
  <2>1. 0 \in S
    <3>1. n + 0 = n /\ p[n] + 0 = p[n]
      BY <1>1, <2>0
    <3>2. QED BY <1>6, <1>8, <3>1
  <2>2. ASSUME NEW k \in Nat, k \in S PROVE k + 1 \in S
    <3> SUFFICES ASSUME k + 1 <= l PROVE r[n + (k + 1)] = p[n] + q[k + 1]
      OBVIOUS
    <3>1. /\ k + 1 \in 1..l /\ n + (k + 1) \in 1..(n + l) /\ (k + 1) - 1 = k
          /\ (n + (k + 1)) - 1 = n + k /\ r[n + k] = p[n] + q[k]
          /\ k \in 0..l
      BY <1>1, <2>2
    <3>2. /\ q[k + 1] = q[k] + b[k + 1].size
          /\ r[n + (k + 1)] = r[n + k] + ab[n + (k + 1)].size
      BY <1>6, <1>7, <3>1
    <3>3. q[k] \in Nat /\ b[k + 1].size \in Nat /\ ab[n + (k + 1)] = b[k + 1]
      <4>1. b[k + 1] \in Chunks
        BY <3>1 DEF l
      <4>2. QED BY <1>1, <1>6, <3>1, <4>1, ChunkSize
    <3>4. QED BY <2>0, <3>1, <3>2, <3>3
  <2> HIDE DEF S
  <2>3. Nat \subseteq S
    BY <2>1, <2>2, SetInduction
  <2>4. QED BY <1>1, <2>3 DEF S
<1>10. QED BY <1>2, <1>3, <1>4, <1>8, <1>9 DEF ab

LEMMA SumAppend ==
    ASSUME NEW s \in Seq(Chunks), NEW c \in Chunks
    PROVE  Sum(Append(s, c)) = Sum(s) + c.size
<1>1. <<c>> \in Seq(Chunks) /\ Append(s, c) = s \o <<c>>
  OBVIOUS
<1>2. QED BY <1>1, SumConcat, SumOne

-----------------------------------------------------------------------------
(* What the writer does: t continues s. *)

Continues(s, t) ==
    /\ t.m.state = s.m.state
    /\ DOMAIN s.disk \subseteq DOMAIN t.disk
    /\ DOMAIN t.disk \ DOMAIN s.disk \subseteq {t.m.cur}
    /\ DOMAIN t.m.files = DOMAIN s.m.files \cup (DOMAIN t.disk \ DOMAIN s.disk)
    /\ t.m.cur = s.m.cur \/ t.m.cur \notin DOMAIN s.disk
    /\ \A f \in DOMAIN s.disk \ {s.m.cur} : t.disk[f] = s.disk[f]
    /\ \A f \in DOMAIN s.disk : t.disk[f].state = s.disk[f].state
    /\ \A f \in DOMAIN s.m.files :
          /\ Len(Content(s, f)) <= Len(Content(t, f))
          /\ \A k \in 1..Len(Content(s, f)) : Content(t, f)[k] = Content(s, f)[k]
    /\ \A f \in DOMAIN t.disk \ DOMAIN s.disk :
          /\ t.disk[f].state = "whole"
          /\ \A g \in DOMAIN s.disk : g < f
          /\ DOMAIN s.disk # {} => f - 1 \in DOMAIN s.disk
    /\ \A f \in DOMAIN s.m.files \ {t.m.cur} :
          f = s.m.cur \/ Timed(s, f) => Timed(t, f)

LEMMA ContentType ==
    ASSUME NEW s, Good(s), NEW f \in DOMAIN s.disk
    PROVE  /\ Content(s, f) \in Seq(Chunks)
           /\ s.disk[f] = [chunks |-> s.disk[f].chunks, state |-> s.disk[f].state]
           /\ s.disk[f].chunks \in Seq(Chunks)
           /\ s.m.pending \in Seq(Chunks)
<1>1. s.disk[f] \in Files /\ s.m.pending \in Seq(Chunks)
  BY DEF Good, DiskOK, MapperOK
<1>2. s.disk[f].chunks \in Seq(Chunks)
      /\ s.disk[f] = [chunks |-> s.disk[f].chunks, state |-> s.disk[f].state]
  BY <1>1 DEF Files
<1>3. Content(s, f) \in Seq(Chunks)
  BY <1>1, <1>2, Concat DEF Content
<1>4. QED BY <1>1, <1>2, <1>3

LEMMA FlushContinues ==
    ASSUME NEW s, Good(s), s.m.cur # 0
    PROVE  LET t == flushBuffer(s)
           IN  /\ Good(t)
               /\ Continues(s, t)
               /\ t.m.cur = s.m.cur /\ t.m.bytes = s.m.bytes
               /\ t.m.files = s.m.files
               /\ t.m.pending = << >>
               /\ DOMAIN t.disk = DOMAIN s.disk
               /\ t.m.buffer = {} /\ t.m.maxt = s.m.maxt
               /\ \A f \in DOMAIN s.disk : Content(t, f) = Content(s, f)
               /\ BytesOK(s) => BytesOK(t)
<1> DEFINE t == flushBuffer(s)
           c == s.m.cur
<1>1. /\ c \in DOMAIN s.disk /\ c \in DOMAIN s.m.files
      /\ s.m.state = "open"
      /\ DOMAIN s.m.files \subseteq DOMAIN s.disk
  BY DEF Good, WriterOK
<1>2. /\ t.m = [s.m EXCEPT !.pending = << >>, !.buffer = {}]
      /\ t.disk = [s.disk EXCEPT ![c].chunks = @ \o s.m.pending]
      /\ t = [m |-> t.m, disk |-> t.disk]
  BY DEF flushBuffer
<1> HIDE DEF t
<1>3. /\ t.m.cur = c /\ t.m.bytes = s.m.bytes /\ t.m.files = s.m.files
      /\ t.m.pending = << >> /\ t.m.buffer = {} /\ t.m.maxt = s.m.maxt
      /\ t.m.state = s.m.state
      /\ MapperOK(t.m)
  <2>1. s.m \in [state : {"open", "closed", "failed"}, files : {s.m.files}, cur : Nat,
                 bytes : {s.m.bytes}, maxt : Maxts, pending : Seq(Chunks),
                 buffer : {s.m.buffer}, fileMaxtSet : BOOLEAN]
    BY DEF Good, MapperOK
  <2>2. << >> \in Seq(Chunks)
    OBVIOUS
  <2>3. /\ t.m.cur = c /\ t.m.bytes = s.m.bytes /\ t.m.files = s.m.files
        /\ t.m.pending = << >> /\ t.m.buffer = {} /\ t.m.maxt = s.m.maxt
        /\ t.m.state = s.m.state
    BY <1>2, <2>1
  <2>4. MapperOK(t.m)
    BY <1>2, <2>1, <2>2 DEF Good, MapperOK
  <2>5. QED BY <2>3, <2>4
<1>4. /\ DOMAIN t.disk = DOMAIN s.disk
      /\ \A f \in DOMAIN s.disk \ {c} : t.disk[f] = s.disk[f]
      /\ t.disk[c] = [s.disk[c] EXCEPT !.chunks = @ \o s.m.pending]
  BY <1>1, <1>2
<1>5. /\ t.disk[c] = [chunks |-> s.disk[c].chunks \o s.m.pending,
                      state |-> s.disk[c].state]
      /\ t.disk[c].chunks = Content(s, c)
      /\ t.disk[c].state = s.disk[c].state
      /\ Content(s, c) \in Seq(Chunks)
  <2>1. /\ s.disk[c] = [chunks |-> s.disk[c].chunks, state |-> s.disk[c].state]
        /\ Content(s, c) \in Seq(Chunks)
    BY <1>1, ContentType
  <2>2. Content(s, c) = s.disk[c].chunks \o s.m.pending
    BY DEF Content
  <2>3. t.disk[c] = [chunks |-> s.disk[c].chunks \o s.m.pending,
                     state |-> s.disk[c].state]
    BY <1>4, <2>1
  <2>4. t.disk[c] \in [chunks : {s.disk[c].chunks \o s.m.pending},
                      state : {s.disk[c].state}]
    BY <2>3
  <2>5. QED BY <2>1, <2>2, <2>3, <2>4
<1>6. Content(t, c) = Content(s, c)
  BY <1>3, <1>5, ConcatEmpty DEF Content
<1>7. \A f \in DOMAIN s.disk : Content(t, f) = Content(s, f)
  BY <1>3, <1>4, <1>6 DEF Content
<1>8. DiskOK(t.disk)
  <2>1. t.disk[c] \in Files
    BY <1>1, <1>5 DEF Files, Good, DiskOK
  <2>2. QED BY <1>4, <2>1 DEF Good, DiskOK
<1>9. BufferOK(t) /\ WriterOK(t)
  BY <1>1, <1>3, <1>4, <1>6 DEF BufferOK, WriterOK, Good
<1>10. Good(t)
  BY <1>1, <1>2, <1>3, <1>4, <1>8, <1>9 DEF Good
<1>11. Continues(s, t)
  <2>1. \A f \in DOMAIN s.m.files : Len(Content(s, f)) \in Nat
    BY <1>1, ContentType
  <2>2. \A f \in DOMAIN s.m.files \ {c} : Timed(s, f) => Timed(t, f)
    BY <1>1, <1>3, <1>4 DEF Timed
  <2>3. /\ t.m.state = s.m.state /\ t.m.cur = s.m.cur
        /\ DOMAIN t.disk \ DOMAIN s.disk = {} /\ DOMAIN s.disk \subseteq DOMAIN t.disk
        /\ DOMAIN t.m.files = DOMAIN s.m.files
        /\ \A f \in DOMAIN s.disk : t.disk[f].state = s.disk[f].state
    BY <1>1, <1>3, <1>4, <1>5
  <2>4. \A f \in DOMAIN s.m.files :
          /\ Len(Content(s, f)) <= Len(Content(t, f))
          /\ \A k \in 1..Len(Content(s, f)) : Content(t, f)[k] = Content(s, f)[k]
    BY <1>1, <1>7, <2>1
  <2> HIDE DEF c
  <2>5. QED BY <1>4, <2>2, <2>3, <2>4 DEF Continues, c
<1>12. ASSUME BytesOK(s) PROVE BytesOK(t)
  <2> DEFINE a == s.disk[c].chunks
             b == s.m.pending
  <2>1. a \in Seq(Chunks) /\ b \in Seq(Chunks)
    BY <1>1, ContentType
  <2>2. /\ s.m.bytes = HeaderSize + Sum(a) + Sum(b)
        /\ s.m.bytes <= MaxHeadChunkFileSize
    BY <1>12, <1>1 DEF BytesOK
  <2>3. t.disk[c].chunks = a \o b
    BY <1>5 DEF Content
  <2> HIDE DEF a, b
  <2>4. Sum(a) \in Nat /\ Sum(b) \in Nat /\ Sum(a \o b) = Sum(a) + Sum(b)
    BY <2>1, SumType, SumConcat
  <2>5. HeaderSize \in Nat
    BY ChunkAssumption
  <2>6. HeaderSize + Sum(a \o b) + 0 = HeaderSize + Sum(a) + Sum(b)
    BY <2>4, <2>5
  <2>7. QED BY <1>3, <2>2, <2>3, <2>6, SumEmpty DEF BytesOK
<1>13. QED BY <1>3, <1>4, <1>7, <1>10, <1>11, <1>12 DEF t

LEMMA StaysContinues ==
    ASSUME NEW s, Good(s), s.m.state = "open"
    PROVE  Continues(s, s)
<1>1. \A f \in DOMAIN s.m.files : Len(Content(s, f)) \in Nat
  BY ContentType DEF Good
<1>2. \A f \in DOMAIN s.m.files \ {s.m.cur} : f = s.m.cur \/ Timed(s, f) => Timed(s, f)
  OBVIOUS
<1>3. QED BY <1>1, <1>2 DEF Continues

LEMMA Finalized ==
    ASSUME NEW s, Good(s), s.m.state = "open"
    PROVE  LET t == finalizeCurFile(s)
           IN  /\ Good(t)
               /\ t.m.cur = s.m.cur /\ t.m.files = s.m.files
               /\ t.m.maxt = s.m.maxt /\ t.m.state = s.m.state
               /\ t.m.pending = << >> /\ t.m.buffer = {}
               /\ DOMAIN t.disk = DOMAIN s.disk
               /\ \A f \in DOMAIN s.disk \ {s.m.cur} : t.disk[f] = s.disk[f]
               /\ \A f \in DOMAIN s.disk : /\ Content(t, f) = Content(s, f)
                                           /\ t.disk[f].state = s.disk[f].state
<1>1. CASE s.m.cur = 0
  <2>1. finalizeCurFile(s) = s
    BY <1>1 DEF finalizeCurFile
  <2>2. s.m.pending = << >>
    BY <1>1 DEF Good, WriterOK
  <2>3. s.m.buffer = {}
    <3>1. Len(s.m.pending) = 0
      BY <2>2
    <3>2. QED BY <3>1 DEF Good, BufferOK
  <2>4. QED BY <2>1, <2>2, <2>3
<1>2. CASE s.m.cur # 0
  <2>1. finalizeCurFile(s) = flushBuffer(s)
    BY <1>2 DEF finalizeCurFile
  <2>2. Continues(s, flushBuffer(s))
    BY <1>2, FlushContinues
  <2>3. QED BY <1>2, <2>1, <2>2, FlushContinues DEF Continues
<1>3. QED BY <1>1, <1>2

LEMMA CutContinues ==
    ASSUME NEW s, Good(s), s.m.state = "open"
    PROVE  LET u == cut(s)
           IN  /\ Good(u)
               /\ Continues(s, u)
               /\ u.m.cur # 0 /\ u.m.cur \notin DOMAIN s.disk
               /\ DOMAIN u.disk = DOMAIN s.disk \cup {u.m.cur}
               /\ BytesOK(u) /\ u.m.bytes = HeaderSize
<1> DEFINE t == finalizeCurFile(s)
           next == nextSequenceFile(t.disk)
           u == cut(s)
<1>1. /\ Good(t)
      /\ t.m.cur = s.m.cur /\ t.m.files = s.m.files
      /\ t.m.maxt = s.m.maxt /\ t.m.state = "open"
      /\ t.m.pending = << >> /\ t.m.buffer = {}
      /\ DOMAIN t.disk = DOMAIN s.disk
      /\ \A f \in DOMAIN s.disk \ {s.m.cur} : t.disk[f] = s.disk[f]
      /\ \A f \in DOMAIN s.disk : /\ Content(t, f) = Content(s, f)
                                  /\ t.disk[f].state = s.disk[f].state
  BY Finalized
<1> HIDE DEF t
<1>2. /\ next \in Nat \ {0} /\ next \notin DOMAIN s.disk
      /\ \A f \in DOMAIN s.disk : f < next
      /\ DOMAIN s.disk # {} => next - 1 \in DOMAIN s.disk
  BY <1>1, NextNumber DEF Good, DiskOK
<1>3. /\ u = [disk |-> cutSegmentFile(t.disk),
              m |-> [t.m EXCEPT !.files = [f \in DOMAIN t.m.files \cup {next} |->
                                              IF f = next THEN 0
                                              ELSE IF f = t.m.cur THEN t.m.maxt
                                              ELSE t.m.files[f]],
                                !.cur = next, !.bytes = HeaderSize,
                                !.maxt = 0, !.pending = << >>]]
      /\ cutSegmentFile(t.disk) = [f \in DOMAIN t.disk \cup {next} |->
                                     IF f \in DOMAIN t.disk THEN t.disk[f]
                                     ELSE [chunks |-> << >>, state |-> "whole"]]
  BY DEF cut, cutSegmentFile, t
<1> HIDE DEF next, u
<1>4. /\ DOMAIN u.disk = DOMAIN s.disk \cup {next}
      /\ \A f \in DOMAIN s.disk : u.disk[f] = t.disk[f]
      /\ u.disk[next] = [chunks |-> << >>, state |-> "whole"]
      /\ u = [m |-> u.m, disk |-> u.disk]
  BY <1>1, <1>2, <1>3
<1>5. /\ DOMAIN u.m.files = DOMAIN s.m.files \cup {next}
      /\ \A f \in DOMAIN u.m.files :
            u.m.files[f] = IF f = next THEN 0
                           ELSE IF f = s.m.cur THEN s.m.maxt ELSE s.m.files[f]
      /\ u.m.cur = next /\ u.m.maxt = 0 /\ u.m.pending = << >>
      /\ u.m.state = "open" /\ u.m.buffer = {} /\ u.m.bytes = HeaderSize
      /\ MapperOK(u.m)
  <2>1. t.m \in [state : {"open", "closed", "failed"}, files : {t.m.files}, cur : Nat,
                 bytes : {t.m.bytes}, maxt : Maxts, pending : Seq(Chunks),
                 buffer : {t.m.buffer}, fileMaxtSet : BOOLEAN]
        /\ \A f \in DOMAIN t.m.files : t.m.files[f] \in Maxts
    BY <1>1 DEF Good, MapperOK
  <2> DEFINE files == [f \in DOMAIN t.m.files \cup {next} |->
                          IF f = next THEN 0
                          ELSE IF f = t.m.cur THEN t.m.maxt ELSE t.m.files[f]]
  <2>2. /\ DOMAIN files = DOMAIN s.m.files \cup {next}
        /\ \A f \in DOMAIN files :
              files[f] = IF f = next THEN 0
                         ELSE IF f = s.m.cur THEN s.m.maxt ELSE s.m.files[f]
    BY <1>1
  <2>3. \A f \in DOMAIN files : files[f] \in Maxts
    BY <2>1 DEF Maxts
  <2>4. u.m = [t.m EXCEPT !.files = files, !.cur = next, !.bytes = HeaderSize,
                          !.maxt = 0, !.pending = << >>]
    BY <1>3
  <2> HIDE DEF files
  <2>5. u.m \in [state : {"open"}, files : {files}, cur : {next},
                 bytes : {HeaderSize}, maxt : {0}, pending : {<< >>},
                 buffer : {{}}, fileMaxtSet : BOOLEAN]
    BY <1>1, <2>1, <2>4
  <2>6. /\ u.m.files = files /\ u.m.cur = next /\ u.m.maxt = 0
        /\ u.m.pending = << >> /\ u.m.state = "open" /\ u.m.buffer = {}
        /\ u.m.bytes = HeaderSize
    BY <2>5
  <2>7. << >> \in Seq(Chunks) /\ 0 \in Maxts
    BY DEF Maxts
  <2>8. u.m \in [state : {"open", "closed", "failed"}, files : {u.m.files}, cur : Nat,
                 bytes : {u.m.bytes}, maxt : Maxts, pending : Seq(Chunks),
                 buffer : {u.m.buffer}, fileMaxtSet : BOOLEAN]
    BY <1>2, <2>5, <2>7
  <2>9. MapperOK(u.m)
    BY <2>3, <2>6, <2>8 DEF MapperOK
  <2>10. QED BY <2>2, <2>6, <2>9
<1>6. /\ u.disk[next].chunks = << >> /\ u.disk[next].state = "whole"
      /\ u.disk[next] \in Files
  <2>1. << >> \in Seq(Chunks)
    OBVIOUS
  <2>2. QED BY <1>4, <2>1 DEF Files
<1>7. \A f \in DOMAIN s.disk : Content(u, f) = Content(s, f)
  <2> SUFFICES ASSUME NEW f \in DOMAIN s.disk PROVE Content(u, f) = Content(s, f)
    OBVIOUS
  <2>1. Content(u, f) = t.disk[f].chunks
    BY <1>2, <1>4, <1>5 DEF Content
  <2>2. t.disk[f].chunks \in Seq(Chunks)
    BY <1>1, ContentType
  <2>3. Content(t, f) = t.disk[f].chunks
    BY <1>1, <2>2, ConcatEmpty DEF Content
  <2>4. QED BY <1>1, <2>1, <2>3
<1>8. Content(u, next) = << >> /\ Len(Content(u, next)) = 0
  <2>1. << >> \in Seq(Chunks) /\ Len(<< >>) = 0
    OBVIOUS
  <2>2. Content(u, next) = << >> \o << >>
    BY <1>5, <1>6 DEF Content
  <2>3. QED BY <2>1, <2>2, ConcatEmpty
<1>9. DiskOK(u.disk)
  <2>1. DOMAIN u.disk \subseteq Nat \ {0}
    BY <1>1, <1>2, <1>4 DEF Good, DiskOK
  <2>2. \A f \in DOMAIN u.disk : u.disk[f] \in Files
    BY <1>1, <1>4, <1>6 DEF Good, DiskOK
  <2>3. next \in Nat /\ \A f \in DOMAIN u.disk : f <= next
    BY <1>2, <1>4, <2>1
  <2>4. QED BY <2>1, <2>2, <2>3 DEF DiskOK
<1>10. BufferOK(u)
  <2>1. Len(u.m.pending) = 0
    BY <1>5
  <2>2. QED BY <1>5, <2>1 DEF BufferOK
<1>11. WriterOK(u)
  <2>1. NoLater(Content(u, next), 0)
    BY <1>8 DEF NoLater
  <2>2. \A f \in DOMAIN u.disk : f <= next
    BY <1>2, <1>4, <1>9 DEF DiskOK
  <2>3. QED BY <1>2, <1>5, <2>1, <2>2 DEF WriterOK
<1>12. Good(u)
  <2>1. DOMAIN u.m.files \subseteq DOMAIN u.disk
    BY <1>1, <1>4, <1>5 DEF Good
  <2>2. QED BY <1>4, <1>5, <1>9, <1>10, <1>11, <2>1 DEF Good
<1>13. Continues(s, u)
  <2>1. /\ u.m.state = s.m.state
        /\ DOMAIN u.disk \ DOMAIN s.disk = {u.m.cur}
        /\ DOMAIN s.disk \subseteq DOMAIN u.disk
        /\ DOMAIN u.m.files = DOMAIN s.m.files \cup {u.m.cur}
        /\ u.m.cur \notin DOMAIN s.disk
        /\ u.m.cur = next
    BY <1>2, <1>4, <1>5
  <2>2. /\ \A f \in DOMAIN s.disk \ {s.m.cur} : u.disk[f] = s.disk[f]
        /\ \A f \in DOMAIN s.disk : u.disk[f].state = s.disk[f].state
    BY <1>1, <1>4
  <2>3. \A f \in DOMAIN s.m.files :
          /\ Len(Content(s, f)) <= Len(Content(u, f))
          /\ \A k \in 1..Len(Content(s, f)) : Content(u, f)[k] = Content(s, f)[k]
    <3>1. \A f \in DOMAIN s.m.files : f \in DOMAIN s.disk /\ Len(Content(s, f)) \in Nat
      BY ContentType DEF Good
    <3>2. QED BY <1>7, <3>1
  <2>4. \A f \in DOMAIN u.disk \ DOMAIN s.disk :
          /\ u.disk[f].state = "whole"
          /\ \A g \in DOMAIN s.disk : g < f
          /\ DOMAIN s.disk # {} => f - 1 \in DOMAIN s.disk
    BY <1>2, <1>6, <2>1
  <2>5. \A f \in DOMAIN s.m.files \ {u.m.cur} :
          f = s.m.cur \/ Timed(s, f) => Timed(u, f)
    <3> SUFFICES ASSUME NEW f \in DOMAIN s.m.files \ {u.m.cur},
                        f = s.m.cur \/ Timed(s, f)
                 PROVE  Timed(u, f)
      OBVIOUS
    <3>1. f \in DOMAIN s.disk /\ f # next /\ f # 0
      BY <1>5 DEF Good, DiskOK
    <3>2. u.disk[f].chunks = Content(s, f)
      BY <1>5, <1>7, <3>1 DEF Content
    <3>3. CASE f = s.m.cur
      <4>1. u.m.files[f] = s.m.maxt
        BY <1>5, <3>1, <3>3
      <4>2. NoLater(Content(s, f), s.m.maxt)
        BY <3>1, <3>3 DEF Good, WriterOK
      <4>3. QED BY <3>2, <4>1, <4>2 DEF Timed
    <3>4. CASE f # s.m.cur
      <4>1. u.m.files[f] = s.m.files[f] /\ u.disk[f] = s.disk[f]
        BY <1>1, <1>4, <1>5, <3>1, <3>4
      <4>2. QED BY <3>4, <4>1 DEF Timed
    <3>5. QED BY <3>3, <3>4
  <2>6. QED BY <2>1, <2>2, <2>3, <2>4, <2>5 DEF Continues
<1>14. BytesOK(u)
  <2>1. HeaderSize \in Nat /\ HeaderSize <= MaxHeadChunkFileSize
    BY ChunkAssumption
  <2>2. HeaderSize + 0 + 0 = HeaderSize
    BY <2>1
  <2>3. QED BY <1>5, <1>6, <2>1, <2>2, SumEmpty DEF BytesOK
<1>15. QED BY <1>2, <1>4, <1>5, <1>12, <1>13, <1>14 DEF u

LEMMA PutContinues ==
    ASSUME NEW s, Good(s), s.m.cur # 0, NEW c \in Chunks
    PROVE  LET u == Put(s, c)
           IN  /\ Good(u)
               /\ Continues(s, u)
               /\ u.m.cur = s.m.cur
               /\ DOMAIN u.disk = DOMAIN s.disk
               /\ Len(Content(u, u.m.cur)) \in Nat \ {0}
               /\ Content(u, u.m.cur)[Len(Content(u, u.m.cur))] = c
               /\ BytesOK(s) /\ s.m.bytes + c.size <= MaxHeadChunkFileSize
                    => BytesOK(u)
<1> DEFINE u == Put(s, c)
           cur == s.m.cur
           place == Len(s.disk[cur].chunks) + Len(s.m.pending) + 1
<1>1. /\ cur \in DOMAIN s.disk /\ cur \in DOMAIN s.m.files
      /\ s.m.state = "open"
      /\ DOMAIN s.m.files \subseteq DOMAIN s.disk
      /\ NoLater(Content(s, cur), s.m.maxt)
  BY DEF Good, WriterOK
<1>2. /\ s.disk[cur].chunks \in Seq(Chunks) /\ s.m.pending \in Seq(Chunks)
      /\ Content(s, cur) \in Seq(Chunks)
      /\ Len(s.disk[cur].chunks) \in Nat /\ Len(s.m.pending) \in Nat
  <2>1. s.disk[cur].chunks \in Seq(Chunks) /\ s.m.pending \in Seq(Chunks)
    BY <1>1, ContentType
  <2>2. Content(s, cur) = s.disk[cur].chunks \o s.m.pending
    BY DEF Content
  <2> HIDE DEF cur
  <2>3. QED BY <2>1, <2>2, Concat
<1>3. /\ u = [s EXCEPT !.m = [s.m EXCEPT !.pending = Append(@, c),
                                         !.bytes = @ + c.size,
                                         !.maxt = LaterTime(@, c.maxt),
                                         !.buffer = @ \cup {[ref |-> Ref(cur, place), chunk |-> c]}]]
      /\ s = [m |-> s.m, disk |-> s.disk]
  BY DEF Put, Good
<1> HIDE DEF u, cur
<1> DEFINE n == Len(s.m.pending)
           base == Len(s.disk[cur].chunks)
           old == Len(Content(s, cur))
<1>3a. base \in Nat /\ n \in Nat /\ old = base + n /\ place = old + 1
  <2>1. base \in Nat /\ n \in Nat /\ place = base + n + 1
    BY <1>2
  <2>2. Content(s, cur) = s.disk[cur].chunks \o s.m.pending
    BY DEF Content, cur
  <2>3. Len(s.disk[cur].chunks \o s.m.pending)
          = Len(s.disk[cur].chunks) + Len(s.m.pending)
    BY <1>2, Concat
  <2>4. old = base + n
    BY <2>2, <2>3
  <2>5. QED BY <2>1, <2>4
<1> HIDE DEF place, n, base, old
<1>4. /\ u.disk = s.disk
      /\ u.m = [s.m EXCEPT !.pending = Append(@, c), !.bytes = @ + c.size,
                           !.maxt = LaterTime(@, c.maxt),
                           !.buffer = @ \cup {[ref |-> Ref(cur, place), chunk |-> c]}]
      /\ u = [m |-> u.m, disk |-> u.disk]
  BY <1>3
<1>5. s.m \in [state : {"open", "closed", "failed"}, files : {s.m.files}, cur : Nat,
               bytes : {s.m.bytes}, maxt : Maxts, pending : Seq(Chunks),
               buffer : {s.m.buffer}, fileMaxtSet : BOOLEAN]
  BY DEF Good, MapperOK
<1>6. u.m \in [state : {s.m.state}, files : {s.m.files}, cur : {cur},
               bytes : {s.m.bytes + c.size}, maxt : {LaterTime(s.m.maxt, c.maxt)},
               pending : {Append(s.m.pending, c)},
               buffer : {s.m.buffer \cup {[ref |-> Ref(cur, place), chunk |-> c]}},
               fileMaxtSet : BOOLEAN]
  BY <1>4, <1>5 DEF cur
<1>7. /\ u.m.state = s.m.state /\ u.m.files = s.m.files /\ u.m.cur = cur
      /\ u.m.bytes = s.m.bytes + c.size
      /\ u.m.maxt = LaterTime(s.m.maxt, c.maxt)
      /\ u.m.pending = Append(s.m.pending, c)
      /\ u.m.buffer = s.m.buffer \cup {[ref |-> Ref(cur, place), chunk |-> c]}
  BY <1>6
<1>8. /\ c.maxt \in Times /\ s.m.maxt \in Nat
      /\ u.m.maxt \in Maxts /\ u.m.maxt >= c.maxt /\ u.m.maxt >= s.m.maxt
      /\ u.m.maxt \in Nat
  <2>1. c.maxt \in Times /\ s.m.maxt \in Maxts
    BY <1>5 DEF Chunks
  <2>2. Times \subseteq Nat
    BY DEF Times
  <2>3. s.m.maxt \in Nat /\ c.maxt \in Nat
    <3>1. 0 \in Nat
      OBVIOUS
    <3>2. Maxts \subseteq Nat
      BY <2>2, <3>1 DEF Maxts
    <3>3. QED BY <2>1, <2>2, <3>2
  <2>4. u.m.maxt = IF c.maxt > s.m.maxt THEN c.maxt ELSE s.m.maxt
    BY <1>7 DEF LaterTime
  <2>5. QED BY <2>1, <2>3, <2>4 DEF Maxts
<1>9. MapperOK(u.m)
  <2>1. Append(s.m.pending, c) \in Seq(Chunks)
    BY <1>2
  <2>2. u.m \in [state : {"open", "closed", "failed"}, files : {u.m.files}, cur : Nat,
                 bytes : {u.m.bytes}, maxt : Maxts, pending : Seq(Chunks),
                 buffer : {u.m.buffer}, fileMaxtSet : BOOLEAN]
    BY <1>1, <1>5, <1>6, <1>7, <1>8, <2>1 DEF cur
  <2>3. QED BY <1>7, <2>2 DEF MapperOK, Good
<1>10. /\ Content(u, cur) \in Seq(Chunks)
       /\ Len(Content(u, cur)) = place
       /\ \A k \in 1..old : Content(u, cur)[k] = Content(s, cur)[k]
       /\ Content(u, cur)[place] = c
  <2>1. Content(u, cur) = s.disk[cur].chunks \o Append(s.m.pending, c)
    BY <1>4, <1>7 DEF Content
  <2>2. Content(s, cur) = s.disk[cur].chunks \o s.m.pending
    BY DEF Content, cur
  <2> DEFINE a == s.disk[cur].chunks
             b == s.m.pending
             w == a \o Append(b, c)
             v == a \o b
  <2>3. a \in Seq(Chunks) /\ b \in Seq(Chunks) /\ c \in Chunks
    BY <1>2
  <2> HIDE DEF a, b
  <2>4. /\ w \in Seq(Chunks)
        /\ Len(w) = Len(v) + 1
        /\ \A k \in 1..Len(v) : w[k] = v[k]
        /\ w[Len(v) + 1] = c
    BY <2>3, ConcatAppend
  <2>5. Content(u, cur) = w /\ Content(s, cur) = v
    BY <2>1, <2>2 DEF a, b
  <2> HIDE DEF w, v
  <2>6. old = Len(v)
    BY <2>5 DEF old
  <2>7. QED BY <1>3a, <2>4, <2>5, <2>6
<1>11. \A f \in DOMAIN s.disk \ {cur} : Content(u, f) = Content(s, f)
  BY <1>4, <1>7 DEF Content, cur
<1>12. WriterOK(u)
  <2>1. NoLater(Content(u, cur), u.m.maxt)
    <3> SUFFICES ASSUME NEW k \in 1..place PROVE Content(u, cur)[k].maxt <= u.m.maxt
      BY <1>10 DEF NoLater
    <3>1. CASE k = place
      BY <1>8, <1>10, <3>1 DEF Times
    <3>2. CASE k # place
      <4>1. k \in 1..old
        BY <1>3a, <3>2
      <4>2. Content(s, cur)[k] \in Chunks
        BY <1>2, <4>1 DEF old
      <4>3. Content(s, cur)[k].maxt \in Nat
        BY <4>2 DEF Chunks, Times
      <4>4. Content(s, cur)[k].maxt <= s.m.maxt
        BY <1>1, <4>1 DEF NoLater, old
      <4>5. Content(u, cur)[k] = Content(s, cur)[k]
        BY <1>10, <4>1
      <4>6. QED BY <1>8, <4>3, <4>4, <4>5
    <3>3. QED BY <3>1, <3>2
  <2>2. cur # 0 /\ \A f \in DOMAIN u.disk : f <= cur
    BY <1>4 DEF Good, WriterOK, cur
  <2>3. QED BY <1>1, <1>7, <2>1, <2>2 DEF WriterOK
<1>13. BufferOK(u)
  <2> DEFINE E(p, k) == [ref |-> Ref(cur, base + k), chunk |-> p[k]]
  <2>1. /\ Len(Append(s.m.pending, c)) = n + 1
        /\ \A k \in 1..n : Append(s.m.pending, c)[k] = s.m.pending[k]
        /\ Append(s.m.pending, c)[n + 1] = c
    BY <1>2 DEF n
  <2>2. s.m.buffer = {E(s.m.pending, k) : k \in 1..n}
    BY DEF Good, BufferOK, cur, n, base
  <2>3. place = base + (n + 1)
    BY <1>3a
  <2>4. {E(Append(s.m.pending, c), k) : k \in 1..(n + 1)}
          = {E(s.m.pending, k) : k \in 1..n} \cup {[ref |-> Ref(cur, place), chunk |-> c]}
    <3>1. \A k \in 1..n : E(Append(s.m.pending, c), k) = E(s.m.pending, k)
      BY <2>1
    <3>2. E(Append(s.m.pending, c), n + 1) = [ref |-> Ref(cur, place), chunk |-> c]
      BY <2>1, <2>3
    <3>3. 1..(n + 1) = 1..n \cup {n + 1}
      BY <1>3a
    <3> HIDE DEF E
    <3>4. QED BY <3>1, <3>2, <3>3
  <2>5. Len(u.m.pending) = n + 1 /\ Len(u.disk[cur].chunks) = base
    BY <1>4, <1>7, <2>1 DEF base
  <2>6. /\ u.m.cur = cur /\ u.m.pending = Append(s.m.pending, c)
        /\ u.m.buffer = s.m.buffer \cup {[ref |-> Ref(cur, place), chunk |-> c]}
    BY <1>7
  <2> HIDE DEF E
  <2>7. u.m.buffer = {E(u.m.pending, k) : k \in 1..(n + 1)}
    BY <2>2, <2>4, <2>6
  <2>8. u.m.buffer = {[ref |-> Ref(cur, base + k), chunk |-> u.m.pending[k]] : k \in 1..(n + 1)}
    BY <2>7 DEF E
  <2>9. QED BY <2>5, <2>6, <2>8 DEF BufferOK
<1>14. Good(u)
  BY <1>1, <1>4, <1>7, <1>9, <1>12, <1>13 DEF Good
<1>15. Continues(s, u)
  <2>1. \A f \in DOMAIN s.m.files :
          /\ Len(Content(s, f)) <= Len(Content(u, f))
          /\ \A k \in 1..Len(Content(s, f)) : Content(u, f)[k] = Content(s, f)[k]
    <3>1. \A f \in DOMAIN s.m.files : f \in DOMAIN s.disk /\ Len(Content(s, f)) \in Nat
      BY <1>1, ContentType
    <3>2. /\ Len(Content(s, cur)) <= Len(Content(u, cur))
          /\ \A k \in 1..Len(Content(s, cur)) : Content(u, cur)[k] = Content(s, cur)[k]
      BY <1>10, <1>3a DEF old
    <3>3. QED BY <1>11, <3>1, <3>2
  <2>2. \A f \in DOMAIN s.m.files \ {u.m.cur} :
          f = s.m.cur \/ Timed(s, f) => Timed(u, f)
    BY <1>4, <1>7 DEF Timed, cur
  <2>3. QED BY <1>4, <1>7, <2>1, <2>2 DEF Continues, cur
<1>16. ASSUME BytesOK(s), s.m.bytes + c.size <= MaxHeadChunkFileSize
       PROVE  BytesOK(u)
  <2>1. /\ cur # 0
        /\ s.m.bytes = HeaderSize + Sum(s.disk[cur].chunks) + Sum(s.m.pending)
    BY <1>16 DEF BytesOK, cur
  <2>2. Sum(Append(s.m.pending, c)) = Sum(s.m.pending) + c.size
    BY <1>2, SumAppend
  <2>3. /\ Sum(s.disk[cur].chunks) \in Nat /\ Sum(s.m.pending) \in Nat
        /\ c.size \in Nat /\ HeaderSize \in Nat
    BY <1>2, SumType, ChunkSize, ChunkAssumption
  <2>4. s.m.bytes + c.size
          = HeaderSize + Sum(s.disk[cur].chunks) + Sum(Append(s.m.pending, c))
    BY <2>1, <2>2, <2>3
  <2>5. QED BY <1>4, <1>7, <1>16, <2>4 DEF BytesOK
<1>17. QED
  <2>1. Len(Content(u, cur)) \in Nat \ {0}
    BY <1>10, <1>3a
  <2>2. QED BY <1>4, <1>7, <1>10, <1>14, <1>15, <1>16, <2>1 DEF u, cur

(* Steps that follow without a new file. *)
LEMMA ContinuesOn ==
    ASSUME NEW s, NEW t, NEW u, Good(s), Good(t), Good(u), s.m.state = "open",
           Continues(s, t), Continues(t, u),
           u.m.cur = t.m.cur, DOMAIN u.disk = DOMAIN t.disk
    PROVE  Continues(s, u)
<1>1. DOMAIN s.m.files \subseteq DOMAIN s.disk /\ DOMAIN s.m.files \subseteq DOMAIN t.m.files
  BY DEF Good, Continues
<1>2. /\ \A f \in DOMAIN s.disk \ {s.m.cur} : u.disk[f] = s.disk[f]
      /\ \A f \in DOMAIN s.disk : u.disk[f].state = s.disk[f].state
  <2>1. \A f \in DOMAIN s.disk \ {s.m.cur} : f # t.m.cur /\ f \in DOMAIN t.disk
    BY DEF Continues
  <2>2. QED BY <2>1 DEF Continues
<1>3. \A f \in DOMAIN s.m.files :
        /\ Len(Content(s, f)) <= Len(Content(u, f))
        /\ \A k \in 1..Len(Content(s, f)) : Content(u, f)[k] = Content(s, f)[k]
  <2> SUFFICES ASSUME NEW f \in DOMAIN s.m.files
               PROVE  /\ Len(Content(s, f)) <= Len(Content(u, f))
                      /\ \A k \in 1..Len(Content(s, f)) : Content(u, f)[k] = Content(s, f)[k]
    OBVIOUS
  <2>1. f \in DOMAIN s.disk /\ f \in DOMAIN t.disk /\ f \in DOMAIN u.disk /\ f \in DOMAIN t.m.files
    BY <1>1 DEF Continues
  <2>2. /\ Len(Content(s, f)) \in Nat /\ Len(Content(t, f)) \in Nat
        /\ Len(Content(u, f)) \in Nat
    BY <2>1, ContentType
  <2>3. /\ Len(Content(s, f)) <= Len(Content(t, f))
        /\ Len(Content(t, f)) <= Len(Content(u, f))
        /\ \A k \in 1..Len(Content(s, f)) : Content(t, f)[k] = Content(s, f)[k]
        /\ \A k \in 1..Len(Content(t, f)) : Content(u, f)[k] = Content(t, f)[k]
    BY <2>1 DEF Continues
  <2>4. QED BY <2>2, <2>3
<1>4. \A f \in DOMAIN u.disk \ DOMAIN s.disk : u.disk[f].state = "whole"
  BY DEF Continues
<1>5. \A f \in DOMAIN s.m.files \ {u.m.cur} :
        f = s.m.cur \/ Timed(s, f) => Timed(u, f)
  BY <1>1 DEF Continues
<1>6. QED BY <1>2, <1>3, <1>4, <1>5 DEF Continues

-----------------------------------------------------------------------------
(* WriteChunk: perhaps a cut, perhaps a flush, the chunk, perhaps a flush. *)

LEMMA BytesType ==
    ASSUME NEW s, Good(s), BytesOK(s), s.m.cur # 0
    PROVE  s.m.bytes \in Nat
<1>1. s.m.cur \in DOMAIN s.disk
  BY DEF Good, WriterOK
<1>2. s.disk[s.m.cur].chunks \in Seq(Chunks) /\ s.m.pending \in Seq(Chunks)
  BY <1>1, ContentType
<1>3. Sum(s.disk[s.m.cur].chunks) \in Nat /\ Sum(s.m.pending) \in Nat
  BY <1>2, SumType
<1>4. HeaderSize \in Nat
  BY ChunkAssumption
<1>5. QED BY <1>3, <1>4 DEF BytesOK

LEMMA WrittenContinues ==
    ASSUME Good(Both), BytesOK(Both), Both.m.state = "open",
           NEW c \in Chunks, NEW d, d = Written(c)
    PROVE  /\ Good(d)
           /\ BytesOK(d)
           /\ Continues(Both, d)
           /\ d.m.cur # 0
           /\ Len(Content(d, d.m.cur)) \in Nat \ {0}
           /\ Content(d, d.m.cur)[Len(Content(d, d.m.cur))] = c
<1> DEFINE s == Both
           a == IF shouldCutNewFile(s, c.size) THEN cut(s) ELSE s
           full == ~(c.size >= WriteBufferSize) /\ WriteBufferSize < Sum(a.m.pending) + c.size
           b == IF full THEN flushBuffer(a) ELSE a
<1>0. /\ \/ a = cut(s)
         \/ a = s /\ s.m.cur # 0 /\ ~(s.m.bytes + c.size > MaxHeadChunkFileSize)
      /\ b = flushBuffer(a) \/ b = a
      /\ d = flushBuffer(Put(b, c)) \/ d = Put(b, c)
      /\ Good(s) /\ BytesOK(s) /\ s.m.state = "open"
  <2>1. ~shouldCutNewFile(s, c.size)
          => s.m.cur # 0 /\ ~(s.m.bytes + c.size > MaxHeadChunkFileSize)
    BY DEF shouldCutNewFile, Good, WriterOK
  <2>2. \/ a = cut(s)
        \/ a = s /\ s.m.cur # 0 /\ ~(s.m.bytes + c.size > MaxHeadChunkFileSize)
    BY <2>1
  <2> HIDE DEF a
  <2>3. b = flushBuffer(a) \/ b = a
    OBVIOUS
  <2>4. d = IF c.size >= WriteBufferSize THEN flushBuffer(Put(b, c)) ELSE Put(b, c)
    BY DEF Written, a
  <2>5. d = flushBuffer(Put(b, c)) \/ d = Put(b, c)
    BY <2>4
  <2>6. QED BY <2>2, <2>3, <2>5
<1> HIDE DEF s, a, full, b
<1>1. /\ Good(a) /\ Continues(s, a) /\ a.m.cur # 0
      /\ BytesOK(a) /\ a.m.bytes + c.size <= MaxHeadChunkFileSize
  <2>1. CASE a = cut(s)
    <3>1. c.size \in Sizes
      BY DEF Chunks
    <3>2. HeaderSize + c.size <= MaxHeadChunkFileSize
      BY <3>1, ChunkAssumption
    <3>3. QED BY <1>0, <2>1, <3>2, CutContinues
  <2>2. CASE a = s /\ s.m.cur # 0 /\ ~(s.m.bytes + c.size > MaxHeadChunkFileSize)
    <3>1. s.m.bytes \in Nat
      BY <1>0, <2>2, BytesType
    <3>2. s.m.bytes + c.size <= MaxHeadChunkFileSize
      <4>1. c.size \in Nat /\ MaxHeadChunkFileSize \in Nat
        BY ChunkSize, ChunkAssumption
      <4>2. QED BY <2>2, <3>1, <4>1
    <3>3. QED BY <1>0, <2>2, <3>2, StaysContinues
  <2>3. QED BY <1>0, <2>1, <2>2
<1>2. /\ Good(b) /\ Continues(s, b) /\ b.m.cur # 0
      /\ BytesOK(b) /\ b.m.bytes + c.size <= MaxHeadChunkFileSize
  <2>1. CASE b = a
    BY <1>1, <2>1
  <2>2. CASE b = flushBuffer(a)
    <3>1. /\ Good(b) /\ Continues(a, b) /\ b.m.cur = a.m.cur
          /\ DOMAIN b.disk = DOMAIN a.disk
          /\ BytesOK(b) /\ b.m.bytes = a.m.bytes
      BY <1>1, <2>2, FlushContinues
    <3>2. QED BY <1>0, <1>1, <3>1, ContinuesOn
  <2>3. QED BY <1>0, <2>1, <2>2
<1> DEFINE p == Put(b, c)
<1>3. /\ Good(p) /\ BytesOK(p) /\ Continues(b, p) /\ p.m.cur = b.m.cur
      /\ DOMAIN p.disk = DOMAIN b.disk
      /\ Len(Content(p, p.m.cur)) \in Nat \ {0}
      /\ Content(p, p.m.cur)[Len(Content(p, p.m.cur))] = c
  BY <1>2, PutContinues
<1>4. d = flushBuffer(p) \/ d = p
  BY <1>0
<1> HIDE DEF p
<1>5. Continues(s, p) /\ p.m.cur # 0
  BY <1>0, <1>2, <1>3, ContinuesOn
<1>6. CASE d = p
  BY <1>3, <1>5, <1>6 DEF s
<1>7. CASE d = flushBuffer(p)
  <2>1. /\ Good(d) /\ BytesOK(d) /\ Continues(p, d) /\ d.m.cur = p.m.cur
        /\ DOMAIN d.disk = DOMAIN p.disk
        /\ \A f \in DOMAIN p.disk : Content(d, f) = Content(p, f)
    BY <1>3, <1>5, <1>7, FlushContinues
  <2>2. p.m.cur \in DOMAIN p.disk
    BY <1>3, <1>5 DEF Good, WriterOK
  <2>3. Content(d, d.m.cur) = Content(p, p.m.cur)
    BY <2>1, <2>2
  <2>4. Continues(s, d)
    BY <1>0, <1>3, <1>5, <2>1, ContinuesOn
  <2>5. QED BY <1>3, <1>5, <2>1, <2>3, <2>4 DEF s
<1>8. QED BY <1>4, <1>6, <1>7

(* A reference that is kept stays kept, and the numbers go on following. *)
LEMMA ContinuesReads ==
    ASSUME NEW s, NEW t, Good(s), Good(t), s.m.state = "open", Continues(s, t),
           NEW g, Keeps(s, g)
    PROVE  Keeps(t, g)
<1> DEFINE f == g.ref[1]
           k == g.ref[2]
<1>1. f \in DOMAIN s.m.files /\ f \in DOMAIN s.disk /\ f \in DOMAIN t.m.files
      /\ f \in DOMAIN t.disk
  BY DEF Keeps, Good, Continues
<1>2. Len(Content(s, f)) \in Nat /\ Len(Content(t, f)) \in Nat
  BY <1>1, ContentType
<1>3. k \in 1..Len(Content(s, f)) /\ Content(s, f)[k] = g.chunk
      /\ g = [ref |-> Ref(f, k), chunk |-> g.chunk]
  BY DEF Keeps
<1>4. /\ Len(Content(s, f)) <= Len(Content(t, f))
      /\ Content(t, f)[k] = Content(s, f)[k]
  BY <1>1, <1>3 DEF Continues
<1>5. k \in 1..Len(Content(t, f))
  BY <1>2, <1>3, <1>4
<1>6. QED BY <1>1, <1>3, <1>4, <1>5 DEF Keeps

LEMMA FollowNext ==
    ASSUME NEW S \in SUBSET Nat, NEW n \in Nat, Follow(S),
           \A x \in S : x < n, S # {} => n - 1 \in S
    PROVE  Follow(S \cup {n})
<1> SUFFICES ASSUME NEW f \in S \cup {n}, NEW g \in S \cup {n}, NEW x \in f..g
             PROVE  x \in S \cup {n}
  BY DEF Follow
<1>1. CASE x = n
  BY <1>1
<1>2. CASE x # n /\ g \in S
  <2>1. f \in S
    <3>1. f <= g /\ g < n
      BY <1>2
    <3>2. QED BY <3>1
  <2>2. QED BY <1>2, <2>1 DEF Follow
<1>3. CASE x # n /\ g = n
  <2>1. f \in S
    BY <1>3
  <2>2. n - 1 \in S /\ x \in f..(n - 1)
    BY <1>3, <2>1
  <2>3. QED BY <2>1, <2>2 DEF Follow
<1>4. QED BY <1>1, <1>2, <1>3

-----------------------------------------------------------------------------
(* What the writer does keeps the rest, whether or not a Truncate is on its
   way, and may be the cut of that Truncate. *)
LEMMA WriterKeeps ==
    ASSUME IInv, m.state = "open", Good(Both'), Continues(Both, Both'),
           work.kind # "corrupted",
           \/ work' = work
           \/ work.stage = "cut" /\ work' = [work EXCEPT !.stage = "unmap"],
           whole' = whole, brokenOff' = brokenOff
    PROVE  WorkInv' /\ OrderInv' /\ TimeInv' /\ \A g \in given : Keeps(Both', g)
<1> DEFINE s == Both
           t == Both'
<1>1. s.m = m /\ s.disk = disk /\ t.m = m' /\ t.disk = disk'
  BY DEF Both
<1>2. Good(s) /\ Good(t) /\ Continues(s, t)
  BY DEF IInv
<1>3. WorkInv /\ OrderInv /\ TimeInv /\ GivenInv
  BY DEF IInv
<1> HIDE DEF s, t
<1>4. /\ m'.state = "open"
      /\ DOMAIN disk \subseteq DOMAIN disk'
      /\ DOMAIN disk' \ DOMAIN disk \subseteq {m'.cur}
      /\ DOMAIN m'.files = DOMAIN m.files \cup (DOMAIN disk' \ DOMAIN disk)
      /\ m'.cur = m.cur \/ m'.cur \notin DOMAIN disk
      /\ \A f \in DOMAIN disk \ {m.cur} : disk'[f] = disk[f]
      /\ \A f \in DOMAIN disk : disk'[f].state = disk[f].state
      /\ \A f \in DOMAIN disk' \ DOMAIN disk :
          /\ disk'[f].state = "whole"
          /\ \A g \in DOMAIN disk : g < f
          /\ DOMAIN disk # {} => f - 1 \in DOMAIN disk
      /\ \A f \in DOMAIN m.files \ {m'.cur} :
          f = m.cur \/ Timed(s, f) => Timed(t, f)
  BY <1>1, <1>2 DEF Continues
<1>5. /\ work'.kind = work.kind /\ work'.files = work.files
      /\ work'.mint = work.mint /\ work'.whole = work.whole
      /\ work' = [kind |-> work'.kind, stage |-> work'.stage, files |-> work'.files,
                  mint |-> work'.mint, whole |-> work'.whole]
      /\ work.kind = "none" => work' = work
      /\ work.kind # "none" => work'.stage \in {"cut", "unmap", "remove"}
      /\ (work'.stage = "remove") = (work.stage = "remove")
  <2>1. work = [kind |-> work.kind, stage |-> work.stage, files |-> work.files,
                mint |-> work.mint, whole |-> work.whole]
    BY <1>3 DEF WorkInv
  <2>2. CASE work' = work
    BY <2>1, <2>2, <1>3 DEF WorkInv
  <2>3. CASE work.stage = "cut" /\ work' = [work EXCEPT !.stage = "unmap"]
    <3>1. work' = [kind |-> work.kind, stage |-> "unmap", files |-> work.files,
                   mint |-> work.mint, whole |-> work.whole]
      BY <2>1, <2>3
    <3>2. work.kind # "none"
      <4>1. work.kind = "none" => work = NoWork
        BY <1>3 DEF WorkInv
      <4>2. NoWork.stage = ""
        BY DEF NoWork
      <4>3. QED BY <2>3, <4>1, <4>2
    <3>3. QED BY <2>3, <3>1, <3>2
  <2>4. QED BY <2>2, <2>3
<1>6. WorkInv'
  <2>1. work'.kind \in {"none", "truncate", "corrupted"} /\ work'.kind # "corrupted"
    BY <1>3, <1>5 DEF WorkInv
  <2>2. work'.kind = "none" => work' = NoWork
    BY <1>3, <1>5 DEF WorkInv
  <2>3. work'.files \subseteq DOMAIN disk'
    BY <1>3, <1>4, <1>5 DEF WorkInv
  <2>4. m'.cur \notin work'.files
    BY <1>3, <1>4, <1>5 DEF WorkInv
  <2>5. DOMAIN m'.files = IF work'.stage = "remove" THEN DOMAIN disk' \ work'.files
                                                    ELSE DOMAIN disk'
    BY <1>3, <1>4, <1>5 DEF WorkInv
  <2>6. work'.kind = "truncate" =>
          \A f \in work'.files, g \in DOMAIN disk' \ work'.files : f < g
    <3> SUFFICES ASSUME work'.kind = "truncate",
                        NEW f \in work'.files, NEW g \in DOMAIN disk' \ work'.files
                 PROVE  f < g
      OBVIOUS
    <3>1. f \in work.files /\ f \in DOMAIN disk /\ work.kind = "truncate"
      BY <1>3, <1>5 DEF WorkInv
    <3>2. CASE g \in DOMAIN disk
      BY <1>3, <1>5, <3>1, <3>2 DEF WorkInv
    <3>3. CASE g \notin DOMAIN disk
      BY <1>4, <3>1, <3>3
    <3>4. QED BY <3>2, <3>3
  <2>7. QED BY <1>4, <1>5, <2>1, <2>2, <2>3, <2>4, <2>5, <2>6 DEF WorkInv
<1>7. OrderInv'
  <2>1. Follow(DOMAIN disk) /\ \A f \in DOMAIN disk : disk[f].state # "empty"
    BY <1>3 DEF OrderInv
  <2>2. Follow(DOMAIN disk')
    <3>1. CASE DOMAIN disk' = DOMAIN disk
      BY <2>1, <3>1
    <3>2. CASE DOMAIN disk' # DOMAIN disk
      <4>1. PICK n : n \in DOMAIN disk' \ DOMAIN disk
        BY <1>4, <3>2
      <4>2. DOMAIN disk' = DOMAIN disk \cup {n}
        BY <1>4, <4>1
      <4>3. DOMAIN disk \subseteq Nat /\ DOMAIN disk' \subseteq Nat
        BY <1>1, <1>2 DEF Good, DiskOK
      <4>4. n \in Nat /\ (\A x \in DOMAIN disk : x < n)
            /\ (DOMAIN disk # {} => n - 1 \in DOMAIN disk)
        BY <1>4, <4>1, <4>3
      <4>5. QED BY <2>1, <4>2, <4>3, <4>4, FollowNext
    <3>3. QED BY <3>1, <3>2
  <2>3. \A f \in DOMAIN disk' : disk'[f].state # "empty"
    BY <1>4, <2>1
  <2>4. QED BY <1>4, <1>5, <2>2, <2>3 DEF OrderInv
<1>8. TimeInv'
  <2>1. whole' => \A f \in DOMAIN m'.files \ {m'.cur} : Timed(t, f)
    <3> SUFFICES ASSUME whole', NEW f \in DOMAIN m'.files \ {m'.cur}
                 PROVE  Timed(t, f)
      OBVIOUS
    <3>1. f \in DOMAIN m.files
      BY <1>4
    <3>2. f = m.cur \/ Timed(s, f)
      BY <1>3, <3>1 DEF TimeInv, s
    <3>3. QED BY <1>4, <3>1, <3>2
  <2>2. work'.kind = "truncate" /\ work'.whole =>
          \A f \in work'.files : \A k \in 1..Len(disk'[f].chunks) :
             disk'[f].chunks[k].maxt < work'.mint
    <3>1. \A f \in work.files : disk'[f] = disk[f]
      BY <1>3, <1>4 DEF WorkInv
    <3>2. QED BY <1>3, <1>5, <3>1 DEF TimeInv
  <2>3. QED BY <1>5, <2>1, <2>2 DEF TimeInv, t
<1>9. \A g \in given : Keeps(t, g)
  <2>1. \A g \in given : Keeps(s, g)
    BY <1>3 DEF GivenInv, s
  <2>2. QED BY <1>1, <1>2, <2>1, ContinuesReads
<1>10. QED BY <1>6, <1>7, <1>8, <1>9 DEF t

-----------------------------------------------------------------------------
(* A mapper with nothing open for writing, as after a start or an end. *)
LEMMA FreshGood ==
    ASSUME NEW d, DiskOK(d), NEW state \in {"open", "closed", "failed"},
           NEW mapped, state = "open" => mapped \subseteq DOMAIN d
    PROVE  /\ Good([m |-> Fresh(state, mapped), disk |-> d])
           /\ Fresh(state, mapped).state = state /\ Fresh(state, mapped).cur = 0
           /\ DOMAIN Fresh(state, mapped).files = mapped
<1> DEFINE p == Fresh(state, mapped)
           s == [m |-> p, disk |-> d]
           files == [f \in mapped |-> 0]
<1>1. << >> \in Seq(Chunks) /\ 0 \in Maxts /\ 0 \in Nat /\ Len(<< >>) = 0
  BY DEF Maxts
<1>2. p = [state |-> state, files |-> files, cur |-> 0, bytes |-> 0, maxt |-> 0,
           pending |-> << >>, buffer |-> {}, fileMaxtSet |-> FALSE]
  BY DEF Fresh
<1>3. DOMAIN files = mapped /\ \A f \in mapped : files[f] = 0
  OBVIOUS
<1>4. /\ p.state = state /\ p.files = files /\ p.cur = 0 /\ p.bytes = 0
      /\ p.pending = << >> /\ p.buffer = {}
  BY <1>2
<1> HIDE DEF files
<1>5. MapperOK(p)
  <2>1. p \in [state : {"open", "closed", "failed"}, files : {files}, cur : Nat,
               bytes : {0}, maxt : Maxts, pending : Seq(Chunks),
               buffer : {{}}, fileMaxtSet : BOOLEAN]
    BY <1>1, <1>2
  <2> HIDE DEF p
  <2>2. QED BY <1>1, <1>3, <1>4, <2>1 DEF MapperOK
<1> HIDE DEF p
<1>6. s.m = p /\ s.disk = d
  OBVIOUS
<1>7. BufferOK(s)
  BY <1>1, <1>4, <1>6 DEF BufferOK
<1>8. WriterOK(s)
  BY <1>4, <1>6 DEF WriterOK
<1>9. Good(s)
  BY <1>3, <1>4, <1>5, <1>6, <1>7, <1>8 DEF Good
<1>10. QED BY <1>3, <1>4, <1>9 DEF p

LEMMA BothIs == Both.m = m /\ Both.disk = disk /\ Both = [m |-> m, disk |-> disk]
BY DEF Both

LEMMA NoWorkIs ==
    /\ NoWork = [kind |-> "none", stage |-> "", files |-> {}, mint |-> 0, whole |-> TRUE]
    /\ NoWork.kind = "none" /\ NoWork.stage = "" /\ NoWork.files = {}
    /\ NoWork.kind # "truncate" /\ NoWork.kind # "corrupted"
    /\ NoWork.stage # "remove" /\ NoWork.stage # "cut" /\ NoWork.stage # "unmap"
BY DEF NoWork


LEMMA InitIInv == Init => IInv
<1> SUFFICES ASSUME Init PROVE IInv
  OBVIOUS
<1>1. DOMAIN disk = {}
  BY DEF Init
<1>2. DiskOK(disk)
  BY <1>1 DEF DiskOK
<1>3. m = Fresh("open", {})
  BY <1>1 DEF Init, openMMapFiles
<1>4. Good(Both) /\ m.state = "open" /\ m.cur = 0 /\ DOMAIN m.files = {}
  BY <1>2, <1>3, FreshGood DEF Both
<1>5. work = NoWork /\ given = {} /\ whole = FALSE
  BY DEF Init
<1>6. WorkInv
  BY <1>1, <1>4, <1>5, NoWorkIs DEF WorkInv
<1>7. OrderInv
  BY <1>1, <1>4, <1>5, NoWorkIs DEF OrderInv, Follow
<1>8. TimeInv
  BY <1>5, NoWorkIs DEF TimeInv
<1>9. GivenInv
  BY <1>5 DEF GivenInv
<1>10. SpentInv
  BY DEF Init, SpentInv
<1>11. BytesInv
  BY <1>4, BothIs DEF BytesInv, BytesOK
<1>12. QED BY <1>4, <1>6, <1>7, <1>8, <1>9, <1>10, <1>11 DEF IInv

(* The one at the top is all that may lack its header, and it is removed. *)
LEMMA NewKeeps ==
    ASSUME IInv, NewChunkDiskMapper
    PROVE  IInv'
<1> DEFINE top == Highest(DOMAIN disk)
<1>1. Good(Both) /\ WorkInv /\ OrderInv
  BY DEF IInv
<1>2. DiskOK(disk)
  BY <1>1, BothIs DEF Good
<1>3. /\ m.state = "closed" /\ disk' = repairLastChunkFile(disk)
      /\ m' = openMMapFiles(disk') /\ given' = {} /\ whole' = FALSE
      /\ work' = work /\ brokenOff' = brokenOff
  BY DEF NewChunkDiskMapper
<1>4. work = NoWork
  BY <1>1, <1>3 DEF WorkInv
<1>5. DOMAIN disk # {} => /\ top \in DOMAIN disk
                          /\ \A f \in DOMAIN disk : f <= top
  <2>1. PICK n \in Nat : \A f \in DOMAIN disk : f <= n
    BY <1>2 DEF DiskOK
  <2>2. DOMAIN disk \in SUBSET Nat
    BY <1>2 DEF DiskOK
  <2>3. QED BY <2>1, <2>2, BoundedHasTop
<1>6. \/ disk' = disk /\ (DOMAIN disk # {} => disk[top].state # "empty")
      \/ /\ DOMAIN disk' = DOMAIN disk \ {top} /\ disk[top].state = "empty"
         /\ \A f \in DOMAIN disk' : disk'[f] = disk[f]
  <2>1. CASE disk # << >> /\ disk[top].state = "empty"
    <3>1. disk' = [f \in DOMAIN disk \ {top} |-> disk[f]]
      BY <1>3, <2>1 DEF repairLastChunkFile
    <3>2. QED BY <2>1, <3>1
  <2>2. CASE ~(disk # << >> /\ disk[top].state = "empty")
    <3>1. disk' = disk
      BY <1>3, <2>2 DEF repairLastChunkFile
    <3>2. disk = << >> => DOMAIN disk = {}
      OBVIOUS
    <3>3. QED BY <2>2, <3>1, <3>2
  <2>3. QED BY <2>1, <2>2
<1> HIDE DEF top
<1>7. DiskOK(disk')
  BY <1>2, <1>6 DEF DiskOK
<1> DEFINE fine == /\ \A f \in DOMAIN disk' : disk'[f].state # "empty"
                   /\ Follow(DOMAIN disk')
<1>8. m' = Fresh(IF fine THEN "open" ELSE "failed", DOMAIN disk')
  BY <1>3 DEF openMMapFiles, Follow
<1>9. /\ Good([m |-> m', disk |-> disk']) /\ m'.cur = 0
      /\ m'.state = (IF fine THEN "open" ELSE "failed")
      /\ DOMAIN m'.files = DOMAIN disk'
  <2>1. (IF fine THEN "open" ELSE "failed") \in {"open", "closed", "failed"}
    OBVIOUS
  <2> HIDE DEF fine
  <2>2. QED BY <1>7, <1>8, <2>1, FreshGood
<1>10. ~brokenOff => fine
  <2> SUFFICES ASSUME ~brokenOff PROVE fine
    OBVIOUS
  <2>1. /\ Follow(DOMAIN disk) /\ DOMAIN disk \subseteq Nat
        /\ \A f, g \in DOMAIN disk : disk[f].state = "empty" => g <= f
    BY <1>1, <1>2, <1>3 DEF OrderInv, DiskOK
  <2>2. \A f \in DOMAIN disk : disk[f].state = "empty" => f = top
    BY <1>5, <2>1
  <2>3. CASE disk' = disk /\ (DOMAIN disk # {} => disk[top].state # "empty")
    BY <2>1, <2>2, <2>3
  <2>4. CASE /\ DOMAIN disk' = DOMAIN disk \ {top}
             /\ \A f \in DOMAIN disk' : disk'[f] = disk[f]
    <3>1. \A f \in DOMAIN disk' : disk'[f].state # "empty"
      BY <2>2, <2>4
    <3>2. Follow(DOMAIN disk')
      BY <1>5, <2>1, <2>4 DEF Follow
    <3>3. QED BY <3>1, <3>2
  <2>5. QED BY <1>6, <2>3, <2>4
<1> HIDE DEF fine
<1>11. Good(Both')
  BY <1>9 DEF Both
<1>12. WorkInv'
  BY <1>3, <1>4, <1>9, NoWorkIs DEF WorkInv
<1>13. OrderInv'
  BY <1>3, <1>4, <1>9, <1>10, NoWorkIs DEF OrderInv, fine
<1>14. TimeInv'
  BY <1>3, <1>4, NoWorkIs DEF TimeInv
<1>15. GivenInv'
  BY <1>3 DEF GivenInv
<1>16. SpentInv'
  BY DEF IInv, NewChunkDiskMapper, SpentInv
<1>17. BytesInv'
  BY <1>9 DEF BytesInv, BytesOK, Both
<1>18. QED BY <1>11, <1>12, <1>13, <1>14, <1>15, <1>16, <1>17 DEF IInv

LEMMA WriteKeeps ==
    ASSUME IInv, WriteChunk
    PROVE  IInv' /\ DOMAIN disk \subseteq DOMAIN disk'
<1>1. PICK c : /\ \E size \in Sizes, maxt \in Times :
                      c = [id |-> spent.chunks + 1, size |-> size, maxt |-> maxt]
               /\ m' = Written(c).m /\ disk' = Written(c).disk
               /\ given' = given \cup {[ref |-> LastRef(Written(c)), chunk |-> c]}
  BY DEF WriteChunk
<1>2. /\ m.state = "open" /\ work.kind # "corrupted"
      /\ work' = work /\ whole' = whole /\ brokenOff' = brokenOff
      /\ spent.chunks \in Nat
      /\ spent' = [spent EXCEPT !.chunks = @ + 1]
  BY DEF WriteChunk, IInv, SpentInv
<1> DEFINE done == Written(c)
           place == Len(done.disk[done.m.cur].chunks) + Len(done.m.pending)
<1>3. /\ m' = done.m /\ disk' = done.disk
      /\ given' = given \cup {[ref |-> Ref(done.m.cur, place), chunk |-> c]}
  BY <1>1 DEF LastRef
<1>4. Good(Both) /\ BytesOK(Both) /\ Both.m.state = "open"
  BY <1>2, BothIs DEF IInv, BytesInv
<1>5. c \in Chunks
  BY <1>1, <1>2 DEF Chunks
<1>9. /\ Good(done) /\ BytesOK(done)
      /\ Continues(Both, done)
      /\ done.m.cur # 0
      /\ Len(Content(done, done.m.cur)) \in Nat \ {0}
      /\ Content(done, done.m.cur)[Len(Content(done, done.m.cur))] = c
  BY <1>4, <1>5, WrittenContinues
<1> HIDE DEF done
<1>10. Both' = done
  <2>1. done = [m |-> done.m, disk |-> done.disk]
    BY <1>9 DEF Good
  <2>2. QED BY <1>3, <2>1 DEF Both
<1>11. place = Len(Content(done, done.m.cur))
  <2>1. done.m.cur \in DOMAIN done.disk
    BY <1>9 DEF Good, WriterOK
  <2>2. Content(done, done.m.cur) = done.disk[done.m.cur].chunks \o done.m.pending
    BY DEF Content
  <2>3. /\ done.disk[done.m.cur].chunks \in Seq(Chunks)
        /\ done.m.pending \in Seq(Chunks)
    BY <1>9, <2>1, ContentType
  <2>4. QED BY <2>2, <2>3, Concat
<1>12. place \in Nat \ {0}
  BY <1>9, <1>11
<1> HIDE DEF place
<1> DEFINE g == [ref |-> Ref(done.m.cur, place), chunk |-> c]
<1>13. Keeps(Both', g)
  <2>1. g.chunk = c /\ g.ref[1] = done.m.cur /\ g.ref[2] = place
    BY DEF Ref
  <2>2. done.m.cur \in DOMAIN done.m.files
    BY <1>9 DEF Good, WriterOK
  <2>3. place \in 1..place
    BY <1>12
  <2>4. QED BY <1>9, <1>10, <1>11, <2>1, <2>2, <2>3 DEF Keeps
<1>14. WorkInv' /\ OrderInv' /\ TimeInv' /\ \A h \in given : Keeps(Both', h)
  BY <1>2, <1>9, <1>10, WriterKeeps
<1>15. GivenInv'
  BY <1>3, <1>13, <1>14 DEF GivenInv
<1>16. DOMAIN disk \subseteq DOMAIN disk'
  BY <1>3, <1>9, BothIs DEF Continues
<1>17. SpentInv'
  BY <1>2 DEF IInv, SpentInv
<1>18. QED BY <1>9, <1>10, <1>14, <1>15, <1>16, <1>17 DEF IInv, BytesInv

LEMMA CutKeeps ==
    ASSUME IInv, CutNewFile
    PROVE  IInv' /\ DOMAIN disk \subseteq DOMAIN disk'
<1>1. /\ m.state = "open" /\ work.stage = "cut"
      /\ work' = [work EXCEPT !.stage = "unmap"]
      /\ given' = given /\ whole' = whole /\ brokenOff' = brokenOff
      /\ spent' = spent
      /\ \/ m' = cut(Both).m /\ disk' = cut(Both).disk
         \/ m' = m /\ disk' = disk
  BY DEF CutNewFile
<1>2. Good(Both) /\ BytesOK(Both) /\ work.kind # "corrupted"
  BY <1>1 DEF IInv, BytesInv, WorkInv
<1>3. Good(Both') /\ Continues(Both, Both') /\ BytesOK(Both')
  <2>1. CASE m' = cut(Both).m /\ disk' = cut(Both).disk
    <3>1. Good(cut(Both)) /\ Continues(Both, cut(Both)) /\ BytesOK(cut(Both))
      BY <1>1, <1>2, CutContinues, BothIs
    <3>2. cut(Both) = [m |-> cut(Both).m, disk |-> cut(Both).disk]
      BY <3>1 DEF Good
    <3>3. Both' = cut(Both)
      BY <2>1, <3>2 DEF Both
    <3>4. QED BY <3>1, <3>3
  <2>2. CASE m' = m /\ disk' = disk
    <3>1. Both' = Both
      BY <2>2 DEF Both
    <3>2. QED BY <1>1, <1>2, <3>1, StaysContinues, BothIs
  <2>3. QED BY <1>1, <2>1, <2>2
<1>4. WorkInv' /\ OrderInv' /\ TimeInv' /\ \A g \in given : Keeps(Both', g)
  BY <1>1, <1>2, <1>3, WriterKeeps
<1>5. GivenInv'
  BY <1>1, <1>4 DEF GivenInv
<1>6. DOMAIN disk \subseteq DOMAIN disk'
  BY <1>3 DEF Continues, Both
<1>7. SpentInv'
  BY <1>1 DEF IInv, SpentInv
<1>8. QED BY <1>3, <1>4, <1>5, <1>6, <1>7 DEF IInv, BytesInv

(* Truncate takes a beginning of the files: those that are older than mint. *)
LEMMA TruncateKeeps ==
    ASSUME IInv, Truncate
    PROVE  IInv'
<1>1. /\ m.state = "open" /\ work = NoWork
      /\ disk' = disk /\ m' = m /\ given' = given /\ whole' = whole
      /\ brokenOff' = brokenOff
      /\ spent' = [spent EXCEPT !.truncates = @ + 1]
  BY DEF Truncate
<1>2. PICK mint \in Times :
        work' = [kind |-> "truncate", stage |-> "cut",
                 files |-> {f \in DOMAIN m.files :
                              \A g \in {h \in DOMAIN m.files : h = m.cur \/ m.files[h] >= mint} : f < g},
                 mint |-> mint, whole |-> whole]
  BY DEF Truncate
<1> DEFINE stays == {h \in DOMAIN m.files : h = m.cur \/ m.files[h] >= mint}
           removed == {f \in DOMAIN m.files : \A g \in stays : f < g}
<1>3. /\ work' = [kind |-> "truncate", stage |-> "cut", files |-> removed,
                  mint |-> mint, whole |-> whole]
      /\ work'.kind = "truncate" /\ work'.stage = "cut" /\ work'.files = removed
      /\ work'.mint = mint /\ work'.whole = whole
  BY <1>2
<1>4. /\ Good(Both) /\ WorkInv /\ OrderInv /\ TimeInv /\ GivenInv
  BY DEF IInv
<1>5. DOMAIN m.files = DOMAIN disk /\ DOMAIN disk \subseteq Nat \ {0}
  BY <1>1, <1>4, NoWorkIs, BothIs DEF WorkInv, Good, DiskOK
<1>6. \A f \in removed : f \in DOMAIN disk /\ f \notin stays
  BY <1>5
<1>7. \A f \in removed, g \in DOMAIN disk \ removed : f < g
  <2> SUFFICES ASSUME NEW f \in removed, NEW g \in DOMAIN disk \ removed PROVE f < g
    OBVIOUS
  <2>1. PICK h \in stays : ~(g < h)
    BY <1>5
  <2>2. f < h /\ f \in Nat /\ g \in Nat /\ h \in Nat
    BY <1>5
  <2>3. QED BY <2>1, <2>2
<1>8. \A f \in removed : f # m.cur /\ ~(m.files[f] >= mint)
  BY <1>6
<1> HIDE DEF stays, removed
<1>9. Both' = Both
  BY <1>1 DEF Both
<1>10. WorkInv'
  BY <1>1, <1>3, <1>5, <1>6, <1>7, <1>8 DEF WorkInv
<1>11. OrderInv'
  BY <1>1, <1>3, <1>4, NoWorkIs DEF OrderInv
<1>12. TimeInv'
  <2>1. whole => \A f \in removed : \A k \in 1..Len(disk[f].chunks) :
                    disk[f].chunks[k].maxt < mint
    <3> SUFFICES ASSUME whole, NEW f \in removed, NEW k \in 1..Len(disk[f].chunks)
                 PROVE  disk[f].chunks[k].maxt < mint
      OBVIOUS
    <3>1. Timed(Both, f)
      BY <1>1, <1>4, <1>5, <1>6, <1>8 DEF TimeInv
    <3>2. disk[f].chunks[k].maxt <= m.files[f]
      BY <3>1, BothIs DEF Timed, NoLater
    <3>3. disk[f].chunks \in Seq(Chunks)
      BY <1>4, <1>6, ContentType, BothIs
    <3>4. disk[f].chunks[k] \in Chunks
      BY <3>3
    <3>5. disk[f].chunks[k].maxt \in Nat /\ mint \in Nat
      BY <3>4 DEF Chunks, Times
    <3>6. m.files[f] \in Nat
      <4>1. m.files[f] \in Maxts
        BY <1>4, <1>5, <1>6, BothIs DEF Good, MapperOK
      <4>2. 0 \in Nat /\ Times \subseteq Nat
        BY DEF Times
      <4>3. QED BY <4>1, <4>2 DEF Maxts
    <3>7. QED BY <1>8, <3>2, <3>5, <3>6
  <2>2. QED BY <1>1, <1>3, <1>4, <1>9, <2>1 DEF TimeInv
<1>13. GivenInv'
  BY <1>1, <1>4, <1>9 DEF GivenInv
<1>14. SpentInv'
  BY <1>1 DEF IInv, SpentInv
<1>15. QED BY <1>4, <1>9, <1>10, <1>11, <1>12, <1>13, <1>14 DEF IInv, BytesInv

(* The highest of the maxt that was known and those of the chunks. *)
LEMMA HighestTime ==
    ASSUME NEW old \in Maxts, NEW chunks \in Seq(Chunks)
    PROVE  LET top == Highest({old} \cup {c.maxt : c \in ToSet(chunks)})
           IN  top \in Maxts /\ NoLater(chunks, top)
<1> DEFINE S == {old} \cup {c.maxt : c \in ToSet(chunks)}
<1>1. MaxTime \in Nat
  BY ChunkAssumption
<1>2. Maxts \subseteq Nat /\ \A x \in Maxts : x <= MaxTime
  BY <1>1 DEF Maxts, Times
<1>3. \A k \in 1..Len(chunks) : chunks[k] \in Chunks /\ chunks[k].maxt \in S
  BY DEF ToSet
<1>4. S \subseteq Maxts
  <2>1. \A c \in ToSet(chunks) : c \in Chunks
    BY DEF ToSet
  <2>2. \A c \in Chunks : c.maxt \in Maxts
    BY DEF Chunks, Maxts
  <2>3. QED BY <2>1, <2>2
<1>5. old \in S
  OBVIOUS
<1> HIDE DEF S
<1>6. Highest(S) \in S /\ \A x \in S : x <= Highest(S)
  <2>1. S \in SUBSET Nat /\ S # {} /\ \A x \in S : x <= MaxTime
    BY <1>2, <1>4, <1>5
  <2>2. QED BY <1>1, <2>1, BoundedHasTop
<1>7. Highest(S) \in Maxts /\ NoLater(chunks, Highest(S))
  BY <1>3, <1>4, <1>6 DEF NoLater
<1>8. QED BY <1>7 DEF S

LEMMA IterateKeeps ==
    ASSUME IInv, IterateAllChunks
    PROVE  IInv'
<1>1. PICK stop \in {Highest(DOMAIN m.files) + 1} \cup DOMAIN m.files :
        LET end == Min({stop} \cup Torn)
            seen == {f \in DOMAIN m.files : f < end \/ (f = end /\ f \in Torn)}
            times(f) == {c.maxt : c \in ToSet(disk[f].chunks)}
            corrupted == end \in Torn
        IN  /\ m' = [m EXCEPT !.fileMaxtSet = TRUE,
                       !.files = [f \in DOMAIN m.files |->
                           IF f \in seen THEN Highest({m.files[f]} \cup times(f))
                                         ELSE m.files[f]]]
            /\ given' = given \cup UNION {{[ref |-> Ref(f, k), chunk |-> disk[f].chunks[k]] :
                                            k \in DOMAIN disk[f].chunks} : f \in seen}
            /\ whole' = (whole \/ (seen = DOMAIN m.files /\ ~corrupted))
            /\ work' = IF ~corrupted \/ m.cur # 0 THEN NoWork
                       ELSE [kind |-> "corrupted", stage |-> "unmap", mint |-> 0,
                             files |-> {f \in DOMAIN m.files : f >= end},
                             whole |-> FALSE]
  BY DEF IterateAllChunks
<1>2. m.state = "open" /\ work = NoWork /\ disk' = disk /\ brokenOff' = brokenOff
      /\ spent' = spent
  BY DEF IterateAllChunks
<1> DEFINE end == Min({stop} \cup Torn)
           seen == {f \in DOMAIN m.files : f < end \/ (f = end /\ f \in Torn)}
           files == [f \in DOMAIN m.files |->
                       IF f \in seen
                       THEN Highest({m.files[f]} \cup {c.maxt : c \in ToSet(disk[f].chunks)})
                       ELSE m.files[f]]
           left == {f \in DOMAIN m.files : f >= end}
<1>3. /\ m' = [m EXCEPT !.fileMaxtSet = TRUE, !.files = files]
      /\ given' = given \cup UNION {{[ref |-> Ref(f, k), chunk |-> disk[f].chunks[k]] :
                                            k \in DOMAIN disk[f].chunks} : f \in seen}
      /\ whole' => whole \/ seen = DOMAIN m.files
      /\ \/ work' = NoWork
         \/ /\ m.cur = 0 /\ end \in Torn
            /\ work' = [kind |-> "corrupted", stage |-> "unmap", mint |-> 0,
                        files |-> left, whole |-> FALSE]
  BY <1>1
<1>4. /\ SpentInv /\ Good(Both) /\ WorkInv /\ OrderInv /\ TimeInv /\ GivenInv
  BY DEF IInv
<1>5. DOMAIN m.files = DOMAIN disk /\ DOMAIN disk \subseteq Nat \ {0}
  BY <1>2, <1>4, NoWorkIs, BothIs DEF WorkInv, Good, DiskOK
<1>6. seen \subseteq DOMAIN disk /\ left \subseteq DOMAIN disk
      /\ (end \in Torn => end \in Nat /\ DOMAIN m.files \ left \subseteq seen)
  <2> HIDE DEF end
  <2>1. seen \subseteq DOMAIN disk /\ left \subseteq DOMAIN disk
    BY <1>5
  <2>2. ASSUME end \in Torn
        PROVE  end \in Nat /\ DOMAIN m.files \ left \subseteq seen
    <3>1. end \in DOMAIN m.files
      BY <2>2 DEF Torn
    <3>2. end \in Nat /\ \A f \in DOMAIN m.files : f \in Nat
      BY <1>5, <3>1
    <3>3. \A f \in DOMAIN m.files : f >= end \/ f < end
      BY <3>2
    <3>4. QED BY <3>2, <3>3
  <2>3. QED BY <2>1, <2>2
<1>21. end \in Torn => \A f, g \in DOMAIN disk \ left : f..g \subseteq DOMAIN disk \ left
  <2>1. Follow(DOMAIN disk)
    BY <1>2, <1>4, NoWorkIs DEF OrderInv
  <2>2. SUFFICES ASSUME end \in Torn, NEW f \in DOMAIN disk \ left,
                        NEW g \in DOMAIN disk \ left, NEW x \in f..g
                 PROVE  x \in DOMAIN disk \ left
    OBVIOUS
  <2>3. x \in DOMAIN disk
    BY <2>1 DEF Follow
  <2>4. end \in Nat /\ g \in Nat /\ x \in Nat /\ x <= g /\ ~(g >= end)
    BY <1>5, <1>6, <2>2, <2>3
  <2>5. QED BY <2>3, <2>4
<1> HIDE DEF end, seen, left
<1>7. /\ DOMAIN files = DOMAIN disk
      /\ \A f \in DOMAIN disk : files[f] \in Maxts
      /\ \A f \in seen : NoLater(disk[f].chunks, files[f])
      /\ \A f \in DOMAIN disk \ seen : files[f] = m.files[f]
  <2>1. \A f \in DOMAIN disk : m.files[f] \in Maxts /\ disk[f].chunks \in Seq(Chunks)
    BY <1>4, <1>5, ContentType, BothIs DEF Good, MapperOK
  <2>2. \A f \in seen : files[f] \in Maxts /\ NoLater(disk[f].chunks, files[f])
    BY <1>5, <1>6, <2>1, HighestTime
  <2>3. QED BY <1>5, <1>6, <2>1, <2>2
<1> HIDE DEF files
<1>8. /\ m' \in [state : {"open"}, files : {files}, cur : {m.cur},
                 bytes : {m.bytes}, maxt : {m.maxt}, pending : {m.pending},
                 buffer : {m.buffer}, fileMaxtSet : {TRUE}]
      /\ m \in [state : {"open", "closed", "failed"}, files : {m.files}, cur : Nat,
              bytes : {m.bytes}, maxt : Maxts, pending : Seq(Chunks),
              buffer : {m.buffer}, fileMaxtSet : BOOLEAN]
  <2>1. m \in [state : {"open", "closed", "failed"}, files : {m.files}, cur : Nat,
              bytes : {m.bytes}, maxt : Maxts, pending : Seq(Chunks),
              buffer : {m.buffer}, fileMaxtSet : BOOLEAN]
    BY <1>4, BothIs DEF Good, MapperOK
  <2>2. QED BY <1>2, <1>3, <2>1
<1>9. /\ m'.state = "open" /\ m'.files = files /\ m'.cur = m.cur /\ m'.bytes = m.bytes
      /\ m'.maxt = m.maxt /\ m'.pending = m.pending /\ m'.buffer = m.buffer
  BY <1>8
<1> DEFINE s == Both
           t == Both'
<1>10. s.m = m /\ s.disk = disk /\ t.m = m' /\ t.disk = disk
       /\ t = [m |-> t.m, disk |-> t.disk]
  BY <1>2 DEF Both
<1> HIDE DEF s, t
<1>11. \A f : Content(t, f) = Content(s, f)
  BY <1>9, <1>10 DEF Content
<1>12. Good(t)
  <2>1. Good(s)
    BY <1>4 DEF s
  <2>2. MapperOK(t.m)
    BY <1>7, <1>8, <1>9, <1>10 DEF MapperOK
  <2>3. BufferOK(t)
    BY <1>9, <1>10, <2>1 DEF Good, BufferOK
  <2>4. WriterOK(t)
    BY <1>5, <1>7, <1>9, <1>10, <1>11, <2>1 DEF Good, WriterOK
  <2>5. QED BY <1>5, <1>7, <1>9, <1>10, <2>1, <2>2, <2>3, <2>4 DEF Good
<1> DEFINE found == [kind |-> "corrupted", stage |-> "unmap", mint |-> 0,
                     files |-> left, whole |-> FALSE]
<1>13. /\ found.kind = "corrupted" /\ found.stage = "unmap" /\ found.files = left
       /\ found = [kind |-> found.kind, stage |-> found.stage, files |-> found.files,
                   mint |-> found.mint, whole |-> found.whole]
  OBVIOUS
<1>14. work' = NoWork \/ (m.cur = 0 /\ end \in Torn /\ work' = found)
  BY <1>3
<1> HIDE DEF found
<1>15. WorkInv'
  <2>1. CASE work' = NoWork
    BY <1>2, <1>5, <1>7, <1>9, <2>1, NoWorkIs DEF WorkInv
  <2>2. CASE m.cur = 0 /\ end \in Torn /\ work' = found
    BY <1>2, <1>5, <1>6, <1>7, <1>9, <1>13, <2>2 DEF WorkInv
  <2>3. QED BY <1>14, <2>1, <2>2
<1>16. OrderInv'
  <2>1. Follow(DOMAIN disk) /\ \A f \in DOMAIN disk : disk[f].state # "empty"
    BY <1>2, <1>4, NoWorkIs DEF OrderInv
  <2>2. CASE work' = NoWork
    BY <1>2, <1>9, <2>1, <2>2, NoWorkIs DEF OrderInv
  <2>3. CASE m.cur = 0 /\ end \in Torn /\ work' = found
    <3>1. Follow(DOMAIN disk \ left)
      BY <1>21, <2>3 DEF Follow
    <3>2. QED BY <1>2, <1>9, <1>13, <2>1, <2>3, <3>1 DEF OrderInv
  <2>4. QED BY <1>14, <2>2, <2>3
<1>17. TimeInv'
  <2>1. \A f \in seen : Timed(t, f)
    BY <1>7, <1>9, <1>10 DEF Timed
  <2>2. \A f \in DOMAIN disk : Timed(s, f) => Timed(t, f)
    <3> SUFFICES ASSUME NEW f \in DOMAIN disk, Timed(s, f), f \notin seen
                 PROVE  Timed(t, f)
      BY <2>1
    <3>1. files[f] = m.files[f]
      BY <1>7
    <3>2. QED BY <1>9, <1>10, <3>1 DEF Timed
  <2>3. whole' => \A f \in DOMAIN m'.files \ {m'.cur} : Timed(t, f)
    <3> SUFFICES ASSUME whole', NEW f \in DOMAIN disk, f # m.cur
                 PROVE  Timed(t, f)
      BY <1>7, <1>9
    <3>1. CASE whole
      BY <1>2, <1>4, <1>5, <2>2, <3>1 DEF TimeInv, s
    <3>2. CASE seen = DOMAIN m.files
      BY <1>5, <2>1, <3>2
    <3>3. QED BY <1>3, <3>1, <3>2
  <2>4. work'.kind = "corrupted" =>
          \A f \in DOMAIN m'.files \ work'.files : Timed(t, f)
    <3>1. CASE work' = NoWork
      BY <3>1, NoWorkIs
    <3>2. CASE end \in Torn /\ work' = found
      BY <1>5, <1>6, <1>7, <1>9, <1>13, <2>1, <3>2
    <3>3. QED BY <1>14, <3>1, <3>2
  <2>5. work'.kind # "truncate"
    BY <1>13, <1>14, NoWorkIs
  <2>6. QED BY <2>3, <2>4, <2>5 DEF TimeInv, t
<1>18. GivenInv'
  <2>1. \A g \in given : Keeps(t, g)
    <3>1. \A g \in given : Keeps(s, g)
      BY <1>2, <1>4 DEF GivenInv, s
    <3>2. QED BY <1>5, <1>7, <1>9, <1>10, <1>11, <3>1 DEF Keeps
  <2>2. \A f \in seen : \A k \in DOMAIN disk[f].chunks :
          Keeps(t, [ref |-> Ref(f, k), chunk |-> disk[f].chunks[k]])
    <3> SUFFICES ASSUME NEW f \in seen, NEW k \in DOMAIN disk[f].chunks
                 PROVE  Keeps(t, [ref |-> Ref(f, k), chunk |-> disk[f].chunks[k]])
      OBVIOUS
    <3> DEFINE g == [ref |-> Ref(f, k), chunk |-> disk[f].chunks[k]]
    <3>1. g.ref[1] = f /\ g.ref[2] = k /\ g.chunk = disk[f].chunks[k]
          /\ g = [ref |-> Ref(g.ref[1], g.ref[2]), chunk |-> g.chunk]
      BY DEF Ref
    <3>2. f \in DOMAIN t.m.files
      BY <1>5, <1>6, <1>7, <1>9, <1>10
    <3>3. k \in 1..Len(Content(t, f)) /\ Content(t, f)[k] = disk[f].chunks[k]
      <4>1. disk[f].chunks \in Seq(Chunks) /\ m.pending \in Seq(Chunks)
        BY <1>4, <1>6, ContentType, BothIs
      <4>2. k \in 1..Len(disk[f].chunks)
        BY <4>1
      <4>3. CASE f = m.cur
        <5>1. Content(t, f) = disk[f].chunks \o m.pending
          BY <1>9, <1>10, <4>3 DEF Content
        <5> DEFINE a == disk[f].chunks
                   b == m.pending
        <5>2. a \in Seq(Chunks) /\ b \in Seq(Chunks) /\ k \in 1..Len(a)
          BY <4>1, <4>2
        <5> HIDE DEF a, b
        <5>3. k \in 1..Len(a \o b) /\ (a \o b)[k] = a[k]
          BY <5>2, Concat
        <5>4. QED BY <5>1, <5>3 DEF a, b
      <4>4. CASE f # m.cur
        <5>1. Content(t, f) = disk[f].chunks
          BY <1>9, <1>10, <4>4 DEF Content
        <5>2. QED BY <4>2, <5>1
      <4>5. QED BY <4>3, <4>4
    <3> HIDE DEF g
    <3>4. Keeps(t, g)
      BY <3>1, <3>2, <3>3 DEF Keeps
    <3>5. QED BY <3>4 DEF g
  <2>3. \A g \in given' : Keeps(t, g)
    BY <1>3, <2>1, <2>2
  <2>4. QED BY <2>3 DEF GivenInv, t
<1>19. SpentInv'
  BY <1>2, <1>4 DEF SpentInv
<1>22. BytesInv'
  <2>1. BytesOK(s)
    BY DEF IInv, BytesInv, s
  <2>2. BytesOK(t)
    BY <1>9, <1>10, <2>1 DEF BytesOK
  <2>3. QED BY <2>2 DEF BytesInv, t
<1>23. QED BY <1>12, <1>15, <1>16, <1>17, <1>18, <1>19, <1>22 DEF IInv, t

LEMMA UnmapKeeps ==
    ASSUME IInv, Unmap
    PROVE  IInv'
<1> DEFINE files == [f \in DOMAIN m.files \ work.files |-> m.files[f]]
           s == Both
           t == Both'
<1>1. /\ m.state = "open" /\ work.stage = "unmap"
      /\ m' = [m EXCEPT !.files = files]
      /\ given' = {g \in given : g.ref[1] \notin work.files}
      /\ whole' = (whole \/ work.kind = "corrupted")
      /\ work' = IF work.files = {} THEN NoWork ELSE [work EXCEPT !.stage = "remove"]
      /\ disk' = disk /\ brokenOff' = brokenOff /\ spent' = spent
  BY DEF Unmap
<1>2. /\ SpentInv /\ Good(s) /\ WorkInv /\ OrderInv /\ TimeInv /\ GivenInv
  BY DEF IInv
<1>3. s.m = m /\ s.disk = disk /\ t.m = m' /\ t.disk = disk
      /\ t = [m |-> t.m, disk |-> t.disk]
  BY <1>1 DEF Both
<1>4. DOMAIN m.files = DOMAIN disk /\ m.cur \notin work.files
  BY <1>1, <1>2 DEF WorkInv
<1>5. /\ DOMAIN files = DOMAIN disk \ work.files
      /\ \A f \in DOMAIN files : files[f] = m.files[f]
  BY <1>4
<1> HIDE DEF files, s, t
<1>6. m \in [state : {"open", "closed", "failed"}, files : {m.files}, cur : Nat,
             bytes : {m.bytes}, maxt : Maxts, pending : Seq(Chunks),
             buffer : {m.buffer}, fileMaxtSet : BOOLEAN]
  BY <1>2, <1>3 DEF Good, MapperOK
<1>7. m' \in [state : {"open"}, files : {files}, cur : {m.cur},
              bytes : {m.bytes}, maxt : {m.maxt}, pending : {m.pending},
              buffer : {m.buffer}, fileMaxtSet : BOOLEAN]
  BY <1>1, <1>6
<1>8. /\ m'.state = "open" /\ m'.files = files /\ m'.cur = m.cur /\ m'.bytes = m.bytes
      /\ m'.maxt = m.maxt /\ m'.pending = m.pending /\ m'.buffer = m.buffer
  BY <1>7
<1>9. \A f : Content(t, f) = Content(s, f)
  BY <1>3, <1>8 DEF Content
<1>10. Good(t)
  <2>1. \A f \in DOMAIN files : files[f] \in Maxts
    BY <1>2, <1>3, <1>4, <1>5 DEF Good, MapperOK
  <2>2. MapperOK(t.m)
    BY <1>3, <1>6, <1>7, <1>8, <2>1 DEF MapperOK
  <2>3. BufferOK(t)
    BY <1>2, <1>3, <1>8 DEF Good, BufferOK
  <2>4. WriterOK(t)
    BY <1>2, <1>3, <1>4, <1>5, <1>8, <1>9 DEF Good, WriterOK
  <2>5. QED BY <1>2, <1>3, <1>5, <1>8, <2>2, <2>3, <2>4 DEF Good
<1>11. \/ work.files = {} /\ work' = NoWork
       \/ /\ work' = [kind |-> work.kind, stage |-> "remove", files |-> work.files,
                      mint |-> work.mint, whole |-> work.whole]
          /\ work'.kind = work.kind /\ work'.stage = "remove"
          /\ work'.files = work.files /\ work'.mint = work.mint
          /\ work'.whole = work.whole
  <2>1. work = [kind |-> work.kind, stage |-> work.stage, files |-> work.files,
                mint |-> work.mint, whole |-> work.whole]
    BY <1>2 DEF WorkInv
  <2>2. QED BY <1>1, <2>1
<1>12. work.kind # "none" \/ work' = NoWork
  <2>1. work.kind = "none" => work = NoWork
    BY <1>2 DEF WorkInv
  <2>2. QED BY <1>1, <2>1, NoWorkIs
<1>13. WorkInv'
  <2>1. CASE work.files = {} /\ work' = NoWork
    BY <1>1, <1>5, <1>8, <2>1, NoWorkIs DEF WorkInv
  <2>2. CASE work' # NoWork
    BY <1>1, <1>2, <1>5, <1>8, <1>11, <1>12, <2>2 DEF WorkInv
  <2>3. QED BY <1>11, <2>1, <2>2, NoWorkIs
<1>14. OrderInv'
  <2>1. CASE work.files = {} /\ work' = NoWork
    <3>1. Follow(DOMAIN disk)
      <4>1. DOMAIN disk \ work.files = DOMAIN disk
        BY <2>1
      <4>2. QED BY <1>1, <1>2, <4>1 DEF OrderInv
    <3>2. QED BY <1>1, <1>2, <1>8, <2>1, <3>1, NoWorkIs DEF OrderInv
  <2>2. CASE work' # NoWork
    BY <1>1, <1>2, <1>8, <1>11, <2>2 DEF OrderInv
  <2>3. QED BY <1>11, <2>1, <2>2, NoWorkIs
<1>15. TimeInv'
  <2>1. \A f \in DOMAIN files : Timed(s, f) => Timed(t, f)
    BY <1>3, <1>5, <1>8 DEF Timed
  <2>2. whole => \A f \in DOMAIN files \ {m.cur} : Timed(s, f)
    BY <1>1, <1>2, <1>4, <1>5 DEF TimeInv, s
  <2>3. work.kind = "corrupted" => \A f \in DOMAIN files : Timed(s, f)
    BY <1>1, <1>2, <1>4, <1>5 DEF TimeInv, s
  <2>4. whole' => \A f \in DOMAIN m'.files \ {m'.cur} : Timed(t, f)
    BY <1>1, <1>8, <2>1, <2>2, <2>3
  <2>5. work'.kind = "corrupted" => \A f \in DOMAIN m'.files \ work'.files : Timed(t, f)
    BY <1>8, <1>11, <2>1, <2>3, NoWorkIs
  <2>6. work'.kind = "truncate" /\ work'.whole =>
          \A f \in work'.files : \A k \in 1..Len(disk[f].chunks) :
             disk[f].chunks[k].maxt < work'.mint
    BY <1>2, <1>11, NoWorkIs DEF TimeInv
  <2>7. QED BY <1>1, <2>4, <2>5, <2>6 DEF TimeInv, t
<1>16. GivenInv'
  <2>1. \A g \in given' : Keeps(s, g) /\ g.ref[1] \notin work.files
    BY <1>1, <1>2 DEF GivenInv, s
  <2>2. \A g \in given' : Keeps(t, g)
    BY <1>3, <1>4, <1>5, <1>8, <1>9, <2>1 DEF Keeps
  <2>3. QED BY <2>2 DEF GivenInv, t
<1>17. SpentInv'
  BY <1>1, <1>2 DEF SpentInv
<1>18. BytesInv'
  <2>1. BytesOK(s)
    BY DEF IInv, BytesInv, s
  <2>2. BytesOK(t)
    BY <1>3, <1>8, <2>1 DEF BytesOK
  <2>3. QED BY <2>2 DEF BytesInv, t
<1>19. QED BY <1>10, <1>13, <1>14, <1>15, <1>16, <1>17, <1>18 DEF IInv, t

(* A truncation removes its files from the first on, so that the power may
   fail between any two. *)
LEMMA RemoveKeeps ==
    ASSUME IInv, RemoveFile
    PROVE  IInv' /\ DOMAIN disk \ DOMAIN disk' \subseteq work.files
<1> DEFINE s == Both
           t == Both'
<1>1. PICK f \in work.files :
        /\ work.kind = "truncate" => \A g \in work.files : f <= g
        /\ disk' = [g \in DOMAIN disk \ {f} |-> disk[g]]
        /\ work' = IF work.files = {f} THEN NoWork ELSE [work EXCEPT !.files = @ \ {f}]
  BY DEF RemoveFile
<1>2. /\ m.state = "open" /\ work.stage = "remove"
      /\ m' = m /\ given' = given /\ whole' = whole /\ brokenOff' = brokenOff
      /\ spent' = spent
  BY DEF RemoveFile
<1>3. /\ SpentInv /\ Good(s) /\ WorkInv /\ OrderInv /\ TimeInv /\ GivenInv
  BY DEF IInv
<1>4. /\ s.m = m /\ s.disk = disk /\ t.m = m /\ t.disk = disk'
      /\ t = [m |-> t.m, disk |-> t.disk]
  BY <1>2 DEF Both
<1> HIDE DEF s, t
<1>5. /\ DOMAIN m.files = DOMAIN disk \ work.files /\ m.cur \notin work.files
      /\ work.files \subseteq DOMAIN disk
      /\ work.kind \in {"truncate", "corrupted"}
  <2>1. work.kind # "none"
    <3>1. work.kind = "none" => work = NoWork
      BY <1>3 DEF WorkInv
    <3>2. QED BY <1>2, <3>1, NoWorkIs
  <2>2. QED BY <1>2, <1>3, <2>1 DEF WorkInv
<1>6. /\ DOMAIN disk' = DOMAIN disk \ {f}
      /\ \A g \in DOMAIN disk' : disk'[g] = disk[g]
  BY <1>1
<1>7. \/ work.files = {f} /\ work' = NoWork
      \/ /\ work' = [kind |-> work.kind, stage |-> "remove", files |-> work.files \ {f},
                     mint |-> work.mint, whole |-> work.whole]
         /\ work'.kind = work.kind /\ work'.stage = "remove"
         /\ work'.files = work.files \ {f} /\ work'.mint = work.mint
         /\ work'.whole = work.whole
  <2>1. work = [kind |-> work.kind, stage |-> "remove", files |-> work.files,
                mint |-> work.mint, whole |-> work.whole]
    BY <1>2, <1>3 DEF WorkInv
  <2>2. QED BY <1>1, <2>1
<1>8. \A g \in DOMAIN m.files : g \in DOMAIN disk' /\ Content(t, g) = Content(s, g)
  BY <1>4, <1>5, <1>6 DEF Content
<1>9. Good(t)
  <2>1. DiskOK(t.disk)
    BY <1>3, <1>4, <1>6 DEF Good, DiskOK
  <2>2. BufferOK(t)
    <3>1. CASE m.cur = 0
      <4>1. s.m.pending = << >> /\ s.m.buffer
               = {[ref |-> Ref(s.m.cur, Len(s.disk[s.m.cur].chunks) + k),
                   chunk |-> s.m.pending[k]] : k \in 1..Len(s.m.pending)}
        BY <1>3, <1>4, <3>1 DEF Good, BufferOK, WriterOK
      <4>2. Len(s.m.pending) = 0
        BY <4>1
      <4>3. s.m.buffer = {}
        BY <4>1, <4>2
      <4>4. QED BY <1>4, <4>2, <4>3 DEF BufferOK
    <3>2. CASE m.cur # 0
      <4>1. m.cur \in DOMAIN disk'
        BY <1>3, <1>4, <1>8, <3>2 DEF Good, WriterOK
      <4>2. t.disk[t.m.cur] = s.disk[s.m.cur] /\ t.m = s.m
        BY <1>4, <1>6, <4>1
      <4>3. BufferOK(s)
        BY <1>3 DEF Good
      <4>4. QED BY <4>2, <4>3 DEF BufferOK
    <3>3. QED BY <3>1, <3>2
  <2>3. WriterOK(t)
    BY <1>3, <1>4, <1>6, <1>8 DEF Good, WriterOK
  <2>4. QED BY <1>3, <1>4, <1>8, <2>1, <2>2, <2>3 DEF Good
<1>10. WorkInv'
  <2>1. CASE work.files = {f} /\ work' = NoWork
    BY <1>2, <1>3, <1>5, <1>6, <2>1, NoWorkIs DEF WorkInv
  <2>2. CASE work' # NoWork
    BY <1>1, <1>2, <1>3, <1>5, <1>6, <1>7, <2>2 DEF WorkInv
  <2>3. QED BY <1>7, <2>1, <2>2, NoWorkIs
<1>11. OrderInv'
  <2>1. \A g \in DOMAIN disk' : disk'[g].state # "empty"
    BY <1>2, <1>3, <1>6 DEF OrderInv
  <2>2. CASE work.kind = "corrupted"
    <3>1. Follow(DOMAIN disk \ work.files)
      BY <1>2, <1>3, <2>2 DEF OrderInv
    <3>2. CASE work' = NoWork
      <4>1. DOMAIN disk' = DOMAIN disk \ work.files
        <5>1. work.files = {f}
          BY <1>5, <1>7, <3>2, NoWorkIs
        <5>2. QED BY <1>6, <5>1
      <4>2. QED BY <1>2, <2>1, <3>1, <3>2, <4>1, NoWorkIs DEF OrderInv
    <3>3. CASE work' # NoWork
      <4>1. DOMAIN disk' \ work'.files = DOMAIN disk \ work.files
        BY <1>5, <1>6, <1>7, <3>3
      <4>2. QED BY <1>2, <1>7, <2>1, <2>2, <3>1, <3>3, <4>1 DEF OrderInv
    <3>4. QED BY <3>2, <3>3
  <2>3. CASE work.kind = "truncate"
    <3>1. Follow(DOMAIN disk) /\ DOMAIN disk \subseteq Nat
      BY <1>2, <1>3, <1>4, <2>3 DEF OrderInv, Good, DiskOK
    <3>2. \A g \in DOMAIN disk : f <= g
      <4>1. \A g \in DOMAIN disk \ work.files : f < g
        BY <1>3, <2>3 DEF WorkInv
      <4>2. \A g \in DOMAIN disk : g \in Nat /\ f \in Nat
        BY <1>5, <3>1
      <4>3. QED BY <1>1, <2>3, <4>1, <4>2
    <3>3. Follow(DOMAIN disk')
      <4> SUFFICES ASSUME NEW a \in DOMAIN disk', NEW b \in DOMAIN disk', NEW x \in a..b
                   PROVE  x \in DOMAIN disk'
        BY DEF Follow
      <4>1. x \in DOMAIN disk
        BY <1>6, <3>1 DEF Follow
      <4>2. f <= a /\ f # a /\ a \in Nat /\ f \in Nat /\ x \in Nat /\ a <= x
        BY <1>5, <1>6, <3>1, <3>2, <4>1
      <4>3. QED BY <1>6, <4>1, <4>2
    <3>4. work'.kind # "corrupted"
      BY <1>7, <2>3, NoWorkIs
    <3>5. QED BY <1>2, <2>1, <3>3, <3>4 DEF OrderInv
  <2>4. QED BY <1>5, <2>2, <2>3
<1>12. TimeInv'
  <2>1. \A g \in DOMAIN m.files : Timed(s, g) => Timed(t, g)
    BY <1>4, <1>6, <1>8 DEF Timed
  <2>2. whole => \A g \in DOMAIN m.files \ {m.cur} : Timed(t, g)
    BY <1>2, <1>3, <2>1 DEF TimeInv, s
  <2>3. work'.kind = "corrupted" => \A g \in DOMAIN m.files \ work'.files : Timed(t, g)
    <3> SUFFICES ASSUME work'.kind = "corrupted", NEW g \in DOMAIN m.files
                 PROVE  Timed(t, g)
      OBVIOUS
    <3>1. work.kind = "corrupted" /\ g \notin work.files
      BY <1>5, <1>7, NoWorkIs
    <3>2. QED BY <1>3, <2>1, <3>1 DEF TimeInv, s
  <2>4. work'.kind = "truncate" /\ work'.whole =>
          \A g \in work'.files : \A k \in 1..Len(disk'[g].chunks) :
             disk'[g].chunks[k].maxt < work'.mint
    <3>1. CASE work' = NoWork
      BY <3>1, NoWorkIs
    <3>2. CASE work' # NoWork
      <4>1. \A g \in work'.files : g \in work.files /\ disk'[g] = disk[g]
        BY <1>5, <1>6, <1>7, <3>2
      <4>2. QED BY <1>3, <1>7, <3>2, <4>1 DEF TimeInv
    <3>3. QED BY <3>1, <3>2
  <2>5. QED BY <1>2, <2>2, <2>3, <2>4 DEF TimeInv, t
<1>13. GivenInv'
  <2>1. \A g \in given : Keeps(s, g)
    BY <1>2, <1>3 DEF GivenInv, s
  <2>2. \A g \in given : Keeps(t, g)
    BY <1>4, <1>8, <2>1 DEF Keeps
  <2>3. QED BY <1>2, <2>2 DEF GivenInv, t
<1>14. SpentInv'
  BY <1>2, <1>3 DEF SpentInv
<1>15. BytesInv'
  <2>1. BytesOK(s)
    BY DEF IInv, BytesInv, s
  <2>2. m.cur # 0 => disk'[m.cur] = disk[m.cur]
    BY <1>3, <1>4, <1>6, <1>8 DEF Good, WriterOK
  <2>3. BytesOK(t)
    BY <1>4, <2>1, <2>2 DEF BytesOK
  <2>4. QED BY <2>3 DEF BytesInv, t
<1>16. QED BY <1>6, <1>9, <1>10, <1>11, <1>12, <1>13, <1>14, <1>15 DEF IInv, t

(* Once the mapper is gone nothing is under way. *)
LEMMA GoneKeeps ==
    ASSUME IInv, m' = Fresh("closed", {}), work' = NoWork, DiskOK(disk'),
           DOMAIN disk' = DOMAIN disk, m.state = "open",
           work.kind = "corrupted" => brokenOff',
           \A f, g \in DOMAIN disk' : disk'[f].state = "empty" => g <= f,
           spent' = spent
    PROVE  IInv'
<1>1. Good([m |-> m', disk |-> disk']) /\ m'.state = "closed" /\ m'.cur = 0
  BY FreshGood
<1>2. Good(Both')
  BY <1>1 DEF Both
<1>3. WorkInv'
  BY <1>1, NoWorkIs DEF WorkInv
<1>4. OrderInv'
  BY <1>1 DEF IInv, OrderInv
<1>5. TimeInv'
  BY <1>1, NoWorkIs DEF TimeInv
<1>6. GivenInv'
  BY <1>1 DEF GivenInv
<1>7. SpentInv'
  BY DEF IInv, SpentInv
<1>8. BytesInv'
  BY <1>1 DEF BytesInv, BytesOK, Both
<1>9. QED BY <1>2, <1>3, <1>4, <1>5, <1>6, <1>7, <1>8 DEF IInv

LEMMA CloseKeeps ==
    ASSUME IInv, Close
    PROVE  IInv' /\ DOMAIN disk \subseteq DOMAIN disk'
<1>1. /\ m.state = "open" /\ work = NoWork /\ disk' = finalizeCurFile(Both).disk
      /\ m' = Fresh("closed", {}) /\ work' = work /\ spent' = spent
  BY DEF Close
<1> DEFINE t == finalizeCurFile(Both)
<1>2. /\ Good(t) /\ DOMAIN t.disk = DOMAIN disk
      /\ \A f \in DOMAIN disk : t.disk[f].state = disk[f].state
  BY <1>1, Finalized, BothIs DEF IInv
<1> HIDE DEF t
<1>3. t.disk = disk'
  BY <1>1 DEF t
<1>4. DiskOK(disk') /\ DOMAIN disk' = DOMAIN disk
  BY <1>2, <1>3 DEF Good
<1>5. \A f \in DOMAIN disk' : disk'[f].state # "empty"
  BY <1>1, <1>2, <1>3 DEF IInv, OrderInv
<1>6. QED BY <1>1, <1>4, <1>5, GoneKeeps, NoWorkIs

(* What is left of the file written to is a beginning of it, or nothing, and
   it is the last. *)
LEMMA PowerLossKeeps ==
    ASSUME IInv, PowerLoss
    PROVE  IInv' /\ DOMAIN disk \subseteq DOMAIN disk'
<1> DEFINE written == disk[m.cur].chunks \o m.pending
           Leaves(x) == disk' = [disk EXCEPT ![m.cur] = x]
<1>1. /\ m.state = "open" /\ work' = NoWork /\ m' = Fresh("closed", {})
      /\ brokenOff' = (brokenOff \/ work.kind = "corrupted") /\ spent' = spent
      /\ \/ m.cur = 0 /\ disk' = disk
         \/ /\ m.cur # 0
            /\ \/ Leaves([chunks |-> << >>, state |-> "empty"])
               \/ \E n \in 0..Len(written) :
                  \E state \in IF n < Len(written) THEN {"whole", "torn"} ELSE {"whole"} :
                     Leaves([chunks |-> SubSeq(written, 1, n), state |-> state])
  BY DEF PowerLoss
<1>2. /\ DiskOK(disk) /\ \A f \in DOMAIN disk : disk[f].state # "empty"
      /\ Good(Both)
  BY <1>1, BothIs DEF IInv, OrderInv, Good
<1>3. m.cur # 0 => /\ m.cur \in DOMAIN disk
                   /\ \A f \in DOMAIN disk : f <= m.cur
                   /\ written \in Seq(Chunks)
  <2>1. m.cur # 0 => m.cur \in DOMAIN disk /\ \A f \in DOMAIN disk : f <= m.cur
    BY <1>1, <1>2, BothIs DEF Good, WriterOK
  <2>2. m.cur # 0 => disk[m.cur].chunks \in Seq(Chunks) /\ m.pending \in Seq(Chunks)
    BY <1>2, <2>1, ContentType, BothIs
  <2>3. QED BY <2>1, <2>2, Concat
<1> HIDE DEF written
<1>4. \/ disk' = disk
      \/ /\ m.cur # 0
         /\ \E x \in Files : Leaves(x)
  <2>1. CASE m.cur # 0 /\ Leaves([chunks |-> << >>, state |-> "empty"])
    <3>1. << >> \in Seq(Chunks)
      OBVIOUS
    <3>2. [chunks |-> << >>, state |-> "empty"] \in Files
      BY <3>1 DEF Files
    <3> HIDE DEF Leaves
    <3>3. QED BY <2>1, <3>2
  <2>2. ASSUME m.cur # 0, NEW n \in 0..Len(written), NEW state \in {"whole", "torn"},
               Leaves([chunks |-> SubSeq(written, 1, n), state |-> state])
        PROVE  \E x \in Files : Leaves(x)
    <3>1. SubSeq(written, 1, n) \in Seq(Chunks)
      BY <1>3, <2>2
    <3>2. [chunks |-> SubSeq(written, 1, n), state |-> state] \in Files
      BY <3>1 DEF Files
    <3> HIDE DEF Leaves
    <3>3. QED BY <2>2, <3>2
  <2> HIDE DEF Leaves
  <2>3. QED BY <1>1, <2>1, <2>2
<1>5. CASE disk' = disk
  BY <1>1, <1>2, <1>5, GoneKeeps
<1>6. CASE m.cur # 0 /\ \E x \in Files : Leaves(x)
  <2>1. PICK x \in Files : Leaves(x)
    BY <1>6
  <2>2. /\ DOMAIN disk' = DOMAIN disk /\ disk'[m.cur] = x
        /\ \A f \in DOMAIN disk \ {m.cur} : disk'[f] = disk[f]
    BY <1>3, <1>6, <2>1
  <2>3. DiskOK(disk')
    BY <1>2, <2>2 DEF DiskOK
  <2>4. \A f, g \in DOMAIN disk' : disk'[f].state = "empty" => g <= f
    BY <1>2, <1>3, <1>6, <2>2
  <2>5. QED BY <1>1, <2>2, <2>3, <2>4, GoneKeeps
<1>7. QED BY <1>4, <1>5, <1>6

LEMMA NextKeeps == IInv /\ [Next]_vars => IInv'
<1> SUFFICES ASSUME IInv, [Next]_vars PROVE IInv'
  OBVIOUS
<1>1. CASE NewChunkDiskMapper BY <1>1, NewKeeps
<1>2. CASE WriteChunk BY <1>2, WriteKeeps
<1>3. CASE IterateAllChunks BY <1>3, IterateKeeps
<1>4. CASE Truncate BY <1>4, TruncateKeeps
<1>5. CASE CutNewFile BY <1>5, CutKeeps
<1>6. CASE Unmap BY <1>6, UnmapKeeps
<1>7. CASE RemoveFile BY <1>7, RemoveKeeps
<1>8. CASE Close BY <1>8, CloseKeeps
<1>9. CASE PowerLoss BY <1>9, PowerLossKeeps
<1>10. CASE UNCHANGED vars
  BY <1>10 DEF vars, IInv, SpentInv, BytesInv, Both, WorkInv, OrderInv, TimeInv, GivenInv
<1>11. QED BY <1>1, <1>2, <1>3, <1>4, <1>5, <1>6, <1>7, <1>8, <1>9, <1>10 DEF Next

LEMMA Invariant == Spec => []IInv
<1>1. QED BY InitIInv, NextKeeps, PTL DEF Spec

-----------------------------------------------------------------------------
(* The types: a mapper that writes does so to the last file of the
   directory, counts the bytes that are in it and in the buffer, and never
   lets it grow beyond the size a file may have. *)
THEOREM ChunksTypeOK == Spec => []TypeOK
<1>1. IInv => TypeOK
  <2> SUFFICES ASSUME IInv PROVE TypeOK
    OBVIOUS
  <2>1. /\ Good(Both) /\ BytesOK(Both) /\ WorkInv
        /\ Both.m = m /\ Both.disk = disk
    BY BothIs DEF IInv, BytesInv
  <2>2. /\ m.state \in {"open", "closed", "failed"}
        /\ m.state = "open" => DOMAIN m.files \subseteq DOMAIN disk
    BY <2>1 DEF Good, MapperOK
  <2>3. work.stage \in {"", "cut", "unmap", "remove"}
    <3>1. CASE work.kind = "none"
      BY <2>1, <3>1, NoWorkIs DEF WorkInv
    <3>2. CASE work.kind # "none"
      BY <2>1, <3>2 DEF WorkInv
    <3>3. QED BY <3>1, <3>2
  <2>4. ASSUME m.cur # 0
        PROVE  /\ m.cur = Highest(DOMAIN disk) /\ m.cur \in DOMAIN m.files
               /\ m.bytes = HeaderSize + Sum(disk[m.cur].chunks) + Sum(m.pending)
               /\ m.bytes <= MaxHeadChunkFileSize
    <3>1. /\ m.cur \in DOMAIN m.files /\ m.cur \in DOMAIN disk
          /\ \A f \in DOMAIN disk : f <= m.cur
          /\ DOMAIN disk \in SUBSET Nat
      BY <2>1, <2>4 DEF Good, WriterOK, DiskOK
    <3>2. Max(DOMAIN disk) = m.cur
      BY <3>1, HighestOf
    <3>3. m.cur = Highest(DOMAIN disk)
      BY <3>1, <3>2 DEF Highest
    <3>4. QED BY <2>1, <2>4, <3>1, <3>3 DEF BytesOK
  <2>5. QED BY <2>2, <2>3, <2>4 DEF TypeOK
<1>2. QED BY <1>1, Invariant, PTL

(* The directory opens again after any power losses, unless one of them
   came within DeleteCorrupted. *)
THEOREM ChunksOpensAgain == Spec => []OpensAgain
<1>1. IInv => OpensAgain
  BY DEF IInv, OrderInv, OpensAgain
<1>2. QED BY <1>1, Invariant, PTL

(* A reference that WriteChunk or an iteration gave reads its chunk until
   its file is truncated, whether the chunk is in the buffer or flushed. *)
THEOREM ChunksEveryRefReads == Spec => []EveryRefReads
<1>1. IInv => EveryRefReads
  <2> SUFFICES ASSUME IInv, m.state = "open", NEW g \in given
               PROVE  Chunk(g.ref) = {g.chunk}
    BY DEF EveryRefReads
  <2> DEFINE f == g.ref[1]
             k == g.ref[2]
             a == disk[f].chunks
             b == m.pending
             buffered == {e \in m.buffer : f = m.cur /\ e.ref = g.ref}
  <2>1. /\ g = [ref |-> Ref(f, k), chunk |-> g.chunk]
        /\ f \in DOMAIN m.files
        /\ k \in 1..Len(Content(Both, f)) /\ Content(Both, f)[k] = g.chunk
    BY BothIs DEF IInv, GivenInv, Keeps
  <2>2. Good(Both) /\ f \in DOMAIN disk
    BY <2>1, BothIs DEF IInv, Good
  <2>3. a \in Seq(Chunks) /\ b \in Seq(Chunks)
    BY <2>2, ContentType, BothIs
  <2>4. m.buffer = {[ref |-> Ref(m.cur, Len(disk[m.cur].chunks) + j),
                     chunk |-> m.pending[j]] : j \in 1..Len(m.pending)}
    BY <2>2, BothIs DEF Good, BufferOK
  <2>5. Content(Both, f) = IF f = m.cur THEN a \o b ELSE a
    BY BothIs DEF Content
  <2>6. Chunk(g.ref) = IF buffered # {} THEN {e.chunk : e \in buffered}
                       ELSE IF k <= Len(a) THEN {a[k]} ELSE {}
    BY <2>1 DEF Chunk
  <2>7. g.ref = <<f, k>>
    <3>1. g.ref = Ref(f, k)
      BY <2>1
    <3>2. QED BY <3>1 DEF Ref
  <2>8. CASE f # m.cur
    <3>1. buffered = {}
      BY <2>8
    <3>2. k \in 1..Len(a) /\ a[k] = g.chunk
      BY <2>1, <2>5, <2>8
    <3> HIDE DEF f, k, a, b, buffered
    <3>3. Len(a) \in Nat
      BY <2>3
    <3>4. QED BY <2>6, <3>1, <3>2, <3>3
  <2>9. CASE f = m.cur
    <3>1. m.buffer = {[ref |-> <<f, Len(a) + j>>, chunk |-> b[j]] : j \in 1..Len(b)}
      BY <2>4, <2>9 DEF Ref
    <3>2. k \in 1..Len(a \o b) /\ (a \o b)[k] = g.chunk
      BY <2>1, <2>5, <2>9
    <3> HIDE DEF a, b
    <3>3. /\ Len(a \o b) = Len(a) + Len(b) /\ Len(a) \in Nat /\ Len(b) \in Nat
          /\ \A j \in 1..Len(a) : (a \o b)[j] = a[j]
          /\ \A j \in 1..Len(b) : (a \o b)[Len(a) + j] = b[j]
      BY <2>3, Concat
    <3>4. k \in Nat
      BY <3>2
    <3>5. CASE k <= Len(a)
      <4>1. buffered = {}
        <5> SUFFICES ASSUME NEW e \in buffered PROVE FALSE
          OBVIOUS
        <5>1. PICK j \in 1..Len(b) : e = [ref |-> <<f, Len(a) + j>>, chunk |-> b[j]]
          BY <3>1
        <5>2. e.ref = <<f, k>> /\ e.ref = <<f, Len(a) + j>>
          BY <2>7, <5>1
        <5>3. k = Len(a) + j
          BY <5>2
        <5>4. QED BY <3>3, <3>4, <3>5, <5>3
      <4>2. k \in 1..Len(a) /\ a[k] = g.chunk
        BY <3>2, <3>3, <3>5
      <4> HIDE DEF f, k, buffered
      <4>3. QED BY <2>6, <3>5, <4>1, <4>2
    <3>6. CASE ~(k <= Len(a))
      <4>1. k - Len(a) \in 1..Len(b) /\ k = Len(a) + (k - Len(a))
        <5>1. k \in Nat /\ k <= Len(a) + Len(b)
          BY <3>2, <3>3
        <5> HIDE DEF f, k, buffered
        <5>2. k > Len(a)
          BY <3>3, <3>6, <5>1
        <5>3. QED BY <3>3, <5>1, <5>2
      <4> DEFINE entry == [ref |-> <<f, k>>, chunk |-> g.chunk]
      <4>2. b[k - Len(a)] = g.chunk
        BY <3>2, <3>3, <4>1
      <4>3. entry \in m.buffer
        BY <3>1, <4>1, <4>2
      <4>4. entry \in buffered
        BY <2>7, <2>9, <4>3
      <4>5. \A e \in buffered : e.chunk = g.chunk
        <5> SUFFICES ASSUME NEW e \in buffered PROVE e.chunk = g.chunk
          OBVIOUS
        <5>1. PICK j \in 1..Len(b) : e = [ref |-> <<f, Len(a) + j>>, chunk |-> b[j]]
          BY <3>1
        <5>2. e.ref = <<f, k>> /\ e.ref = <<f, Len(a) + j>> /\ e.chunk = b[j]
          BY <2>7, <5>1
        <5>3. k = Len(a) + j
          BY <5>2
        <5>4. j = k - Len(a)
          BY <3>3, <3>4, <5>3
        <5>5. QED BY <4>2, <5>2, <5>4
      <4>6. entry.chunk = g.chunk
        OBVIOUS
      <4> HIDE DEF f, k, buffered, entry
      <4>7. {e.chunk : e \in buffered} = {g.chunk}
        BY <4>4, <4>5, <4>6
      <4>8. QED BY <2>6, <4>4, <4>7
    <3>7. QED BY <3>5, <3>6
  <2>10. QED BY <2>8, <2>9
<1>2. QED BY <1>1, Invariant, PTL

(* No file that a truncation removes holds a chunk of its mint or later, in
   whatever order the chunks came, if every maxt was set. *)
THEOREM ChunksTruncateKeepsNewer == Spec => TruncateKeepsNewer
<1>1. IInv /\ [Next]_vars =>
        [(work.kind = "truncate" /\ work.whole) =>
           \A f \in DOMAIN disk \ DOMAIN disk' : \A c \in ToSet(disk[f].chunks) :
              c.maxt < work.mint]_vars
  <2> SUFFICES ASSUME IInv, [Next]_vars, work.kind = "truncate", work.whole,
                      NEW f \in DOMAIN disk \ DOMAIN disk',
                      NEW c \in ToSet(disk[f].chunks)
               PROVE  c.maxt < work.mint
    OBVIOUS
  <2>1. f \in work.files
    <3>1. CASE NewChunkDiskMapper
      <4>1. work = NoWork
        BY <3>1 DEF IInv, WorkInv, NewChunkDiskMapper
      <4>2. QED BY <4>1, NoWorkIs
    <3>2. CASE WriteChunk BY <3>2, WriteKeeps
    <3>3. CASE IterateAllChunks BY <3>3 DEF IterateAllChunks
    <3>4. CASE Truncate BY <3>4 DEF Truncate
    <3>5. CASE CutNewFile BY <3>5, CutKeeps
    <3>6. CASE Unmap BY <3>6 DEF Unmap
    <3>7. CASE RemoveFile BY <3>7, RemoveKeeps
    <3>8. CASE Close BY <3>8, CloseKeeps
    <3>9. CASE PowerLoss BY <3>9, PowerLossKeeps
    <3>10. CASE UNCHANGED vars BY <3>10 DEF vars
    <3>11. QED BY <3>1, <3>2, <3>3, <3>4, <3>5, <3>6, <3>7, <3>8, <3>9, <3>10 DEF Next
  <2>2. \A k \in 1..Len(disk[f].chunks) : disk[f].chunks[k].maxt < work.mint
    BY <2>1 DEF IInv, TimeInv
  <2>3. disk[f].chunks \in Seq(Chunks)
    BY ContentType, BothIs DEF IInv
  <2>4. PICK k \in 1..Len(disk[f].chunks) : c = disk[f].chunks[k]
    BY <2>3 DEF ToSet
  <2>5. QED BY <2>2, <2>4
<1>2. QED BY <1>1, Invariant, PTL DEF Spec, TruncateKeepsNewer

-----------------------------------------------------------------------------
(* XorChunk.  A number is its bits: bstream. *)

BitFold(it, bits) ==
    it = [T \in SUBSET DOMAIN bits |->
            IF T = {} THEN 0 ELSE 2 * it[T \ {Max(T)}] + bits[Max(T)]]

(* The number, as the sequence of its beginnings. *)
LEMMA NumberRuns ==
    ASSUME NEW n \in Nat, NEW bits, DOMAIN bits = 1..n, \A i \in 1..n : bits[i] \in Nat
    PROVE  \E run : /\ run[0] = 0
                    /\ \A k \in 1..n : run[k] = 2 * run[k - 1] + bits[k]
                    /\ Number(bits) = run[n]
<1> DEFINE step == [i \in 1..n |-> [u \in Nat |-> 2 * u + bits[i]]]
<1>1. \A T \in SUBSET (1..n) : T # {} => Max(T) \in T
  BY HighestIn
<1>2. \E it : BitFold(it, bits)
  <2>1. \A i \in 1..n, u \in Nat : step[i][u] = 2 * u + bits[i] /\ step[i][u] \in Nat
    OBVIOUS
  <2> HIDE DEF step
  <2>2. PICK it \in [SUBSET (1..n) -> Nat] : Iterates(it, n, 0, step)
    BY <2>1, IterationExists
  <2>3. \A T \in SUBSET (1..n) :
          it[T] = IF T = {} THEN 0 ELSE step[Max(T)][it[T \ {Max(T)}]]
    BY <2>2 DEF Iterates
  <2>4. \A T \in SUBSET (1..n) :
          it[T] = IF T = {} THEN 0 ELSE 2 * it[T \ {Max(T)}] + bits[Max(T)]
    <3> SUFFICES ASSUME NEW T \in SUBSET (1..n), T # {}
                 PROVE  it[T] = 2 * it[T \ {Max(T)}] + bits[Max(T)]
      BY <2>3
    <3>1. Max(T) \in 1..n /\ T \ {Max(T)} \in SUBSET (1..n)
      BY <1>1
    <3>2. it[T \ {Max(T)}] \in Nat
      BY <2>2, <3>1
    <3>3. it[T] = step[Max(T)][it[T \ {Max(T)}]]
      BY <2>3
    <3>4. QED BY <2>1, <3>1, <3>2, <3>3
  <2>5. it = [T \in SUBSET (1..n) |->
                IF T = {} THEN 0 ELSE 2 * it[T \ {Max(T)}] + bits[Max(T)]]
    BY <2>2, <2>4
  <2>6. QED BY <2>5 DEF BitFold
<1> DEFINE it == CHOOSE it : BitFold(it, bits)
<1>3. BitFold(it, bits)
  BY <1>2
<1>4. Number(bits) = it[DOMAIN bits]
  BY DEF Number, FoldLeft, MapThenFoldSet, BitFold
<1> HIDE DEF it
<1>5. \A T \in SUBSET (1..n) :
        it[T] = IF T = {} THEN 0 ELSE 2 * it[T \ {Max(T)}] + bits[Max(T)]
  BY <1>3 DEF BitFold
<1> DEFINE run == [k \in 0..n |-> it[1..k]]
<1>6. ASSUME NEW k \in 1..n PROVE run[k] = 2 * run[k - 1] + bits[k]
  <2>1. /\ 1..k \in SUBSET (1..n) /\ 1..k # {} /\ (1..k) \ {k} = 1..(k - 1)
        /\ k \in 0..n /\ k - 1 \in 0..n /\ Max(1..k) = k
    BY Beginning
  <2>2. it[1..k] = 2 * it[(1..k) \ {Max(1..k)}] + bits[Max(1..k)]
    BY <1>5, <2>1
  <2>3. QED BY <2>1, <2>2
<1>7. run[0] = 0
  <2>1. 1..0 = {} /\ 0 \in 0..n
    OBVIOUS
  <2>2. QED BY <1>5, <2>1
<1>8. run[n] = it[DOMAIN bits]
  <2>1. n \in 0..n
    OBVIOUS
  <2>2. QED BY <2>1
<1> HIDE DEF run
<1>9. QED BY <1>4, <1>6, <1>7, <1>8

(* What writeBits writes, a reader takes for the number's low bits. *)
LEMMA BitsReadBack ==
    ASSUME NEW n \in Nat, NEW u \in Nat
    PROVE  /\ IsList(writeBits(u, n)) /\ Len(writeBits(u, n)) = n
           /\ Number(writeBits(u, n)) = u % 2 ^ n
<1> DEFINE bits == writeBits(u, n)
<1>1. \A k \in 1..n : n - k \in Nat /\ 2 ^ (n - k) \in Nat \ {0}
  BY PowerIsPositive
<1>2. DOMAIN bits = 1..n /\ \A k \in 1..n : bits[k] = (u \div 2 ^ (n - k)) % 2
  BY DEF writeBits
<1>3. bits = [k \in 1..n |-> bits[k]]
  BY DEF writeBits
<1> HIDE DEF bits
<1>4. IsList(bits) /\ Len(bits) = n
  BY <1>3, ListOf DEF IsList
<1>5. ASSUME NEW k \in 1..n PROVE bits[k] \in Nat
  <2> DEFINE y == u \div 2 ^ (n - k)
  <2>1. y \in Nat /\ bits[k] = y % 2
    BY <1>1, <1>2, Quotient
  <2> HIDE DEF y
  <2>2. QED BY <2>1, Remainder
<1>6. PICK run : /\ run[0] = 0
                 /\ \A k \in 1..n : run[k] = 2 * run[k - 1] + bits[k]
                 /\ Number(bits) = run[n]
  BY <1>2, <1>5, NumberRuns
<1> DEFINE L == {k \in 0..n : run[k] = (u \div 2 ^ (n - k)) % 2 ^ k}
<1>7. 0 \in L
  <2> DEFINE y == u \div 2 ^ (n - 0)
  <2>1. y \in Nat /\ 0 \in 0..n /\ 2 ^ 0 = 1
    <3>1. n - 0 = n /\ 2 ^ n \in Nat \ {0}
      BY PowerIsPositive
    <3>2. QED BY <3>1, Quotient
  <2> HIDE DEF y
  <2>2. y % 1 = 0
    BY <2>1
  <2>3. QED BY <1>6, <2>1, <2>2 DEF y
<1>8. ASSUME NEW k \in 1..n, k - 1 \in L PROVE k \in L
  <2> DEFINE w == 2 ^ (n - k)
             p == 2 ^ (k - 1)
             y == u \div w
             q == y \div 2
             a == q \div p
             b == q % p
             r == y % 2
  <2>1. /\ n - k \in Nat /\ (n - k) + 1 = n - (k - 1) /\ k \in 0..n
        /\ k - 1 \in Nat /\ (k - 1) + 1 = k
    OBVIOUS
  <2>2. /\ w \in Nat \ {0} /\ 2 ^ (n - (k - 1)) = w + w
        /\ p \in Nat \ {0} /\ 2 ^ k = p + p
    BY <2>1, PowerIsPositive, Doubles
  <2>3. run[k - 1] = (u \div (w + w)) % p
    BY <1>8, <2>2
  <2> HIDE DEF w
  <2>4. y \in Nat /\ q = u \div (w + w)
    <3>1. w * 2 = w + w
      BY <2>2
    <3>2. y \div 2 = u \div (w * 2)
      BY <2>2, QuotientTwice
    <3>3. QED BY <2>2, <3>1, <3>2, Quotient
  <2>5. bits[k] = r
    BY <1>2 DEF w
  <2> HIDE DEF y, p
  <2>6. q \in Nat /\ r \in 0..1 /\ y = 2 * q + r
    BY <2>4, Quotient
  <2> HIDE DEF q, r
  <2>7. a \in Nat /\ b \in 0..(p - 1) /\ q = p * a + b
    BY <2>2, <2>6, Quotient
  <2> HIDE DEF a
  <2>8. run[k] = 2 * b + r
    BY <1>6, <2>3, <2>4, <2>5
  <2> HIDE DEF b
  <2> DEFINE d == p + p
             e == 2 * b + r
  <2>9. d \in Nat \ {0} /\ e \in Nat /\ e < d
    BY <2>2, <2>6, <2>7
  <2>10. y = d * a + e
    <3>1. p * a \in Nat /\ (p + p) * a = p * a + p * a
      BY <2>2, <2>7
    <3>2. QED BY <2>6, <2>7, <3>1
  <2> HIDE DEF d, e
  <2>11. y % d = e
    BY <2>7, <2>9, <2>10, QuotientIs
  <2>12. QED BY <2>1, <2>2, <2>8, <2>11 DEF y, w, d, e
<1> HIDE DEF L
<1>9. n \in L
  BY <1>7, <1>8, Counting
<1>10. run[n] = (u \div 1) % 2 ^ n
  <2>1. n - n = 0 /\ 2 ^ 0 = 1
    OBVIOUS
  <2>2. QED BY <1>9, <2>1 DEF L
<1>11. u \div 1 = u
  OBVIOUS
<1>12. QED BY <1>4, <1>6, <1>10, <1>11 DEF bits

-----------------------------------------------------------------------------
(* A reader takes from the front of a stream. *)

LEMMA SameList ==
    ASSUME NEW a, NEW b, IsList(a), IsList(b), Len(a) = Len(b),
           \A i \in 1..Len(a) : a[i] = b[i]
    PROVE  a = b
BY DEF IsList

LEMMA JoinsAgain ==
    ASSUME NEW a, NEW b, NEW c, IsList(a), IsList(b), IsList(c)
    PROVE  Join(Join(a, b), c) = Join(a, Join(b, c))
<1> DEFINE ab == Join(a, b)
           bc == Join(b, c)
           s == Join(ab, c)
           t == Join(a, bc)
<1>1. Len(a) \in Nat /\ Len(b) \in Nat /\ Len(c) \in Nat
  BY DEF IsList
<1>2. /\ IsList(ab) /\ Len(ab) = Len(a) + Len(b)
      /\ \A i \in 1..(Len(a) + Len(b)) : ab[i] = IF i <= Len(a) THEN a[i] ELSE b[i - Len(a)]
  BY ListsJoined
<1>3. /\ IsList(bc) /\ Len(bc) = Len(b) + Len(c)
      /\ \A i \in 1..(Len(b) + Len(c)) : bc[i] = IF i <= Len(b) THEN b[i] ELSE c[i - Len(b)]
  BY ListsJoined
<1> HIDE DEF ab, bc
<1>4. /\ IsList(s) /\ Len(s) = Len(ab) + Len(c)
      /\ \A i \in 1..(Len(ab) + Len(c)) : s[i] = IF i <= Len(ab) THEN ab[i] ELSE c[i - Len(ab)]
  BY <1>2, ListsJoined
<1>5. /\ IsList(t) /\ Len(t) = Len(a) + Len(bc)
      /\ \A i \in 1..(Len(a) + Len(bc)) : t[i] = IF i <= Len(a) THEN a[i] ELSE bc[i - Len(a)]
  BY <1>3, ListsJoined
<1> HIDE DEF s, t
<1> DEFINE l == Len(a)
           mid == Len(b)
           n == Len(c)
<1>6. l \in Nat /\ mid \in Nat /\ n \in Nat /\ Len(s) = l + mid + n /\ Len(t) = l + mid + n
  BY <1>1, <1>2, <1>3, <1>4, <1>5
<1> HIDE DEF l, mid, n
<1>7. ASSUME NEW i \in 1..(l + mid + n) PROVE s[i] = t[i]
  <2>1. CASE i <= l
    <3>1. i \in 1..(l + mid)
      BY <1>6, <2>1
    <3>2. s[i] = ab[i] /\ ab[i] = a[i]
      BY <1>2, <1>4, <1>6, <2>1, <3>1 DEF l, mid, n
    <3>3. t[i] = a[i]
      BY <1>3, <1>5, <1>6, <2>1 DEF l, mid, n
    <3>4. QED BY <3>2, <3>3
  <2>2. CASE i > l /\ i <= l + mid
    <3>1. i \in 1..(l + mid) /\ ~(i <= l) /\ i - l \in 1..(mid + n) /\ i - l <= mid
      BY <1>6, <2>2
    <3>2. s[i] = ab[i] /\ ab[i] = b[i - l]
      BY <1>2, <1>4, <1>6, <2>2, <3>1 DEF l, mid, n
    <3>3. t[i] = bc[i - l] /\ bc[i - l] = b[i - l]
      BY <1>3, <1>5, <1>6, <3>1 DEF l, mid, n
    <3>4. QED BY <3>2, <3>3
  <2>3. CASE i > l + mid
    <3>1. ~(i <= l + mid) /\ ~(i <= l) /\ i - l \in 1..(mid + n) /\ ~(i - l <= mid)
          /\ (i - l) - mid = i - (l + mid)
      BY <1>6, <2>3
    <3>2. s[i] = c[i - (l + mid)]
      BY <1>2, <1>4, <1>6, <3>1 DEF l, mid, n
    <3>3. t[i] = bc[i - l] /\ bc[i - l] = c[i - (l + mid)]
      BY <1>3, <1>5, <1>6, <3>1 DEF l, mid, n
    <3>4. QED BY <3>2, <3>3
  <2>4. QED BY <1>6, <2>1, <2>2, <2>3
<1>8. s = t
  BY <1>4, <1>5, <1>6, <1>7, SameList
<1>9. QED BY <1>8 DEF s, t, ab, bc

LEMMA ReadsFront ==
    ASSUME NEW a, NEW z, IsList(a), IsList(z)
    PROVE  /\ IsList(Join(a, z)) /\ Len(Join(a, z)) = Len(a) + Len(z)
           /\ readBits(Join(a, z), Len(a)) = a
           /\ Rest(Join(a, z), Len(a)) = z
<1> DEFINE s == Join(a, z)
           l == Len(a)
           mid == Len(z)
           x == SubSeq(s, 0 + 1, 0 + l)
           y == SubSeq(s, l + 1, l + mid)
<1>1. l \in Nat /\ mid \in Nat
  BY DEF IsList
<1>2. /\ IsList(s) /\ Len(s) = l + mid
      /\ \A i \in 1..(l + mid) : s[i] = IF i <= l THEN a[i] ELSE z[i - l]
  BY ListsJoined
<1> HIDE DEF s
<1>3. readBits(s, l) = x /\ Rest(s, l) = y
  <2> HIDE DEF l, mid
  <2>1. 0 + 1 = 1 /\ 0 + l = l
    BY <1>1
  <2>2. QED BY <1>2, <2>1 DEF readBits, Rest
<1>4. IsList(x) /\ Len(x) = l /\ \A i \in 1..l : x[i] = s[i]
  <2> HIDE DEF l, mid
  <2>1. 0 + l <= Len(s) /\ 0 \in Nat /\ \A i \in 1..l : 0 + i = i
    BY <1>1, <1>2
  <2>2. IsList(x) /\ Len(x) = l
    BY <1>1, <1>2, <2>1, Slice
  <2>3. \A i \in 1..l : x[i] = s[0 + i]
    BY <1>1, <1>2, <2>1, SliceHas
  <2>4. QED BY <2>1, <2>2, <2>3
<1>5. IsList(y) /\ Len(y) = mid /\ \A i \in 1..mid : y[i] = s[l + i]
  <2> HIDE DEF l, mid
  <2>1. l + mid <= Len(s)
    BY <1>1, <1>2
  <2>2. QED BY <1>1, <1>2, <2>1, Slice, SliceHas
<1> HIDE DEF x, y
<1>6. \A i \in 1..l : x[i] = a[i]
  <2> HIDE DEF l, mid
  <2>1. \A i \in 1..l : i \in 1..(l + mid) /\ i <= l
    BY <1>1
  <2>2. QED BY <1>2, <1>4, <2>1
<1>7. \A i \in 1..mid : y[i] = z[i]
  <2> HIDE DEF l, mid
  <2>1. \A i \in 1..mid : l + i \in 1..(l + mid) /\ ~(l + i <= l) /\ (l + i) - l = i
    BY <1>1
  <2>2. QED BY <1>2, <1>5, <2>1
<1>8. x = a /\ y = z
  BY <1>4, <1>5, <1>6, <1>7, SameList
<1> HIDE DEF l, mid
<1>9. /\ IsList(s) /\ Len(s) = l + mid
      /\ readBits(s, l) = a /\ Rest(s, l) = z
  BY <1>2, <1>3, <1>8
<1>10. QED BY <1>9 DEF s, l, mid

-----------------------------------------------------------------------------
(* Times are numbers modulo a power of two. *)

LEMMA ProductIsLarge ==
    ASSUME NEW d \in Nat \ {0}, NEW e \in Int, e >= 1
    PROVE  d * e \in Int /\ d * e >= d
<1>1. e - 1 \in Nat
  OBVIOUS
<1> DEFINE f == e - 1
<1>2. d * (e - 1) \in Nat
  <2>1. f \in Nat
    BY <1>1
  <2> HIDE DEF f
  <2>2. d * f \in Nat
    BY <2>1
  <2>3. QED BY <2>2 DEF f
<1>3. d * e = d * (e - 1) + d
  OBVIOUS
<1>4. QED BY <1>2, <1>3

LEMMA ModuloHas ==
    ASSUME NEW d \in Nat \ {0}, NEW x \in Int
    PROVE  x % d \in 0..(d - 1) /\ \E q \in Int : x = d * q + (x % d)
<1>1. x % d \in 0..(d - 1)
  OBVIOUS
<1>2. x \div d \in Int /\ x = d * (x \div d) + (x % d)
  OBVIOUS
<1>3. QED BY <1>1, <1>2

LEMMA ModuloIs ==
    ASSUME NEW d \in Nat \ {0}, NEW x \in Int, NEW q \in Int, NEW r \in 0..(d - 1),
           x = d * q + r
    PROVE  x % d = r
<1>1. PICK p \in Int : x = d * p + (x % d)
  BY ModuloHas
<1> DEFINE mid == x % d
<1>2. mid \in 0..(d - 1) /\ x = d * p + mid
  BY <1>1, ModuloHas
<1> HIDE DEF mid
<1>3. d * p \in Int /\ d * q \in Int
  OBVIOUS
<1>4. d * (p - q) = r - mid /\ d * (q - p) = mid - r
  BY <1>2, <1>3
<1>5. ~(p - q >= 1)
  BY <1>2, <1>4, ProductIsLarge
<1>6. ~(q - p >= 1)
  BY <1>2, <1>4, ProductIsLarge
<1>7. p = q
  BY <1>5, <1>6
<1>8. mid = r
  BY <1>2, <1>3, <1>7
<1>9. QED BY <1>8 DEF mid

(* Numbers a multiple of d apart have the same remainder. *)
LEMMA ModuloSame ==
    ASSUME NEW d \in Nat \ {0}, NEW x \in Int, NEW y \in Int, NEW k \in Int,
           x = y + d * k
    PROVE  x % d = y % d
<1> DEFINE r == y % d
<1>1. PICK p \in Int : r \in 0..(d - 1) /\ y = d * p + r
  BY ModuloHas
<1> HIDE DEF r
<1>2. d * p \in Int /\ d * k \in Int /\ d * (p + k) = d * p + d * k
  OBVIOUS
<1>3. x = d * (p + k) + r /\ p + k \in Int
  BY <1>1, <1>2
<1>4. x % d = r
  BY <1>1, <1>3, ModuloIs
<1>5. QED BY <1>4 DEF r

Half == 2 ^ (TimeBits - 1)

LEMMA WholeIsTwoHalves ==
    /\ Half \in Nat \ {0} /\ 2 ^ TimeBits \in Nat \ {0}
    /\ 2 ^ TimeBits = Half + Half
<1>1. TimeBits - 1 \in Nat /\ (TimeBits - 1) + 1 = TimeBits
  BY XorAssumption
<1>2. QED BY <1>1, PowerIsPositive, Doubles DEF Half

LEMMA UnsignedHas ==
    ASSUME NEW x \in Int
    PROVE  /\ Unsigned(x) \in 0..(2 ^ TimeBits - 1)
           /\ \E q \in Int : x = Unsigned(x) + 2 ^ TimeBits * q
<1> DEFINE p == 2 ^ TimeBits
           u == Unsigned(x)
<1>1. p \in Nat \ {0}
  BY WholeIsTwoHalves
<1>2. u = x % p
  BY DEF Unsigned
<1> HIDE DEF p, u
<1>3. u \in 0..(p - 1) /\ \E q \in Int : x = p * q + u
  BY <1>1, <1>2, ModuloHas
<1>4. PICK q \in Int : x = p * q + u
  BY <1>3
<1>5. p * q \in Int /\ u \in Int
  BY <1>1, <1>3
<1>6. x = u + p * q
  BY <1>4, <1>5
<1>7. QED BY <1>3, <1>6 DEF p, u

LEMMA UnsignedSame ==
    ASSUME NEW x \in Int, NEW y \in 0..(2 ^ TimeBits - 1), NEW k \in Int,
           x = y + 2 ^ TimeBits * k
    PROVE  Unsigned(x) = y
<1> DEFINE p == 2 ^ TimeBits
<1>1. p \in Nat \ {0}
  BY WholeIsTwoHalves
<1>2. y \in 0..(p - 1) /\ x = y + p * k
  OBVIOUS
<1>3. Unsigned(x) = x % p
  BY DEF Unsigned
<1> HIDE DEF p
<1>4. p * k \in Int
  BY <1>1
<1>5. x = p * k + y
  BY <1>2, <1>4
<1>6. x % p = y
  BY <1>1, <1>2, <1>5, ModuloIs
<1>7. QED BY <1>3, <1>6

LEMMA SignedHas ==
    ASSUME NEW x \in Int
    PROVE  /\ Signed(x) \in Int /\ -Half <= Signed(x) /\ Signed(x) < Half
           /\ \E q \in Int : x = Signed(x) + 2 ^ TimeBits * q
<1> DEFINE p == 2 ^ TimeBits
           h == Half
           u == Unsigned(x)
<1>1. p \in Nat \ {0} /\ h \in Nat \ {0} /\ p = h + h
  BY WholeIsTwoHalves
<1>2. PICK q \in Int : u \in 0..(p - 1) /\ x = u + p * q
  BY UnsignedHas
<1>3. Signed(x) = IF u >= h THEN u - p ELSE u
  BY DEF Signed, Half
<1> HIDE DEF p, h, u
<1>4. p * q \in Int /\ p * (q + 1) = p * q + p /\ q + 1 \in Int
  BY <1>1
<1>5. CASE u >= h
  <2>1. Signed(x) = u - p
    BY <1>3, <1>5
  <2>2. Signed(x) \in Int /\ -h <= Signed(x) /\ Signed(x) < h
    BY <1>1, <1>2, <1>5, <2>1
  <2>3. x = Signed(x) + p * (q + 1)
    BY <1>1, <1>2, <1>4, <2>1
  <2>4. QED BY <1>4, <2>2, <2>3 DEF p, h
<1>6. CASE ~(u >= h)
  <2>1. Signed(x) = u
    BY <1>3, <1>6
  <2>2. Signed(x) \in Int /\ -h <= Signed(x) /\ Signed(x) < h
    BY <1>1, <1>2, <1>6, <2>1
  <2>3. x = Signed(x) + p * q
    BY <1>2, <2>1
  <2>4. QED BY <2>2, <2>3 DEF p, h
<1>7. QED BY <1>5, <1>6

(* A number of a signed range is what its bits say. *)
LEMMA SignedSame ==
    ASSUME NEW x \in Int, -Half <= x, x < Half
    PROVE  Signed(Unsigned(x)) = x
<1> DEFINE p == 2 ^ TimeBits
           h == Half
           u == Unsigned(x)
           s == Signed(u)
<1>1. p \in Nat \ {0} /\ h \in Nat \ {0} /\ p = h + h /\ -h <= x /\ x < h
  BY WholeIsTwoHalves
<1>2. PICK q \in Int : u \in 0..(p - 1) /\ x = u + p * q
  BY UnsignedHas
<1>3. u \in Int
  BY <1>1, <1>2
<1>4. PICK k \in Int : s \in Int /\ -h <= s /\ s < h /\ u = s + p * k
  BY <1>3, SignedHas
<1> HIDE DEF p, h, u, s
<1>5. /\ p * q \in Int /\ p * k \in Int /\ p * (q + k) = p * q + p * k
      /\ -(q + k) \in Int /\ p * (-(q + k)) = -(p * q + p * k) /\ q + k \in Int
  BY <1>1
<1>6. x - s = p * (q + k) /\ s - x = p * (-(q + k))
  BY <1>2, <1>4, <1>5
<1>7. x - s < p /\ s - x < p
  BY <1>1, <1>4
<1>8. ~(q + k >= 1) /\ ~(-(q + k) >= 1)
  BY <1>1, <1>4, <1>5, <1>6, <1>7, ProductIsLarge
<1>9. q + k = 0
  BY <1>5, <1>8
<1>10. x - s = 0
  BY <1>1, <1>6, <1>9
<1>11. s = x
  BY <1>4, <1>10
<1>12. QED BY <1>11 DEF s, u

(* A time is the last one and its distance from it. *)
LEMMA TimeFrom ==
    ASSUME NEW a \in Int, NEW b \in 0..(2 ^ TimeBits - 1)
    PROVE  /\ Unsigned(b - a) \in 0..(2 ^ TimeBits - 1)
           /\ Unsigned(a + Unsigned(b - a)) = b
<1> DEFINE p == 2 ^ TimeBits
           u == Unsigned(b - a)
<1>1. p \in Nat \ {0} /\ b \in Int /\ b - a \in Int
  BY WholeIsTwoHalves
<1>2. PICK q \in Int : u \in 0..(p - 1) /\ b - a = u + p * q
  BY <1>1, UnsignedHas
<1>3. b \in 0..(p - 1)
  OBVIOUS
<1> HIDE DEF p, u
<1>4. -q \in Int /\ p * q \in Int /\ p * (-q) = -(p * q) /\ u \in Int
  BY <1>1, <1>2
<1>5. a + u \in Int /\ a + u = b + p * (-q)
  BY <1>1, <1>2, <1>4
<1>6. Unsigned(a + u) = b
  BY <1>3, <1>4, <1>5, UnsignedSame DEF p
<1>7. QED BY <1>2, <1>6 DEF p, u

(* A distance is the last one and the difference, taken as a signed one. *)
LEMMA DistanceFrom ==
    ASSUME NEW d \in Int, NEW e \in 0..(2 ^ TimeBits - 1)
    PROVE  /\ Signed(e - d) \in Int /\ -Half <= Signed(e - d) /\ Signed(e - d) < Half
           /\ Unsigned(d + Signed(e - d)) = e
<1> DEFINE p == 2 ^ TimeBits
           s == Signed(e - d)
<1>1. p \in Nat \ {0} /\ e \in Int /\ e - d \in Int
  BY WholeIsTwoHalves
<1>2. PICK q \in Int : s \in Int /\ -Half <= s /\ s < Half /\ e - d = s + p * q
  BY <1>1, SignedHas
<1>3. e \in 0..(p - 1)
  OBVIOUS
<1> HIDE DEF p, s
<1>4. -q \in Int /\ p * q \in Int /\ p * (-q) = -(p * q)
  BY <1>1
<1>5. d + s \in Int /\ d + s = e + p * (-q)
  BY <1>1, <1>2, <1>4
<1>6. Unsigned(d + s) = e
  BY <1>3, <1>4, <1>5, UnsignedSame DEF p
<1>7. QED BY <1>2, <1>6 DEF s

-----------------------------------------------------------------------------
(* The pieces a stream is made of. *)

LEMMA OneElement == \A x : IsList(<<x>>) /\ Len(<<x>>) = 1 /\ <<x>>[1] = x
<1> SUFFICES ASSUME NEW x PROVE IsList(<<x>>) /\ Len(<<x>>) = 1 /\ <<x>>[1] = x
  OBVIOUS
<1> DEFINE s == <<x>>
<1>1. Len(s) = 1 /\ s[1] = x /\ s \in Seq({x})
  OBVIOUS
<1> HIDE DEF s
<1>2. IsList(s)
  BY <1>1 DEF IsList
<1>3. QED BY <1>1, <1>2 DEF s

LEMMA OnesList ==
    ASSUME NEW n \in Nat
    PROVE  /\ IsList(Ones(n)) /\ Len(Ones(n)) = n
           /\ \A i \in 1..n : Ones(n)[i] = 1
<1> DEFINE s == Ones(n)
<1>1. s = [i \in 1..n |-> s[i]] /\ \A i \in 1..n : s[i] = 1
  BY DEF Ones
<1> HIDE DEF s
<1>2. Len(s) = n
  BY <1>1, ListOf
<1>3. IsList(s)
  BY <1>1, <1>2 DEF IsList
<1>4. QED BY <1>1, <1>2, <1>3 DEF s

LEMMA ZerosList ==
    ASSUME NEW n \in Nat
    PROVE  /\ IsList(Zeros(n)) /\ Len(Zeros(n)) = n
           /\ \A i \in 1..n : Zeros(n)[i] = 0
<1> DEFINE s == Zeros(n)
<1>1. s = [i \in 1..n |-> s[i]] /\ \A i \in 1..n : s[i] = 0
  BY DEF Zeros
<1> HIDE DEF s
<1>2. Len(s) = n
  BY <1>1, ListOf
<1>3. IsList(s)
  BY <1>1, <1>2 DEF IsList
<1>4. QED BY <1>1, <1>2, <1>3 DEF s

LEMMA NothingJoins ==
    ASSUME NEW a, NEW z, IsList(a), IsList(z), Len(a) = 0
    PROVE  Join(a, z) = z
<1> DEFINE s == Join(a, z)
<1>1. Len(z) \in Nat
  BY DEF IsList
<1>2. /\ IsList(s) /\ Len(s) = 0 + Len(z)
      /\ \A i \in 1..(0 + Len(z)) : s[i] = IF i <= 0 THEN a[i] ELSE z[i - 0]
  BY ListsJoined
<1> DEFINE mid == Len(z)
<1>3. Len(s) = mid /\ mid \in Nat /\ \A i \in 1..(0 + mid) : s[i] = IF i <= 0 THEN a[i] ELSE z[i - 0]
  BY <1>1, <1>2
<1> HIDE DEF s, mid
<1>4. \A i \in 1..mid : i \in 1..(0 + mid) /\ ~(i <= 0) /\ i - 0 = i
  BY <1>3
<1>5. \A i \in 1..mid : s[i] = z[i]
  BY <1>3, <1>4
<1>6. s = z
  BY <1>2, <1>3, <1>5, SameList DEF mid
<1>7. QED BY <1>6 DEF s

(* A field behind what was read already. *)
LEMMA FieldReads ==
    \A p, w, z, s : IsList(p) /\ IsList(w) /\ IsList(z) /\ s = Join(Join(p, w), z) =>
        /\ IsList(s) /\ s = Join(p, Join(w, z))
        /\ readBits(Rest(s, Len(p)), Len(w)) = w
        /\ Rest(s, Len(p) + Len(w)) = z
<1> SUFFICES ASSUME NEW p, NEW w, NEW z, NEW s, IsList(p), IsList(w), IsList(z),
                    s = Join(Join(p, w), z)
             PROVE  /\ IsList(s) /\ s = Join(p, Join(w, z))
                    /\ readBits(Rest(s, Len(p)), Len(w)) = w
                    /\ Rest(s, Len(p) + Len(w)) = z
  OBVIOUS
<1> DEFINE wz == Join(w, z)
           pw == Join(p, w)
<1>1. IsList(wz) /\ readBits(wz, Len(w)) = w
  BY ReadsFront
<1>2. IsList(pw) /\ Len(pw) = Len(p) + Len(w)
  BY ListsJoined
<1>3. s = Join(p, wz)
  BY JoinsAgain
<1>4. s = Join(pw, z)
  OBVIOUS
<1> HIDE DEF wz, pw
<1>5. IsList(s) /\ Rest(s, Len(p) + Len(w)) = z
  BY <1>2, <1>4, ReadsFront
<1>6. Rest(s, Len(p)) = wz
  BY <1>1, <1>3, ReadsFront
<1>7. QED BY <1>1, <1>3, <1>5, <1>6 DEF wz

(* The ones a list begins with are the longest prefix of ones. *)
LEMMA PrefixIs ==
    ASSUME NEW s, IsList(s), NEW k \in Nat, NEW i \in 0..k, i <= Len(s),
           \A j \in 1..i : s[j] = 1,
           i = k \/ (i + 1 <= Len(s) /\ s[i + 1] = 0)
    PROVE  Max({n \in 0..k : IsPrefix(Ones(n), s)}) = i
<1> DEFINE l == Len(s)
<1>1. l \in Nat /\ i <= l /\ i \in Nat
  BY DEF IsList
<1> HIDE DEF l
<1>2. ASSUME NEW n \in Nat, n <= l
      PROVE  IsPrefix(Ones(n), s) <=> \A j \in 1..n : s[j] = 1
  <2> DEFINE o == Ones(n)
             x == SubSeq(o, 0 + 1, 0 + n)
             y == SubSeq(s, 0 + 1, 0 + n)
  <2>1. IsList(o) /\ Len(o) = n /\ \A j \in 1..n : o[j] = 1
    BY OnesList
  <2> HIDE DEF o
  <2>2. 0 \in Nat /\ 0 + n <= n /\ 0 + n <= l /\ \A j \in 1..n : 0 + j = j
    BY <1>2
  <2>3. IsList(x) /\ Len(x) = n /\ \A j \in 1..n : x[j] = o[0 + j]
    BY <2>1, <2>2, Slice, SliceHas
  <2>4. IsList(y) /\ Len(y) = n /\ \A j \in 1..n : y[j] = s[0 + j]
    BY <2>2, Slice, SliceHas DEF l
  <2>5. IsPrefix(o, s) <=> x = y
    <3>1. 0 + 1 = 1 /\ 0 + n = n
      OBVIOUS
    <3>2. QED BY <1>2, <2>1, <3>1 DEF IsPrefix, l
  <2> HIDE DEF x, y
  <2>6. x = y <=> \A j \in 1..n : x[j] = y[j]
    BY <2>3, <2>4, SameList
  <2>7. QED BY <2>1, <2>2, <2>3, <2>4, <2>5, <2>6 DEF o
<1> DEFINE T == {n \in 0..k : IsPrefix(Ones(n), s)}
<1>3. i \in T
  BY <1>1, <1>2
<1>4. ASSUME NEW n \in T PROVE n <= i
  <2> SUFFICES ASSUME ~(n <= i) PROVE FALSE
    OBVIOUS
  <2>1. n \in Nat /\ n <= k /\ i + 1 \in 1..n /\ i # k
    BY <1>1
  <2>2. n <= l
    <3>1. Len(Ones(n)) <= Len(s)
      BY DEF IsPrefix
    <3>2. QED BY <2>1, <3>1, OnesList DEF l
  <2>3. s[i + 1] = 1
    BY <1>2, <2>1, <2>2
  <2>4. QED BY <2>1, <2>3
<1>5. T \in SUBSET Nat
  OBVIOUS
<1> HIDE DEF T
<1>6. Max(T) = i
  BY <1>3, <1>4, <1>5, HighestOf
<1>7. QED BY <1>6 DEF T

LEMMA LowestIn ==
    ASSUME NEW n \in Nat, NEW T \in SUBSET (1..n), T # {}
    PROVE  Min(T) \in T /\ \A x \in T : Min(T) <= x
<1> DEFINE S == {n - x : x \in T}
<1>1. S \in SUBSET Nat /\ S # {} /\ \A y \in S : y <= n
  <2>1. \A x \in T : n - x \in Nat /\ n - x <= n
    OBVIOUS
  <2>2. PICK x \in T : n - x \in S
    OBVIOUS
  <2>3. QED BY <2>1, <2>2
<1>2. PICK y \in S : \A w \in S : w <= y
  <2> HIDE DEF S
  <2>1. QED BY <1>1, HasHighest
<1>3. PICK x \in T : y = n - x
  OBVIOUS
<1>4. \A w \in T : x <= w
  BY <1>2, <1>3
<1>5. QED BY <1>4 DEF Min

-----------------------------------------------------------------------------
(* A difference of distances reads back. *)

FieldCount == Len(Fields)

LEMMA FieldsHave ==
    /\ FieldCount \in Nat /\ DOMAIN Fields = 1..FieldCount
    /\ \A i \in 1..FieldCount : Fields[i] \in Nat /\ Fields[i] # 0 /\ Fields[i] < TimeBits
BY XorAssumption DEF FieldCount

LEMMA NoDodReads ==
    ASSUME NEW it, NEW z, IsList(z), it.stream = Join(<< 0 >>, z)
    PROVE  readDod(it) = [dod |-> 0, rest |-> z]
<1> DEFINE s == it.stream
           k == FieldCount + 1
           p == << 0 >>
           w == writeBits(0, 0)
<1>1. IsList(p) /\ Len(p) = 1 /\ p[1] = 0
  BY OneElement
<1>2. IsList(w) /\ Len(w) = 0 /\ 0 \in Nat
  BY BitsReadBack
<1> HIDE DEF p
<1>3. Join(Join(p, w), z) = s
  <2> HIDE DEF w
  <2>1. Join(w, z) = z
    BY <1>2, NothingJoins
  <2>2. QED BY <1>1, <1>2, <2>1, JoinsAgain DEF p
<1>4. IsList(s) /\ Number(readBits(Rest(s, 1), 0)) = 0 % 2 ^ 0 /\ Rest(s, 1 + 0) = z
  <2>1. Number(w) = 0 % 2 ^ 0
    BY BitsReadBack
  <2> HIDE DEF s, w
  <2>2. IsList(p) /\ IsList(w) /\ s = Join(Join(p, w), z)
    BY <1>1, <1>2, <1>3
  <2>3. /\ IsList(s) /\ readBits(Rest(s, Len(p)), Len(w)) = w
        /\ Rest(s, Len(p) + Len(w)) = z
    BY ONLY <2>2, IsList(z), FieldReads
  <2>4. QED BY <1>1, <1>2, <2>1, <2>3
<1>5. s[1] = 0 /\ 1 <= Len(s)
  <2>1. Len(z) \in Nat
    BY DEF IsList
  <2> DEFINE l == Len(z)
  <2>2. s = Join(p, z) /\ l \in Nat
    BY <2>1 DEF p
  <2> HIDE DEF s
  <2>3. Len(s) = Len(p) + Len(z)
        /\ \A i \in 1..(Len(p) + Len(z)) : s[i] = IF i <= Len(p) THEN p[i] ELSE z[i - Len(p)]
    BY <1>1, <2>2, ListsJoined
  <2>4. Len(s) = 1 + l
        /\ \A i \in 1..(1 + l) : s[i] = IF i <= 1 THEN p[i] ELSE z[i - 1]
    BY <1>1, <2>3
  <2> HIDE DEF l
  <2>5. 1 \in 1..(1 + l) /\ 1 <= 1 + l
    BY <2>2
  <2>6. QED BY <1>1, <2>4, <2>5
<1> HIDE DEF s, w
<1>6. Max({n \in 0..k : IsPrefix(Ones(n), s)}) = 0
  <2>1. k \in Nat /\ 0 \in 0..k /\ 0 <= Len(s) /\ 0 + 1 <= Len(s) /\ s[0 + 1] = 0
        /\ \A j \in 1..0 : s[j] = 1
    BY <1>4, <1>5, FieldsHave DEF IsList
  <2> HIDE DEF k
  <2>2. QED BY <1>4, <2>1, PrefixIs
<1>7. 0 % 2 ^ 0 = 0 /\ 1 + 0 = 1 /\ 0 + 1 = 1 /\ 0 + 1 + 0 = 1 /\ k # 0
  <2>1. 2 ^ 0 = 1
    OBVIOUS
  <2>2. QED BY <2>1, FieldsHave
<1>8. QED BY <1>4, <1>6, <1>7 DEF readDod, s, FieldCount

LEMMA FieldDodReads ==
    ASSUME NEW i \in 1..FieldCount, NEW dod \in Int, bitRange(dod, Fields[i]),
           NEW it, NEW z, IsList(z),
           it.stream = Join(Join(Join(Ones(i), << 0 >>), writeBits(Unsigned(dod), Fields[i])), z)
    PROVE  readDod(it) = [dod |-> dod, rest |-> z]
<1> DEFINE s == it.stream
           k == FieldCount + 1
           o == Ones(i)
           zero == << 0 >>
           p == Join(o, zero)
           f == Fields[i]
           u == Unsigned(dod)
           g == 2 ^ (f - 1)
           w == 2 ^ f
           b == u % w
<1>1. i \in Nat /\ k \in Nat /\ i \in 0..k /\ i # k /\ i # 0
  BY FieldsHave
<1>2. f \in Nat /\ f # 0 /\ f - 1 \in Nat /\ (f - 1) + 1 = f /\ TimeBits - f \in Nat
      /\ f + (TimeBits - f) = TimeBits
  BY FieldsHave, XorAssumption
<1>3. IsList(o) /\ Len(o) = i /\ \A j \in 1..i : o[j] = 1
  BY <1>1, OnesList
<1>4. IsList(zero) /\ Len(zero) = 1 /\ zero[1] = 0
  BY OneElement
<1> HIDE DEF o, zero
<1>5. IsList(p) /\ Len(p) = i + 1
      /\ \A j \in 1..(i + 1) : p[j] = IF j <= i THEN o[j] ELSE zero[j - i]
  <2>1. /\ IsList(p) /\ Len(p) = Len(o) + Len(zero)
        /\ \A j \in 1..(Len(o) + Len(zero)) :
              p[j] = IF j <= Len(o) THEN o[j] ELSE zero[j - Len(o)]
    BY <1>3, <1>4, ListsJoined
  <2> HIDE DEF p
  <2>2. QED BY <1>3, <1>4, <2>1
<1> HIDE DEF p
<1>6. u \in 0..(2 ^ TimeBits - 1) /\ \E q \in Int : dod = u + 2 ^ TimeBits * q
  BY UnsignedHas
<1>7. u \in Nat
  BY <1>6, WholeIsTwoHalves
<1> HIDE DEF u, f
<1>8. /\ IsList(s) /\ s = Join(p, Join(writeBits(u, f), z))
      /\ Number(readBits(Rest(s, i + 1), f)) = b
      /\ Rest(s, (i + 1) + f) = z
  <2>1. s = Join(Join(p, writeBits(u, f)), z)
    BY DEF p, o, zero, u, f
  <2> DEFINE v == writeBits(u, f)
  <2>2. IsList(v) /\ Len(v) = f /\ Number(v) = b
    BY <1>2, <1>7, BitsReadBack
  <2>3. s = Join(Join(p, v), z)
    BY <2>1
  <2> HIDE DEF s, v, b
  <2>4. /\ IsList(s) /\ s = Join(p, Join(v, z))
        /\ readBits(Rest(s, Len(p)), Len(v)) = v
        /\ Rest(s, Len(p) + Len(v)) = z
    BY <1>5, <2>2, <2>3, FieldReads
  <2>5. QED BY <1>5, <2>2, <2>4 DEF v
<1> HIDE DEF s
<1>9. /\ i + 1 <= Len(s) /\ s[i + 1] = 0
      /\ \A j \in 1..i : s[j] = 1
  <2> DEFINE r == Join(writeBits(u, f), z)
             l == Len(r)
  <2>1. IsList(r) /\ l \in Nat
    <3>1. IsList(writeBits(u, f))
      BY <1>2, <1>7, BitsReadBack
    <3>2. IsList(r)
      BY <3>1, ListsJoined
    <3> HIDE DEF r
    <3>3. QED BY <3>2 DEF IsList
  <2>2. Len(s) = (i + 1) + Len(r)
        /\ \A j \in 1..((i + 1) + Len(r)) : s[j] = IF j <= i + 1 THEN p[j] ELSE r[j - (i + 1)]
    <3> HIDE DEF r
    <3>1. s = Join(p, r)
      BY <1>8 DEF r
    <3>2. QED BY <1>5, <2>1, <3>1, ListsJoined
  <2>3. Len(s) = (i + 1) + l
        /\ \A j \in 1..((i + 1) + l) : s[j] = IF j <= i + 1 THEN p[j] ELSE r[j - (i + 1)]
    BY <2>2
  <2> HIDE DEF r, l
  <2>4. \A j \in 1..(i + 1) : j \in 1..((i + 1) + l) /\ j <= i + 1 /\ s[j] = p[j]
    BY <1>1, <2>1, <2>3
  <2>5. /\ i + 1 \in 1..(i + 1) /\ ~(i + 1 <= i) /\ (i + 1) - i = 1
        /\ \A j \in 1..i : j \in 1..(i + 1) /\ j <= i
    BY <1>1
  <2>6. s[i + 1] = 0
    BY <1>4, <1>5, <2>4, <2>5
  <2>7. \A j \in 1..i : s[j] = 1
    BY <1>3, <1>5, <2>4, <2>5
  <2>8. i + 1 <= Len(s)
    BY <1>1, <2>1, <2>3
  <2>9. QED BY <2>6, <2>7, <2>8
<1>10. Max({n \in 0..k : IsPrefix(Ones(n), s)}) = i
  <2>1. i <= Len(s)
    BY <1>1, <1>8, <1>9 DEF IsList
  <2> HIDE DEF k
  <2>2. QED BY <1>1, <1>8, <1>9, <2>1, PrefixIs
<1>11. g \in Nat \ {0} /\ w \in Nat \ {0} /\ w = g + g
  BY <1>2, PowerIsPositive, Doubles
<1>12. -(g - 1) <= dod /\ dod <= g
  BY DEF bitRange, f
<1>13. b = dod % w
  <2> DEFINE e == 2 ^ (TimeBits - f)
             t == 2 ^ TimeBits
  <2>1. e \in Nat \ {0} /\ t = w * e
    <3>1. 2 ^ (f + (TimeBits - f)) = 2 ^ f * 2 ^ (TimeBits - f)
      BY <1>2, PowersMultiply
    <3>2. QED BY <1>2, <3>1, PowerIsPositive
  <2>2. PICK q \in Int : dod = u + t * q
    BY <1>6
  <2> HIDE DEF e, t, w
  <2>3. -(e * q) \in Int /\ t * q = w * (e * q) /\ w * (-(e * q)) = -(w * (e * q))
        /\ w * (e * q) \in Int
    <3>1. (w * e) * q = w * (e * q)
      BY <1>11, <2>1
    <3> DEFINE y == e * q
    <3>2. y \in Int
      BY <2>1
    <3> HIDE DEF y
    <3>3. w * (-y) = -(w * y) /\ w * y \in Int /\ -y \in Int
      BY <1>11, <3>2
    <3>4. QED BY <2>1, <3>1, <3>3 DEF y
  <2>4. u = dod + w * (-(e * q))
    BY <1>7, <2>2, <2>3
  <2> DEFINE y == -(e * q)
  <2>5. y \in Int /\ u = dod + w * y /\ u \in Int /\ w \in Nat \ {0}
    BY <1>7, <1>11, <2>3, <2>4
  <2> HIDE DEF y
  <2>6. u % w = dod % w
    BY ONLY <2>5, dod \in Int, ModuloSame
  <2>7. QED BY <2>6
<1> HIDE DEF g, w, b
<1>14. (IF f # 0 /\ b > g THEN b - w ELSE b) = dod
  <2>1. CASE dod >= 0
    <3>1. dod \in 0..(w - 1) /\ 0 \in Int /\ dod = w * 0 + dod
      BY <1>11, <1>12, <2>1
    <3>2. b = dod
      BY <1>11, <1>13, <3>1, ModuloIs
    <3>3. QED BY <1>11, <1>12, <3>2
  <2>2. CASE ~(dod >= 0)
    <3>1. dod + w \in 0..(w - 1) /\ -1 \in Int /\ dod = w * (-1) + (dod + w)
      BY <1>11, <1>12, <2>2
    <3>2. b = dod + w
      BY <1>11, <1>13, <3>1, ModuloIs
    <3>3. b > g /\ b - w = dod
      BY <1>11, <1>12, <3>2
    <3>4. QED BY <1>2, <3>3
  <2>3. QED BY <2>1, <2>2
<1>15. readDod(it) = [dod |-> (IF f # 0 /\ b > g THEN b - w ELSE b), rest |-> z]
  BY <1>1, <1>8, <1>10 DEF readDod, s, k, f, b, g, w, FieldCount
<1>16. QED BY <1>14, <1>15

LEMMA WholeDodReads ==
    ASSUME NEW dod \in Int, -Half <= dod, dod < Half, NEW it, NEW z, IsList(z),
           it.stream = Join(Join(Ones(FieldCount + 1), writeBits(Unsigned(dod), TimeBits)), z)
    PROVE  readDod(it) = [dod |-> dod, rest |-> z]
<1> DEFINE s == it.stream
           k == FieldCount + 1
           o == Ones(k)
           u == Unsigned(dod)
           r == Join(writeBits(u, TimeBits), z)
           l == Len(r)
<1>1. k \in Nat /\ k \in 0..k /\ TimeBits \in Nat
  BY FieldsHave, XorAssumption
<1> HIDE DEF k
<1>2. IsList(o) /\ Len(o) = k /\ \A j \in 1..k : o[j] = 1
  BY <1>1, OnesList
<1>3. u \in 0..(2 ^ TimeBits - 1)
  BY UnsignedHas
<1>4. u \in Nat
  BY <1>3, WholeIsTwoHalves
<1> HIDE DEF o, u
<1>5. /\ IsList(s) /\ s = Join(o, r)
      /\ Number(readBits(Rest(s, k), TimeBits)) = u % 2 ^ TimeBits
      /\ Rest(s, k + TimeBits) = z
  <2>1. s = Join(Join(o, writeBits(u, TimeBits)), z)
    BY DEF o, u, k
  <2> DEFINE v == writeBits(u, TimeBits)
  <2>2. IsList(v) /\ Len(v) = TimeBits /\ Number(v) = u % 2 ^ TimeBits
    BY <1>1, <1>4, BitsReadBack
  <2>3. s = Join(Join(o, v), z) /\ r = Join(v, z)
    BY <2>1
  <2> HIDE DEF s, v, r
  <2>4. /\ IsList(s) /\ s = Join(o, Join(v, z))
        /\ readBits(Rest(s, Len(o)), Len(v)) = v
        /\ Rest(s, Len(o) + Len(v)) = z
    BY <1>2, <2>2, <2>3, FieldReads
  <2>5. QED BY <1>2, <2>2, <2>3, <2>4
<1>6. u % 2 ^ TimeBits = u
  <2> DEFINE p == 2 ^ TimeBits
  <2>1. p \in Nat \ {0} /\ u \in 0..(p - 1)
    BY <1>3, WholeIsTwoHalves
  <2> HIDE DEF p
  <2>2. 0 \in Int /\ u = p * 0 + u
    BY <1>4, <2>1
  <2>3. u % p = u
    BY <1>4, <2>1, <2>2, ModuloIs
  <2>4. QED BY <2>3 DEF p
<1>7. IsList(r) /\ l \in Nat
  <2>1. IsList(writeBits(u, TimeBits))
    BY <1>1, <1>4, BitsReadBack
  <2>2. IsList(r)
    BY <2>1, ListsJoined
  <2> HIDE DEF r
  <2>3. QED BY <2>2 DEF IsList
<1> HIDE DEF s
<1>8. k <= Len(s) /\ \A j \in 1..k : s[j] = 1
  <2> HIDE DEF r
  <2>1. Len(s) = k + Len(r)
        /\ \A j \in 1..(k + Len(r)) : s[j] = IF j <= k THEN o[j] ELSE r[j - k]
    BY <1>2, <1>5, <1>7, ListsJoined
  <2>2. Len(s) = k + l
        /\ \A j \in 1..(k + l) : s[j] = IF j <= k THEN o[j] ELSE r[j - k]
    BY <2>1
  <2> HIDE DEF l
  <2>3. \A j \in 1..k : j \in 1..(k + l) /\ j <= k
    BY <1>1, <1>7
  <2>4. k <= Len(s)
    BY <1>1, <1>7, <2>2
  <2>5. QED BY <1>2, <2>2, <2>3, <2>4
<1>9. Max({n \in 0..k : IsPrefix(Ones(n), s)}) = k
  BY <1>1, <1>5, <1>8, PrefixIs
<1>10. readDod(it) = [dod |-> Signed(Number(readBits(Rest(s, k), TimeBits))),
                      rest |-> Rest(s, k + TimeBits)]
  BY <1>9 DEF readDod, s, k, FieldCount
<1>11. Signed(u) = dod
  BY SignedSame DEF u
<1>12. QED BY <1>5, <1>6, <1>10, <1>11

LEMMA DodReadsBack ==
    ASSUME NEW dod \in Int, -Half <= dod, dod < Half
    PROVE  /\ IsList(writeDod(dod))
           /\ \A it, z : IsList(z) /\ it.stream = Join(writeDod(dod), z)
                           => readDod(it) = [dod |-> dod, rest |-> z]
<1> DEFINE fit == {i \in DOMAIN Fields : bitRange(dod, Fields[i])}
           u == Unsigned(dod)
<1>1. u \in Nat
  <2>1. u \in 0..(2 ^ TimeBits - 1)
    BY UnsignedHas
  <2>2. QED BY <2>1, WholeIsTwoHalves
<1>2. CASE dod = 0
  <2>1. writeDod(dod) = <<0>>
    BY <1>2 DEF writeDod
  <2>2. QED BY <1>2, <2>1, OneElement, NoDodReads
<1>3. CASE dod # 0 /\ fit = {}
  <2> DEFINE o == Ones(FieldCount + 1)
             w == writeBits(u, TimeBits)
  <2>1. writeDod(dod) = Join(o, w)
    BY <1>3 DEF writeDod, Join, FieldCount
  <2>2. IsList(Join(o, w))
    <3>1. IsList(o) /\ IsList(w)
      BY <1>1, FieldsHave, XorAssumption, OnesList, BitsReadBack
    <3> HIDE DEF o, w
    <3>2. QED BY <3>1, ListsJoined
  <2>3. \A it, z : IsList(z) /\ it.stream = Join(Join(o, w), z)
                     => readDod(it) = [dod |-> dod, rest |-> z]
    BY WholeDodReads
  <2> HIDE DEF o, w
  <2>4. QED BY <2>1, <2>2, <2>3
<1>4. CASE dod # 0 /\ fit # {}
  <2> DEFINE i == Min(fit)
             o == Ones(i)
             zero == <<0>>
             w == writeBits(u, Fields[i])
  <2>1. i \in 1..FieldCount /\ bitRange(dod, Fields[i])
    <3>1. fit \in SUBSET (1..FieldCount) /\ FieldCount \in Nat /\ fit # {}
      BY <1>4, FieldsHave
    <3>2. Min(fit) \in fit
      <4> HIDE DEF fit
      <4>1. QED BY <3>1, LowestIn
    <3>3. QED BY <3>1, <3>2
  <2>2. writeDod(dod) = Join(Join(o, zero), w)
    BY <1>4 DEF writeDod, Join
  <2> HIDE DEF i, fit
  <2>3. IsList(Join(Join(o, zero), w))
    <3>1. IsList(o) /\ IsList(w) /\ IsList(zero)
      BY <1>1, <2>1, FieldsHave, OnesList, BitsReadBack, OneElement
    <3> HIDE DEF o, w, zero
    <3>2. QED BY <3>1, ListsJoined
  <2>4. \A it, z : IsList(z) /\ it.stream = Join(Join(Join(o, zero), w), z)
                     => readDod(it) = [dod |-> dod, rest |-> z]
    BY <2>1, FieldDodReads
  <2> HIDE DEF o, w, zero
  <2>5. QED BY <2>2, <2>3, <2>4
<1>5. QED BY <1>2, <1>3, <1>4

-----------------------------------------------------------------------------
(* A value reads back. *)

Values == [1..ValueBits -> {0, 1}]

(* A window leaves out l bits in front and r at the end. *)
WindowOK(l, r) == l \in Nat /\ r \in Nat /\ l + r < ValueBits

(* An iterator with z left of the stream. *)
At(z, k, t, v, d, l, r) ==
    [stream |-> z, numRead |-> k, t |-> t, v |-> v, tDelta |-> d,
     leading |-> l, trailing |-> r]

LEMMA WidthsHave ==
    /\ LeadingBits \in Nat /\ SigBits \in Nat /\ ValueBits \in Nat \ {0}
    /\ 2 ^ LeadingBits \in Nat \ {0} /\ 2 ^ LeadingBits <= ValueBits
    /\ 2 ^ SigBits = ValueBits
<1>1. LeadingBits \in Nat /\ SigBits \in Nat
  BY XorAssumption
<1> DEFINE p == 2 ^ LeadingBits
           q == 2 ^ SigBits
<1>2. p \in Nat \ {0} /\ q \in Nat \ {0} /\ q = ValueBits /\ 2 * p = ValueBits
  BY <1>1, PowerIsPositive, XorAssumption
<1> HIDE DEF p, q
<1>3. p <= ValueBits
  BY <1>2
<1>4. QED BY <1>1, <1>2, <1>3 DEF p, q

LEMMA TwoElements ==
    \A x, y : IsList(<<x, y>>) /\ Len(<<x, y>>) = 2 /\ <<x, y>>[1] = x /\ <<x, y>>[2] = y
<1> SUFFICES ASSUME NEW x, NEW y
             PROVE  IsList(<<x, y>>) /\ Len(<<x, y>>) = 2 /\ <<x, y>>[1] = x /\ <<x, y>>[2] = y
  OBVIOUS
<1> DEFINE s == <<x, y>>
<1>1. Len(s) = 2 /\ s[1] = x /\ s[2] = y /\ s \in Seq({x, y})
  OBVIOUS
<1> HIDE DEF s
<1>2. IsList(s)
  BY <1>1 DEF IsList
<1>3. QED BY <1>1, <1>2 DEF s

LEMMA JoinBegins ==
    \A a, z : IsList(a) /\ IsList(z) => \A i \in 1..Len(a) : Join(a, z)[i] = a[i]
BY ListsJoin DEF Join

(* A value differs from the last one in what it differs from it. *)
LEMMA DiffersTwice ==
    ASSUME NEW v \in Values, NEW w \in Values
    PROVE  Differing(v, w) \in Values /\ Differing(w, Differing(v, w)) = v
<1> DEFINE d == Differing(v, w)
<1>1. d = [i \in 1..ValueBits |-> IF v[i] = w[i] THEN 0 ELSE 1]
  BY DEF Differing
<1>2. d \in Values
  BY <1>1 DEF Values
<1> HIDE DEF d
<1>3. \A i \in 1..ValueBits : v[i] \in {0, 1} /\ w[i] \in {0, 1}
  BY DEF Values
<1>4. \A i \in 1..ValueBits : (IF w[i] = d[i] THEN 0 ELSE 1) = v[i]
  BY <1>1, <1>3
<1>5. v = [i \in 1..ValueBits |-> v[i]]
  BY DEF Values
<1>6. Differing(w, d) = v
  BY <1>4, <1>5 DEF Differing
<1>7. QED BY <1>2, <1>6 DEF d

LEMMA ValueIsList ==
    ASSUME NEW v \in Values
    PROVE  IsList(v) /\ Len(v) = ValueBits
<1>1. v = [i \in 1..ValueBits |-> v[i]] /\ ValueBits \in Nat
  BY WidthsHave DEF Values
<1>2. Len(v) = ValueBits
  BY <1>1, ListOf
<1>3. QED BY <1>1, <1>2 DEF IsList

(* What is written of a value within its window is all of it. *)
LEMMA WindowIs ==
    ASSUME NEW v \in Values, NEW l, NEW r, WindowOK(l, r),
           \A i \in 1..ValueBits : i <= l \/ i > ValueBits - r => v[i] = 0
    PROVE  LET body == SubSeq(v, l + 1, ValueBits - r)
           IN  /\ IsList(body) /\ Len(body) = ValueBits - l - r
               /\ Join(Join(Zeros(l), body), Zeros(r)) = v
<1> DEFINE n == ValueBits
           mid == n - l - r
           body == SubSeq(v, l + 1, l + mid)
           a == Zeros(l)
           b == Zeros(r)
           ab == Join(a, body)
           s == Join(ab, b)
<1>1. n \in Nat /\ l \in Nat /\ r \in Nat /\ mid \in Nat /\ l + mid = n - r /\ l + mid <= n
      /\ (l + mid) + r = n
  BY WidthsHave DEF WindowOK
<1>2. IsList(v) /\ Len(v) = n
  BY ValueIsList
<1> HIDE DEF n, mid
<1>3. IsList(body) /\ Len(body) = mid /\ \A i \in 1..mid : body[i] = v[l + i]
  BY <1>1, <1>2, Slice, SliceHas
<1>4. IsList(a) /\ Len(a) = l /\ \A i \in 1..l : a[i] = 0
  BY <1>1, ZerosList
<1>5. IsList(b) /\ Len(b) = r /\ \A i \in 1..r : b[i] = 0
  BY <1>1, ZerosList
<1> HIDE DEF body, a, b
<1>6. IsList(ab) /\ Len(ab) = l + mid
      /\ \A i \in 1..(l + mid) : ab[i] = IF i <= l THEN a[i] ELSE body[i - l]
  BY <1>3, <1>4, ListsJoined
<1> HIDE DEF ab
<1>7. IsList(s) /\ Len(s) = (l + mid) + r
      /\ \A i \in 1..((l + mid) + r) : s[i] = IF i <= l + mid THEN ab[i] ELSE b[i - (l + mid)]
  <2>1. /\ IsList(s) /\ Len(s) = Len(ab) + Len(b)
        /\ \A i \in 1..(Len(ab) + Len(b)) :
              s[i] = IF i <= Len(ab) THEN ab[i] ELSE b[i - Len(ab)]
    BY <1>5, <1>6, ListsJoined
  <2> HIDE DEF s
  <2>2. QED BY <1>5, <1>6, <2>1
<1> HIDE DEF s
<1>8. \A i \in 1..n : i <= l \/ i > n - r => v[i] = 0
  BY DEF n
<1>9. ASSUME NEW i \in 1..n PROVE s[i] = v[i]
  <2>1. CASE i <= l
    <3>1. i <= l + mid /\ i \in 1..l /\ i \in 1..(l + mid)
      BY <1>1, <2>1
    <3>2. QED BY <1>1, <1>4, <1>6, <1>7, <1>8, <2>1, <3>1
  <2>2. CASE i > l /\ i <= l + mid
    <3>1. ~(i <= l) /\ i - l \in 1..mid /\ i \in 1..(l + mid) /\ l + (i - l) = i
      BY <1>1, <2>2
    <3>2. QED BY <1>1, <1>3, <1>6, <1>7, <2>2, <3>1
  <2>3. CASE i > l + mid
    <3>1. ~(i <= l + mid) /\ i - (l + mid) \in 1..r /\ i > n - r
      BY <1>1, <2>3
    <3>2. QED BY <1>1, <1>5, <1>7, <1>8, <3>1
  <2>4. QED BY <1>1, <2>1, <2>2, <2>3
<1>10. s = v
  BY <1>1, <1>2, <1>7, <1>9, SameList
<1>11. SubSeq(v, l + 1, ValueBits - r) = body
  BY <1>1 DEF body, n
<1>12. IsList(body) /\ Len(body) = ValueBits - l - r
  BY <1>3 DEF mid, n
<1>13. QED BY <1>10, <1>11, <1>12 DEF s, ab, a, b

LEMMA SameValueReads ==
    ASSUME NEW z, IsList(z), NEW k, NEW t, NEW v, NEW d, NEW l, NEW r
    PROVE  readValue(At(Join(<<0>>, z), k, t, v, d, l, r)) = At(z, k + 1, t, v, d, l, r)
<1> DEFINE zero == <<0>>
           s == Join(zero, z)
<1>1. IsList(zero) /\ Len(zero) = 1 /\ zero[1] = 0
  BY OneElement
<1> HIDE DEF zero
<1>2. s[1] = 0
  <2>1. 1 \in 1..Len(zero)
    BY <1>1
  <2>2. QED BY <1>1, <2>1, JoinBegins
<1>3. Rest(s, 1) = z
  <2>1. Rest(s, Len(zero)) = z
    BY <1>1, ReadsFront
  <2>2. QED BY <1>1, <2>1
<1> HIDE DEF s
<1>4. readValue(At(s, k, t, v, d, l, r)) = At(z, k + 1, t, v, d, l, r)
  BY <1>2, <1>3 DEF readValue, At
<1>5. QED BY <1>4 DEF s, zero

LEMMA OldWindowReads ==
    ASSUME NEW z, IsList(z), NEW k, NEW t, NEW v, NEW d, NEW l, NEW r, WindowOK(l, r),
           NEW body, IsList(body), Len(body) = ValueBits - l - r
    PROVE  readValue(At(Join(Join(<<1, 0>>, body), z), k, t, v, d, l, r)) =
              At(z, k + 1, t, Differing(v, Join(Join(Zeros(l), body), Zeros(r))), d, l, r)
<1> DEFINE head == <<1, 0>>
           hb == Join(head, body)
           s == Join(hb, z)
           mid == ValueBits - l - r
<1>1. IsList(head) /\ Len(head) = 2 /\ head[1] = 1 /\ head[2] = 0
  BY TwoElements
<1> HIDE DEF head
<1>2. mid \in Nat /\ ValueBits - l - mid = r /\ ValueBits \in Nat
  BY WidthsHave DEF WindowOK
<1>3. /\ IsList(s) /\ s = Join(head, Join(body, z))
      /\ readBits(Rest(s, 2), mid) = body
  <2>1. IsList(head) /\ s = Join(Join(head, body), z)
    BY <1>1
  <2> HIDE DEF s, mid
  <2>2. /\ IsList(s) /\ s = Join(head, Join(body, z))
        /\ readBits(Rest(s, Len(head)), Len(body)) = body
    BY ONLY <2>1, IsList(body), IsList(z), FieldReads
  <2>3. QED BY <1>1, <2>2 DEF mid
<1>4. IsList(Join(body, z))
  BY ListsJoined
<1>5. s[1] = 1 /\ s[2] = 0
  <2>1. 1 \in 1..Len(head) /\ 2 \in 1..Len(head)
    BY <1>1
  <2> HIDE DEF s
  <2>2. s[1] = head[1] /\ s[2] = head[2]
    BY <1>1, <1>3, <1>4, <2>1, JoinBegins
  <2>3. QED BY <1>1, <2>2
<1>6. Rest(Rest(s, 2), mid) = z
  <2> HIDE DEF s
  <2>1. Rest(s, Len(head)) = Join(body, z)
    BY <1>1, <1>3, <1>4, ReadsFront
  <2>2. Rest(Join(body, z), Len(body)) = z
    BY ReadsFront
  <2>3. QED BY <1>1, <2>1, <2>2
<1> HIDE DEF s, hb
<1> DEFINE it == At(s, k, t, v, d, l, r)
           delta == Join(Join(Zeros(l), body), Zeros(r))
<1>7. it.stream = s /\ it.leading = l /\ it.trailing = r /\ it.v = v
  BY DEF At
<1>8. readValue(it) = [it EXCEPT !.stream = z, !.numRead = @ + 1,
                                 !.v = Differing(@, delta), !.leading = l, !.trailing = r]
  <2> HIDE DEF it
  <2>1. ~(s[2] = 1) /\ ~(s[1] = 0)
    BY <1>5
  <2> HIDE DEF mid
  <2>2. ValueBits - l - mid = r /\ ValueBits - l - r = mid
    BY <1>2 DEF mid
  <2>3. QED BY <1>3, <1>6, <1>7, <2>1, <2>2 DEF readValue, Join
<1>9. readValue(it) = At(z, k + 1, t, Differing(v, delta), d, l, r)
  <2> HIDE DEF delta
  <2>1. QED BY <1>8 DEF At
<1>10. QED BY <1>9 DEF s, hb, head

LEMMA NewWindowReads ==
    ASSUME NEW z, IsList(z), NEW k, NEW t, NEW v, NEW d, NEW l0, NEW r0,
           NEW l, NEW r, WindowOK(l, r), l <= 2 ^ LeadingBits - 1,
           NEW body, IsList(body), Len(body) = ValueBits - l - r
    PROVE  readValue(At(Join(Join(Join(Join(<<1, 1>>, writeBits(l, LeadingBits)),
                                       writeBits(ValueBits - l - r, SigBits)), body), z),
                        k, t, v, d, l0, r0)) =
              At(z, k + 1, t, Differing(v, Join(Join(Zeros(l), body), Zeros(r))), d, l, r)
<1> DEFINE head == <<1, 1>>
           mid == ValueBits - l - r
           a == writeBits(l, LeadingBits)
           b == writeBits(mid, SigBits)
           ha == Join(head, a)
           hb == Join(ha, b)
           hc == Join(hb, body)
           s == Join(hc, z)
           bz == Join(body, z)
           sig == Number(b)
<1>1. IsList(head) /\ Len(head) = 2 /\ head[1] = 1 /\ head[2] = 1
  BY TwoElements
<1> HIDE DEF head
<1>2. mid \in Nat /\ mid # 0 /\ mid <= ValueBits /\ ValueBits - l - mid = r /\ ValueBits \in Nat
      /\ l \in Nat
  BY WidthsHave DEF WindowOK
<1>3. IsList(a) /\ Len(a) = LeadingBits /\ Number(a) = l
  <2> DEFINE p == 2 ^ LeadingBits
  <2>1. p \in Nat \ {0} /\ LeadingBits \in Nat /\ l < p
    BY <1>2, WidthsHave
  <2>2. IsList(a) /\ Len(a) = LeadingBits /\ Number(a) = l % p
    BY <1>2, <2>1, BitsReadBack
  <2> HIDE DEF a, p
  <2>3. l % p = l
    <3>1. 0 \in Int /\ l \in 0..(p - 1) /\ l = p * 0 + l
      BY <1>2, <2>1
    <3>2. QED BY <2>1, <3>1, ModuloIs
  <2>4. QED BY <2>2, <2>3
<1>4. IsList(b) /\ Len(b) = SigBits /\ (IF sig = 0 THEN ValueBits ELSE sig) = mid
  <2> DEFINE p == 2 ^ SigBits
  <2>1. p \in Nat \ {0} /\ SigBits \in Nat /\ p = ValueBits
    BY WidthsHave
  <2>2. IsList(b) /\ Len(b) = SigBits /\ sig = mid % p
    BY <1>2, <2>1, BitsReadBack
  <2> HIDE DEF b, p, mid, sig
  <2>3. CASE mid = p
    <3>1. mid \in Int /\ 0 \in 0..(p - 1) /\ 1 \in Int /\ mid = p * 1 + 0
      BY <1>2, <2>1, <2>3
    <3>2. mid % p = 0
      BY <2>1, <3>1, ModuloIs
    <3>3. QED BY <2>1, <2>2, <2>3, <3>2
  <2>4. CASE mid # p
    <3>1. 0 \in Int /\ mid \in Int /\ mid \in 0..(p - 1) /\ mid = p * 0 + mid
      BY <1>2, <2>1, <2>4
    <3>2. mid % p = mid
      BY <2>1, <3>1, ModuloIs
    <3>3. QED BY <1>2, <2>2, <3>2
  <2>5. QED BY <2>3, <2>4
<1> HIDE DEF a, b, sig
<1>5. IsList(ha) /\ IsList(hb) /\ IsList(bz) /\ Len(ha) = 2 + LeadingBits
  <2>1. IsList(ha) /\ Len(ha) = Len(head) + Len(a)
    BY <1>1, <1>3, ListsJoined
  <2> HIDE DEF ha
  <2>2. IsList(hb) /\ IsList(bz)
    BY <1>4, <2>1, ListsJoined
  <2>3. QED BY <1>1, <1>3, <2>1, <2>2
<1>6. s = Join(hb, bz)
  <2> HIDE DEF hb
  <2>1. QED BY <1>5, JoinsAgain
<1>7. s = Join(ha, Join(b, bz)) /\ IsList(s)
  <2> HIDE DEF ha, s, bz
  <2>1. IsList(Join(hb, bz)) /\ Join(hb, bz) = Join(ha, Join(b, bz))
    BY <1>4, <1>5, JoinsAgain, ListsJoined
  <2>2. QED BY <1>6, <2>1
<1> DEFINE c == Join(b, bz)
           e == Join(a, c)
<1>8. IsList(c) /\ IsList(e)
  <2> HIDE DEF bz
  <2>1. IsList(c)
    BY <1>4, <1>5, ListsJoined
  <2> HIDE DEF c
  <2>2. QED BY <1>3, <2>1, ListsJoined
<1> HIDE DEF bz, hb, hc
<1>9. s = Join(head, e)
  <2> HIDE DEF c, s
  <2>1. s = Join(ha, c)
    BY <1>7 DEF c
  <2>2. QED BY <1>1, <1>3, <1>8, <2>1, JoinsAgain
<1> HIDE DEF s, c, e, ha
<1>10. s[1] = 1 /\ s[2] = 1
  <2>1. 1 \in 1..Len(head) /\ 2 \in 1..Len(head)
    BY <1>1
  <2>2. s[1] = head[1] /\ s[2] = head[2]
    BY <1>1, <1>8, <1>9, <2>1, JoinBegins
  <2>3. QED BY <1>1, <2>2
<1>11. Rest(s, 2) = e
  <2>1. Rest(s, Len(head)) = e
    BY <1>1, <1>8, <1>9, ReadsFront
  <2>2. QED BY <1>1, <2>1
<1>12. Number(readBits(e, LeadingBits)) = l /\ Rest(e, LeadingBits) = c
  <2>1. readBits(e, Len(a)) = a /\ Rest(e, Len(a)) = c
    BY <1>3, <1>8, ReadsFront DEF e
  <2>2. QED BY <1>3, <2>1
<1>13. Number(readBits(c, SigBits)) = sig /\ Rest(c, SigBits) = bz
  <2>1. readBits(c, Len(b)) = b /\ Rest(c, Len(b)) = bz
    BY <1>4, <1>5, ReadsFront DEF c
  <2>2. QED BY <1>4, <2>1 DEF sig
<1>14. Rest(e, LeadingBits + SigBits) = bz
  <2> DEFINE ab == Join(a, b)
  <2>1. IsList(ab) /\ Len(ab) = Len(a) + Len(b) /\ e = Join(ab, bz)
    BY <1>3, <1>4, <1>5, ListsJoined, JoinsAgain DEF e, c
  <2> HIDE DEF ab
  <2>2. Rest(e, Len(ab)) = bz
    BY <1>5, <2>1, ReadsFront
  <2>3. QED BY <1>3, <1>4, <2>1, <2>2
<1>15. readBits(bz, mid) = body /\ Rest(bz, mid) = z
  <2>1. readBits(bz, Len(body)) = body /\ Rest(bz, Len(body)) = z
    BY ReadsFront DEF bz
  <2>2. QED BY <2>1
<1> DEFINE it == At(s, k, t, v, d, l0, r0)
           delta == Join(Join(Zeros(l), body), Zeros(r))
<1>16. it.stream = s
  BY DEF At
<1>17. readValue(it) = [it EXCEPT !.stream = z, !.numRead = @ + 1,
                                  !.v = Differing(@, delta), !.leading = l, !.trailing = r]
  <2> HIDE DEF it, mid
  <2>1. s[2] = 1 /\ ~(s[1] = 0)
    BY <1>10
  <2>2. ValueBits - l - mid = r
    BY <1>2
  <2> DEFINE n == IF sig = 0 THEN ValueBits ELSE sig
  <2>3. n = mid
    BY <1>4
  <2>4. readValue(it) = [it EXCEPT !.stream = Rest(bz, n), !.numRead = @ + 1,
                                   !.v = Differing(@, Zeros(l) \o readBits(bz, n)
                                                        \o Zeros(ValueBits - l - n)),
                                   !.leading = l, !.trailing = ValueBits - l - n]
    BY <1>11, <1>12, <1>13, <1>14, <1>16, <2>1 DEF readValue
  <2> HIDE DEF n
  <2>5. QED BY <1>15, <2>2, <2>3, <2>4 DEF Join
<1>18. readValue(it) = At(z, k + 1, t, Differing(v, delta), d, l, r)
  <2> HIDE DEF delta
  <2>1. QED BY <1>17 DEF At
<1>19. QED BY <1>18 DEF s, hc, hb, ha, head, a, b

ChunkOf(x, n, t, v, d, l, r) ==
    [stream |-> x, num |-> n, t |-> t, v |-> v, tDelta |-> d, leading |-> l, trailing |-> r]

(* The window of a chunk and the one an iterator has where the chunk ends. *)
Windows(cl, ct, l, r) ==
    /\ WindowOK(l, r)
    /\ \/ cl = l /\ ct = r
       \/ cl = Unset /\ ct = 0 /\ l = 0 /\ r = 0

(* A list behind a list, written piece by piece. *)
LEMMA PiecesJoin ==
    ASSUME NEW x, NEW h, NEW a, NEW b, NEW e,
           IsList(x), IsList(h), IsList(a), IsList(b), IsList(e)
    PROVE  LET q == Join(Join(Join(h, a), b), e)
           IN  /\ IsList(q)
               /\ Join(Join(Join(Join(x, h), a), b), e) = Join(x, q)
<1> DEFINE ha == Join(h, a)
           hb == Join(ha, b)
           xh == Join(x, h)
           q == Join(hb, e)
<1>1. IsList(ha)
  BY ListsJoined
<1>2. Join(xh, a) = Join(x, ha)
  BY JoinsAgain
<1> HIDE DEF ha, xh
<1>3. IsList(hb) /\ Join(Join(x, ha), b) = Join(x, hb)
  BY <1>1, ListsJoined, JoinsAgain
<1> HIDE DEF hb
<1>4. IsList(q) /\ Join(Join(x, hb), e) = Join(x, q)
  BY <1>3, ListsJoined, JoinsAgain
<1> HIDE DEF q
<1>5. Join(Join(Join(xh, a), b), e) = Join(x, q)
  BY <1>2, <1>3, <1>4
<1>6. QED BY <1>4, <1>5 DEF q, hb, ha, xh

(* A value behind u is written as a piece that an iterator at u reads. *)
ValueReads(x, n, t, u, d, cl, ct, l, r, v) ==
    \E q, cl2, ct2, l2, r2 :
       /\ IsList(q) /\ Windows(cl2, ct2, l2, r2)
       /\ writeVDelta(ChunkOf(x, n, t, u, d, cl, ct), v) =
             ChunkOf(Join(x, q), n, t, u, d, cl2, ct2)
       /\ \A z, k, t1, d1 : IsList(z) =>
             readValue(At(Join(q, z), k, t1, u, d1, l, r)) = At(z, k + 1, t1, v, d1, l2, r2)

LEMMA ValueReadsBack ==
    ASSUME NEW x, IsList(x), NEW n, NEW t, NEW u \in Values, NEW d, NEW cl, NEW ct,
           NEW l, NEW r, Windows(cl, ct, l, r), NEW v \in Values
    PROVE  ValueReads(x, n, t, u, d, cl, ct, l, r, v)
<1> DEFINE c == ChunkOf(x, n, t, u, d, cl, ct)
           delta == Differing(v, u)
           set == {i \in 1..ValueBits : delta[i] = 1}
           most == 2 ^ LeadingBits - 1
           lo == Min(set)
           hi == Max(set)
           leading == IF lo - 1 > most THEN most ELSE lo - 1
           trailing == ValueBits - hi
           sigbits == ValueBits - leading - trailing
<1>1. delta \in Values /\ Differing(u, delta) = v
  BY DiffersTwice
<1>2. c.stream = x /\ c.leading = cl /\ c.trailing = ct /\ c.v = u
  BY DEF ChunkOf
<1>3. ASSUME NEW y PROVE [c EXCEPT !.stream = y] = ChunkOf(y, n, t, u, d, cl, ct)
  BY DEF ChunkOf
<1>4. ASSUME NEW y, NEW a, NEW b
       PROVE  [c EXCEPT !.leading = a, !.trailing = b, !.stream = y] =
                 ChunkOf(y, n, t, u, d, a, b)
  <2> DEFINE c1 == [c EXCEPT !.leading = a]
             c2 == [c1 EXCEPT !.trailing = b]
             c3 == [c2 EXCEPT !.stream = y]
  <2>1. c1 = ChunkOf(x, n, t, u, d, a, ct)
    BY DEF ChunkOf
  <2> HIDE DEF c1
  <2>2. c2 = ChunkOf(x, n, t, u, d, a, b)
    BY <2>1 DEF ChunkOf
  <2> HIDE DEF c2
  <2>3. c3 = ChunkOf(y, n, t, u, d, a, b)
    BY <2>2 DEF ChunkOf
  <2>4. [c EXCEPT !.leading = a, !.trailing = b, !.stream = y] = c3
    BY DEF c3, c2, c1, ChunkOf
  <2>5. QED BY <2>3, <2>4
<1>5. writeVDelta(c, v) =
          IF set = {} THEN [c EXCEPT !.stream = Append(x, 0)]
          ELSE IF cl # Unset /\ leading >= cl /\ trailing >= ct
          THEN [c EXCEPT !.stream = x \o <<1, 0>> \o SubSeq(delta, cl + 1, ValueBits - ct)]
          ELSE [c EXCEPT !.leading = leading, !.trailing = trailing,
                         !.stream = x \o <<1, 1>> \o writeBits(leading, LeadingBits)
                            \o writeBits(sigbits, SigBits)
                            \o SubSeq(delta, leading + 1, ValueBits - trailing)]
  <2> HIDE DEF c
  <2>1. QED BY <1>2 DEF writeVDelta
<1> HIDE DEF c, delta
<1>6. \A i \in 1..ValueBits : i \notin set => delta[i] = 0
  BY <1>1 DEF Values
<1>7. ValueBits \in Nat \ {0} /\ most \in Nat /\ WindowOK(l, r)
  BY WidthsHave DEF Windows
<1>8. CASE set = {}
  <2> DEFINE q == <<0>>
  <2>1. writeVDelta(c, v) = ChunkOf(Append(x, 0), n, t, u, d, cl, ct)
    <3> HIDE DEF set, leading, trailing
    <3>1. writeVDelta(c, v) = [c EXCEPT !.stream = Append(x, 0)]
      BY <1>8, <1>5
    <3>2. QED BY <1>3, <3>1
  <2>2. IsList(q)
    BY OneElement
  <2>3. Append(x, 0) = Join(x, q)
    <3>1. Len(x) \in Nat /\ x \in Seq({x[i] : i \in 1..Len(x)})
      BY ListOf DEF IsList
    <3> DEFINE E == {x[i] : i \in 1..Len(x)}
    <3>2. x \in Seq(E)
      BY <3>1
    <3> HIDE DEF E
    <3>3. Append(x, 0) = x \o <<0>>
      BY <3>2
    <3>4. QED BY <3>3 DEF Join
  <2>4. u = v
    <3>1. \A i \in 1..ValueBits : delta[i] = 0
      BY <1>6, <1>8
    <3>2. \A i \in 1..ValueBits : u[i] = v[i]
      BY <3>1 DEF delta, Differing
    <3>3. u = [i \in 1..ValueBits |-> u[i]] /\ v = [i \in 1..ValueBits |-> v[i]]
      BY DEF Values
    <3>4. QED BY <3>2, <3>3
  <2>5. \A z, k, t1, d1 : IsList(z) =>
           readValue(At(Join(q, z), k, t1, u, d1, l, r)) = At(z, k + 1, t1, v, d1, l, r)
    BY <2>4, SameValueReads
  <2> HIDE DEF q
  <2>6. writeVDelta(c, v) = ChunkOf(Join(x, q), n, t, u, d, cl, ct)
    BY <2>1, <2>3
  <2>7. QED BY <2>2, <2>5, <2>6 DEF c, ValueReads
<1>9. ASSUME set # {}
      PROVE  /\ lo \in 1..ValueBits /\ hi \in 1..ValueBits /\ lo <= hi
             /\ \A i \in 1..ValueBits : i < lo \/ i > hi => delta[i] = 0
  <2>1. set \in SUBSET (1..ValueBits) /\ ValueBits \in Nat
    BY <1>7
  <2> HIDE DEF set
  <2>2. lo \in set /\ \A i \in set : lo <= i
    BY <1>9, <2>1, LowestIn
  <2>3. hi \in set /\ \A i \in set : i <= hi
    <3>1. set \in SUBSET Nat /\ \A i \in set : i <= ValueBits
      BY <2>1
    <3>2. QED BY <1>9, <2>1, <3>1, HasHighest
  <2>4. lo \in 1..ValueBits /\ hi \in 1..ValueBits /\ lo <= hi
    BY <2>1, <2>2, <2>3
  <2>5. \A i \in 1..ValueBits : i < lo \/ i > hi => i \notin set
    BY <2>2, <2>3, <2>4
  <2>6. QED BY <1>6, <2>4, <2>5
<1>10. ASSUME set # {}
      PROVE  /\ WindowOK(leading, trailing) /\ leading <= most /\ leading <= lo - 1
             /\ leading \in Nat /\ trailing \in Nat
  <2>1. lo \in 1..ValueBits /\ hi \in 1..ValueBits /\ lo <= hi
    BY <1>9, <1>10
  <2> HIDE DEF lo, hi, most
  <2>2. /\ leading \in Nat /\ leading <= most /\ leading <= lo - 1
        /\ trailing \in Nat /\ trailing = ValueBits - hi
    BY <1>7, <2>1
  <2> HIDE DEF leading, trailing
  <2>3. leading + trailing < ValueBits
    BY <1>7, <2>1, <2>2
  <2>4. QED BY <2>2, <2>3 DEF WindowOK
<1>11. CASE set # {} /\ cl # Unset /\ leading >= cl /\ trailing >= ct
  <2> DEFINE h == <<1, 0>>
             body == SubSeq(delta, l + 1, ValueBits - r)
             q == Join(h, body)
  <2>1. cl = l /\ ct = r
    BY <1>11 DEF Windows
  <2>2. writeVDelta(c, v) = ChunkOf(x \o h \o body, n, t, u, d, cl, ct)
    <3> HIDE DEF set, leading, trailing
    <3>1. writeVDelta(c, v) =
             [c EXCEPT !.stream = x \o <<1, 0>> \o SubSeq(delta, cl + 1, ValueBits - ct)]
      BY <1>11, <1>5
    <3>2. writeVDelta(c, v) = [c EXCEPT !.stream = x \o h \o body]
      BY <2>1, <3>1
    <3> DEFINE y == x \o h \o body
    <3> HIDE DEF y
    <3>3. [c EXCEPT !.stream = y] = ChunkOf(y, n, t, u, d, cl, ct)
      BY <1>3
    <3>4. QED BY <3>2, <3>3 DEF y
  <2>3. \A i \in 1..ValueBits : i <= l \/ i > ValueBits - r => delta[i] = 0
    <3>1. l \in Nat /\ r \in Nat
      BY <1>7 DEF WindowOK
    <3>2. /\ lo \in 1..ValueBits /\ hi \in 1..ValueBits
          /\ \A i \in 1..ValueBits : i < lo \/ i > hi => delta[i] = 0
      BY <1>9, <1>11
    <3>3. leading <= lo - 1 /\ leading \in Nat /\ trailing = ValueBits - hi
          /\ leading >= l /\ trailing >= r /\ trailing \in Nat
      BY <1>10, <1>11, <2>1
    <3> HIDE DEF leading, trailing, lo, hi, delta
    <3>4. \A i \in 1..ValueBits : (i <= l => i < lo) /\ (i > ValueBits - r => i > hi)
      BY <1>7, <3>1, <3>2, <3>3
    <3>5. QED BY <3>2, <3>4
  <2>4. /\ IsList(body) /\ Len(body) = ValueBits - l - r
        /\ Join(Join(Zeros(l), body), Zeros(r)) = delta
    BY <1>1, <1>7, <2>3, WindowIs
  <2>5. IsList(h)
    BY TwoElements
  <2> HIDE DEF body
  <2>6. \A z, k, t1, d1 : IsList(z) =>
           readValue(At(Join(q, z), k, t1, u, d1, l, r)) = At(z, k + 1, t1, v, d1, l, r)
    BY <1>1, <1>7, <2>4, OldWindowReads
  <2>7. IsList(q) /\ x \o h \o body = Join(x, q)
    <3> HIDE DEF h
    <3>1. IsList(q) /\ Join(Join(x, h), body) = Join(x, q)
      BY <2>4, <2>5, ListsJoined, JoinsAgain
    <3>2. QED BY <3>1 DEF Join
  <2> HIDE DEF q, h
  <2>8. writeVDelta(c, v) = ChunkOf(Join(x, q), n, t, u, d, cl, ct)
    BY <2>2, <2>7
  <2>9. QED BY <2>6, <2>7, <2>8 DEF c, ValueReads
<1>12. CASE set # {} /\ ~(cl # Unset /\ leading >= cl /\ trailing >= ct)
  <2> DEFINE h == <<1, 1>>
             a == writeBits(leading, LeadingBits)
             b == writeBits(sigbits, SigBits)
             body == SubSeq(delta, leading + 1, ValueBits - trailing)
             q == Join(Join(Join(h, a), b), body)
  <2>1. writeVDelta(c, v) = ChunkOf(x \o h \o a \o b \o body, n, t, u, d, leading, trailing)
    <3> DEFINE y == x \o h \o a \o b \o body
    <3> HIDE DEF set, leading, trailing, sigbits
    <3>1. writeVDelta(c, v) = [c EXCEPT !.leading = leading, !.trailing = trailing,
                                        !.stream = y]
      BY <1>12, <1>5
    <3> HIDE DEF y
    <3>2. [c EXCEPT !.leading = leading, !.trailing = trailing, !.stream = y] =
             ChunkOf(y, n, t, u, d, leading, trailing)
      BY <1>4
    <3>3. QED BY <3>1, <3>2 DEF y
  <2>2. WindowOK(leading, trailing) /\ leading <= most /\ leading \in Nat /\ trailing \in Nat
        /\ leading <= lo - 1
    BY <1>10, <1>12
  <2>3. \A i \in 1..ValueBits : i <= leading \/ i > ValueBits - trailing => delta[i] = 0
    <3>1. /\ lo \in 1..ValueBits /\ hi \in 1..ValueBits
          /\ \A i \in 1..ValueBits : i < lo \/ i > hi => delta[i] = 0
      BY <1>9, <1>12
    <3>2. trailing = ValueBits - hi
      OBVIOUS
    <3> HIDE DEF leading, trailing, lo, hi, delta
    <3>3. \A i \in 1..ValueBits :
             (i <= leading => i < lo) /\ (i > ValueBits - trailing => i > hi)
      BY <1>7, <2>2, <3>1, <3>2
    <3>4. QED BY <3>1, <3>3
  <2> HIDE DEF leading, trailing, most
  <2>4. /\ IsList(body) /\ Len(body) = ValueBits - leading - trailing
        /\ Join(Join(Zeros(leading), body), Zeros(trailing)) = delta
    BY <1>1, <2>2, <2>3, WindowIs
  <2>5. IsList(h) /\ IsList(a) /\ IsList(b)
    <3>1. sigbits \in Nat
      BY <1>7, <2>2 DEF WindowOK
    <3> HIDE DEF sigbits
    <3>2. QED BY <2>2, <3>1, WidthsHave, TwoElements, BitsReadBack
  <2>6. leading <= 2 ^ LeadingBits - 1
    BY <2>2 DEF most
  <2> HIDE DEF body
  <2>7. \A z, k, t1, d1 : IsList(z) =>
           readValue(At(Join(q, z), k, t1, u, d1, l, r)) =
              At(z, k + 1, t1, v, d1, leading, trailing)
    BY <1>1, <2>2, <2>4, <2>6, NewWindowReads
  <2> HIDE DEF sigbits, h, a, b
  <2>8. IsList(q) /\ Join(Join(Join(Join(x, h), a), b), body) = Join(x, q)
    BY <2>4, <2>5, PiecesJoin
  <2>9. writeVDelta(c, v) = ChunkOf(Join(x, q), n, t, u, d, leading, trailing)
    BY <2>1, <2>8 DEF Join
  <2>10. Windows(leading, trailing, leading, trailing)
    BY <2>2 DEF Windows
  <2> HIDE DEF q
  <2>11. QED BY <2>7, <2>8, <2>9, <2>10 DEF c, ValueReads
<1>13. QED BY <1>8, <1>11, <1>12

-----------------------------------------------------------------------------
(* A sample reads back. *)

XorTimes == 0..(2 ^ TimeBits - 1)

LEMMA XorTimesHave == XorTimes \subseteq Int /\ 0 \in XorTimes
<1> DEFINE p == 2 ^ TimeBits
<1>1. p \in Nat \ {0}
  BY WholeIsTwoHalves
<1> HIDE DEF p
<1>2. 0..(p - 1) \subseteq Int /\ 0 \in 0..(p - 1)
  BY <1>1
<1>3. QED BY <1>2 DEF XorTimes, p

LEMMA MiddleReads ==
    ASSUME NEW a, NEW b, NEW z, IsList(a), IsList(b), IsList(z)
    PROVE  SubSeq(Join(Join(a, b), z), Len(a) + 1, Len(a) + Len(b)) = b
<1> DEFINE ab == Join(a, b)
           s == Join(ab, z)
           l == Len(a)
           mid == Len(b)
           n == Len(z)
           x == SubSeq(s, l + 1, l + mid)
<1>1. l \in Nat /\ mid \in Nat /\ n \in Nat
  BY DEF IsList
<1>2. IsList(ab) /\ Len(ab) = l + mid
      /\ \A i \in 1..(l + mid) : ab[i] = IF i <= l THEN a[i] ELSE b[i - l]
  BY ListsJoined
<1> HIDE DEF ab
<1>3. IsList(s) /\ Len(s) = (l + mid) + n
      /\ \A i \in 1..((l + mid) + n) : s[i] = IF i <= l + mid THEN ab[i] ELSE z[i - (l + mid)]
  <2>1. /\ IsList(s) /\ Len(s) = Len(ab) + Len(z)
        /\ \A i \in 1..(Len(ab) + Len(z)) :
              s[i] = IF i <= Len(ab) THEN ab[i] ELSE z[i - Len(ab)]
    BY <1>2, ListsJoined
  <2> HIDE DEF s
  <2>2. QED BY <1>2, <2>1
<1> HIDE DEF s
<1>4. IsList(x) /\ Len(x) = mid /\ \A i \in 1..mid : x[i] = s[l + i]
  <2> HIDE DEF l, mid, n
  <2>1. l + mid <= Len(s)
    BY <1>1, <1>3
  <2>2. QED BY <1>1, <1>3, <2>1, Slice, SliceHas
<1> HIDE DEF x
<1>5. ASSUME NEW i \in 1..mid PROVE x[i] = b[i]
  <2> HIDE DEF l, mid, n
  <2>1. /\ l + i \in 1..((l + mid) + n) /\ l + i <= l + mid /\ l + i \in 1..(l + mid)
        /\ ~(l + i <= l) /\ (l + i) - l = i
    BY <1>1
  <2>2. QED BY <1>2, <1>3, <1>4, <2>1
<1>6. x = b
  BY <1>4, <1>5, SameList
<1>7. QED BY <1>6 DEF x, s, ab

LEMMA FirstReads ==
    ASSUME NEW x, IsList(x), NEW u, NEW d, NEW cl, NEW ct, NEW l, NEW r, NEW t0,
           NEW t \in XorTimes, NEW v \in Values
    PROVE  LET q == Join(<<t>>, v)
           IN  /\ IsList(q)
               /\ AppendSample(ChunkOf(x, 0, t0, u, d, cl, ct), [t |-> t, v |-> v]) =
                     ChunkOf(Join(x, q), 1, t, v, 0, cl, ct)
               /\ \A z : IsList(z) => NextSample(At(Join(q, z), 0, t0, u, d, l, r)) =
                                         At(z, 1, t, v, d, l, r)
<1> DEFINE h == <<t>>
           q == Join(h, v)
           c == ChunkOf(x, 0, t0, u, d, cl, ct)
           s == [t |-> t, v |-> v]
           y == x \o h \o v
<1>1. IsList(h) /\ Len(h) = 1 /\ h[1] = t
  BY OneElement
<1>2. IsList(v) /\ Len(v) = ValueBits /\ ValueBits \in Nat
  BY ValueIsList, WidthsHave
<1>3. IsList(q) /\ y = Join(x, q)
  <2> HIDE DEF h
  <2>1. IsList(q) /\ Join(Join(x, h), v) = Join(x, q)
    BY <1>1, <1>2, ListsJoined, JoinsAgain
  <2>2. QED BY <2>1 DEF Join
<1>4. AppendSample(c, s) = ChunkOf(y, 1, t, v, 0, cl, ct)
  <2>1. AppendSample(c, s) =
           [[c EXCEPT !.stream = y] EXCEPT !.t = t, !.v = v, !.num = @ + 1, !.tDelta = 0]
    <3> DEFINE b == [c EXCEPT !.stream = y]
    <3>1. c.num = 0 /\ s.t = t /\ s.v = v /\ c.stream = x
      BY DEF ChunkOf
    <3> HIDE DEF c, s
    <3>2. QED BY <3>1 DEF AppendSample
  <2> HIDE DEF y
  <2> DEFINE b == [c EXCEPT !.stream = y]
             b1 == [b EXCEPT !.t = t]
             b2 == [b1 EXCEPT !.v = v]
             b3 == [b2 EXCEPT !.num = @ + 1]
             b4 == [b3 EXCEPT !.tDelta = 0]
  <2>2. b = ChunkOf(y, 0, t0, u, d, cl, ct)
    BY DEF ChunkOf
  <2>3. [b EXCEPT !.t = t, !.v = v, !.num = @ + 1, !.tDelta = 0] = b4
    BY DEF b4, b3, b2, b1, ChunkOf
  <2> HIDE DEF b
  <2>4. b1 = ChunkOf(y, 0, t, u, d, cl, ct)
    BY <2>2 DEF ChunkOf
  <2> HIDE DEF b1
  <2>5. b2 = ChunkOf(y, 0, t, v, d, cl, ct)
    BY <2>4 DEF ChunkOf
  <2> HIDE DEF b2
  <2>6. b3 = ChunkOf(y, 1, t, v, d, cl, ct)
    BY <2>5 DEF ChunkOf
  <2> HIDE DEF b3
  <2>7. b4 = ChunkOf(y, 1, t, v, 0, cl, ct)
    BY <2>6 DEF ChunkOf
  <2>8. QED BY <2>1, <2>3, <2>7 DEF b
<1>5. ASSUME NEW z, IsList(z)
      PROVE  NextSample(At(Join(q, z), 0, t0, u, d, l, r)) = At(z, 1, t, v, d, l, r)
  <2> DEFINE w == Join(q, z)
             it == At(w, 0, t0, u, d, l, r)
  <2>1. w[1] = t
    <3> HIDE DEF h
    <3>1. w = Join(h, Join(v, z)) /\ IsList(Join(v, z)) /\ 1 \in 1..Len(h)
      BY <1>1, <1>2, <1>5, ListsJoined, JoinsAgain
    <3> HIDE DEF w
    <3>2. w[1] = h[1]
      BY <1>1, <3>1, JoinBegins
    <3>3. QED BY <1>1, <3>2
  <2>2. Rest(w, 1 + ValueBits) = z
    <3> HIDE DEF h
    <3>1. Len(q) = Len(h) + Len(v)
      BY <1>1, <1>2, ListsJoined
    <3> HIDE DEF q
    <3>2. Rest(w, Len(q)) = z
      BY <1>3, <1>5, ReadsFront
    <3>3. QED BY <1>1, <1>2, <3>1, <3>2
  <2>3. SubSeq(w, 2, 1 + ValueBits) = v
    <3> HIDE DEF h
    <3>1. SubSeq(w, Len(h) + 1, Len(h) + Len(v)) = v
      BY <1>1, <1>2, <1>5, MiddleReads
    <3> HIDE DEF w
    <3>2. Len(h) + 1 = 2 /\ Len(h) + Len(v) = 1 + ValueBits
      BY <1>1, <1>2
    <3>3. QED BY <3>1, <3>2
  <2> HIDE DEF w
  <2>4. it.stream = w /\ it.numRead = 0
    BY DEF At
  <2>5. NextSample(it) = [it EXCEPT !.stream = z, !.numRead = 1, !.t = t, !.v = v]
    <3> HIDE DEF it
    <3>1. QED BY <2>1, <2>2, <2>3, <2>4 DEF NextSample
  <2>6. QED BY <2>5 DEF At, w
<1> HIDE DEF y, q
<1>6. QED BY <1>3, <1>4, <1>5 DEF q

(* The time of a sample after the first: its distance from the last one, or
   the difference of that. *)
TimeBitsOf(n, d, e) == IF n = 1 THEN <<e>> ELSE writeDod(Signed(e - d))

LEMMA TimeReads ==
    ASSUME NEW n \in Nat \ {0}, NEW t0 \in XorTimes, NEW d \in XorTimes, NEW t \in XorTimes,
           NEW u, NEW l, NEW r
    PROVE  LET e == Unsigned(t - t0)
               p == TimeBitsOf(n, d, e)
           IN  /\ e \in XorTimes /\ IsList(p)
               /\ \A y : IsList(y) =>
                    NextSample(At(Join(p, y), n, t0, u, d, l, r)) =
                       readValue(At(y, n, t, u, e, l, r))
<1> DEFINE e == Unsigned(t - t0)
           p == TimeBitsOf(n, d, e)
<1>1. t0 \in Int /\ d \in Int /\ t \in Int /\ t \in 0..(2 ^ TimeBits - 1)
  BY XorTimesHave DEF XorTimes
<1>2. e \in XorTimes /\ Unsigned(t0 + e) = t
  BY <1>1, TimeFrom DEF XorTimes
<1> HIDE DEF e
<1>3. CASE n = 1
  <2> DEFINE h == <<e>>
  <2>1. p = h
    BY <1>3 DEF TimeBitsOf
  <2>2. IsList(h) /\ Len(h) = 1 /\ h[1] = e
    BY OneElement
  <2> HIDE DEF p, h
  <2>3. ASSUME NEW y, IsList(y)
        PROVE  NextSample(At(Join(h, y), n, t0, u, d, l, r)) =
                  readValue(At(y, n, t, u, e, l, r))
    <3> DEFINE w == Join(h, y)
               it == At(w, n, t0, u, d, l, r)
    <3>1. w[1] = e
      <4>1. 1 \in 1..Len(h)
        BY <2>2
      <4>2. w[1] = h[1]
        BY <2>2, <2>3, <4>1, JoinBegins
      <4>3. QED BY <2>2, <4>2
    <3>2. Rest(w, 1) = y
      <4>1. Rest(w, Len(h)) = y
        BY <2>2, <2>3, ReadsFront
      <4>2. QED BY <2>2, <4>1
    <3> HIDE DEF w
    <3>3. it.stream = w /\ it.numRead = n /\ it.t = t0
      BY DEF At
    <3>4. NextSample(it) = readValue([it EXCEPT !.stream = y, !.tDelta = e,
                                                !.t = Unsigned(t0 + e)])
      <4> HIDE DEF it
      <4>1. ~(n = 0)
        BY <1>3
      <4>2. QED BY <1>3, <3>1, <3>2, <3>3, <4>1 DEF NextSample
    <3>5. [it EXCEPT !.stream = y, !.tDelta = e, !.t = t] = At(y, n, t, u, e, l, r)
      <4> HIDE DEF w
      <4> DEFINE b1 == [it EXCEPT !.stream = y]
                 b2 == [b1 EXCEPT !.tDelta = e]
                 b3 == [b2 EXCEPT !.t = t]
      <4>1. [it EXCEPT !.stream = y, !.tDelta = e, !.t = t] = b3
        BY DEF b3, b2, b1, At
      <4>2. b1 = At(y, n, t0, u, d, l, r)
        BY DEF At
      <4> HIDE DEF b1
      <4>3. b2 = At(y, n, t0, u, e, l, r)
        BY <4>2 DEF At
      <4> HIDE DEF b2
      <4>4. b3 = At(y, n, t, u, e, l, r)
        BY <4>3 DEF At
      <4>5. QED BY <4>1, <4>4
    <3>6. QED BY <1>2, <3>4, <3>5 DEF w
  <2>4. QED BY <1>2, <2>1, <2>2, <2>3 DEF p, e
<1>4. CASE n # 1
  <2> DEFINE dod == Signed(e - d)
             h == writeDod(dod)
  <2>1. p = h
    BY <1>4 DEF TimeBitsOf
  <2>2. dod \in Int /\ -Half <= dod /\ dod < Half /\ Unsigned(d + dod) = e
    BY <1>1, <1>2, DistanceFrom DEF XorTimes
  <2> HIDE DEF dod
  <2>3. /\ IsList(h)
        /\ \A it, z : IsList(z) /\ it.stream = Join(h, z)
                        => readDod(it) = [dod |-> dod, rest |-> z]
    BY <2>2, DodReadsBack
  <2> HIDE DEF p, h
  <2>4. ASSUME NEW y, IsList(y)
        PROVE  NextSample(At(Join(h, y), n, t0, u, d, l, r)) =
                  readValue(At(y, n, t, u, e, l, r))
    <3> DEFINE w == Join(h, y)
               it == At(w, n, t0, u, d, l, r)
    <3>1. it.stream = Join(h, y) /\ it.numRead = n /\ it.t = t0 /\ it.tDelta = d
      BY DEF At
    <3>2. NextSample(it) = readValue([it EXCEPT !.stream = y, !.tDelta = e,
                                                !.t = Unsigned(t0 + e)])
      <4> HIDE DEF it
      <4>1. readDod(it) = [dod |-> dod, rest |-> y]
        BY <2>3, <2>4, <3>1
      <4>2. readDod(it).dod = dod /\ readDod(it).rest = y
        BY <4>1
      <4>3. ~(n = 0)
        OBVIOUS
      <4>4. QED BY <1>4, <2>2, <3>1, <4>2, <4>3 DEF NextSample
    <3>3. [it EXCEPT !.stream = y, !.tDelta = e, !.t = t] = At(y, n, t, u, e, l, r)
      <4> HIDE DEF w
      <4> DEFINE b1 == [it EXCEPT !.stream = y]
                 b2 == [b1 EXCEPT !.tDelta = e]
                 b3 == [b2 EXCEPT !.t = t]
      <4>1. [it EXCEPT !.stream = y, !.tDelta = e, !.t = t] = b3
        BY DEF b3, b2, b1, At
      <4>2. b1 = At(y, n, t0, u, d, l, r)
        BY DEF At
      <4> HIDE DEF b1
      <4>3. b2 = At(y, n, t0, u, e, l, r)
        BY <4>2 DEF At
      <4> HIDE DEF b2
      <4>4. b3 = At(y, n, t, u, e, l, r)
        BY <4>3 DEF At
      <4>5. QED BY <4>1, <4>4
    <3>4. QED BY <1>2, <3>2, <3>3
  <2>5. QED BY <1>2, <2>1, <2>3, <2>4 DEF p, e
<1>5. QED BY <1>3, <1>4

(* A sample is written as a piece that an iterator at the last one reads. *)
SampleReads(x, n, t0, u, d, cl, ct, l, r, t, v) ==
    \E q, e, cl2, ct2, l2, r2 :
       /\ IsList(q) /\ e \in XorTimes /\ Windows(cl2, ct2, l2, r2)
       /\ AppendSample(ChunkOf(x, n, t0, u, d, cl, ct), [t |-> t, v |-> v]) =
             ChunkOf(Join(x, q), n + 1, t, v, e, cl2, ct2)
       /\ \A z : IsList(z) => NextSample(At(Join(q, z), n, t0, u, d, l, r)) =
                                 At(z, n + 1, t, v, e, l2, r2)

LEMMA LaterReads ==
    ASSUME NEW x, IsList(x), NEW n \in Nat \ {0}, NEW t0 \in XorTimes, NEW u \in Values,
           NEW d \in XorTimes, NEW cl, NEW ct, NEW l, NEW r, Windows(cl, ct, l, r),
           NEW t \in XorTimes, NEW v \in Values
    PROVE  SampleReads(x, n, t0, u, d, cl, ct, l, r, t, v)
<1> DEFINE c == ChunkOf(x, n, t0, u, d, cl, ct)
           s == [t |-> t, v |-> v]
           e == Unsigned(t - t0)
           p == TimeBitsOf(n, d, e)
           xp == Join(x, p)
<1>1. /\ e \in XorTimes /\ IsList(p)
      /\ \A y : IsList(y) =>
           NextSample(At(Join(p, y), n, t0, u, d, l, r)) = readValue(At(y, n, t, u, e, l, r))
  BY TimeReads
<1> HIDE DEF e
<1>2. AppendSample(c, s) =
         [writeVDelta(ChunkOf(x \o p, n, t0, u, d, cl, ct), v) EXCEPT
            !.t = t, !.v = v, !.num = @ + 1, !.tDelta = e]
  <2>1. c.num = n /\ c.t = t0 /\ c.tDelta = d /\ c.stream = x /\ s.t = t /\ s.v = v
    BY DEF ChunkOf
  <2>2. [c EXCEPT !.stream = x \o p] = ChunkOf(x \o p, n, t0, u, d, cl, ct)
    <3> HIDE DEF p
    <3> DEFINE y == x \o p
    <3> HIDE DEF y
    <3>1. [c EXCEPT !.stream = y] = ChunkOf(y, n, t0, u, d, cl, ct)
      BY DEF ChunkOf
    <3>2. QED BY <3>1 DEF y
  <2> HIDE DEF c, s
  <2>3. AppendSample(c, s) =
           [writeVDelta([c EXCEPT !.stream = x \o p], v) EXCEPT
              !.t = t, !.v = v, !.num = @ + 1, !.tDelta = e]
    <3>1. n # 0
      OBVIOUS
    <3>2. QED BY <2>1, <3>1 DEF AppendSample, TimeBitsOf, e
  <2>4. QED BY <2>2, <2>3
<1> HIDE DEF p
<1>3. IsList(xp) /\ x \o p = xp
  BY <1>1, ListsJoined DEF Join
<1> HIDE DEF xp
<1>4. PICK q1, cl2, ct2, l2, r2 :
              /\ IsList(q1) /\ Windows(cl2, ct2, l2, r2)
              /\ writeVDelta(ChunkOf(xp, n, t0, u, d, cl, ct), v) =
                    ChunkOf(Join(xp, q1), n, t0, u, d, cl2, ct2)
              /\ \A z, k, t1, d1 : IsList(z) =>
                    readValue(At(Join(q1, z), k, t1, u, d1, l, r)) =
                       At(z, k + 1, t1, v, d1, l2, r2)
  <2> HIDE DEF c, s
  <2>1. IsList(xp) /\ u \in Values /\ v \in Values /\ Windows(cl, ct, l, r)
    BY <1>3
  <2>2. ValueReads(xp, n, t0, u, d, cl, ct, l, r, v)
    BY ONLY <2>1, ValueReadsBack
  <2>3. QED BY <2>2 DEF ValueReads
<1> DEFINE q == Join(p, q1)
           y == Join(x, q)
<1>5. IsList(q) /\ Join(xp, q1) = y
  BY <1>1, <1>4, ListsJoined, JoinsAgain DEF xp
<1>6. AppendSample(c, s) = ChunkOf(y, n + 1, t, v, e, cl2, ct2)
  <2> DEFINE b == ChunkOf(y, n, t0, u, d, cl2, ct2)
             b1 == [b EXCEPT !.t = t]
             b2 == [b1 EXCEPT !.v = v]
             b3 == [b2 EXCEPT !.num = @ + 1]
             b4 == [b3 EXCEPT !.tDelta = e]
  <2> HIDE DEF y
  <2>1. AppendSample(c, s) = [b EXCEPT !.t = t, !.v = v, !.num = @ + 1, !.tDelta = e]
    BY <1>2, <1>3, <1>4, <1>5
  <2>2. [b EXCEPT !.t = t, !.v = v, !.num = @ + 1, !.tDelta = e] = b4
    BY DEF b4, b3, b2, b1, ChunkOf
  <2>3. b1 = ChunkOf(y, n, t, u, d, cl2, ct2)
    BY DEF ChunkOf
  <2> HIDE DEF b1
  <2>4. b2 = ChunkOf(y, n, t, v, d, cl2, ct2)
    BY <2>3 DEF ChunkOf
  <2> HIDE DEF b2
  <2>5. b3 = ChunkOf(y, n + 1, t, v, d, cl2, ct2)
    BY <2>4 DEF ChunkOf
  <2> HIDE DEF b3
  <2>6. b4 = ChunkOf(y, n + 1, t, v, e, cl2, ct2)
    BY <2>5 DEF ChunkOf
  <2>7. QED BY <2>1, <2>2, <2>6
<1>7. ASSUME NEW z, IsList(z)
      PROVE  NextSample(At(Join(q, z), n, t0, u, d, l, r)) = At(z, n + 1, t, v, e, l2, r2)
  <2> DEFINE w == Join(q1, z)
  <2>1. IsList(p) /\ IsList(q1) /\ IsList(z)
    BY <1>1, <1>4, <1>7
  <2>2. IsList(w) /\ Join(q, z) = Join(p, w)
    BY ONLY <2>1, ListsJoined, JoinsAgain
  <2>3. readValue(At(w, n, t, u, e, l, r)) = At(z, n + 1, t, v, e, l2, r2)
    BY <1>4, <1>7
  <2> HIDE DEF w, q
  <2>4. QED BY <1>1, <2>2, <2>3
<1> HIDE DEF q
<1>8. QED BY <1>1, <1>4, <1>5, <1>6, <1>7 DEF SampleReads

LEMMA SampleReadsBack ==
    ASSUME NEW x, IsList(x), NEW n \in Nat, NEW t0 \in XorTimes, NEW u \in Values,
           NEW d \in XorTimes, n = 0 => d = 0,
           NEW cl, NEW ct, NEW l, NEW r, Windows(cl, ct, l, r),
           NEW t \in XorTimes, NEW v \in Values
    PROVE  SampleReads(x, n, t0, u, d, cl, ct, l, r, t, v)
<1>1. CASE n = 0
  <2> DEFINE q == Join(<<t>>, v)
  <2>1. d = 0 /\ 0 + 1 = 1
    BY <1>1
  <2>2. /\ IsList(q)
        /\ AppendSample(ChunkOf(x, 0, t0, u, d, cl, ct), [t |-> t, v |-> v]) =
              ChunkOf(Join(x, q), 1, t, v, 0, cl, ct)
        /\ \A z : IsList(z) => NextSample(At(Join(q, z), 0, t0, u, d, l, r)) =
                                  At(z, 1, t, v, d, l, r)
    BY FirstReads
  <2> HIDE DEF q
  <2>3. QED BY <1>1, <2>1, <2>2 DEF SampleReads
<1>2. CASE n # 0
  <2>1. n \in Nat \ {0}
    BY <1>2
  <2>2. QED BY <2>1, LaterReads
<1>3. QED BY <1>1, <1>2

-----------------------------------------------------------------------------
(* A chunk is a trace: of each sample the piece of the stream, what is left
   behind it and where an iterator is then.  A piece is read whatever
   follows it, so the trace of a longer chunk begins with that of a shorter
   one; and the appender is where the iterator is at the end. *)

AtStop(z, k, s) == At(z, k, s.t, s.v, s.d, s.l, s.r)

StopOK(s) == s.t \in XorTimes /\ s.v \in Values /\ s.d \in XorTimes /\ WindowOK(s.l, s.r)

Start == [t |-> 0, v |-> Zeros(ValueBits), d |-> 0, l |-> 0, r |-> 0]

StepReads(s, k, q, s2) ==
    \A z : IsList(z) => NextSample(AtStop(Join(q, z), k, s)) = AtStop(z, k + 1, s2)

TraceOK(n, st, q, left) ==
    /\ n \in Nat /\ st[0] = Start
    /\ \A k \in 0..n : IsList(left[k]) /\ StopOK(st[k])
    /\ \A k \in 1..n : /\ IsList(q[k]) /\ left[k - 1] = Join(q[k], left[k])
                       /\ StepReads(st[k - 1], k - 1, q[k], st[k])
    /\ Len(left[n]) = 0

ChunkAt(c, s) ==
    /\ c = ChunkOf(c.stream, c.num, s.t, s.v, s.d, c.leading, c.trailing)
    /\ Windows(c.leading, c.trailing, s.l, s.r)

XorIInv ==
    \E st, q, left :
       /\ TraceOK(chunk.num, st, q, left)
       /\ left[0] = chunk.stream
       /\ ChunkAt(chunk, st[chunk.num])
       /\ IsList(series) /\ Len(series) = chunk.num
       /\ \A k \in 1..chunk.num : series[k] = [t |-> st[k].t, v |-> st[k].v]

(* An iteration stops at each. *)
IterationOf(c, its) ==
    its = [n \in 0..c.num |-> IF n = 0 THEN iterator(c) ELSE NextSample(its[n - 1])]

LEMMA IterationStops ==
    ASSUME NEW c, NEW st, NEW q, NEW left, TraceOK(c.num, st, q, left), left[0] = c.stream
    PROVE  \A k \in 0..c.num : Iterators(c)[k] = AtStop(left[k], k, st[k])
<1> DEFINE n == c.num
           f == [k \in 0..n |-> AtStop(left[k], k, st[k])]
           its == CHOOSE its : IterationOf(c, its)
<1>1. n \in Nat
  BY DEF TraceOK
<1>2. iterator(c) = AtStop(left[0], 0, st[0])
  BY DEF iterator, AtStop, At, Start, TraceOK
<1>3. ASSUME NEW k \in 1..n
      PROVE  NextSample(AtStop(left[k - 1], k - 1, st[k - 1])) = AtStop(left[k], k, st[k])
  <2>1. k \in 0..n /\ (k - 1) + 1 = k
    BY <1>1
  <2>2. /\ IsList(left[k]) /\ left[k - 1] = Join(q[k], left[k])
        /\ StepReads(st[k - 1], k - 1, q[k], st[k])
    BY <2>1 DEF TraceOK
  <2>3. QED BY <2>1, <2>2 DEF StepReads
<1>4. IterationOf(c, f)
  <2>1. ASSUME NEW k \in 0..n
        PROVE  f[k] = IF k = 0 THEN iterator(c) ELSE NextSample(f[k - 1])
    <3>1. CASE k = 0
      <4>1. f[0] = AtStop(left[0], 0, st[0])
        BY <1>1
      <4>2. QED BY <1>2, <3>1, <4>1
    <3>2. CASE k # 0
      <4>1. k \in 1..n /\ k - 1 \in 0..n
        BY <1>1, <3>2
      <4>2. f[k - 1] = AtStop(left[k - 1], k - 1, st[k - 1])
        BY <4>1
      <4>3. f[k] = AtStop(left[k], k, st[k])
        OBVIOUS
      <4> HIDE DEF f
      <4>4. QED BY <1>3, <3>2, <4>1, <4>2, <4>3
    <3>3. QED BY <3>1, <3>2
  <2>2. f = [k \in 0..n |-> f[k]]
    OBVIOUS
  <2> HIDE DEF f
  <2>3. f = [k \in 0..n |-> IF k = 0 THEN iterator(c) ELSE NextSample(f[k - 1])]
    BY <2>1, <2>2
  <2>4. QED BY <2>3 DEF IterationOf
<1>5. IterationOf(c, its)
  <2> HIDE DEF f
  <2>1. QED BY <1>4
<1>6. Iterators(c) = its
  BY DEF Iterators, IterationOf
<1> HIDE DEF its, f
<1>7. \A k \in 0..n : its[k] = IF k = 0 THEN iterator(c) ELSE NextSample(its[k - 1])
  BY <1>5 DEF IterationOf
<1> DEFINE K == {k \in 0..n : its[k] = AtStop(left[k], k, st[k])}
<1>8. 0 \in K
  BY <1>1, <1>2, <1>7
<1>9. ASSUME NEW k \in 1..n, k - 1 \in K PROVE k \in K
  <2>1. k \in 0..n /\ k # 0 /\ its[k - 1] = AtStop(left[k - 1], k - 1, st[k - 1])
    BY <1>1, <1>9
  <2>2. its[k] = NextSample(its[k - 1])
    BY <1>7, <2>1
  <2>3. QED BY <1>3, <2>1, <2>2
<1> HIDE DEF K
<1>10. \A k \in 0..n : k \in K
  BY <1>1, <1>8, <1>9, Counting
<1>11. QED BY <1>6, <1>10 DEF K

LEMMA XorInitIInv == XorInit => XorIInv
<1> SUFFICES ASSUME XorInit PROVE XorIInv
  OBVIOUS
<1> DEFINE st == [k \in {0} |-> Start]
           left == [k \in {0} |-> << >>]
           q == << >>
           nothing == << >>
<1>1. chunk = ChunkOf(nothing, 0, 0, Zeros(ValueBits), 0, Unset, 0) /\ series = nothing
  BY DEF XorInit, NewXORChunk, ChunkOf
<1>2. chunk.stream = nothing /\ chunk.num = 0 /\ chunk.leading = Unset /\ chunk.trailing = 0
  BY <1>1 DEF ChunkOf
<1>3. IsList(nothing) /\ Len(nothing) = 0
  BY DEF IsList
<1> HIDE DEF nothing
<1>4. StopOK(Start) /\ Windows(Unset, 0, Start.l, Start.r)
  <2>1. Start.t = 0 /\ Start.v = Zeros(ValueBits) /\ Start.d = 0 /\ Start.l = 0 /\ Start.r = 0
    BY DEF Start
  <2>2. Zeros(ValueBits) \in Values
    BY DEF Zeros, Values
  <2>3. WindowOK(0, 0)
    BY WidthsHave DEF WindowOK
  <2>4. QED BY <2>1, <2>2, <2>3, XorTimesHave DEF StopOK, Windows
<1>5. st[0] = Start /\ left[0] = nothing
  BY DEF nothing
<1> HIDE DEF st, left
<1>6. TraceOK(0, st, q, left)
  <2>1. \A k \in 0..0 : k = 0
    OBVIOUS
  <2>2. \A k \in 1..0 : FALSE
    OBVIOUS
  <2> HIDE DEF q
  <2>3. QED BY <1>3, <1>4, <1>5, <2>1, <2>2 DEF TraceOK
<1>7. ChunkAt(chunk, Start)
  <2>1. chunk = ChunkOf(chunk.stream, chunk.num, Start.t, Start.v, Start.d,
                        chunk.leading, chunk.trailing)
    BY <1>1, <1>2 DEF Start
  <2>2. QED BY <1>2, <1>4, <2>1 DEF ChunkAt
<1>8. \A k \in 1..0 : series[k] = [t |-> st[k].t, v |-> st[k].v]
  OBVIOUS
<1> HIDE DEF q
<1>9. QED BY <1>1, <1>2, <1>3, <1>5, <1>6, <1>7, <1>8 DEF XorIInv

(* A trace goes on with a piece: it is then left behind every stop. *)
LEMMA TraceGoesOn ==
    ASSUME NEW n, NEW st, NEW q, NEW left, TraceOK(n, st, q, left),
           NEW piece, IsList(piece), NEW s, StopOK(s), StepReads(st[n], n, piece, s)
    PROVE  LET st2 == [k \in 0..(n + 1) |-> IF k = n + 1 THEN s ELSE st[k]]
               q2 == [k \in 1..(n + 1) |-> IF k = n + 1 THEN piece ELSE q[k]]
               left2 == [k \in 0..(n + 1) |->
                           IF k = n + 1 THEN << >> ELSE Join(left[k], piece)]
           IN  TraceOK(n + 1, st2, q2, left2)
<1> DEFINE mid == n + 1
           nothing == << >>
           st2 == [k \in 0..mid |-> IF k = mid THEN s ELSE st[k]]
           q2 == [k \in 1..mid |-> IF k = mid THEN piece ELSE q[k]]
           left2 == [k \in 0..mid |-> IF k = mid THEN nothing ELSE Join(left[k], piece)]
<1>1. IsList(nothing) /\ Len(nothing) = 0
  BY DEF IsList
<1> HIDE DEF nothing
<1>2. n \in Nat /\ mid \in Nat /\ mid = n + 1 /\ mid - 1 = n /\ 0 \in 0..mid /\ 0 # mid /\ mid \in 0..mid
      /\ mid \in 1..mid /\ n \in 0..n /\ n \in 0..mid /\ n # mid
  BY DEF TraceOK
<1>3. /\ st[0] = Start /\ \A k \in 0..n : IsList(left[k]) /\ StopOK(st[k])
      /\ \A k \in 1..n : /\ IsList(q[k]) /\ left[k - 1] = Join(q[k], left[k])
                         /\ StepReads(st[k - 1], k - 1, q[k], st[k])
      /\ Len(left[n]) = 0
  BY DEF TraceOK
<1>4. /\ st2[mid] = s /\ q2[mid] = piece /\ left2[mid] = nothing
      /\ st2[0] = st[0]
  BY <1>2
<1>5. ASSUME NEW k \in 0..n
      PROVE  st2[k] = st[k] /\ left2[k] = Join(left[k], piece) /\ k \in 0..mid /\ k # mid
  <2>1. k \in 0..mid /\ k # mid
    BY <1>2
  <2>2. QED BY <2>1
<1>6. ASSUME NEW k \in 1..n PROVE q2[k] = q[k]
  <2>1. k \in 1..mid /\ k # mid
    BY <1>2
  <2>2. QED BY <2>1
<1> HIDE DEF st2, q2, left2, mid
<1>7. ASSUME NEW k \in 0..mid PROVE IsList(left2[k]) /\ StopOK(st2[k])
  <2>1. CASE k = mid
    BY <1>1, <1>4, <2>1
  <2>2. CASE k # mid
    <3>1. k \in 0..n
      BY <1>2, <2>2
    <3>2. IsList(left[k]) /\ StopOK(st[k])
      BY <1>3, <3>1
    <3>3. IsList(Join(left[k], piece))
      BY <3>2, ListsJoined
    <3>4. QED BY <1>5, <3>1, <3>2, <3>3
  <2>3. QED BY <2>1, <2>2
<1>8. ASSUME NEW k \in 1..mid
      PROVE  /\ IsList(q2[k]) /\ left2[k - 1] = Join(q2[k], left2[k])
             /\ StepReads(st2[k - 1], k - 1, q2[k], st2[k])
  <2>1. CASE k = mid
    <3>1. left2[n] = Join(left[n], piece) /\ st2[n] = st[n] /\ IsList(left[n])
      BY <1>2, <1>3, <1>5
    <3>2. Join(left[n], piece) = piece
      BY <1>3, <3>1, NothingJoins
    <3>3. Join(piece, nothing) = piece
      <4> DEFINE y == Join(piece, nothing)
                 l == Len(piece)
      <4>1. l \in Nat
        BY DEF IsList
      <4>2. /\ IsList(y) /\ Len(y) = Len(piece) + Len(nothing)
            /\ \A i \in 1..(Len(piece) + Len(nothing)) :
                  y[i] = IF i <= Len(piece) THEN piece[i] ELSE nothing[i - Len(piece)]
        BY <1>1, ListsJoined
      <4> HIDE DEF y
      <4>3. Len(y) = l + 0 /\ \A i \in 1..(l + 0) :
                  y[i] = IF i <= l THEN piece[i] ELSE nothing[i - l]
        BY <1>1, <4>2
      <4> HIDE DEF l
      <4>4. l + 0 = l /\ \A i \in 1..l : i \in 1..(l + 0) /\ i <= l
        BY <4>1
      <4>5. Len(y) = l /\ \A i \in 1..l : y[i] = piece[i]
        BY <4>3, <4>4
      <4>6. y = piece
        BY <4>2, <4>5, SameList DEF l
      <4>7. QED BY <4>6 DEF y
    <3>4. QED BY <1>2, <1>4, <2>1, <3>1, <3>2, <3>3
  <2>2. CASE k # mid
    <3>1. k \in 1..n /\ k - 1 \in 0..n /\ k \in 0..n
      BY <1>2, <2>2
    <3>2. /\ IsList(q[k]) /\ left[k - 1] = Join(q[k], left[k])
          /\ StepReads(st[k - 1], k - 1, q[k], st[k])
          /\ IsList(left[k])
      BY <1>3, <3>1
    <3>3. Join(Join(q[k], left[k]), piece) = Join(q[k], Join(left[k], piece))
      BY <3>2, JoinsAgain
    <3>4. /\ q2[k] = q[k] /\ st2[k] = st[k] /\ st2[k - 1] = st[k - 1]
          /\ left2[k - 1] = Join(left[k - 1], piece) /\ left2[k] = Join(left[k], piece)
      BY <1>5, <1>6, <3>1
    <3>5. QED BY <3>2, <3>3, <3>4
  <2>3. QED BY <2>1, <2>2
<1>9. TraceOK(mid, st2, q2, left2)
  BY <1>1, <1>2, <1>3, <1>4, <1>7, <1>8 DEF TraceOK
<1>10. QED BY <1>9 DEF st2, q2, left2, mid, nothing

LEMMA AppendKeepsTrace ==
    ASSUME XorIInv, NEW s \in XorSample, AppendToChunk(s)
    PROVE  XorIInv'
<1> DEFINE n == chunk.num
           x == chunk.stream
           mid == n + 1
<1>1. PICK st, q, left :
        /\ TraceOK(n, st, q, left)
        /\ left[0] = x
        /\ ChunkAt(chunk, st[n])
        /\ IsList(series) /\ Len(series) = n
        /\ \A k \in 1..n : series[k] = [t |-> st[k].t, v |-> st[k].v]
  BY DEF XorIInv
<1> DEFINE a == st[n]
           cl == chunk.leading
           ct == chunk.trailing
<1>2. n \in Nat /\ mid \in Nat /\ mid = n + 1 /\ mid \in 0..mid /\ n \in 0..n /\ 0 \in 0..n
      /\ mid \in 1..mid /\ 0 \in 0..mid /\ 0 # mid
  BY <1>1 DEF TraceOK
<1>3. /\ StopOK(a) /\ IsList(x) /\ (n = 0 => a.d = 0)
  BY <1>1, <1>2 DEF TraceOK, Start
<1>4. chunk = ChunkOf(x, n, a.t, a.v, a.d, cl, ct) /\ Windows(cl, ct, a.l, a.r)
  BY <1>1 DEF ChunkAt
<1>5. s.t \in XorTimes /\ s.v \in Values /\ s = [t |-> s.t, v |-> s.v]
  BY DEF XorSample, XorTimes, Values
<1> DEFINE t == s.t
           v == s.v
<1>6. AppendSample(chunk, s) =
         AppendSample(ChunkOf(x, n, a.t, a.v, a.d, cl, ct), [t |-> t, v |-> v])
  BY <1>4, <1>5
<1> HIDE DEF t, v, a, cl, ct, n, x
<1>7. SampleReads(x, n, a.t, a.v, a.d, cl, ct, a.l, a.r, t, v)
  <2>1. a.t \in XorTimes /\ a.v \in Values /\ a.d \in XorTimes
        /\ t \in XorTimes /\ v \in Values
    BY <1>3, <1>5 DEF StopOK, t, v
  <2>2. QED BY ONLY <1>2, <1>3, <1>4, <2>1, SampleReadsBack
<1>8. PICK p, e, cl2, ct2, l2, r2 :
        /\ IsList(p) /\ e \in XorTimes /\ Windows(cl2, ct2, l2, r2)
        /\ AppendSample(ChunkOf(x, n, a.t, a.v, a.d, cl, ct), [t |-> t, v |-> v]) =
              ChunkOf(Join(x, p), n + 1, t, v, e, cl2, ct2)
        /\ \A z : IsList(z) => NextSample(At(Join(p, z), n, a.t, a.v, a.d, a.l, a.r)) =
                                  At(z, n + 1, t, v, e, l2, r2)
  BY <1>7 DEF SampleReads
<1> DEFINE b == [t |-> t, v |-> v, d |-> e, l |-> l2, r |-> r2]
           nothing == << >>
           st2 == [k \in 0..(n + 1) |-> IF k = n + 1 THEN b ELSE st[k]]
           q2 == [k \in 1..(n + 1) |-> IF k = n + 1 THEN p ELSE q[k]]
           left2 == [k \in 0..(n + 1) |-> IF k = n + 1 THEN nothing ELSE Join(left[k], p)]
           y == Join(x, p)
<1>9. b.t = t /\ b.v = v /\ b.d = e /\ b.l = l2 /\ b.r = r2
  OBVIOUS
<1> HIDE DEF b
<1>10. StopOK(b) /\ StepReads(a, n, p, b)
  <2>1. StopOK(b)
    BY <1>5, <1>8, <1>9 DEF StopOK, Windows, t, v
  <2>2. \A z : IsList(z) => NextSample(AtStop(Join(p, z), n, a)) = AtStop(z, n + 1, b)
    BY <1>8, <1>9 DEF AtStop
  <2>3. QED BY <2>1, <2>2 DEF StepReads
<1>11. TraceOK(n + 1, st2, q2, left2)
  BY <1>1, <1>8, <1>10, TraceGoesOn DEF a, n
<1> HIDE DEF nothing
<1>12. /\ st2[mid] = b /\ left2[0] = y
       /\ \A k \in 1..n : st2[k] = st[k] /\ k # mid /\ k \in 1..mid
  <2>1. \A k \in 1..n : k \in 0..(n + 1) /\ k # n + 1 /\ k \in 1..mid
    BY <1>2
  <2>2. st2[n + 1] = b
    BY <1>2
  <2>3. left2[0] = y
    BY <1>1, <1>2 DEF x, n
  <2>4. QED BY <1>2, <2>1, <2>2, <2>3
<1> HIDE DEF st2, q2, left2, y
<1>13. chunk' = ChunkOf(y, mid, t, v, e, cl2, ct2)
  BY <1>6, <1>8 DEF AppendToChunk, y
<1>14. /\ chunk'.num = mid /\ chunk'.stream = y /\ chunk'.leading = cl2 /\ chunk'.trailing = ct2
  BY <1>13 DEF ChunkOf
<1>15. ChunkAt(chunk', b)
  BY <1>8, <1>9, <1>13, <1>14 DEF ChunkAt
<1>16. /\ IsList(series') /\ Len(series') = mid
       /\ \A k \in 1..mid : series'[k] = [t |-> st2[k].t, v |-> st2[k].v]
  <2> DEFINE one == <<s>>
             w == Join(series, one)
  <2>1. series' = w
    <3>1. series \in Seq({series[i] : i \in 1..Len(series)})
      BY <1>1, <1>2, ListOf DEF IsList, n
    <3> DEFINE E == {series[i] : i \in 1..Len(series)}
    <3>2. series \in Seq(E)
      BY <3>1
    <3> HIDE DEF E
    <3>3. Append(series, s) = series \o <<s>>
      BY <3>2
    <3>4. QED BY <3>3 DEF AppendToChunk, Join
  <2>2. IsList(one) /\ Len(one) = 1 /\ one[1] = s
    BY OneElement
  <2> HIDE DEF one
  <2>3. /\ IsList(w) /\ Len(w) = Len(series) + Len(one)
        /\ \A i \in 1..(Len(series) + Len(one)) :
              w[i] = IF i <= Len(series) THEN series[i] ELSE one[i - Len(series)]
    BY <1>1, <2>2, ListsJoined
  <2>4. Len(series) = n
    BY <1>1 DEF n
  <2> HIDE DEF w
  <2>5. /\ Len(w) = n + 1
        /\ \A i \in 1..(n + 1) : w[i] = IF i <= n THEN series[i] ELSE one[i - n]
    BY <2>2, <2>3, <2>4
  <2>6. ASSUME NEW k \in 1..mid PROVE w[k] = [t |-> st2[k].t, v |-> st2[k].v]
    <3>1. CASE k <= n
      <4>1. k \in 1..n /\ k \in 1..(n + 1)
        BY <1>2, <3>1
      <4>2. w[k] = series[k] /\ series[k] = [t |-> st[k].t, v |-> st[k].v]
        BY <1>1, <2>5, <3>1, <4>1 DEF n
      <4>3. QED BY <1>12, <4>1, <4>2
    <3>2. CASE ~(k <= n)
      <4>1. k = mid /\ k \in 1..(n + 1) /\ k - n = 1
        BY <1>2, <3>2
      <4>2. w[k] = s
        BY <2>2, <2>5, <3>2, <4>1
      <4>3. s = [t |-> t, v |-> v]
        BY <1>5 DEF t, v
      <4>4. QED BY <1>9, <1>12, <4>1, <4>2, <4>3
    <3>3. QED BY <3>1, <3>2
  <2>7. QED BY <1>2, <2>1, <2>3, <2>5, <2>6
<1>17. TraceOK(mid, st2, q2, left2)
  BY <1>11
<1> HIDE DEF mid
<1>18. QED BY <1>12, <1>14, <1>15, <1>16, <1>17 DEF XorIInv

LEMMA AppenderKeepsTrace ==
    ASSUME XorIInv, NewAppender
    PROVE  XorIInv'
<1> DEFINE n == chunk.num
           x == chunk.stream
<1>1. PICK st, q, left :
        /\ TraceOK(n, st, q, left)
        /\ left[0] = x
        /\ ChunkAt(chunk, st[n])
        /\ IsList(series) /\ Len(series) = n
        /\ \A k \in 1..n : series[k] = [t |-> st[k].t, v |-> st[k].v]
  BY DEF XorIInv
<1> DEFINE a == st[n]
           cl == IF n = 0 THEN Unset ELSE a.l
           it == Iterators(chunk)[n]
<1>2. n \in Nat /\ n \in 0..n
  BY <1>1 DEF TraceOK
<1>3. it = AtStop(left[n], n, a)
  <2>1. TraceOK(chunk.num, st, q, left) /\ left[0] = chunk.stream
    BY <1>1
  <2>2. \A k \in 0..chunk.num : Iterators(chunk)[k] = AtStop(left[k], k, st[k])
    BY ONLY <2>1, IterationStops
  <2>3. QED BY <1>2, <2>2
<1>4. it.t = a.t /\ it.v = a.v /\ it.tDelta = a.d /\ it.leading = a.l /\ it.trailing = a.r
  <2> HIDE DEF it
  <2>1. QED BY <1>3 DEF AtStop, At
<1>5. /\ chunk = ChunkOf(x, n, a.t, a.v, a.d, chunk.leading, chunk.trailing)
      /\ Windows(chunk.leading, chunk.trailing, a.l, a.r)
  BY <1>1 DEF ChunkAt
<1>6. chunk' = [chunk EXCEPT !.t = a.t, !.v = a.v, !.tDelta = a.d,
                             !.leading = cl, !.trailing = a.r]
  BY <1>4 DEF NewAppender, Appender
<1> HIDE DEF it
<1>7. chunk' = ChunkOf(x, n, a.t, a.v, a.d, cl, a.r)
  <2> HIDE DEF a, n, x, cl
  <2> DEFINE b1 == [chunk EXCEPT !.t = a.t]
             b2 == [b1 EXCEPT !.v = a.v]
             b3 == [b2 EXCEPT !.tDelta = a.d]
             b4 == [b3 EXCEPT !.leading = cl]
             b5 == [b4 EXCEPT !.trailing = a.r]
  <2>1. chunk' = b5
    BY <1>5, <1>6 DEF b5, b4, b3, b2, b1, ChunkOf
  <2>2. b1 = ChunkOf(x, n, a.t, a.v, a.d, chunk.leading, chunk.trailing)
    BY <1>5 DEF ChunkOf
  <2> HIDE DEF b1
  <2>3. b2 = ChunkOf(x, n, a.t, a.v, a.d, chunk.leading, chunk.trailing)
    BY <2>2 DEF ChunkOf
  <2> HIDE DEF b2
  <2>4. b3 = ChunkOf(x, n, a.t, a.v, a.d, chunk.leading, chunk.trailing)
    BY <2>3 DEF ChunkOf
  <2> HIDE DEF b3
  <2>5. b4 = ChunkOf(x, n, a.t, a.v, a.d, cl, chunk.trailing)
    BY <2>4 DEF ChunkOf
  <2> HIDE DEF b4
  <2>6. b5 = ChunkOf(x, n, a.t, a.v, a.d, cl, a.r)
    BY <2>5 DEF ChunkOf
  <2>7. QED BY <2>1, <2>6
<1>8. /\ chunk'.num = n /\ chunk'.stream = x /\ chunk'.leading = cl /\ chunk'.trailing = a.r
  <2> HIDE DEF n, x, cl, a
  <2>1. QED BY <1>7 DEF ChunkOf
<1>9. Windows(cl, a.r, a.l, a.r)
  <2>1. CASE n = 0
    <3>1. a = Start
      BY <1>1, <2>1 DEF TraceOK
    <3>2. a.l = 0 /\ a.r = 0
      BY <3>1 DEF Start
    <3> HIDE DEF a
    <3>3. QED BY <1>5, <2>1, <3>2 DEF Windows
  <2>2. CASE n # 0
    BY <1>5, <2>2 DEF Windows
  <2>3. QED BY <2>1, <2>2
<1>10. ChunkAt(chunk', a)
  BY <1>7, <1>8, <1>9 DEF ChunkAt
<1>11. series' = series
  BY DEF NewAppender
<1>12. QED BY <1>1, <1>8, <1>10, <1>11 DEF XorIInv

LEMMA XorNextKeeps ==
    XorIInv /\ [NewAppender \/ \E s \in XorSample : AppendToChunk(s)]_xorVars => XorIInv'
<1> SUFFICES ASSUME XorIInv,
                    [NewAppender \/ \E s \in XorSample : AppendToChunk(s)]_xorVars
             PROVE  XorIInv'
  OBVIOUS
<1>1. CASE NewAppender
  BY <1>1, AppenderKeepsTrace
<1>2. CASE \E s \in XorSample : AppendToChunk(s)
  <2>1. PICK s \in XorSample : AppendToChunk(s)
    BY <1>2
  <2>2. QED BY <2>1, AppendKeepsTrace
<1>3. CASE UNCHANGED xorVars
  BY <1>3 DEF xorVars, XorIInv
<1>4. QED BY <1>1, <1>2, <1>3

LEMMA TraceReadsBack == XorIInv => XorReadsBack
<1> SUFFICES ASSUME XorIInv PROVE Samples(chunk) = series
  BY DEF XorReadsBack
<1> DEFINE n == chunk.num
<1>1. PICK st, q, left :
        /\ TraceOK(n, st, q, left)
        /\ left[0] = chunk.stream
        /\ IsList(series) /\ Len(series) = n
        /\ \A k \in 1..n : series[k] = [t |-> st[k].t, v |-> st[k].v]
  BY DEF XorIInv
<1> DEFINE its == Iterators(chunk)
<1>2. n \in Nat /\ \A k \in 0..n : its[k] = AtStop(left[k], k, st[k])
  <2>1. TraceOK(chunk.num, st, q, left) /\ left[0] = chunk.stream
    BY <1>1
  <2>2. \A k \in 0..chunk.num : Iterators(chunk)[k] = AtStop(left[k], k, st[k])
    BY ONLY <2>1, IterationStops
  <2>3. QED BY <2>1, <2>2 DEF TraceOK
<1>3. Samples(chunk) = [k \in 1..n |-> [t |-> its[k].t, v |-> its[k].v]]
  BY DEF Samples
<1> HIDE DEF its, n
<1>4. ASSUME NEW k \in 1..n PROVE [t |-> its[k].t, v |-> its[k].v] = series[k]
  <2>1. k \in 0..n
    BY <1>2
  <2>2. its[k] = AtStop(left[k], k, st[k])
    BY <1>2, <2>1
  <2>3. its[k].t = st[k].t /\ its[k].v = st[k].v
    BY <2>2 DEF AtStop, At
  <2>4. QED BY <1>1, <2>3
<1>5. series = [k \in 1..n |-> series[k]]
  BY <1>1 DEF IsList
<1>6. QED BY <1>3, <1>4, <1>5

(* Whatever is appended to a chunk of any widths, and whenever a new
   appender takes over, an iteration gives it back: XorReadsBack.  (num is
   a number: of the code, for as many samples as its 16 bits count.) *)
THEOREM XorChunkReadsBack == XorSpec => []XorReadsBack
<1>1. XorInit => XorIInv
  BY XorInitIInv
<1>2. XorIInv /\ [NewAppender \/ \E s \in XorSample : AppendToChunk(s)]_xorVars => XorIInv'
  BY XorNextKeeps
<1>3. XorIInv => XorReadsBack
  BY TraceReadsBack
<1>4. QED BY <1>1, <1>2, <1>3, PTL DEF XorSpec
=============================================================================
