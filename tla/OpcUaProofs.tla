------------------------------ MODULE OpcUaProofs ------------------------------
(***************************************************************************)
(* Proofs about OpcUa: its types, with them the account of its pool, and   *)
(* that a variable is reported with the value of its own node.  While      *)
(* there is a broker the counter Idle is the length of the list, and       *)
(* every client is in the list or with one goroutine, through requests     *)
(* that wait, clients handed over, sessions lost, redials, panics and      *)
(* brokers made anew, for any number of groups and of clients.             *)
(*                                                                         *)
(* How many clients there are depends on the length of the list of         *)
(* variables, which updates change: VariableTableProofs says that an       *)
(* updated list is a list.                                                 *)
(***************************************************************************)
EXTENDS OpcUa, VariableTableProofs

-----------------------------------------------------------------------------
(* How many requests and clients there are. *)

LEMMA Multiples ==
    ASSUME NEW b \in Nat \ {0}, NEW p \in Int, NEW q \in Int
    PROVE  /\ p < q => b * p + b <= b * q
           /\ b * (p - 1) = b * p - b
           /\ b * p \in Int
OBVIOUS

LEMMA PlaceIsUnique ==
    ASSUME NEW b \in Nat \ {0}, NEW p \in Int, NEW q \in Int,
           NEW k \in 1..b, NEW l \in 1..b, b * p + k = b * q + l
    PROVE  p = q /\ k = l
<1>1. b * p \in Int /\ b * q \in Int
  BY Multiples
<1>2. ~(p < q)
  <2>1. p < q => b * p + b <= b * q
    BY Multiples
  <2>2. QED BY <1>1, <2>1
<1>3. ~(q < p)
  <2>1. q < p => b * q + b <= b * p
    BY Multiples
  <2>2. QED BY <1>1, <2>1
<1>4. QED BY <1>1, <1>2, <1>3

HowMany(vs) == (Len(vs) + GroupSize - 1) \div GroupSize

(* So many groups are enough, and one less is not. *)
LEMMA HowManyIs ==
    ASSUME NEW E, NEW vs \in Seq(E), ~(Len(vs) <= GroupSize)
    PROVE  /\ HowMany(vs) \in Nat \ {0}
           /\ GroupSize * (HowMany(vs) - 1) < Len(vs)
           /\ Len(vs) <= GroupSize * HowMany(vs)
<1>1. GroupSize \in Nat \ {0} /\ Len(vs) \in Nat
  BY OpcUaAssumption
<1> DEFINE a == Len(vs) + GroupSize - 1
           n == a \div GroupSize
<1>2. a \in Nat /\ n \in Nat
  <2>1. a \in Nat
    BY <1>1
  <2> HIDE DEF a
  <2>2. QED BY <1>1, <2>1, Quotient
<1>3. PICK r \in 0..(GroupSize - 1) : a = GroupSize * n + r
  <2> HIDE DEF a
  <2>1. QED BY <1>1, <1>2, Division
<1> HIDE DEF n
<1>4. GroupSize * n \in Int /\ GroupSize * (n - 1) = GroupSize * n - GroupSize
  BY <1>1, <1>2, Multiples
<1>5. Len(vs) <= GroupSize * n /\ GroupSize * (n - 1) < Len(vs)
  BY <1>1, <1>3, <1>4
<1>6. n # 0
  <2>1. n = 0 => GroupSize * n = 0
    BY <1>1
  <2>2. QED BY <1>1, <1>5, <2>1
<1>7. QED BY <1>2, <1>5, <1>6 DEF HowMany, n

(* The i-th piece has the places behind those of the pieces before it. *)
LEMMA PieceIs ==
    ASSUME NEW E, NEW vs \in Seq(E), ~(Len(vs) <= GroupSize),
           NEW i \in 1..HowMany(vs)
    PROVE  LET p == Pieces(vs, HowMany(vs))[i]
               place(k) == GroupSize * (i - 1) + k
           IN  /\ IsList(p)
               /\ \A k \in 1..Len(p) : /\ k \in 1..GroupSize /\ place(k) \in 1..Len(vs)
                                       /\ p[k] = vs[place(k)]
               /\ \A k \in 1..GroupSize : place(k) <= Len(vs) => k \in 1..Len(p)
<1> DEFINE group == HowMany(vs)
           p == Pieces(vs, group)[i]
           before == GroupSize * (i - 1)
           upto == IF i = group THEN Len(vs) ELSE GroupSize * i
<1>1. GroupSize \in Nat \ {0} /\ Len(vs) \in Nat
  BY OpcUaAssumption
<1>2. /\ group \in Nat \ {0}
      /\ GroupSize * (group - 1) < Len(vs)
      /\ Len(vs) <= GroupSize * group
  BY HowManyIs
<1>3. p = SubSeq(vs, before + 1, upto)
  BY DEF Pieces
<1> HIDE DEF group, p
<1>4. /\ before \in Nat /\ GroupSize * i = before + GroupSize
      /\ GroupSize * i \in Nat
  <2>1. GroupSize * (i - 1) = GroupSize * i - GroupSize /\ GroupSize * i \in Int
    BY <1>1, Multiples
  <2>2. GroupSize * (i - 1) \in Nat
    BY <1>1, <1>2
  <2>3. QED BY <1>1, <2>1, <2>2
<1>5. /\ before < upto /\ upto <= Len(vs) /\ upto <= before + GroupSize /\ upto \in Nat
      /\ upto = Len(vs) \/ upto = before + GroupSize
  <2>1. CASE i = group
    <3>1. Len(vs) <= before + GroupSize /\ before < Len(vs)
      BY <1>2, <1>4, <2>1
    <3>2. QED BY <1>1, <1>4, <2>1, <3>1
  <2>2. CASE i # group
    <3>1. i <= group - 1 /\ i \in Int /\ group - 1 \in Int
      BY <1>2, <2>2 DEF group
    <3>2. GroupSize * i <= GroupSize * (group - 1)
      <4>1. CASE i = group - 1
        BY <1>1, <3>1, <4>1
      <4>2. CASE i < group - 1
        <5>1. GroupSize * i + GroupSize <= GroupSize * (group - 1)
          BY <1>1, <3>1, <4>2, Multiples
        <5>2. GroupSize * (group - 1) \in Int
          BY <1>1, <3>1, Multiples
        <5>3. QED BY <1>1, <1>4, <5>1, <5>2
      <4>3. QED BY <3>1, <4>1, <4>2
    <3>3. GroupSize * (group - 1) \in Int
      BY <1>1, <3>1, Multiples
    <3>4. upto = before + GroupSize /\ upto < Len(vs)
      BY <1>1, <1>2, <1>4, <2>2, <3>2, <3>3
    <3> HIDE DEF before, upto
    <3>5. QED BY <1>1, <1>4, <3>4
  <2>3. QED BY <2>1, <2>2
<1> HIDE DEF before, upto
<1>6. p = [k \in 1..(upto - before) |-> vs[before + k]]
  <2>1. p = [k \in 1..(1 + upto - (before + 1)) |-> vs[k + (before + 1) - 1]]
    BY <1>3, <1>4, <1>5
  <2>2. 1 + upto - (before + 1) = upto - before
        /\ \A k \in 1..(upto - before) : k + (before + 1) - 1 = before + k
    BY <1>4, <1>5
  <2>3. QED BY <2>1, <2>2
<1>7. IsList(p) /\ Len(p) = upto - before
  <2>1. upto - before \in Nat
    BY <1>4, <1>5
  <2>2. p = [k \in 1..(upto - before) |-> p[k]]
    BY <1>6
  <2>3. Len(p) = upto - before
    BY <2>1, <2>2, ListOf
  <2>4. QED BY <2>1, <2>2, <2>3 DEF IsList
<1>8. ASSUME NEW k \in 1..Len(p)
      PROVE  /\ k \in 1..GroupSize /\ before + k \in 1..Len(vs)
             /\ p[k] = vs[before + k]
  <2>1. k \in 1..(upto - before)
    BY <1>7
  <2>2. k \in 1..GroupSize /\ before + k \in 1..Len(vs)
    BY <1>1, <1>4, <1>5, <2>1
  <2>3. QED BY <1>6, <2>1, <2>2
<1>9. ASSUME NEW k \in 1..GroupSize, before + k <= Len(vs)
      PROVE  k \in 1..Len(p)
  BY <1>1, <1>4, <1>5, <1>7, <1>9
<1>10. QED BY <1>7, <1>8, <1>9 DEF p, group, before

(* The empty groups, and behind them the pieces. *)
LEMMA GroupsCut ==
    ASSUME NEW E, NEW vs \in Seq(E), ~(Len(vs) <= GroupSize)
    PROVE  LET n == HowMany(vs)
               groups == VariablesInGroupOf(vs)
           IN  /\ DOMAIN groups = 1..(n + 1 + n)
               /\ \A i \in 1..(n + 1) : groups[i] = << >>
               /\ \A i \in 1..n : groups[n + 1 + i] = Pieces(vs, n)[i]
<1> DEFINE n == HowMany(vs)
           groups == VariablesInGroupOf(vs)
           empty == [i \in 1..(n + 1) |-> << >>]
           pieces == Pieces(vs, n)
<1>1. n \in Nat
  BY HowManyIs
<1>2. groups = empty \o pieces
  BY DEF VariablesInGroupOf, HowMany
<1>3. pieces = [i \in 1..n |-> pieces[i]] /\ empty = [i \in 1..(n + 1) |-> empty[i]]
      /\ \A i \in 1..(n + 1) : empty[i] = << >>
  BY DEF Pieces
<1> HIDE DEF n, groups, empty, pieces
<1>4. /\ empty \in Seq({empty[i] : i \in 1..(n + 1)}) /\ Len(empty) = n + 1
      /\ pieces \in Seq({pieces[i] : i \in 1..n}) /\ Len(pieces) = n
  <2>1. n + 1 \in Nat
    BY <1>1
  <2>2. empty \in Seq({empty[i] : i \in 1..(n + 1)}) /\ Len(empty) = n + 1
    BY <1>3, <2>1, ListOf
  <2>3. pieces \in Seq({pieces[i] : i \in 1..n}) /\ Len(pieces) = n
    BY <1>1, <1>3, ListOf
  <2>4. QED BY <2>2, <2>3
<1>5. /\ DOMAIN (empty \o pieces) = 1..(n + 1 + n)
      /\ \A i \in 1..(n + 1 + n) :
            (empty \o pieces)[i] = IF i <= n + 1 THEN empty[i] ELSE pieces[i - (n + 1)]
  <2>1. /\ DOMAIN (empty \o pieces) = 1..(Len(empty) + Len(pieces))
        /\ \A i \in 1..(Len(empty) + Len(pieces)) :
              (empty \o pieces)[i] = IF i <= Len(empty) THEN empty[i]
                                     ELSE pieces[i - Len(empty)]
    <3>1. PICK A : empty \in Seq(A)
      BY <1>4
    <3>2. PICK B : pieces \in Seq(B)
      BY <1>4
    <3>3. QED BY <3>1, <3>2, Joined
  <2>2. QED BY <1>4, <2>1
<1>6. \A i \in 1..(n + 1) : i \in 1..(n + 1 + n) /\ i <= n + 1
  BY <1>1
<1>7. \A i \in 1..n : n + 1 + i \in 1..(n + 1 + n) /\ ~(n + 1 + i <= n + 1)
                      /\ (n + 1 + i) - (n + 1) = i
  BY <1>1
<1>8. \A i \in 1..(n + 1) : groups[i] = << >>
  BY <1>2, <1>3, <1>5, <1>6
<1>9. \A i \in 1..n : groups[n + 1 + i] = pieces[i]
  BY <1>2, <1>5, <1>7
<1>10. QED BY <1>2, <1>5, <1>8, <1>9 DEF groups, n, pieces

(* The groups are lists of lists, whichever way they are cut. *)
LEMMA GroupsAre ==
    ASSUME NEW E, NEW vs \in Seq(E)
    PROVE  \E n \in Nat : /\ DOMAIN VariablesInGroupOf(vs) = 1..n
                          /\ \A i \in 1..n : IsList(VariablesInGroupOf(vs)[i])
<1> DEFINE groups == VariablesInGroupOf(vs)
<1>0. IsList(vs) /\ IsList(<< >>)
  BY DEF IsList
<1>1. CASE Len(vs) <= GroupSize
  <2>1. groups = <<vs>>
    BY <1>1 DEF VariablesInGroupOf
  <2>2. DOMAIN groups = 1..1 /\ \A i \in 1..1 : groups[i] = vs
    BY <2>1
  <2>3. QED BY <1>0, <2>2
<1>2. CASE ~(Len(vs) <= GroupSize)
  <2> DEFINE n == HowMany(vs)
  <2>1. /\ DOMAIN groups = 1..(n + 1 + n)
        /\ \A i \in 1..(n + 1) : groups[i] = << >>
        /\ \A i \in 1..n : groups[n + 1 + i] = Pieces(vs, n)[i]
    BY <1>2, GroupsCut
  <2>2. n \in Nat /\ \A i \in 1..n : IsList(Pieces(vs, n)[i])
    BY <1>2, HowManyIs, PieceIs
  <2> HIDE DEF n, groups
  <2>3. ASSUME NEW i \in 1..(n + 1 + n) PROVE IsList(groups[i])
    <3>1. CASE i <= n + 1
      <4>1. i \in 1..(n + 1)
        BY <2>2, <3>1
      <4>2. QED BY <1>0, <2>1, <4>1
    <3>2. CASE ~(i <= n + 1)
      <4>1. i - (n + 1) \in 1..n /\ n + 1 + (i - (n + 1)) = i
        BY <2>2, <3>2
      <4>2. groups[i] = Pieces(vs, n)[i - (n + 1)]
        BY <2>1, <4>1
      <4>3. QED BY <2>2, <4>1, <4>2
    <3>3. QED BY <3>1, <3>2
  <2>4. n + 1 + n \in Nat
    BY <2>2
  <2>5. QED BY <2>1, <2>3, <2>4 DEF groups
<1>3. QED BY <1>1, <1>2

(* The groups' variables are those of the list, each in one place. *)
Partition(groups, vs) ==
    /\ \A i \in DOMAIN groups : \A k \in DOMAIN groups[i] : groups[i][k] \in ToSet(vs)
    /\ \A v \in ToSet(vs) :
          \E i \in DOMAIN groups : \E k \in DOMAIN groups[i] : groups[i][k] = v
    /\ Unambiguous(vs) =>
          \A i, j \in DOMAIN groups : \A k \in DOMAIN groups[i], l \in DOMAIN groups[j] :
             groups[i][k].name = groups[j][l].name => i = j /\ k = l

LEMMA GroupsPartition ==
    ASSUME NEW E, NEW vs \in Seq(E)
    PROVE  Partition(VariablesInGroupOf(vs), vs)
<1> DEFINE groups == VariablesInGroupOf(vs)
<1>0. DOMAIN vs = 1..Len(vs) /\ Len(vs) \in Nat
  OBVIOUS
<1>1. CASE Len(vs) <= GroupSize
  <2>1. groups = <<vs>>
    BY <1>1 DEF VariablesInGroupOf
  <2>2. DOMAIN groups = {1} /\ groups[1] = vs
    BY <2>1
  <2> HIDE DEF groups
  <2>3. QED BY <2>2 DEF Partition, ToSet, Unambiguous, groups
<1>2. CASE ~(Len(vs) <= GroupSize)
  <2> DEFINE n == HowMany(vs)
             place(i, k) == GroupSize * (i - 1) + k
             p(i) == Pieces(vs, n)[i]
  <2>1. /\ DOMAIN groups = 1..(n + 1 + n)
        /\ \A i \in 1..(n + 1) : groups[i] = << >>
        /\ \A i \in 1..n : groups[n + 1 + i] = p(i)
    BY <1>2, GroupsCut
  <2>2. /\ n \in Nat \ {0}
        /\ Len(vs) <= GroupSize * n
    BY <1>2, HowManyIs
  <2>3. ASSUME NEW i \in 1..n
        PROVE  /\ DOMAIN p(i) = 1..Len(p(i))
               /\ \A k \in 1..Len(p(i)) :
                     /\ k \in 1..GroupSize /\ place(i, k) \in 1..Len(vs)
                     /\ p(i)[k] = vs[place(i, k)]
               /\ \A k \in 1..GroupSize : place(i, k) <= Len(vs) => k \in 1..Len(p(i))
    <3>1. /\ IsList(p(i))
          /\ \A k \in 1..Len(p(i)) :
                /\ k \in 1..GroupSize /\ place(i, k) \in 1..Len(vs)
                /\ p(i)[k] = vs[place(i, k)]
          /\ \A k \in 1..GroupSize : place(i, k) <= Len(vs) => k \in 1..Len(p(i))
      BY <1>2, PieceIs
    <3> HIDE DEF p, place
    <3>2. DOMAIN p(i) = 1..Len(p(i))
      BY <3>1 DEF IsList
    <3>3. QED BY <3>1, <3>2
  <2>4. GroupSize \in Nat \ {0}
    BY OpcUaAssumption
  <2> HIDE DEF n, groups, p, place
  (* Where a group has a variable it is a piece. *)
  <2>5. ASSUME NEW i \in DOMAIN groups, NEW k \in DOMAIN groups[i]
        PROVE  \E h \in 1..n : /\ i = n + 1 + h /\ k \in 1..Len(p(h))
                               /\ groups[i][k] = vs[place(h, k)]
                               /\ place(h, k) \in 1..Len(vs) /\ k \in 1..GroupSize
    <3>1. ~(i <= n + 1)
      <4>1. i <= n + 1 => i \in 1..(n + 1)
        BY <2>1, <2>2
      <4>2. DOMAIN << >> = {}
        OBVIOUS
      <4>3. QED BY <2>1, <2>5, <4>1, <4>2
    <3>2. i - (n + 1) \in 1..n /\ n + 1 + (i - (n + 1)) = i
      BY <2>1, <2>2, <3>1
    <3>3. groups[i] = p(i - (n + 1))
      BY <2>1, <3>2
    <3>4. QED BY <2>3, <2>5, <3>2, <3>3
  <2>6. ASSUME NEW i \in DOMAIN groups, NEW k \in DOMAIN groups[i]
        PROVE  groups[i][k] \in ToSet(vs)
    BY <1>0, <2>5, <2>6 DEF ToSet
  <2>7. ASSUME NEW v \in ToSet(vs)
        PROVE  \E i \in DOMAIN groups : \E k \in DOMAIN groups[i] : groups[i][k] = v
    <3>1. PICK j \in 1..Len(vs) : vs[j] = v
      BY <1>0 DEF ToSet
    <3>2. j - 1 \in Nat
      BY <1>0
    <3> DEFINE q == (j - 1) \div GroupSize
    <3>3. q \in Nat
      BY <2>4, <3>2, Quotient
    <3>4. PICK r \in 0..(GroupSize - 1) : j - 1 = GroupSize * q + r
      BY <2>4, <3>2, Division
    <3> HIDE DEF q
    <3>5. q < n
      <4>1. GroupSize * q < GroupSize * n
        BY <1>0, <2>2, <2>4, <3>3, <3>4, Multiples
      <4>2. n < q => GroupSize * n + GroupSize <= GroupSize * q
        BY <2>2, <2>4, <3>3, Multiples
      <4>3. GroupSize * n \in Int /\ GroupSize * q \in Int
        BY <2>2, <2>4, <3>3, Multiples
      <4>4. ~(n < q) /\ n # q
        BY <2>4, <4>1, <4>2, <4>3
      <4>5. QED BY <2>2, <3>3, <4>4
    <3>6. q + 1 \in 1..n /\ r + 1 \in 1..GroupSize /\ (q + 1) - 1 = q
      BY <2>2, <2>4, <3>3, <3>5
    <3>7. place(q + 1, r + 1) = j
      <4>1. GroupSize * q \in Int
        BY <2>4, <3>3, Multiples
      <4>2. place(q + 1, r + 1) = GroupSize * q + (r + 1)
        BY <3>6 DEF place
      <4>3. QED BY <1>0, <2>4, <3>4, <4>1, <4>2
    <3>8. r + 1 \in DOMAIN p(q + 1) /\ p(q + 1)[r + 1] = v
      <4>1. r + 1 \in 1..Len(p(q + 1))
        BY <1>0, <2>3, <3>6, <3>7
      <4>2. QED BY <2>3, <3>1, <3>6, <3>7, <4>1
    <3>9. n + 1 + (q + 1) \in DOMAIN groups /\ groups[n + 1 + (q + 1)] = p(q + 1)
      BY <2>1, <2>2, <3>6
    <3>10. QED BY <3>8, <3>9
  <2>8. ASSUME Unambiguous(vs), NEW i \in DOMAIN groups, NEW j \in DOMAIN groups,
               NEW k \in DOMAIN groups[i], NEW l \in DOMAIN groups[j],
               groups[i][k].name = groups[j][l].name
        PROVE  i = j /\ k = l
    <3>1. PICK h \in 1..n : /\ i = n + 1 + h /\ groups[i][k] = vs[place(h, k)]
                            /\ place(h, k) \in 1..Len(vs) /\ k \in 1..GroupSize
      BY <2>5
    <3>2. PICK g \in 1..n : /\ j = n + 1 + g /\ groups[j][l] = vs[place(g, l)]
                            /\ place(g, l) \in 1..Len(vs) /\ l \in 1..GroupSize
      BY <2>5
    <3>3. place(h, k) = place(g, l)
      BY <1>0, <2>8, <3>1, <3>2 DEF Unambiguous
    <3>4. h - 1 \in Int /\ g - 1 \in Int
      BY <2>2
    <3>5. h - 1 = g - 1 /\ k = l
      <4>1. GroupSize * (h - 1) + k = GroupSize * (g - 1) + l
        BY <3>3 DEF place
      <4> DEFINE x == h - 1
                 y == g - 1
      <4>2. x \in Int /\ y \in Int /\ GroupSize * x + k = GroupSize * y + l
        BY <3>4, <4>1
      <4> HIDE DEF x, y
      <4>3. x = y /\ k = l
        BY <2>4, <3>1, <3>2, <4>2, PlaceIsUnique
      <4>4. QED BY <4>3 DEF x, y
    <3>6. QED BY <2>2, <3>1, <3>2, <3>5
  <2>9. QED BY <2>6, <2>7, <2>8 DEF Partition, groups
<1>3. QED BY <1>1, <1>2

(* A frame as it is made: its nodes are those of its variables that can be
   read. *)
Proper(f) == IsList(f.variables) /\ f.nodes = Readable(f.variables)

LEMMA FramesAre ==
    ASSUME NEW E, NEW vs \in Seq(E)
    PROVE  LET fs == NewFrames(vs)
           IN  /\ Len(fs) \in Nat /\ DOMAIN fs = 1..Len(fs)
               /\ \A i \in DOMAIN fs : Proper(fs[i])
<1> DEFINE groups == VariablesInGroupOf(vs)
           fs == NewFrames(vs)
<1>1. PICK n \in Nat : DOMAIN groups = 1..n /\ \A i \in 1..n : IsList(groups[i])
  BY GroupsAre
<1> HIDE DEF groups
<1>2. fs = [i \in 1..n |-> [variables |-> groups[i], nodes |-> Readable(groups[i])]]
  BY <1>1 DEF NewFrames, NodesToRead, groups
<1>3. DOMAIN fs = 1..n /\ fs = [i \in 1..n |-> fs[i]]
      /\ \A i \in 1..n : fs[i].variables = groups[i] /\ fs[i].nodes = Readable(groups[i])
  BY <1>2
<1> HIDE DEF fs
<1>4. Len(fs) = n
  BY <1>3, ListOf
<1>5. QED BY <1>1, <1>3, <1>4 DEF fs, Proper

(* NewClients, and goroutines that have not begun. *)
LEMMA FreshBroker ==
    ASSUME NEW fs, Len(fs) \in Nat, DOMAIN fs = 1..Len(fs)
    PROVE  LET c == Collecting(fs)
           IN  /\ \E n \in Nat :
                     /\ DOMAIN c.session = 1..n /\ Cardinality(1..n) = n
                     /\ c.Messengers \in Seq(1..n) /\ Len(c.Messengers) = n
                     /\ ToSet(c.Messengers) = 1..n /\ c.Idle = n
               /\ \A m \in DOMAIN c.session : c.session[m] = "open"
               /\ DOMAIN c.pc = DOMAIN fs /\ DOMAIN c.granted = DOMAIN fs
               /\ DOMAIN c.tries = DOMAIN fs
               /\ \A i \in DOMAIN fs : /\ c.pc[i] = "done" /\ c.granted[i] = 0
                                      /\ c.tries[i] = 0
<1> DEFINE c == Collecting(fs)
           n == Len(fs) \div PerChannel + 1
           M == [m \in 1..n |-> m]
<1>1. n \in Nat
  <2>1. PerChannel \in Nat \ {0}
    BY OpcUaAssumption
  <2>2. Len(fs) \div PerChannel \in Nat
    BY <2>1, Quotient
  <2>3. QED BY <2>2
<1>2. /\ c.session = [m \in 1..n |-> "open"]
      /\ c.Messengers = M /\ c.Idle = n
      /\ c.pc = [i \in DOMAIN fs |-> "done"]
      /\ c.granted = [i \in DOMAIN fs |-> 0]
      /\ c.tries = [i \in DOMAIN fs |-> 0]
  BY DEF Collecting
<1> HIDE DEF n, c
<1>3. M \in Seq(1..n) /\ Len(M) = n
  BY <1>1
<1>4. ToSet(M) = 1..n
  BY DEF ToSet
<1>5. Cardinality(1..n) = n
  BY <1>1, FS_Interval
<1> HIDE DEF M
<1>6. /\ DOMAIN c.session = 1..n /\ Cardinality(1..n) = n
      /\ c.Messengers \in Seq(1..n) /\ Len(c.Messengers) = n
      /\ ToSet(c.Messengers) = 1..n /\ c.Idle = n
  BY <1>2, <1>3, <1>4, <1>5
<1>7. QED BY <1>1, <1>2, <1>6 DEF c

-----------------------------------------------------------------------------
(* The results of a request, matched by their places. *)

ReadableFold(it, vs) ==
    it = [T \in SUBSET DOMAIN vs |->
             IF T = {} THEN << >>
             ELSE IF AskedFor(vs[Max(T)])
                  THEN Append(it[T \ {Max(T)}], vs[Max(T)])
                  ELSE it[T \ {Max(T)}]]

(* Where no variable is left out, the nodes are the variables', each of them
   asked for; where there are no nodes none is. *)
LEMMA ReadableIs ==
    ASSUME NEW vs, IsList(vs)
    PROVE  /\ Len(Readable(vs)) \in Nat
           /\ Len(Readable(vs)) >= Len(vs) =>
                 \A k \in DOMAIN vs : Readable(vs)[k] = vs[k] /\ AskedFor(vs[k])
           /\ Readable(vs) = << >> <=> \A k \in DOMAIN vs : ~AskedFor(vs[k])
<1> DEFINE n == Len(vs)
           E == {vs[k] : k \in 1..n}
           V == Seq(E)
           Next1(i, u) == IF AskedFor(vs[i]) THEN Append(u, vs[i]) ELSE u
           step == [i \in 1..n |-> [u \in V |-> Next1(i, u)]]
<1>1. n \in Nat /\ DOMAIN vs = 1..n /\ \A i \in 1..n : vs[i] \in E
  BY DEF IsList
<1> HIDE DEF n, E
<1>2. \A i \in 1..n, u \in V : Next1(i, u) \in V
  BY <1>1
<1>3. \A i \in 1..n, u \in V : \/ AskedFor(vs[i]) /\ Next1(i, u) = Append(u, vs[i])
                               \/ ~AskedFor(vs[i]) /\ Next1(i, u) = u
  OBVIOUS
<1> HIDE DEF Next1
<1>4. \A T \in SUBSET (1..n) : T # {} => Max(T) \in T
  BY <1>1, HighestIn
<1>5. << >> \in V
  OBVIOUS
<1> HIDE DEF V
<1>6. \E it \in [SUBSET (1..n) -> V] : ReadableFold(it, vs)
  <2>1. \A i \in 1..n, u \in V : step[i][u] = Next1(i, u) /\ step[i][u] \in V
    BY <1>2
  <2> HIDE DEF step
  <2>2. PICK it \in [SUBSET (1..n) -> V] : Iterates(it, n, << >>, step)
    BY <1>1, <1>5, <2>1, IterationExists
  <2>3. \A T \in SUBSET (1..n) :
          it[T] = IF T = {} THEN << >> ELSE Next1(Max(T), it[T \ {Max(T)}])
    <3>1. \A T \in SUBSET (1..n) :
            it[T] = IF T = {} THEN << >> ELSE step[Max(T)][it[T \ {Max(T)}]]
      BY <2>2 DEF Iterates
    <3> SUFFICES ASSUME NEW T \in SUBSET (1..n), T # {}
                 PROVE  it[T] = Next1(Max(T), it[T \ {Max(T)}])
      BY <3>1
    <3>2. Max(T) \in 1..n /\ T \ {Max(T)} \in SUBSET (1..n)
      BY <1>4
    <3>3. it[T \ {Max(T)}] \in V
      BY <2>2, <3>2
    <3>4. it[T] = step[Max(T)][it[T \ {Max(T)}]]
      BY <3>1
    <3>5. QED BY <2>1, <3>2, <3>3, <3>4
  <2>4. it = [T \in SUBSET (1..n) |->
                IF T = {} THEN << >> ELSE Next1(Max(T), it[T \ {Max(T)}])]
    BY <2>2, <2>3
  <2>5. ReadableFold(it, vs)
    BY <1>1, <2>4 DEF ReadableFold, Next1
  <2>6. QED BY <2>2, <2>5
<1> DEFINE it == CHOOSE it : ReadableFold(it, vs)
<1>7. ReadableFold(it, vs)
  BY <1>6
<1>8. Readable(vs) = it[DOMAIN vs]
  BY DEF Readable, FoldLeft, MapThenFoldSet, ReadableFold
<1> HIDE DEF it
<1>9. \A T \in SUBSET (1..n) :
        it[T] = IF T = {} THEN << >> ELSE Next1(Max(T), it[T \ {Max(T)}])
  BY <1>1, <1>7 DEF ReadableFold, Next1
<1> DEFINE Upto(k) == /\ it[1..k] \in Seq(E) /\ Len(it[1..k]) <= k
                      /\ Len(it[1..k]) = k =>
                            \A j \in 1..k : it[1..k][j] = vs[j] /\ AskedFor(vs[j])
                      /\ Len(it[1..k]) = 0 <=> \A j \in 1..k : ~AskedFor(vs[j])
           S == {k \in Nat : k <= n => Upto(k)}
<1>10. Upto(0)
  <2>1. 1..0 = {}
    OBVIOUS
  <2>2. it[1..0] = << >>
    BY <1>9, <2>1
  <2>3. QED BY <2>1, <2>2
<1>11. ASSUME NEW k \in 1..n, Upto(k - 1) PROVE Upto(k)
  <2>1. /\ 1..k \in SUBSET (1..n) /\ 1..k # {} /\ (1..k) \ {k} = 1..(k - 1)
        /\ Max(1..k) = k
    BY <1>1, Beginning
  <2>2. it[1..k] = Next1(Max(1..k), it[(1..k) \ {Max(1..k)}])
    BY <1>9, <2>1
  <2> DEFINE u == it[1..(k - 1)]
             w == it[1..k]
  <2>3. w = Next1(k, u)
    BY <2>1, <2>2
  <2>4. /\ u \in Seq(E) /\ Len(u) <= k - 1
        /\ Len(u) = k - 1 => \A j \in 1..(k - 1) : u[j] = vs[j] /\ AskedFor(vs[j])
        /\ Len(u) = 0 <=> \A j \in 1..(k - 1) : ~AskedFor(vs[j])
    BY <1>11
  <2>5. \/ AskedFor(vs[k]) /\ w = Append(u, vs[k])
        \/ ~AskedFor(vs[k]) /\ w = u
    BY <1>3, <2>3, <2>4 DEF V
  <2> HIDE DEF u, w
  <2>6. k \in Nat /\ k >= 1 /\ vs[k] \in E
    BY <1>1
  <2>7. CASE AskedFor(vs[k]) /\ w = Append(u, vs[k])
    <3>1. /\ w \in Seq(E) /\ Len(w) = Len(u) + 1 /\ Len(u) \in Nat
          /\ \A j \in 1..Len(u) : w[j] = u[j]
          /\ w[Len(u) + 1] = vs[k]
      BY <2>4, <2>6, <2>7
    <3>2. Len(w) <= k
      BY <2>4, <2>6, <3>1
    <3>3. ASSUME Len(w) = k, NEW j \in 1..k PROVE w[j] = vs[j] /\ AskedFor(vs[j])
      <4>1. Len(u) = k - 1
        BY <2>6, <3>1, <3>3
      <4>2. CASE j = k
        BY <2>6, <2>7, <3>1, <4>1, <4>2
      <4>3. CASE j # k
        <5>1. j \in 1..(k - 1)
          BY <2>6, <4>3
        <5>2. QED BY <2>4, <3>1, <4>1, <5>1
      <4>4. QED BY <4>2, <4>3
    <3>4. Len(w) # 0 /\ ~(\A j \in 1..k : ~AskedFor(vs[j]))
      <4>1. k \in 1..k
        BY <2>6
      <4>2. QED BY <2>7, <3>1, <4>1
    <3>5. QED BY <3>1, <3>2, <3>3, <3>4 DEF w
  <2>8. CASE ~AskedFor(vs[k]) /\ w = u
    <3>1. Len(w) <= k /\ Len(w) # k /\ w \in Seq(E)
      BY <2>4, <2>6, <2>8
    <3>2. Len(w) = 0 <=> \A j \in 1..k : ~AskedFor(vs[j])
      <4>1. \A j \in 1..k : j = k \/ j \in 1..(k - 1)
        BY <2>6
      <4>2. \A j \in 1..(k - 1) : j \in 1..k
        BY <2>6
      <4>3. QED BY <2>4, <2>8, <4>1, <4>2
    <3>3. QED BY <3>1, <3>2 DEF w
  <2>9. QED BY <2>5, <2>7, <2>8
<1> HIDE DEF Upto
<1>12. 0 \in S
  BY <1>10
<1>13. ASSUME NEW k \in Nat, k \in S PROVE k + 1 \in S
  <2> SUFFICES ASSUME k + 1 <= n PROVE Upto(k + 1)
    OBVIOUS
  <2>1. k + 1 \in 1..n /\ (k + 1) - 1 = k /\ k <= n
    BY <1>1
  <2>2. Upto(k)
    BY <1>13, <2>1
  <2>3. QED BY <1>11, <2>1, <2>2
<1> HIDE DEF S
<1>14. Nat \subseteq S
  BY <1>12, <1>13, SetInduction
<1>15. Upto(n)
  <2>1. n \in S /\ n <= n
    BY <1>1, <1>14
  <2>2. QED BY <2>1 DEF S
<1>16. /\ Readable(vs) \in Seq(E) /\ Len(Readable(vs)) <= n
       /\ Len(Readable(vs)) = n =>
             \A j \in 1..n : Readable(vs)[j] = vs[j] /\ AskedFor(vs[j])
       /\ Len(Readable(vs)) = 0 <=> \A j \in 1..n : ~AskedFor(vs[j])
  BY <1>1, <1>8, <1>15 DEF Upto
<1>17. Len(Readable(vs)) \in Nat
  BY <1>16
<1>18. Len(Readable(vs)) >= n => Len(Readable(vs)) = n
  BY <1>1, <1>16, <1>17
<1>19. Readable(vs) = << >> <=> Len(Readable(vs)) = 0
  BY <1>16
<1>20. QED BY <1>1, <1>16, <1>17, <1>18, <1>19 DEF n

ValuesFold(it, f, places) ==
    it = [T \in SUBSET DOMAIN places |->
             IF T = {} THEN << >>
             ELSE IF f.nodes[places[Max(T)]].node \in setup.nodes
                  THEN Append(it[T \ {Max(T)}],
                              [v |-> f.variables[places[Max(T)]],
                               value |-> <<f.nodes[places[Max(T)]].node, server>>])
                  ELSE it[T \ {Max(T)}]]

(* What each variable that is known is reported with, and what is gathered
   after each. *)
Got(f, i) == [v |-> f.variables[i], value |-> <<f.variables[i].node, server>>]

Gathered(r, f) ==
    /\ r[0] = << >>
    /\ \A k \in 1..Len(f.variables) :
          r[k] = IF f.variables[k].node \in setup.nodes
                 THEN Append(r[k - 1], Got(f, k)) ELSE r[k - 1]
    /\ \A k \in 0..Len(f.variables) :
          r[k] \in Seq({Got(f, i) : i \in 1..Len(f.variables)})

LEMMA ValuesAreGathered ==
    ASSUME NEW f, Proper(f), ~(Len(f.nodes) < Len(f.variables))
    PROVE  \E r : Gathered(r, f) /\ ValuesOf(f) = r[Len(f.variables)]
<1> DEFINE n == Len(f.variables)
           places == [i \in DOMAIN f.variables |-> i]
           E == {Got(f, i) : i \in 1..n}
           V == Seq(E)
           Next1(i, u) == IF f.nodes[i].node \in setup.nodes
                          THEN Append(u, [v |-> f.variables[i],
                                          value |-> <<f.nodes[i].node, server>>])
                          ELSE u
           step == [i \in 1..n |-> [u \in V |-> Next1(i, u)]]
<1>1. n \in Nat /\ DOMAIN f.variables = 1..n /\ DOMAIN places = 1..n
      /\ \A i \in 1..n : places[i] = i
  BY DEF Proper, IsList
<1>2. \A i \in 1..n : f.nodes[i] = f.variables[i]
  <2>1. /\ Len(Readable(f.variables)) \in Nat
        /\ Len(Readable(f.variables)) >= Len(f.variables) =>
              \A i \in DOMAIN f.variables : Readable(f.variables)[i] = f.variables[i]
    BY ReadableIs DEF Proper
  <2>2. f.nodes = Readable(f.variables)
    BY DEF Proper
  <2>3. QED BY <1>1, <2>1, <2>2
<1> HIDE DEF n, places
<1>3. \A i \in 1..n, u \in V : Next1(i, u) \in V
  <2> SUFFICES ASSUME NEW i \in 1..n, NEW u \in V PROVE Next1(i, u) \in V
    OBVIOUS
  <2>1. Next1(i, u) = Append(u, Got(f, i)) \/ Next1(i, u) = u
    BY <1>2 DEF Got
  <2>2. Got(f, i) \in E
    OBVIOUS
  <2> HIDE DEF E, Next1
  <2>3. QED BY <2>1, <2>2
<1>4. \A T \in SUBSET (1..n) : T # {} => Max(T) \in T
  BY <1>1, HighestIn
<1> HIDE DEF Next1, E
<1>5. << >> \in V
  OBVIOUS
<1> HIDE DEF V
<1>6. \E it : ValuesFold(it, f, places)
  <2>1. \A i \in 1..n, u \in V : step[i][u] = Next1(i, u) /\ step[i][u] \in V
    BY <1>3
  <2> HIDE DEF step
  <2>2. PICK it \in [SUBSET (1..n) -> V] : Iterates(it, n, << >>, step)
    BY <1>1, <1>5, <2>1, IterationExists
  <2>3. \A T \in SUBSET (1..n) :
          it[T] = IF T = {} THEN << >> ELSE Next1(places[Max(T)], it[T \ {Max(T)}])
    <3>1. \A T \in SUBSET (1..n) :
            it[T] = IF T = {} THEN << >> ELSE step[Max(T)][it[T \ {Max(T)}]]
      BY <2>2 DEF Iterates
    <3> SUFFICES ASSUME NEW T \in SUBSET (1..n), T # {}
                 PROVE  it[T] = Next1(places[Max(T)], it[T \ {Max(T)}])
      BY <3>1
    <3>2. Max(T) \in 1..n /\ T \ {Max(T)} \in SUBSET (1..n)
      BY <1>4
    <3>3. it[T \ {Max(T)}] \in V
      BY <2>2, <3>2
    <3>4. it[T] = step[Max(T)][it[T \ {Max(T)}]]
      BY <3>1
    <3>5. QED BY <1>1, <2>1, <3>2, <3>3, <3>4
  <2>4. it = [T \in SUBSET (1..n) |->
                IF T = {} THEN << >> ELSE Next1(places[Max(T)], it[T \ {Max(T)}])]
    BY <2>2, <2>3
  <2>5. ValuesFold(it, f, places)
    BY <1>1, <2>4 DEF ValuesFold, Next1
  <2>6. QED BY <2>5
<1> DEFINE it == CHOOSE it : ValuesFold(it, f, places)
<1>7. ValuesFold(it, f, places)
  BY <1>6
<1>8. ValuesOf(f) = it[DOMAIN places]
  BY DEF ValuesOf, FoldLeft, MapThenFoldSet, ValuesFold, places
<1> HIDE DEF it
<1>9. \A T \in SUBSET (1..n) :
        it[T] = IF T = {} THEN << >> ELSE Next1(places[Max(T)], it[T \ {Max(T)}])
  BY <1>1, <1>7 DEF ValuesFold, Next1
<1>10. it[{}] \in V
  BY <1>5, <1>9
<1>11. ASSUME NEW T \in SUBSET (1..n), T # {}, it[T \ {Max(T)}] \in V
       PROVE  it[T] \in V
  <2>1. Max(T) \in 1..n /\ places[Max(T)] = Max(T)
    BY <1>1, <1>4, <1>11
  <2>2. it[T] = Next1(Max(T), it[T \ {Max(T)}])
    BY <1>9, <1>11, <2>1
  <2>3. QED BY <1>3, <1>11, <2>1, <2>2
<1> DEFINE r == [k \in 0..n |-> it[1..k]]
<1>12. ASSUME NEW k \in 1..n
       PROVE  r[k] = IF f.variables[k].node \in setup.nodes
                     THEN Append(r[k - 1], Got(f, k)) ELSE r[k - 1]
  <2>1. /\ 1..k \in SUBSET (1..n) /\ 1..k # {} /\ (1..k) \ {k} = 1..(k - 1)
        /\ k \in 0..n /\ k - 1 \in 0..n /\ Max(1..k) = k
    BY <1>1, Beginning
  <2>2. it[1..k] = Next1(places[Max(1..k)], it[(1..k) \ {Max(1..k)}])
    BY <1>9, <2>1
  <2>3. it[1..k] = Next1(k, it[1..(k - 1)])
    BY <1>1, <2>1, <2>2
  <2>4. r[k] = it[1..k] /\ r[k - 1] = it[1..(k - 1)]
    BY <2>1
  <2> HIDE DEF r
  <2>5. QED BY <1>2, <2>3, <2>4 DEF Next1, Got
<1>13. ASSUME NEW k \in 0..n PROVE r[k] \in V
  <2>1. k \in Nat /\ k <= n
    BY <1>1
  <2>2. \A T \in SUBSET (1..k) : T \in SUBSET (1..n)
    BY <1>1, <2>1
  <2>3. \A T \in SUBSET (1..k) : T # {} /\ it[T \ {Max(T)}] \in V => it[T] \in V
    BY <1>11, <2>2
  <2>4. it[1..k] \in V
    BY <1>10, <2>1, <2>3, IterationStays
  <2>5. QED BY <2>4
<1>14. r[0] = << >> /\ r[n] = it[1..n]
  <2>1. 1..0 = {} /\ 0 \in 0..n /\ n \in 0..n
    BY <1>1
  <2>2. it[1..0] = << >>
    BY <1>9, <2>1
  <2>3. QED BY <2>1, <2>2
<1> HIDE DEF r
<1>15. Gathered(r, f)
  BY <1>12, <1>13, <1>14 DEF Gathered, n, V, E
<1>16. ValuesOf(f) = r[Len(f.variables)]
  BY <1>1, <1>8, <1>14 DEF n
<1>17. QED BY <1>15, <1>16

(* What is reported under a variable is the server's value of its own node. *)
LEMMA ValuesAre ==
    ASSUME NEW f, Proper(f), ~(Len(f.nodes) < Len(f.variables)),
           NEW k \in DOMAIN ValuesOf(f)
    PROVE  LET r == ValuesOf(f)[k] IN r.value = <<r.v.node, server>>
<1> DEFINE n == Len(f.variables)
           E == {Got(f, i) : i \in 1..n}
<1>1. PICK r : Gathered(r, f) /\ ValuesOf(f) = r[n]
  BY ValuesAreGathered
<1>2. n \in 0..n
  BY DEF Proper, IsList
<1>3. ValuesOf(f) \in Seq(E)
  BY <1>1, <1>2 DEF Gathered
<1> HIDE DEF E
<1>4. ValuesOf(f)[k] \in E
  BY <1>3
<1>5. QED BY <1>4 DEF E, Got

(* What is reported of a frame is every variable the server knows, once. *)
Answers(values, vs, nodes) ==
    /\ \A k \in DOMAIN values : values[k].v \in ToSet(vs) /\ values[k].v.node \in nodes
    /\ \A v \in ToSet(vs) : v.node \in nodes => \E k \in DOMAIN values : values[k].v = v
    /\ Unambiguous(vs) =>
          \A k, l \in DOMAIN values : values[k].v.name = values[l].v.name => k = l

LEMMA ValuesAnswer ==
    ASSUME NEW f, Proper(f), ~(Len(f.nodes) < Len(f.variables))
    PROVE  Answers(ValuesOf(f), f.variables, setup.nodes)
<1> DEFINE n == Len(f.variables)
           vs == f.variables
           K == {q \in 1..n : vs[q].node \in setup.nodes}
           E == {Got(f, i) : i \in 1..n}
<1>1. PICK r : Gathered(r, f) /\ ValuesOf(f) = r[n]
  BY ValuesAreGathered
<1>2. n \in Nat /\ DOMAIN vs = 1..n
  BY DEF Proper, IsList
<1>3. /\ r[0] = << >>
      /\ \A k \in 1..n : r[k] = IF k \in K THEN Append(r[k - 1], Got(f, k)) ELSE r[k - 1]
      /\ \A k \in 0..n : r[k] \in Seq(E)
  BY <1>1 DEF Gathered
<1>4. \A q \in 1..n : Got(f, q) \in E /\ Got(f, q).v = vs[q]
  BY DEF Got
<1> HIDE DEF n, vs, K, E
<1> DEFINE Upto(k) ==
              /\ \A j \in 1..Len(r[k]) : \E q \in 1..k : q \in K /\ r[k][j].v = vs[q]
              /\ \A q \in 1..k : q \in K => \E j \in 1..Len(r[k]) : r[k][j].v = vs[q]
              /\ Unambiguous(vs) =>
                    \A j, l \in 1..Len(r[k]) : r[k][j].v.name = r[k][l].v.name => j = l
           S == {k \in Nat : k <= n => Upto(k)}
<1>5. Upto(0)
  <2>1. r[0] = << >> /\ Len(<< >>) = 0
    BY <1>3
  <2>2. 1..0 = {}
    OBVIOUS
  <2>3. QED BY <2>1, <2>2
<1>6. ASSUME NEW k \in 1..n, Upto(k - 1) PROVE Upto(k)
  <2> DEFINE u == r[k - 1]
             w == r[k]
  <2>1. k \in Nat /\ k - 1 \in 0..n /\ k \in 0..n
        /\ (\A q \in 1..k : q = k \/ q \in 1..(k - 1))
        /\ (\A q \in 1..(k - 1) : q \in 1..k /\ q # k) /\ k \in 1..k
    BY <1>2
  <2>2. /\ \A j \in 1..Len(u) : \E q \in 1..(k - 1) : q \in K /\ u[j].v = vs[q]
        /\ \A q \in 1..(k - 1) : q \in K => \E j \in 1..Len(u) : u[j].v = vs[q]
        /\ Unambiguous(vs) =>
              \A j, l \in 1..Len(u) : u[j].v.name = u[l].v.name => j = l
    BY <1>6
  <2>3. u \in Seq(E) /\ w = IF k \in K THEN Append(u, Got(f, k)) ELSE u
    BY <1>3, <2>1
  <2> HIDE DEF u, w
  <2>4. CASE k \notin K
    <3>1. w = u
      BY <2>3, <2>4
    <3>2. \A j \in 1..Len(w) : \E q \in 1..k : q \in K /\ w[j].v = vs[q]
      BY <2>1, <2>2, <3>1
    <3>3. \A q \in 1..k : q \in K => \E j \in 1..Len(w) : w[j].v = vs[q]
      BY <2>1, <2>2, <2>4, <3>1
    <3>4. QED BY <2>2, <3>1, <3>2, <3>3 DEF w
  <2>5. CASE k \in K
    <3>1. /\ Len(u) \in Nat /\ Len(w) = Len(u) + 1
          /\ \A j \in 1..Len(u) : w[j] = u[j]
          /\ w[Len(u) + 1] = Got(f, k)
      BY <1>4, <2>3, <2>5
    <3>2. w[Len(u) + 1].v = vs[k]
      BY <1>4, <3>1
    <3>3. /\ \A j \in 1..Len(w) : j = Len(u) + 1 \/ j \in 1..Len(u)
          /\ \A j \in 1..Len(u) : j \in 1..Len(w)
          /\ Len(u) + 1 \in 1..Len(w)
      BY <3>1
    <3>4. \A j \in 1..Len(w) : \E q \in 1..k : q \in K /\ w[j].v = vs[q]
      <4> SUFFICES ASSUME NEW j \in 1..Len(w)
                   PROVE  \E q \in 1..k : q \in K /\ w[j].v = vs[q]
        OBVIOUS
      <4>1. CASE j = Len(u) + 1
        BY <2>1, <2>5, <3>2, <4>1
      <4>2. CASE j \in 1..Len(u)
        <5>1. PICK q \in 1..(k - 1) : q \in K /\ u[j].v = vs[q]
          BY <2>2, <4>2
        <5>2. w[j] = u[j] /\ q \in 1..k
          BY <2>1, <3>1, <4>2
        <5>3. QED BY <5>1, <5>2
      <4>3. QED BY <3>3, <4>1, <4>2
    <3>5. \A q \in 1..k : q \in K => \E j \in 1..Len(w) : w[j].v = vs[q]
      <4> SUFFICES ASSUME NEW q \in 1..k, q \in K
                   PROVE  \E j \in 1..Len(w) : w[j].v = vs[q]
        OBVIOUS
      <4>1. CASE q = k
        BY <3>2, <3>3, <4>1
      <4>2. CASE q \in 1..(k - 1)
        <5>1. PICK j \in 1..Len(u) : u[j].v = vs[q]
          BY <2>2, <4>2
        <5>2. w[j] = u[j] /\ j \in 1..Len(w)
          BY <3>1, <3>3
        <5>3. QED BY <5>1, <5>2
      <4>3. QED BY <2>1, <4>1, <4>2
    <3>6. ASSUME Unambiguous(vs), NEW j \in 1..Len(w), NEW l \in 1..Len(w),
                 w[j].v.name = w[l].v.name
          PROVE  j = l
      <4>1. ASSUME NEW i \in 1..Len(u) PROVE w[i].v.name # vs[k].name
        <5>1. PICK q \in 1..(k - 1) : u[i].v = vs[q]
          BY <2>2
        <5>2. vs[q].name # vs[k].name
          BY <1>2, <2>1, <3>6 DEF Unambiguous
        <5>3. w[i] = u[i]
          BY <3>1
        <5>4. QED BY <5>1, <5>2, <5>3
      <4>2. CASE j \in 1..Len(u) /\ l \in 1..Len(u)
        <5>1. u[j].v.name = u[l].v.name
          BY <3>1, <3>6, <4>2
        <5>2. QED BY <2>2, <3>6, <4>2, <5>1
      <4>3. CASE j = Len(u) + 1 /\ l \in 1..Len(u)
        BY <3>2, <3>6, <4>1, <4>3
      <4>4. CASE j \in 1..Len(u) /\ l = Len(u) + 1
        BY <3>2, <3>6, <4>1, <4>4
      <4>5. QED BY <3>3, <4>2, <4>3, <4>4
    <3>7. QED BY <3>4, <3>5, <3>6 DEF w
  <2>6. QED BY <2>4, <2>5
<1> HIDE DEF Upto
<1>7. 0 \in S
  BY <1>5
<1>8. ASSUME NEW k \in Nat, k \in S PROVE k + 1 \in S
  <2> SUFFICES ASSUME k + 1 <= n PROVE Upto(k + 1)
    OBVIOUS
  <2>1. k + 1 \in 1..n /\ (k + 1) - 1 = k /\ k <= n
    BY <1>2
  <2>2. Upto(k)
    BY <1>8, <2>1
  <2>3. QED BY <1>6, <2>1, <2>2
<1> HIDE DEF S
<1>9. Upto(n)
  <2>1. n \in S /\ n <= n
    BY <1>2, <1>7, <1>8, SetInduction
  <2>2. QED BY <2>1 DEF S
<1>10. r[n] \in Seq(E) /\ DOMAIN r[n] = 1..Len(r[n])
  BY <1>2, <1>3
<1>11. Answers(r[n], vs, setup.nodes)
  <2> DEFINE w == r[n]
  <2>1. /\ \A j \in 1..Len(w) : \E q \in 1..n : q \in K /\ w[j].v = vs[q]
        /\ \A q \in 1..n : q \in K => \E j \in 1..Len(w) : w[j].v = vs[q]
        /\ Unambiguous(vs) =>
              \A j, l \in 1..Len(w) : w[j].v.name = w[l].v.name => j = l
    BY <1>9 DEF Upto
  <2>2. DOMAIN w = 1..Len(w)
    BY <1>10
  <2> HIDE DEF w
  <2>3. ASSUME NEW j \in DOMAIN w
        PROVE  w[j].v \in ToSet(vs) /\ w[j].v.node \in setup.nodes
    <3>1. PICK q \in 1..n : q \in K /\ w[j].v = vs[q]
      BY <2>1, <2>2
    <3>2. QED BY <1>2, <3>1 DEF K, ToSet
  <2>4. ASSUME NEW v \in ToSet(vs), v.node \in setup.nodes
        PROVE  \E j \in DOMAIN w : w[j].v = v
    <3>1. PICK q \in 1..n : v = vs[q]
      BY <1>2 DEF ToSet
    <3>2. q \in K
      BY <2>4, <3>1 DEF K
    <3>3. QED BY <2>1, <2>2, <3>1, <3>2
  <2>5. QED BY <2>1, <2>2, <2>3, <2>4 DEF Answers, w
<1>12. QED BY <1>1, <1>11 DEF n, vs

-----------------------------------------------------------------------------
(* Taking a client and giving it back. *)

HeldBy(g) == {i \in DOMAIN g : g[i] # 0}
Held(g) == {g[i] : i \in HeldBy(g)}

LEMMA Granting ==
    ASSUME NEW g, IsFiniteSet(DOMAIN g), NEW i \in DOMAIN g, g[i] = 0,
           NEW m, m # 0
    PROVE  /\ Cardinality(HeldBy(g)) \in Nat
           /\ Cardinality(HeldBy([g EXCEPT ![i] = m])) = Cardinality(HeldBy(g)) + 1
           /\ Held([g EXCEPT ![i] = m]) = Held(g) \cup {m}
<1> DEFINE h == [g EXCEPT ![i] = m]
<1>1. DOMAIN h = DOMAIN g /\ h[i] = m /\ \A j \in DOMAIN g : j # i => h[j] = g[j]
  OBVIOUS
<1> HIDE DEF h
<1>2. HeldBy(h) = HeldBy(g) \cup {i} /\ i \notin HeldBy(g)
  BY <1>1 DEF HeldBy
<1>3. IsFiniteSet(HeldBy(g))
  BY FS_Subset DEF HeldBy
<1>4. /\ Cardinality(HeldBy(g)) \in Nat
      /\ Cardinality(HeldBy(h)) = Cardinality(HeldBy(g)) + 1
  BY <1>2, <1>3, FS_AddElement, FS_CardinalityType
<1>5. Held(h) = Held(g) \cup {m}
  <2>1. \A j \in HeldBy(g) : h[j] = g[j]
    BY <1>1, <1>2 DEF HeldBy
  <2>2. QED BY <1>1, <1>2, <2>1 DEF Held
<1>6. QED BY <1>4, <1>5 DEF h

LEMMA Returning ==
    ASSUME NEW g, IsFiniteSet(DOMAIN g), NEW i \in DOMAIN g, g[i] # 0
    PROVE  /\ Cardinality(HeldBy([g EXCEPT ![i] = 0])) \in Nat
           /\ Cardinality(HeldBy(g)) = Cardinality(HeldBy([g EXCEPT ![i] = 0])) + 1
           /\ Held(g) = Held([g EXCEPT ![i] = 0]) \cup {g[i]}
<1> DEFINE h == [g EXCEPT ![i] = 0]
<1>1. DOMAIN h = DOMAIN g /\ h[i] = 0 /\ \A j \in DOMAIN g : j # i => h[j] = g[j]
  OBVIOUS
<1> HIDE DEF h
<1>2. HeldBy(g) = HeldBy(h) \cup {i} /\ i \notin HeldBy(h)
  BY <1>1 DEF HeldBy
<1>3. IsFiniteSet(HeldBy(h))
  BY <1>1, FS_Subset DEF HeldBy
<1>4. /\ Cardinality(HeldBy(h)) \in Nat
      /\ Cardinality(HeldBy(g)) = Cardinality(HeldBy(h)) + 1
  BY <1>2, <1>3, FS_AddElement, FS_CardinalityType
<1>5. Held(g) = Held(h) \cup {g[i]}
  <2>1. \A j \in HeldBy(h) : h[j] = g[j]
    BY <1>1, <1>2 DEF HeldBy
  <2>2. QED BY <1>1, <1>2, <2>1 DEF Held
<1>6. QED BY <1>4, <1>5 DEF h

LEMMA Handing ==
    ASSUME NEW g, IsFiniteSet(DOMAIN g), NEW i \in DOMAIN g, g[i] # 0,
           NEW w \in DOMAIN g, g[w] = 0
    PROVE  LET h == [g EXCEPT ![w] = g[i], ![i] = 0]
           IN  /\ Cardinality(HeldBy(h)) = Cardinality(HeldBy(g))
               /\ Held(h) = Held(g)
<1> DEFINE m == g[i]
           k == [g EXCEPT ![w] = m]
           h == [k EXCEPT ![i] = 0]
<1>1. w # i /\ m # 0
  OBVIOUS
<1>2. DOMAIN k = DOMAIN g /\ k[i] = m
  BY <1>1
<1>3. h = [g EXCEPT ![w] = g[i], ![i] = 0] /\ DOMAIN h = DOMAIN g /\ h[w] = m
  BY <1>1
<1>4. m \in Held(g) /\ m \in Held(h)
  BY <1>1, <1>3 DEF Held, HeldBy
<1> HIDE DEF m
<1>5. /\ Cardinality(HeldBy(g)) \in Nat
      /\ Cardinality(HeldBy(k)) = Cardinality(HeldBy(g)) + 1
      /\ Held(k) = Held(g) \cup {m}
  BY <1>1, Granting
<1> HIDE DEF k
<1>6. /\ Cardinality(HeldBy(h)) \in Nat
      /\ Cardinality(HeldBy(k)) = Cardinality(HeldBy(h)) + 1
      /\ Held(k) = Held(h) \cup {m}
  <2>1. IsFiniteSet(DOMAIN k) /\ i \in DOMAIN k /\ k[i] # 0
    BY <1>1, <1>2
  <2>2. QED BY <1>2, <2>1, Returning
<1> HIDE DEF h
<1>7. Cardinality(HeldBy(h)) = Cardinality(HeldBy(g))
  BY <1>5, <1>6
<1>8. Held(h) = Held(g)
  BY <1>4, <1>5, <1>6
<1>9. QED BY <1>3, <1>7, <1>8

LEMMA TakenFront ==
    ASSUME NEW D, NEW M \in Seq(D), Len(M) # 0
    PROVE  /\ Head(M) \in D /\ Tail(M) \in Seq(D) /\ Len(Tail(M)) = Len(M) - 1
           /\ ToSet(M) = ToSet(Tail(M)) \cup {Head(M)}
<1>1. /\ Len(M) \in Nat /\ Len(M) >= 1 /\ DOMAIN M = 1..Len(M)
      /\ Tail(M) \in Seq(D) /\ Len(Tail(M)) = Len(M) - 1
      /\ Head(M) = M[1] /\ Head(M) \in D
      /\ \A p \in 1..(Len(M) - 1) : Tail(M)[p] = M[p + 1]
  OBVIOUS
<1>2. DOMAIN Tail(M) = 1..(Len(M) - 1)
  BY <1>1
<1>3. ASSUME NEW p \in DOMAIN M PROVE M[p] \in ToSet(Tail(M)) \cup {Head(M)}
  <2>1. CASE p = 1
    BY <1>1, <2>1
  <2>2. CASE p # 1
    <3>1. p - 1 \in DOMAIN Tail(M) /\ (p - 1) + 1 = p
      BY <1>1, <1>2, <2>2
    <3>2. Tail(M)[p - 1] = M[p]
      BY <1>1, <1>2, <3>1
    <3>3. QED BY <3>1, <3>2 DEF ToSet
  <2>3. QED BY <2>1, <2>2
<1>4. ASSUME NEW p \in DOMAIN Tail(M) PROVE Tail(M)[p] \in ToSet(M)
  <2>1. p + 1 \in DOMAIN M /\ Tail(M)[p] = M[p + 1]
    BY <1>1, <1>2
  <2>2. QED BY <2>1 DEF ToSet
<1>5. Head(M) \in ToSet(M)
  <2>1. 1 \in DOMAIN M
    BY <1>1
  <2>2. QED BY <1>1, <2>1 DEF ToSet
<1>6. ToSet(M) = ToSet(Tail(M)) \cup {Head(M)}
  BY <1>3, <1>4, <1>5 DEF ToSet
<1>7. QED BY <1>1, <1>6

LEMMA PutBack ==
    ASSUME NEW D, NEW M \in Seq(D), NEW m \in D
    PROVE  /\ Append(M, m) \in Seq(D) /\ Len(Append(M, m)) = Len(M) + 1
           /\ Len(M) \in Nat
           /\ ToSet(Append(M, m)) = ToSet(M) \cup {m}
<1> DEFINE A == Append(M, m)
<1>1. /\ A \in Seq(D) /\ Len(A) = Len(M) + 1 /\ Len(M) \in Nat
      /\ DOMAIN M = 1..Len(M) /\ DOMAIN A = 1..(Len(M) + 1)
      /\ \A p \in 1..Len(M) : A[p] = M[p]
      /\ A[Len(M) + 1] = m
  OBVIOUS
<1> HIDE DEF A
<1>2. DOMAIN A = DOMAIN M \cup {Len(M) + 1} /\ \A p \in DOMAIN M : A[p] = M[p]
  BY <1>1
<1>3. ToSet(A) = ToSet(M) \cup {m}
  BY <1>1, <1>2 DEF ToSet
<1>4. QED BY <1>1, <1>3 DEF A

-----------------------------------------------------------------------------
(* The invariant. *)

Requestable == ToSet(setup.variables) \cup ToSet(setup.update)

ListInv ==
    /\ setup \in Setups
    /\ stored = [list |-> stored.list, map |-> stored.map]
    /\ stored.list \in Seq(Requestable)

ShapeInv ==
    /\ Len(frames) \in Nat /\ DOMAIN frames = 1..Len(frames)
    /\ DOMAIN pc = DOMAIN frames /\ DOMAIN granted = DOMAIN frames
    /\ DOMAIN tries = DOMAIN frames
    /\ \E n \in Nat : DOMAIN session = 1..n

StatesInv ==
    /\ \A m \in DOMAIN session : session[m] \in {"open", "stale", "closed"}
    /\ \A i \in DOMAIN frames :
          /\ pc[i] \in {"done", "start", "waiting", "using", "releasing"}
          /\ tries[i] \in 0..2
    /\ \A i \in ConnRequests : i \in DOMAIN frames /\ pc[i] = "waiting"

(* Who has a client: a goroutine that uses or releases one, or one whose
   request has been served and is no longer registered. *)
HolderInv ==
    \A i \in DOMAIN frames :
        /\ pc[i] \in {"start", "done"} => granted[i] = 0
        /\ pc[i] \in {"using", "releasing"} => granted[i] # 0
        /\ i \in ConnRequests => granted[i] = 0

AccountInv ==
    /\ Messengers \in Seq(DOMAIN session)
    /\ Idle = Len(Messengers)
    /\ Idle + Cardinality(HeldBy(granted)) = Cardinality(DOMAIN session)
    /\ ToSet(Messengers) \cup Held(granted) = DOMAIN session

(* Without a broker nobody is at work: Destroy comes between polls. *)
OInv ==
    /\ ListInv /\ ShapeInv /\ StatesInv
    /\ collecting => HolderInv /\ AccountInv
    /\ ~collecting => \A i \in DOMAIN frames : pc[i] = "done"

LEMMA OInvIsTyped == OInv => TypeOK
<1> SUFFICES ASSUME OInv PROVE TypeOK
  OBVIOUS
<1>1. ConnRequests \subseteq {i \in DOMAIN pc : pc[i] = "waiting"}
  BY DEF OInv, ShapeInv, StatesInv
<1>2. Holders = HeldBy(granted) /\ {granted[i] : i \in Holders} = Held(granted)
  BY DEF Holders, HeldBy, Held
<1>3. QED BY <1>1, <1>2 DEF OInv, ListInv, ShapeInv, StatesInv, AccountInv, TypeOK

LEMMA FiniteShape == ShapeInv => IsFiniteSet(DOMAIN granted)
<1> SUFFICES ASSUME ShapeInv PROVE IsFiniteSet(DOMAIN granted)
  OBVIOUS
<1>1. DOMAIN granted = 1..Len(frames) /\ Len(frames) \in Nat
  BY DEF ShapeInv
<1>2. IsFiniteSet(1..Len(frames))
  BY <1>1, FS_Interval
<1>3. QED BY <1>1, <1>2

(* A broker that has just been made. *)
LEMMA NobodyHolds ==
    ASSUME NEW g, \A i \in DOMAIN g : g[i] = 0
    PROVE  Cardinality(HeldBy(g)) = 0 /\ Held(g) = {}
<1>1. HeldBy(g) = {}
  BY DEF HeldBy
<1>2. QED BY <1>1, FS_EmptySet DEF Held

LEMMA RequestsAreLists ==
    ASSUME setup \in Setups
    PROVE  /\ setup.variables \in Seq(Requestable)
           /\ setup.update \in Seq(Requestable)
<1>1. ASSUME NEW A, NEW E, A \subseteq E, NEW s \in Seq(A) PROVE s \in Seq(E)
  <2>1. s \in [1..Len(s) -> A] /\ Len(s) \in Nat
    BY <1>1
  <2>2. s \in [1..Len(s) -> E]
    BY <1>1, <2>1
  <2>3. QED BY <2>1, <2>2
<1>2. /\ setup.variables \in Seq(ToSet(setup.variables))
      /\ setup.update \in Seq(ToSet(setup.update))
  BY OpcUaAssumption DEF Listed
<1>3. /\ ToSet(setup.variables) \subseteq Requestable
      /\ ToSet(setup.update) \subseteq Requestable
  BY DEF Requestable
<1>4. QED BY <1>1, <1>2, <1>3

LEMMA InitAccounts == Init => OInv
<1> SUFFICES ASSUME Init PROVE OInv
  OBVIOUS
<1>1. setup \in Setups /\ stored = [list |-> setup.variables, map |-> << >>]
      /\ frames = NewFrames(stored.list) /\ ConnRequests = {}
  BY DEF Init, CreateOpcUaDevice
<1>2. setup.variables \in Seq(Requestable)
  BY <1>1, RequestsAreLists
<1>3. ListInv
  BY <1>1, <1>2 DEF ListInv
<1>4. stored.list \in Seq(Requestable)
  BY <1>3 DEF ListInv
<1>5. Len(frames) \in Nat /\ DOMAIN frames = 1..Len(frames)
  BY <1>1, <1>4, FramesAre
<1> DEFINE c == Collecting(frames)
<1>6. /\ \E n \in Nat :
            /\ DOMAIN c.session = 1..n /\ Cardinality(1..n) = n
            /\ c.Messengers \in Seq(1..n) /\ Len(c.Messengers) = n
            /\ ToSet(c.Messengers) = 1..n /\ c.Idle = n
      /\ \A m \in DOMAIN c.session : c.session[m] = "open"
      /\ DOMAIN c.pc = DOMAIN frames /\ DOMAIN c.granted = DOMAIN frames
      /\ DOMAIN c.tries = DOMAIN frames
      /\ \A i \in DOMAIN frames : /\ c.pc[i] = "done" /\ c.granted[i] = 0
                                 /\ c.tries[i] = 0
  BY <1>5, FreshBroker
<1>7. /\ session = c.session /\ Messengers = c.Messengers /\ Idle = c.Idle
      /\ pc = c.pc /\ granted = c.granted /\ tries = c.tries
  BY DEF Init
<1> HIDE DEF c
<1>8. ShapeInv
  BY <1>5, <1>6, <1>7 DEF ShapeInv
<1>9. StatesInv
  BY <1>1, <1>6, <1>7 DEF StatesInv
<1>10. HolderInv
  BY <1>1, <1>6, <1>7 DEF HolderInv
<1>11. Cardinality(HeldBy(granted)) = 0 /\ Held(granted) = {}
  <2>1. \A i \in DOMAIN granted : granted[i] = 0
    BY <1>6, <1>7
  <2>2. QED BY <2>1, NobodyHolds
<1>12. AccountInv
  <2>1. PICK n \in Nat :
            /\ DOMAIN session = 1..n /\ Cardinality(1..n) = n
            /\ Messengers \in Seq(1..n) /\ Len(Messengers) = n
            /\ ToSet(Messengers) = 1..n /\ Idle = n
    BY <1>6, <1>7
  <2>2. Idle + Cardinality(HeldBy(granted)) = Cardinality(DOMAIN session)
    BY <1>11, <2>1
  <2>3. ToSet(Messengers) \cup Held(granted) = DOMAIN session
    BY <1>11, <2>1
  <2>4. QED BY <2>1, <2>2, <2>3 DEF AccountInv
<1>13. collecting
  BY DEF Init
<1>14. QED BY <1>3, <1>8, <1>9, <1>10, <1>12, <1>13 DEF OInv

LEMMA StartedAccounts ==
    ASSUME stored'.list \in Seq(Requestable), Started
    PROVE  ShapeInv' /\ StatesInv' /\ HolderInv' /\ AccountInv'
<1>1. frames' = NewFrames(stored'.list) /\ ConnRequests' = {}
  BY DEF Started
<1>2. Len(frames') \in Nat /\ DOMAIN frames' = 1..Len(frames')
  BY <1>1, FramesAre
<1> DEFINE c == Collecting(frames')
<1>3. /\ \E n \in Nat :
            /\ DOMAIN c.session = 1..n /\ Cardinality(1..n) = n
            /\ c.Messengers \in Seq(1..n) /\ Len(c.Messengers) = n
            /\ ToSet(c.Messengers) = 1..n /\ c.Idle = n
      /\ \A m \in DOMAIN c.session : c.session[m] = "open"
      /\ DOMAIN c.pc = DOMAIN frames' /\ DOMAIN c.granted = DOMAIN frames'
      /\ DOMAIN c.tries = DOMAIN frames'
      /\ \A i \in DOMAIN frames' : /\ c.pc[i] = "done" /\ c.granted[i] = 0
                                  /\ c.tries[i] = 0
  BY <1>2, FreshBroker
<1>4. /\ session' = c.session /\ Messengers' = c.Messengers /\ Idle' = c.Idle
      /\ pc' = c.pc /\ granted' = c.granted /\ tries' = c.tries
  BY DEF Started
<1> HIDE DEF c
<1>5. ShapeInv'
  BY <1>2, <1>3, <1>4 DEF ShapeInv
<1>6. StatesInv'
  BY <1>1, <1>3, <1>4 DEF StatesInv
<1>7. HolderInv'
  BY <1>1, <1>3, <1>4 DEF HolderInv
<1>8. Cardinality(HeldBy(granted')) = 0 /\ Held(granted') = {}
  <2>1. \A i \in DOMAIN granted' : granted'[i] = 0
    BY <1>3, <1>4
  <2>2. QED BY <2>1, NobodyHolds
<1>9. AccountInv'
  <2>1. PICK n \in Nat :
            /\ DOMAIN session' = 1..n /\ Cardinality(1..n) = n
            /\ Messengers' \in Seq(1..n) /\ Len(Messengers') = n
            /\ ToSet(Messengers') = 1..n /\ Idle' = n
    BY <1>3, <1>4
  <2>2. Idle' + Cardinality(HeldBy(granted')) = Cardinality(DOMAIN session')
    BY <1>8, <2>1
  <2>3. ToSet(Messengers') \cup Held(granted') = DOMAIN session'
    BY <1>8, <2>1
  <2>4. QED BY <2>1, <2>2, <2>3 DEF AccountInv
<1>10. QED BY <1>5, <1>6, <1>7, <1>9

-----------------------------------------------------------------------------
(* The steps. *)

LEMMA ListStays == ListInv /\ UNCHANGED <<setup, stored>> => ListInv'
BY DEF ListInv, Requestable

(* The steps that leave the list of clients and who has them as it is. *)
LEMMA AccountStays ==
    AccountInv /\ UNCHANGED <<Messengers, Idle, granted>> /\ DOMAIN session' = DOMAIN session
        => AccountInv'
BY DEF AccountInv, HeldBy, Held

LEMMA AtWork ==
    ASSUME OInv, NEW i \in DOMAIN frames, pc[i] # "done"
    PROVE  collecting /\ HolderInv /\ AccountInv
BY DEF OInv

LEMMA SessionSet ==
    ASSUME ShapeInv, StatesInv, NEW m \in DOMAIN session,
           NEW s \in {"open", "stale", "closed"}, session' = [session EXCEPT ![m] = s]
    PROVE  /\ DOMAIN session' = DOMAIN session
           /\ \A k \in DOMAIN session : session'[k] \in {"open", "stale", "closed"}
BY DEF StatesInv

LEMMA StartPollAccounts == OInv /\ StartPoll => OInv'
<1> SUFFICES ASSUME OInv, StartPoll PROVE OInv'
  OBVIOUS
<1>1. /\ collecting /\ ~Polling /\ UNCHANGED <<setup, stored, frames, collecting, session, Messengers,
                                Idle, ConnRequests, granted>>
      /\ pc' = [i \in DOMAIN frames |-> "start"]
      /\ tries' = [i \in DOMAIN frames |-> 0]
  BY DEF StartPoll, around, pool
<1>2. \A i \in DOMAIN frames : pc[i] = "done"
  BY <1>1 DEF Polling, OInv, ShapeInv
<1>3. ListInv'
  BY <1>1, ListStays DEF OInv
<1>4. ShapeInv'
  BY <1>1 DEF OInv, ShapeInv
<1>5. StatesInv'
  BY <1>1, <1>2 DEF OInv, StatesInv
<1>6. HolderInv'
  BY <1>1, <1>2 DEF OInv, HolderInv
<1>7. AccountInv'
  BY <1>1, AccountStays DEF OInv
<1>8. QED BY <1>1, <1>3, <1>4, <1>5, <1>6, <1>7 DEF OInv

LEMMA TakeIdleAccounts ==
    ASSUME OInv, NEW i \in DOMAIN frames, TakeIdle(i)
    PROVE  OInv'
<1> DEFINE m == Head(Messengers)
<1>1. /\ pc[i] = "start" /\ Idle > 0 /\ Idle' = Idle - 1
      /\ Messengers' = Tail(Messengers)
      /\ granted' = [granted EXCEPT ![i] = m]
      /\ pc' = [pc EXCEPT ![i] = "using"]
      /\ \/ session' = session
         \/ \E s \in {"open", "closed"} : session' = [session EXCEPT ![m] = s]
      /\ UNCHANGED <<setup, stored, frames, collecting, ConnRequests, tries>>
  BY DEF TakeIdle, FrontRemoved, around
<1>2. DOMAIN session' = DOMAIN session
  BY <1>1
<1>3. \A k \in DOMAIN session : session'[k] \in {"open", "stale", "closed"}
  BY <1>1 DEF OInv, StatesInv
<1>4. ListInv'
  BY <1>1, ListStays DEF OInv
<1>5. ShapeInv'
  BY <1>1, <1>2 DEF OInv, ShapeInv
<1>6. StatesInv'
  BY <1>1, <1>2, <1>3 DEF OInv, StatesInv, ShapeInv
<1>w. collecting /\ HolderInv /\ AccountInv
  BY <1>1, AtWork
<1>7. HolderInv' /\ AccountInv'
  <2>1. /\ Messengers \in Seq(DOMAIN session) /\ Idle = Len(Messengers)
        /\ Idle + Cardinality(HeldBy(granted)) = Cardinality(DOMAIN session)
        /\ ToSet(Messengers) \cup Held(granted) = DOMAIN session
        /\ HolderInv
    BY <1>w DEF AccountInv
  <2>2. /\ m \in DOMAIN session /\ Tail(Messengers) \in Seq(DOMAIN session)
        /\ Len(Tail(Messengers)) = Len(Messengers) - 1
        /\ ToSet(Messengers) = ToSet(Tail(Messengers)) \cup {m}
        /\ Len(Messengers) \in Nat
    <3>1. Len(Messengers) # 0
      BY <1>1, <2>1
    <3>2. QED BY <2>1, <3>1, TakenFront
  <2>3. m # 0
    BY <2>2 DEF OInv, ShapeInv
  <2>4. granted[i] = 0 /\ i \in DOMAIN granted /\ IsFiniteSet(DOMAIN granted)
    BY <1>1, <2>1, FiniteShape DEF HolderInv, OInv, ShapeInv
  <2> HIDE DEF m
  <2>5. /\ Cardinality(HeldBy(granted)) \in Nat
        /\ Cardinality(HeldBy(granted')) = Cardinality(HeldBy(granted)) + 1
        /\ Held(granted') = Held(granted) \cup {m}
    BY <1>1, <2>3, <2>4, Granting
  <2>6. Idle' = Len(Messengers') /\ Messengers' \in Seq(DOMAIN session')
    BY <1>1, <1>2, <2>1, <2>2
  <2>7. Idle' + Cardinality(HeldBy(granted')) = Cardinality(DOMAIN session')
    <3>1. Idle \in Nat /\ Idle' = Idle - 1
      BY <1>1, <2>1, <2>2
    <3>2. QED BY <1>2, <2>1, <2>5, <3>1
  <2>8. ToSet(Messengers') \cup Held(granted') = DOMAIN session'
    BY <1>1, <1>2, <2>1, <2>2, <2>5
  <2>9. AccountInv'
    BY <2>6, <2>7, <2>8 DEF AccountInv
  <2>10. i \notin ConnRequests
    BY <1>1 DEF OInv, StatesInv
  <2>11. HolderInv'
    BY <1>1, <2>1, <2>3, <2>10 DEF HolderInv, OInv, ShapeInv
  <2>12. QED BY <2>9, <2>11
<1>8. QED BY <1>1, <1>w, <1>4, <1>5, <1>6, <1>7 DEF OInv

LEMMA RegisterAccounts ==
    ASSUME OInv, NEW i \in DOMAIN frames, Register(i)
    PROVE  OInv'
<1>1. /\ pc[i] = "start"
      /\ ConnRequests' = ConnRequests \cup {i}
      /\ pc' = [pc EXCEPT ![i] = "waiting"]
      /\ UNCHANGED <<setup, stored, frames, collecting, session, Messengers, Idle,
                     granted, tries>>
  BY DEF Register, around
<1>2. ListInv'
  BY <1>1, ListStays DEF OInv
<1>3. ShapeInv'
  BY <1>1 DEF OInv, ShapeInv
<1>4. StatesInv'
  BY <1>1 DEF OInv, StatesInv, ShapeInv
<1>w. collecting /\ HolderInv /\ AccountInv
  BY <1>1, AtWork
<1>5. HolderInv'
  BY <1>1, <1>w DEF OInv, HolderInv, ShapeInv
<1>6. AccountInv'
  BY <1>1, <1>w, AccountStays
<1>7. QED BY <1>1, <1>w, <1>2, <1>3, <1>4, <1>5, <1>6 DEF OInv

LEMMA ReceiveAccounts ==
    ASSUME OInv, NEW i \in DOMAIN frames, Receive(i)
    PROVE  OInv'
<1>1. /\ pc[i] = "waiting" /\ granted[i] # 0
      /\ pc' = [pc EXCEPT ![i] = "using"]
      /\ UNCHANGED <<setup, stored, frames, collecting, session, Messengers, Idle,
                     ConnRequests, granted, tries>>
  BY DEF Receive, around, pool
<1>2. ListInv'
  BY <1>1, ListStays DEF OInv
<1>3. ShapeInv'
  BY <1>1 DEF OInv, ShapeInv
<1>w. collecting /\ HolderInv /\ AccountInv
  BY <1>1, AtWork
<1>4. i \notin ConnRequests
  BY <1>1, <1>w DEF HolderInv
<1>5. StatesInv'
  BY <1>1, <1>4 DEF OInv, StatesInv, ShapeInv
<1>6. HolderInv'
  BY <1>1, <1>w DEF OInv, HolderInv, ShapeInv
<1>7. AccountInv'
  BY <1>1, <1>w, AccountStays
<1>8. QED BY <1>1, <1>w, <1>2, <1>3, <1>5, <1>6, <1>7 DEF OInv

(* The steps in which a goroutine reads: only its own place changes. *)
LEMMA WorkingAccounts ==
    ASSUME OInv, NEW i \in DOMAIN frames, pc[i] = "using",
           UNCHANGED <<setup, stored, frames, collecting, Messengers, Idle,
                       ConnRequests, granted>>,
           DOMAIN session' = DOMAIN session,
           \A k \in DOMAIN session : session'[k] \in {"open", "stale", "closed"},
           \/ pc' = pc
           \/ pc' = [pc EXCEPT ![i] = "releasing"],
           \/ tries' = tries
           \/ tries[i] # 2 /\ tries' = [tries EXCEPT ![i] = @ + 1]
    PROVE  OInv'
<1>1. collecting /\ HolderInv /\ AccountInv
  BY AtWork
<1>2. ListInv'
  BY ListStays DEF OInv
<1>3. ShapeInv'
  BY DEF OInv, ShapeInv
<1>4. \A j \in DOMAIN frames : tries'[j] \in 0..2
  BY DEF OInv, ShapeInv, StatesInv
<1>5. i \notin ConnRequests
  BY DEF OInv, StatesInv
<1>6. \A j \in DOMAIN frames : \/ pc'[j] = pc[j]
                              \/ (j = i /\ pc'[j] = "releasing")
  BY DEF OInv, ShapeInv
<1>7. StatesInv'
  BY <1>4, <1>5, <1>6 DEF OInv, StatesInv
<1>8. HolderInv'
  BY <1>1, <1>6 DEF HolderInv
<1>9. AccountInv'
  BY <1>1, AccountStays
<1>10. QED BY <1>1, <1>2, <1>3, <1>7, <1>8, <1>9 DEF OInv

LEMMA ReadAccounts ==
    ASSUME OInv, NEW i \in DOMAIN frames, Read(i)
    PROVE  OInv'
<1>1. /\ pc[i] = "using"
      /\ (pc' = pc \/ pc' = [pc EXCEPT ![i] = "releasing"])
      /\ UNCHANGED <<setup, stored, frames, collecting, session, Messengers, Idle,
                     ConnRequests, granted, tries>>
  BY DEF Read, Reported, around, pool
<1>2. \A k \in DOMAIN session : session[k] \in {"open", "stale", "closed"}
  BY DEF OInv, StatesInv
<1>3. QED BY <1>1, <1>2, WorkingAccounts

LEMMA ReadFailsAccounts ==
    ASSUME OInv, NEW i \in DOMAIN frames, ReadFails(i)
    PROVE  OInv'
<1>1. /\ pc[i] = "using" /\ TriedInVain(i)
      /\ UNCHANGED <<setup, stored, frames, collecting, session, Messengers, Idle,
                     ConnRequests, granted>>
  BY DEF ReadFails, around, pool
<1>2. /\ (pc' = pc \/ pc' = [pc EXCEPT ![i] = "releasing"])
      /\ \/ tries' = tries
         \/ tries[i] # 2 /\ tries' = [tries EXCEPT ![i] = @ + 1]
  BY <1>1 DEF TriedInVain, Reported
<1>3. \A k \in DOMAIN session : session[k] \in {"open", "stale", "closed"}
  BY DEF OInv, StatesInv
<1>4. QED BY <1>1, <1>2, <1>3, WorkingAccounts

LEMMA RedialAccounts ==
    ASSUME OInv, NEW i \in DOMAIN frames, Redial(i)
    PROVE  OInv'
<1>1. /\ pc[i] = "using"
      /\ \E s \in {"open", "closed"} : session' = [session EXCEPT ![granted[i]] = s]
      /\ UNCHANGED <<setup, stored, frames, collecting, Messengers, Idle,
                     ConnRequests, granted, pc, tries>>
  BY DEF Redial, around, pool, workers
<1>2. DOMAIN session' = DOMAIN session
      /\ \A k \in DOMAIN session : session'[k] \in {"open", "stale", "closed"}
  BY <1>1 DEF OInv, StatesInv
<1>3. QED BY <1>1, <1>2, WorkingAccounts

LEMMA ReleaseAccounts ==
    ASSUME OInv, NEW i \in DOMAIN frames, Release(i)
    PROVE  OInv'
<1>1. /\ pc[i] = "releasing" /\ pc' = [pc EXCEPT ![i] = "done"]
      /\ UNCHANGED <<setup, stored, frames, collecting, session, tries>>
  BY DEF Release, around
<1>2. collecting /\ HolderInv /\ AccountInv
  BY <1>1, AtWork
<1>3. /\ Messengers \in Seq(DOMAIN session) /\ Idle = Len(Messengers)
      /\ Idle + Cardinality(HeldBy(granted)) = Cardinality(DOMAIN session)
      /\ ToSet(Messengers) \cup Held(granted) = DOMAIN session
  BY <1>2 DEF AccountInv
<1>4. /\ granted[i] # 0 /\ i \in DOMAIN granted /\ IsFiniteSet(DOMAIN granted)
      /\ i \notin ConnRequests
  BY <1>1, <1>2, FiniteShape DEF HolderInv, OInv, ShapeInv, StatesInv
<1>5. ListInv'
  BY <1>1, ListStays DEF OInv
<1>6. CASE \E w \in ConnRequests :
              /\ ConnRequests' = ConnRequests \ {w}
              /\ granted' = [granted EXCEPT ![w] = granted[i], ![i] = 0]
              /\ UNCHANGED <<Messengers, Idle>>
  <2>1. PICK w \in ConnRequests :
              /\ ConnRequests' = ConnRequests \ {w}
              /\ granted' = [granted EXCEPT ![w] = granted[i], ![i] = 0]
              /\ UNCHANGED <<Messengers, Idle>>
    BY <1>6
  <2>2. /\ w \in DOMAIN frames /\ w \in DOMAIN granted /\ granted[w] = 0
        /\ pc[w] = "waiting" /\ w # i
    BY <1>1, <1>2, <1>4 DEF OInv, ShapeInv, StatesInv, HolderInv
  <2>3. Cardinality(HeldBy(granted')) = Cardinality(HeldBy(granted))
        /\ Held(granted') = Held(granted)
    <3> DEFINE h == [granted EXCEPT ![w] = granted[i], ![i] = 0]
    <3>1. Cardinality(HeldBy(h)) = Cardinality(HeldBy(granted)) /\ Held(h) = Held(granted)
      BY <1>4, <2>2, Handing
    <3>2. granted' = h
      BY <2>1
    <3> HIDE DEF h
    <3>3. QED BY <3>1, <3>2
  <2>4. AccountInv'
    BY <1>1, <1>3, <2>1, <2>3 DEF AccountInv
  <2>5. ShapeInv'
    BY <1>1, <2>1 DEF OInv, ShapeInv
  <2>6. StatesInv'
    BY <1>1, <1>4, <2>1 DEF OInv, ShapeInv, StatesInv
  <2>7. HolderInv'
    <3>1. \A j \in DOMAIN frames : j # i /\ j # w => granted'[j] = granted[j]
      BY <2>1 DEF OInv, ShapeInv
    <3>2. granted'[i] = 0 /\ granted'[w] # 0
      BY <1>4, <2>1, <2>2
    <3>3. pc'[i] = "done" /\ \A j \in DOMAIN frames : j # i => pc'[j] = pc[j]
      BY <1>1 DEF OInv, ShapeInv
    <3>4. QED BY <1>1, <1>2, <2>1, <2>2, <3>1, <3>2, <3>3 DEF HolderInv
  <2>8. QED BY <1>1, <1>2, <1>5, <2>4, <2>5, <2>6, <2>7 DEF OInv
<1>7. CASE /\ Messengers' = Append(Messengers, granted[i])
           /\ Idle' = Idle + 1
           /\ granted' = [granted EXCEPT ![i] = 0]
           /\ ConnRequests' = ConnRequests
  <2> DEFINE m == granted[i]
  <2>1. /\ Cardinality(HeldBy(granted')) \in Nat
        /\ Cardinality(HeldBy(granted)) = Cardinality(HeldBy(granted')) + 1
        /\ Held(granted) = Held(granted') \cup {m}
    BY <1>4, <1>7, Returning
  <2>2. m \in DOMAIN session
    BY <1>3, <2>1
  <2> HIDE DEF m
  <2>3. /\ Append(Messengers, m) \in Seq(DOMAIN session)
        /\ Len(Append(Messengers, m)) = Len(Messengers) + 1
        /\ Len(Messengers) \in Nat
        /\ ToSet(Append(Messengers, m)) = ToSet(Messengers) \cup {m}
    BY <1>3, <2>2, PutBack
  <2>4. Messengers' = Append(Messengers, m)
    BY <1>7 DEF m
  <2>5. Messengers' \in Seq(DOMAIN session') /\ Idle' = Len(Messengers')
    BY <1>1, <1>3, <1>7, <2>3, <2>4
  <2>6. Idle' + Cardinality(HeldBy(granted')) = Cardinality(DOMAIN session')
    <3>1. Idle \in Nat /\ Idle' = Idle + 1
      BY <1>3, <1>7, <2>3
    <3>2. QED BY <1>1, <1>3, <2>1, <3>1
  <2>7. ToSet(Messengers') \cup Held(granted') = DOMAIN session'
    BY <1>1, <1>3, <2>1, <2>3, <2>4
  <2>8. AccountInv'
    BY <2>5, <2>6, <2>7 DEF AccountInv
  <2>9. ShapeInv'
    BY <1>1, <1>7 DEF OInv, ShapeInv
  <2>10. StatesInv'
    BY <1>1, <1>4, <1>7 DEF OInv, ShapeInv, StatesInv
  <2>11. HolderInv'
    BY <1>1, <1>2, <1>4, <1>7 DEF OInv, ShapeInv, HolderInv
  <2>12. QED BY <1>1, <1>2, <1>5, <2>8, <2>9, <2>10, <2>11 DEF OInv
<1>8. QED BY <1>6, <1>7 DEF Release

(* A copy of the manager's is updated: still a list of what was requested. *)
LEMMA UpdateAccounts == OInv /\ UpdateDevice => OInv'
<1> SUFFICES ASSUME OInv, UpdateDevice PROVE OInv'
  OBVIOUS
<1>1. /\ stored' = UpsertAll(Kept(DeepCopy(stored), setup.update), setup.update)
      /\ UNCHANGED <<setup, frames, collecting, session, Messengers, Idle,
                     ConnRequests, granted, pc, tries>>
  BY DEF UpdateDevice, UpdateOpcUaDevice, pool, workers
<1>2. /\ setup \in Setups /\ stored = [list |-> stored.list, map |-> stored.map]
      /\ stored.list \in Seq(Requestable)
  BY DEF OInv, ListInv
<1>3. stored' \in Tables(Requestable)
  <2>1. setup.update \in Seq(Requestable)
    BY <1>2, RequestsAreLists
  <2>2. Kept(DeepCopy(stored), setup.update) \in Tables(Requestable)
    BY <1>2, KeptTable
  <2>3. QED BY <1>1, <2>1, <2>2, UpsertAllTable
<1>4. ListInv'
  <2>1. Requestable' = Requestable
    BY <1>1 DEF Requestable
  <2>2. stored' = [list |-> stored'.list, map |-> stored'.map]
        /\ stored'.list \in Seq(Requestable)
    BY <1>3 DEF Tables
  <2>3. QED BY <1>1, <1>2, <2>1, <2>2 DEF ListInv
<1>5. ShapeInv' /\ StatesInv'
  BY <1>1 DEF OInv, ShapeInv, StatesInv
<1>6. collecting => HolderInv' /\ AccountInv'
  BY <1>1, AccountStays DEF OInv, HolderInv
<1>7. QED BY <1>1, <1>4, <1>5, <1>6 DEF OInv

LEMMA DestroyAccounts == OInv /\ Destroy => OInv'
<1> SUFFICES ASSUME OInv, Destroy PROVE OInv'
  OBVIOUS
<1>1. /\ ~Polling /\ collecting' = FALSE
      /\ session' = [m \in DOMAIN session |-> "closed"]
      /\ UNCHANGED <<setup, stored, frames, ConnRequests, pc, tries, granted>>
  BY DEF Destroy, workers
<1>2. \A i \in DOMAIN frames : pc[i] = "done"
  BY <1>1 DEF Polling, OInv, ShapeInv
<1>3. ListInv' /\ ShapeInv' /\ StatesInv'
  BY <1>1, ListStays DEF OInv, ShapeInv, StatesInv
<1>4. QED BY <1>1, <1>2, <1>3 DEF OInv

LEMMA StartAccounts == OInv /\ (Start \/ Restart) => OInv'
<1> SUFFICES ASSUME OInv, Start \/ Restart PROVE OInv'
  OBVIOUS
<1>1. Started /\ UNCHANGED setup /\ collecting' = TRUE
      /\ (stored' = stored \/ stored' = IndexDevice(stored))
  BY DEF Start, Restart, Started
<1>2. /\ setup \in Setups /\ stored = [list |-> stored.list, map |-> stored.map]
      /\ stored.list \in Seq(Requestable)
  BY DEF OInv, ListInv
<1>3. stored' = [list |-> stored'.list, map |-> stored'.map]
      /\ stored'.list = stored.list
  <2>1. CASE stored' = stored
    BY <1>2, <2>1
  <2>2. CASE stored' = IndexDevice(stored)
    <3>1. IndexDevice(stored) = [list |-> stored.list, map |-> Indexed(stored.list)]
      BY <1>2 DEF IndexDevice
    <3>2. QED BY <2>2, <3>1
  <2>3. QED BY <1>1, <2>1, <2>2
<1>4. ListInv'
  BY <1>1, <1>2, <1>3 DEF ListInv, Requestable
<1>5. ShapeInv' /\ StatesInv' /\ HolderInv' /\ AccountInv'
  BY <1>1, <1>2, <1>3, StartedAccounts
<1>6. QED BY <1>1, <1>4, <1>5 DEF OInv

LEMMA ServerAccounts ==
    ASSUME OInv, NEW m \in DOMAIN session, Lose(m) \/ Regain(m)
    PROVE  OInv'
<1>1. /\ UNCHANGED <<setup, stored, frames, collecting, Messengers, Idle,
                     ConnRequests, granted, pc, tries>>
      /\ \E s \in {"open", "stale", "closed"} : session' = [session EXCEPT ![m] = s]
  BY DEF Lose, Regain, around, pool, workers
<1>2. DOMAIN session' = DOMAIN session
      /\ \A k \in DOMAIN session : session'[k] \in {"open", "stale", "closed"}
  BY <1>1, SessionSet DEF OInv
<1>3. ListInv' /\ ShapeInv' /\ StatesInv'
  BY <1>1, <1>2, ListStays DEF OInv, ShapeInv, StatesInv
<1>4. collecting => HolderInv' /\ AccountInv'
  BY <1>1, <1>2, AccountStays DEF OInv, HolderInv
<1>5. QED BY <1>1, <1>3, <1>4 DEF OInv

LEMMA NextAccounts == OInv /\ [Next]_vars => OInv'
<1> SUFFICES ASSUME OInv, [Next]_vars PROVE OInv'
  OBVIOUS
<1>1. CASE Change \/ UNCHANGED vars
  <2>1. UNCHANGED <<setup, stored, frames, collecting, session, Messengers, Idle,
                    ConnRequests, granted, pc, tries>>
    BY <1>1 DEF Change, vars, around, pool, workers
  <2>2. ListInv' /\ ShapeInv' /\ StatesInv'
    BY <2>1, ListStays DEF OInv, ShapeInv, StatesInv
  <2>3. collecting => HolderInv' /\ AccountInv'
    BY <2>1, AccountStays DEF OInv, HolderInv
  <2>4. QED BY <2>1, <2>2, <2>3 DEF OInv
<1>2. ASSUME NEW i \in DOMAIN frames,
             \/ TakeIdle(i) \/ Register(i) \/ Receive(i)
             \/ Read(i) \/ ReadFails(i) \/ Redial(i) \/ Release(i)
      PROVE  OInv'
  BY <1>2, TakeIdleAccounts, RegisterAccounts, ReceiveAccounts, ReadAccounts,
     ReadFailsAccounts, RedialAccounts, ReleaseAccounts
<1>3. QED
  BY <1>1, <1>2, StartPollAccounts, UpdateAccounts, DestroyAccounts, StartAccounts,
     ServerAccounts DEF Next

(* The pool of clients of an OPC UA broker (pkg/protocol/opcua): while there
   is a broker its counter is the length of its list, and every client is in
   the list or with one goroutine, through waits, hand-overs, lost sessions,
   redials, panics and brokers made anew, for any number of groups. *)
THEOREM OpcUaTypeOK == Spec => []TypeOK
<1>1. QED BY InitAccounts, NextAccounts, OInvIsTyped, PTL DEF Spec

-----------------------------------------------------------------------------
(* What is reported: the frames stay as they were made, and each result is
   filled in one step, out of one answer. *)

Faithfully(r) ==
    \A k \in DOMAIN r.values : r.values[k].value = <<r.values[k].v.node, r.at>>

AnswerInv ==
    /\ \A i \in DOMAIN frames : Proper(frames[i])
    /\ \A i \in DOMAIN result : Faithfully(result[i])

LEMMA AnswersReport == AnswerInv => ReportsTheServer
BY DEF AnswerInv, Faithfully, ReportsTheServer

LEMMA NoResultIsFaithful ==
    ASSUME NEW kind, NEW faultless
    PROVE  /\ Faithfully(NoResult)
           /\ Faithfully([NoResult EXCEPT !.kind = kind, !.faultless = faultless])
BY DEF Faithfully, NoResult

LEMMA Answering ==
    ASSUME AnswerInv, frames' = frames, NEW i, NEW r, Faithfully(r),
           result' = [result EXCEPT ![i] = r]
    PROVE  AnswerInv'
<1>1. \A j \in DOMAIN frames' : Proper(frames'[j])
  BY DEF AnswerInv
<1>2. \A j \in DOMAIN result' : Faithfully(result'[j])
  <2>1. \A j \in DOMAIN result' :
           result'[j] = r \/ (j \in DOMAIN result /\ result'[j] = result[j])
    OBVIOUS
  <2>2. QED BY <2>1 DEF AnswerInv
<1>3. QED BY <1>1, <1>2 DEF AnswerInv

LEMMA AnswersStay ==
    ASSUME AnswerInv, UNCHANGED <<frames, result>>
    PROVE  AnswerInv'
BY DEF AnswerInv

(* A broker that is made anew has reported nothing. *)
LEMMA FreshAnswers ==
    ASSUME NEW E, NEW vs \in Seq(E)
    PROVE  LET fs == NewFrames(vs)
               c == Collecting(fs)
           IN  /\ \A i \in DOMAIN fs : Proper(fs[i])
               /\ \A i \in DOMAIN c.result : Faithfully(c.result[i])
<1> DEFINE fs == NewFrames(vs)
           c == Collecting(fs)
<1>1. \A i \in DOMAIN fs : Proper(fs[i])
  BY FramesAre
<1>2. c.result = [i \in DOMAIN fs |-> NoResult]
  BY DEF Collecting
<1>3. QED BY <1>1, <1>2, NoResultIsFaithful

LEMMA InitAnswers == Init => AnswerInv
<1> SUFFICES ASSUME Init PROVE AnswerInv
  OBVIOUS
<1>1. frames = NewFrames(stored.list) /\ result = Collecting(frames).result
  BY DEF Init
<1>2. stored.list \in Seq(Requestable)
  BY InitAccounts DEF OInv, ListInv
<1>3. QED BY <1>1, <1>2, FreshAnswers DEF AnswerInv

LEMMA StartAnswers == OInv /\ (Start \/ Restart) => AnswerInv'
<1> SUFFICES ASSUME OInv, Start \/ Restart PROVE AnswerInv'
  OBVIOUS
<1>1. frames' = NewFrames(stored'.list) /\ result' = Collecting(frames').result
  BY DEF Start, Restart, Started
<1>2. stored'.list \in Seq(Requestable')
  BY StartAccounts DEF OInv, ListInv
<1>3. QED BY <1>1, <1>2, FreshAnswers DEF AnswerInv

LEMMA ReadAnswers ==
    ASSUME AnswerInv, NEW i \in DOMAIN frames, Read(i)
    PROVE  AnswerInv'
<1> DEFINE f == frames[i]
           r == [kind |-> "values", at |-> server, faultless |-> spent.faults = 0,
                 values |-> ValuesOf(f)]
<1>1. CASE Len(f.nodes) < Len(f.variables)
  <2>1. UNCHANGED <<frames, result>>
    BY <1>1 DEF Read, around
  <2>2. QED BY <2>1, AnswersStay
<1>2. CASE ~(Len(f.nodes) < Len(f.variables))
  <2>1. frames' = frames /\ result' = [result EXCEPT ![i] = r]
    BY <1>2 DEF Read, Reported, around
  <2>2. Proper(f)
    BY DEF AnswerInv
  <2>3. \A k \in DOMAIN ValuesOf(f) :
           ValuesOf(f)[k].value = <<ValuesOf(f)[k].v.node, server>>
    <3> HIDE DEF f
    <3>1. QED BY <1>2, <2>2, ValuesAre
  <2>4. r.values = ValuesOf(f) /\ r.at = server
    OBVIOUS
  <2> HIDE DEF r, f
  <2>5. Faithfully(r)
    BY <2>3, <2>4 DEF Faithfully
  <2>6. QED BY <2>1, <2>5, Answering
<1>3. QED BY <1>1, <1>2

LEMMA ReadFailsAnswers ==
    ASSUME AnswerInv, NEW i \in DOMAIN frames, ReadFails(i)
    PROVE  AnswerInv'
<1> DEFINE r == [NoResult EXCEPT !.kind = "error", !.faultless = spent.faults = 0]
<1>1. frames' = frames /\ (result' = result \/ result' = [result EXCEPT ![i] = r])
  BY DEF ReadFails, TriedInVain, Reported, around
<1>2. Faithfully(r)
  BY NoResultIsFaithful
<1> HIDE DEF r
<1>3. QED BY <1>1, <1>2, Answering, AnswersStay

LEMMA NextAnswers == OInv /\ AnswerInv /\ [Next]_vars => AnswerInv'
<1> SUFFICES ASSUME OInv, AnswerInv, [Next]_vars PROVE AnswerInv'
  OBVIOUS
<1>1. CASE StartPoll
  <2>1. frames' = frames /\ result' = [i \in DOMAIN frames |-> NoResult]
    BY <1>1 DEF StartPoll, around
  <2>2. QED BY <2>1, NoResultIsFaithful DEF AnswerInv
<1>2. CASE Start \/ Restart
  BY <1>2, StartAnswers
<1>3. CASE UpdateDevice \/ Destroy \/ Change \/ UNCHANGED vars
  <2>1. UNCHANGED <<frames, result>>
    BY <1>3 DEF UpdateDevice, Destroy, Change, vars, around, workers
  <2>2. QED BY <2>1, AnswersStay
<1>4. ASSUME NEW i \in DOMAIN frames,
             TakeIdle(i) \/ Register(i) \/ Receive(i) \/ Redial(i) \/ Release(i)
      PROVE  AnswerInv'
  <2>1. UNCHANGED <<frames, result>>
    BY <1>4 DEF TakeIdle, Register, Receive, Redial, Release, around, workers
  <2>2. QED BY <2>1, AnswersStay
<1>5. ASSUME NEW i \in DOMAIN frames, Read(i) \/ ReadFails(i)
      PROVE  AnswerInv'
  BY <1>5, ReadAnswers, ReadFailsAnswers
<1>6. ASSUME NEW m \in DOMAIN session, Lose(m) \/ Regain(m)
      PROVE  AnswerInv'
  <2>1. UNCHANGED <<frames, result>>
    BY <1>6 DEF Lose, Regain, around, workers
  <2>2. QED BY <2>1, AnswersStay
<1>7. QED BY <1>1, <1>2, <1>3, <1>4, <1>5, <1>6 DEF Next

(* What message() of pkg/protocol/opcua reports under a variable is what the
   server gave that variable's own node in that read, although the results
   are matched by their places, for every list of variables, size of groups
   and number of clients. *)
THEOREM OpcUaReportsTheServer == Spec => []ReportsTheServer
<1>1. Init => OInv /\ AnswerInv
  BY InitAccounts, InitAnswers
<1>2. OInv /\ AnswerInv /\ [Next]_vars => (OInv /\ AnswerInv)'
  BY NextAccounts, NextAnswers
<1>3. QED BY <1>1, <1>2, AnswersReport, PTL DEF Spec
-----------------------------------------------------------------------------
(* What a poll of a broker that has met no fault reports.  How often
   something has happened tells what the manager was asked for last and
   whether a session can be anything but open. *)

Events == {"polls", "updates", "faults", "changes", "restarts"}

SpentInv == spent \in [Events -> Nat]

(* Before the first fault only a frame without nodes is tried again. *)
FaultInv ==
    collecting /\ spent.faults = 0 =>
        /\ \A m \in DOMAIN session : session[m] = "open"
        /\ \A i \in DOMAIN frames : frames[i].nodes # << >> => tries[i] = 0

LEMMA Spends ==
    ASSUME SpentInv, NEW what \in Events, Spend(what)
    PROVE  /\ SpentInv'
           /\ spent'[what] # 0
           /\ \A e \in Events : e # what => spent'[e] = spent[e]
BY DEF SpentInv, Spend

LEMMA SpentStays == SpentInv /\ UNCHANGED spent => SpentInv'
BY DEF SpentInv

LEMMA NextSpent == SpentInv /\ [Next]_vars => SpentInv'
<1> SUFFICES ASSUME SpentInv, [Next]_vars PROVE SpentInv'
  OBVIOUS
<1>0. /\ "polls" \in Events /\ "updates" \in Events /\ "faults" \in Events
      /\ "changes" \in Events /\ "restarts" \in Events
  BY DEF Events
<1>1. CASE StartPoll
  BY <1>0, <1>1, Spends DEF StartPoll
<1>2. CASE UpdateDevice
  BY <1>0, <1>2, Spends DEF UpdateDevice
<1>3. CASE Restart
  BY <1>0, <1>3, Spends DEF Restart
<1>4. CASE Change
  BY <1>0, <1>4, Spends DEF Change
<1>5. CASE Destroy \/ Start \/ UNCHANGED vars
  BY <1>5, SpentStays DEF Destroy, Start, vars
<1>6. ASSUME NEW i \in DOMAIN frames,
             \/ TakeIdle(i) \/ Register(i) \/ Receive(i)
             \/ Read(i) \/ Redial(i) \/ Release(i)
      PROVE  SpentInv'
  BY <1>6, SpentStays DEF TakeIdle, Register, Receive, Read, Redial, Release
<1>7. ASSUME NEW i \in DOMAIN frames, ReadFails(i) PROVE SpentInv'
  BY <1>0, <1>7, SpentStays, Spends DEF ReadFails
<1>8. ASSUME NEW m \in DOMAIN session, Lose(m) \/ Regain(m) PROVE SpentInv'
  BY <1>0, <1>8, SpentStays, Spends DEF Lose, Regain
<1>9. QED BY <1>1, <1>2, <1>3, <1>4, <1>5, <1>6, <1>7, <1>8 DEF Next

(* Whoever works has a client of the broker's. *)
LEMMA WorksWithAClient ==
    ASSUME OInv, NEW i \in DOMAIN frames, pc[i] \in {"using", "releasing"}
    PROVE  collecting /\ granted[i] \in DOMAIN session
<1>1. collecting
  BY DEF OInv
<1>2. granted[i] # 0 /\ i \in DOMAIN granted
  BY <1>1 DEF OInv, HolderInv, ShapeInv
<1>3. granted[i] \in Held(granted)
  BY <1>2 DEF Held, HeldBy
<1>4. QED BY <1>1, <1>3 DEF OInv, AccountInv

LEMMA FaultStays ==
    ASSUME FaultInv, UNCHANGED <<session, collecting, frames, tries>>,
           spent'.faults = spent.faults
    PROVE  FaultInv'
BY DEF FaultInv

LEMMA TakeIdleFaults ==
    ASSUME OInv, FaultInv, NEW i \in DOMAIN frames, TakeIdle(i)
    PROVE  FaultInv'
<1> DEFINE m == Head(Messengers)
<1>1. /\ UNCHANGED <<collecting, frames, tries, spent>> /\ pc[i] = "start" /\ Idle > 0
      /\ session[m] # "closed" => session' = session
  BY DEF TakeIdle, around
<1>2. collecting
  BY <1>1 DEF OInv
<1>3. m \in DOMAIN session
  BY <1>1, <1>2 DEF OInv, AccountInv
<1>4. CASE spent.faults = 0
  <2>1. session[m] = "open"
    BY <1>2, <1>3, <1>4 DEF FaultInv
  <2>2. session' = session
    BY <1>1, <2>1
  <2>3. QED BY <1>1, <2>2, FaultStays
<1>5. CASE spent.faults # 0
  BY <1>1, <1>5 DEF FaultInv
<1>6. QED BY <1>4, <1>5

LEMMA RedialFaults ==
    ASSUME OInv, FaultInv, NEW i \in DOMAIN frames, Redial(i)
    PROVE  FaultInv'
<1>1. /\ UNCHANGED spent /\ pc[i] = "using" /\ session[granted[i]] = "stale"
  BY DEF Redial
<1>2. collecting /\ granted[i] \in DOMAIN session
  BY <1>1, WorksWithAClient
<1>3. spent.faults # 0
  BY <1>1, <1>2 DEF FaultInv
<1>4. QED BY <1>1, <1>3 DEF FaultInv

(* A read can only fail for want of nodes. *)
LEMMA ReadFailsFaults ==
    ASSUME OInv, SpentInv, FaultInv, NEW i \in DOMAIN frames, ReadFails(i)
    PROVE  /\ FaultInv'
           /\ spent.faults = 0 /\ tries[i] = 2 => frames[i].nodes = << >>
<1>1. /\ UNCHANGED <<session, collecting, frames>> /\ pc[i] = "using"
      /\ tries' = tries \/ tries' = [tries EXCEPT ![i] = @ + 1]
      /\ \/ session[granted[i]] = "closed" /\ UNCHANGED spent
         \/ frames[i].nodes = << >> /\ UNCHANGED spent
         \/ frames[i].nodes # << >> /\ Spend("faults")
  BY DEF ReadFails, TriedInVain, around
<1>2. collecting /\ granted[i] \in DOMAIN session
  BY <1>1, WorksWithAClient
<1>3. spent.faults = 0 /\ frames[i].nodes # << >> => tries[i] = 0
  BY <1>2 DEF FaultInv
<1>4. Spend("faults") => spent'.faults # 0
  BY Spends DEF Events
<1>5. CASE spent'.faults # 0
  BY <1>3, <1>5 DEF FaultInv
<1>6. CASE spent'.faults = 0
  <2>1. UNCHANGED spent
    BY <1>1, <1>4, <1>6
  <2>2. frames[i].nodes = << >>
    BY <1>1, <1>2, <1>4, <1>6, <2>1 DEF FaultInv
  <2>3. \A j \in DOMAIN frames : frames[j].nodes # << >> => tries'[j] = tries[j]
    <3>1. DOMAIN tries = DOMAIN frames
      BY DEF OInv, ShapeInv
    <3>2. \A j \in DOMAIN frames : frames[j].nodes # << >> => j # i
      BY <2>2
    <3>3. QED BY <1>1, <3>1, <3>2
  <2>4. FaultInv'
    BY <1>1, <2>1, <2>3 DEF FaultInv
  <2>5. QED BY <2>2, <2>4
<1>7. QED BY <1>5, <1>6

LEMMA StartFaults == OInv /\ (Start \/ Restart) => FaultInv'
<1> SUFFICES ASSUME OInv, Start \/ Restart PROVE FaultInv'
  OBVIOUS
<1>1. /\ frames' = NewFrames(stored'.list)
      /\ session' = Collecting(frames').session
      /\ tries' = Collecting(frames').tries
  BY DEF Start, Restart, Started
<1>2. stored'.list \in Seq(Requestable')
  BY StartAccounts DEF OInv, ListInv
<1>3. Len(frames') \in Nat /\ DOMAIN frames' = 1..Len(frames')
  BY <1>1, <1>2, FramesAre
<1>4. /\ \A m \in DOMAIN session' : session'[m] = "open"
      /\ \A i \in DOMAIN frames' : tries'[i] = 0
  BY <1>1, <1>3, FreshBroker
<1>5. QED BY <1>4 DEF FaultInv

LEMMA NextFaults == OInv /\ SpentInv /\ FaultInv /\ [Next]_vars => FaultInv'
<1> SUFFICES ASSUME OInv, SpentInv, FaultInv, [Next]_vars PROVE FaultInv'
  OBVIOUS
<1>0. ASSUME NEW e \in Events, e # "faults", Spend(e)
      PROVE  spent'.faults = spent.faults
  <2>1. "faults" \in Events
    BY DEF Events
  <2>2. QED BY <1>0, <2>1, Spends
<1>1. CASE StartPoll
  <2>1. /\ UNCHANGED <<session, collecting, frames>> /\ Spend("polls")
        /\ tries' = [i \in DOMAIN frames |-> 0]
    BY <1>1 DEF StartPoll, around
  <2>2. spent'.faults = spent.faults
    BY <1>0, <2>1 DEF Events
  <2>3. QED BY <2>1, <2>2 DEF FaultInv
<1>2. CASE Start \/ Restart
  BY <1>2, StartFaults
<1>3. CASE UpdateDevice \/ Change \/ UNCHANGED vars
  <2>1. UNCHANGED <<session, collecting, frames, tries>>
    BY <1>3 DEF UpdateDevice, Change, vars, around, workers
  <2>2. spent'.faults = spent.faults
    BY <1>0, <1>3 DEF UpdateDevice, Change, vars, Events
  <2>3. QED BY <2>1, <2>2, FaultStays
<1>4. CASE Destroy
  BY <1>4 DEF Destroy, FaultInv
<1>5. ASSUME NEW i \in DOMAIN frames,
             Register(i) \/ Receive(i) \/ Read(i) \/ Release(i)
      PROVE  FaultInv'
  <2>1. UNCHANGED <<session, collecting, frames, tries, spent>>
    BY <1>5 DEF Register, Receive, Read, Release, around
  <2>2. QED BY <2>1, FaultStays
<1>6. ASSUME NEW i \in DOMAIN frames, TakeIdle(i) \/ Redial(i) \/ ReadFails(i)
      PROVE  FaultInv'
  BY <1>6, TakeIdleFaults, RedialFaults, ReadFailsFaults
<1>7. ASSUME NEW m \in DOMAIN session, Lose(m) PROVE FaultInv'
  <2>1. spent'.faults # 0
    BY <1>7, Spends DEF Lose, Events
  <2>2. QED BY <2>1 DEF FaultInv
<1>8. ASSUME NEW m \in DOMAIN session, Regain(m) PROVE FaultInv'
  <2>1. /\ UNCHANGED <<collecting, frames, tries, spent>>
        /\ session' = [session EXCEPT ![m] = "open"]
    BY <1>8 DEF Regain, around, workers
  <2>2. QED BY <2>1 DEF FaultInv
<1>9. QED
  BY <1>1, <1>2, <1>3, <1>4, <1>5, <1>6, <1>7, <1>8 DEF Next

(* What the manager was asked for last, and what the broker was made of. *)
Requested == IF spent.updates = 0 THEN setup.variables ELSE setup.update

(* The table has the variables that were requested, each once. *)
Fulfils(list, request) ==
    Unambiguous(list) /\ Unambiguous(request) /\ ToSet(list) = ToSet(request)

RequestInv ==
    Unmistakable =>
        /\ Fulfils(stored.list, Requested)
        /\ \E list \in Seq(Requestable) :
              frames = NewFrames(list) /\ Fulfils(list, wanted)

LEMMA UpdatedFulfils ==
    ASSUME ListInv, Unmistakable, Unambiguous(stored.list)
    PROVE  Fulfils(UpdateOpcUaDevice(stored, setup.update).list, setup.update)
<1> DEFINE t == DeepCopy(stored)
           vs == setup.update
           u == UpsertAll(Kept(DeepCopy(stored), vs), vs)
<1>1. /\ stored = [list |-> stored.list, map |-> stored.map]
      /\ stored.list \in Seq(Requestable)
  BY DEF ListInv
<1>2. t = [list |-> stored.list, map |-> Indexed(stored.list)]
  BY <1>1 DEF DeepCopy, IndexDevice
<1>3. DeepCopy(t) = t
  BY <1>2 DEF DeepCopy, IndexDevice
<1>4. t \in Tables(Requestable) /\ Faithful(t)
  BY <1>1, <1>2, CreatedFit
<1>5. /\ vs \in Seq(Requestable) /\ Unambiguous(vs)
      /\ \A i \in DOMAIN vs : TrimSpace(vs[i].name) = vs[i].name
  <2>1. setup \in Setups
    BY DEF ListInv
  <2>2. vs \in Seq(ToSet(vs))
    BY <2>1, OpcUaAssumption DEF Listed
  <2>3. ToSet(vs) \subseteq Requestable
    BY DEF Requestable
  <2>4. vs \in Seq(Requestable)
    <3>1. vs = [i \in 1..Len(vs) |-> vs[i]] /\ Len(vs) \in Nat
          /\ \A i \in 1..Len(vs) : vs[i] \in ToSet(vs)
      BY <2>2
    <3> HIDE DEF vs
    <3>2. \A i \in 1..Len(vs) : vs[i] \in Requestable
      BY <2>3, <3>1
    <3>3. QED BY <3>1, <3>2
  <2>5. \A i \in DOMAIN vs : vs[i] \in ToSet(vs)
    BY DEF ToSet
  <2>6. QED BY <2>4, <2>5 DEF Unmistakable
<1> HIDE DEF t, vs
<1>6. LET w == UpsertAll(Kept(DeepCopy(t), vs), vs)
      IN  Faithful(w) /\ ToSet(w.list) = ToSet(vs)
  BY <1>4, <1>5, UpdateIs
<1>7. DeepCopy(stored) = DeepCopy(t)
  BY <1>3 DEF t
<1>8. UpdateOpcUaDevice(stored, setup.update) = UpsertAll(Kept(DeepCopy(t), vs), vs)
  BY <1>7 DEF UpdateOpcUaDevice, vs
<1>9. QED BY <1>5, <1>6, <1>8 DEF Fulfils, Faithful, vs

LEMMA RequestStays ==
    ASSUME RequestInv, UNCHANGED <<setup, stored, wanted, frames>>,
           spent'.updates = spent.updates
    PROVE  RequestInv'
BY DEF RequestInv, Unmistakable, Requested, Requestable

LEMMA InitRequest == Init => SpentInv /\ FaultInv /\ RequestInv
<1> SUFFICES ASSUME Init PROVE SpentInv /\ FaultInv /\ RequestInv
  OBVIOUS
<1>1. /\ stored = CreateOpcUaDevice(setup.variables) /\ wanted = setup.variables
      /\ frames = NewFrames(stored.list)
      /\ session = Collecting(frames).session /\ tries = Collecting(frames).tries
      /\ spent = [polls |-> 0, updates |-> 0, faults |-> 0, changes |-> 0, restarts |-> 0]
  BY DEF Init
<1>2. stored.list \in Seq(Requestable) /\ stored.list = setup.variables
  BY <1>1, InitAccounts DEF OInv, ListInv, CreateOpcUaDevice
<1>3. SpentInv
  BY <1>1 DEF SpentInv, Events
<1>4. FaultInv
  <2>1. Len(frames) \in Nat /\ DOMAIN frames = 1..Len(frames)
    BY <1>1, <1>2, FramesAre
  <2>2. /\ \A m \in DOMAIN session : session[m] = "open"
        /\ \A i \in DOMAIN frames : tries[i] = 0
    BY <1>1, <2>1, FreshBroker
  <2>3. QED BY <2>2 DEF FaultInv
<1>5. RequestInv
  BY <1>1, <1>2 DEF RequestInv, Fulfils, Requested, Unmistakable
<1>6. QED BY <1>3, <1>4, <1>5

LEMMA StartRequest ==
    OInv /\ SpentInv /\ RequestInv /\ (Start \/ Restart) => RequestInv'
<1> SUFFICES ASSUME OInv, SpentInv, RequestInv, Start \/ Restart PROVE RequestInv'
  OBVIOUS
<1>1. /\ frames' = NewFrames(stored'.list) /\ setup' = setup
      /\ wanted' = Requested
      /\ stored' = stored \/ stored' = IndexDevice(stored)
  BY DEF Start, Restart, Started, Requested
<1>2. stored'.list = stored.list /\ stored'.list \in Seq(Requestable)
  <2>1. /\ stored = [list |-> stored.list, map |-> stored.map]
        /\ stored.list \in Seq(Requestable)
    BY DEF OInv, ListInv
  <2>2. IndexDevice(stored).list = stored.list
    BY <2>1 DEF IndexDevice
  <2>3. QED BY <1>1, <2>1, <2>2
<1>3. spent'.updates = spent.updates
  <2>1. CASE Start
    BY <2>1 DEF Start
  <2>2. CASE Restart
    BY <2>2, Spends DEF Restart, Events
  <2>3. QED BY <2>1, <2>2
<1>4. Requested' = Requested /\ Requestable' = Requestable
      /\ (Unmistakable' <=> Unmistakable)
  BY <1>1, <1>3 DEF Requested, Requestable, Unmistakable
<1>5. ASSUME Unmistakable
      PROVE  /\ Fulfils(stored'.list, Requested')
             /\ \E list \in Seq(Requestable') :
                   frames' = NewFrames(list) /\ Fulfils(list, wanted')
  BY <1>1, <1>2, <1>4, <1>5 DEF RequestInv
<1>6. QED BY <1>4, <1>5 DEF RequestInv

LEMMA NextRequest ==
    OInv /\ SpentInv /\ RequestInv /\ [Next]_vars => RequestInv'
<1> SUFFICES ASSUME OInv, SpentInv, RequestInv, [Next]_vars PROVE RequestInv'
  OBVIOUS
<1>0. ASSUME NEW e \in Events, e # "updates", Spend(e)
      PROVE  spent'.updates = spent.updates
  <2>1. "updates" \in Events
    BY DEF Events
  <2>2. QED BY <1>0, <2>1, Spends
<1>1. CASE UpdateDevice
  <2>1. /\ UNCHANGED <<setup, wanted, frames>> /\ Spend("updates")
        /\ stored' = UpdateOpcUaDevice(stored, setup.update)
    BY <1>1 DEF UpdateDevice
  <2>2. spent'.updates # 0
    BY <2>1, Spends DEF Events
  <2>3. Requested' = setup.update /\ Requestable' = Requestable
        /\ (Unmistakable' <=> Unmistakable)
    BY <2>1, <2>2 DEF Requested, Requestable, Unmistakable
  <2>4. Unmistakable => Fulfils(stored'.list, setup.update)
    BY <2>1, UpdatedFulfils DEF RequestInv, Fulfils, OInv
  <2>5. QED BY <2>1, <2>3, <2>4 DEF RequestInv
<1>2. CASE Start \/ Restart
  BY <1>2, StartRequest
<1>3. CASE StartPoll \/ Destroy \/ Change \/ UNCHANGED vars
  <2>1. UNCHANGED <<setup, stored, wanted, frames>>
    BY <1>3 DEF StartPoll, Destroy, Change, vars, around
  <2>2. spent'.updates = spent.updates
    BY <1>0, <1>3 DEF StartPoll, Destroy, Change, vars, Events
  <2>3. QED BY <2>1, <2>2, RequestStays
<1>4. ASSUME NEW i \in DOMAIN frames,
             \/ TakeIdle(i) \/ Register(i) \/ Receive(i)
             \/ Read(i) \/ ReadFails(i) \/ Redial(i) \/ Release(i)
      PROVE  RequestInv'
  <2>1. UNCHANGED <<setup, stored, wanted, frames>>
    BY <1>4 DEF TakeIdle, Register, Receive, Read, ReadFails, Redial, Release, around
  <2>2. spent'.updates = spent.updates
    BY <1>0, <1>4 DEF TakeIdle, Register, Receive, Read, ReadFails, Redial, Release, Events
  <2>3. QED BY <2>1, <2>2, RequestStays
<1>5. ASSUME NEW m \in DOMAIN session, Lose(m) \/ Regain(m) PROVE RequestInv'
  <2>1. UNCHANGED <<setup, stored, wanted, frames>>
    BY <1>5 DEF Lose, Regain, around
  <2>2. spent'.updates = spent.updates
    BY <1>0, <1>5 DEF Lose, Regain, Events
  <2>3. QED BY <2>1, <2>2, RequestStays
<1>6. QED BY <1>1, <1>2, <1>3, <1>4, <1>5 DEF Next

(* A frame whose poll met no fault has reported what the server knows of it,
   or that there was nothing to ask for. *)
Complete(r, f, nodes) ==
    r.kind # "none" /\ r.faultless =>
        \/ /\ r.kind = "values" /\ f.nodes # << >>
           /\ \A v \in ToSet(f.variables) : AskedFor(v)
           /\ Answers(r.values, f.variables, nodes)
        \/ r.kind = "error" /\ f.nodes = << >> /\ r.values = << >>

CompleteInv ==
    /\ DOMAIN result = DOMAIN frames
    /\ \A i \in DOMAIN frames : Complete(result[i], frames[i], setup.nodes)

LEMMA NoResultIsComplete == \A f, nodes : Complete(NoResult, f, nodes)
BY DEF Complete, NoResult

LEMMA CompleteStays ==
    ASSUME CompleteInv, UNCHANGED <<setup, frames, result>>
    PROVE  CompleteInv'
BY DEF CompleteInv

LEMMA Completing ==
    ASSUME CompleteInv, UNCHANGED <<setup, frames>>, NEW i \in DOMAIN frames,
           NEW r, Complete(r, frames[i], setup.nodes),
           result' = [result EXCEPT ![i] = r]
    PROVE  CompleteInv'
<1>1. DOMAIN result' = DOMAIN frames' /\ result'[i] = r
      /\ \A j \in DOMAIN frames : j # i => result'[j] = result[j]
  BY DEF CompleteInv
<1>2. \A j \in DOMAIN frames : Complete(result'[j], frames[j], setup.nodes)
  BY <1>1 DEF CompleteInv
<1>3. QED BY <1>1, <1>2 DEF CompleteInv

LEMMA ReadCompletes ==
    ASSUME AnswerInv, CompleteInv, NEW i \in DOMAIN frames, Read(i)
    PROVE  CompleteInv'
<1> DEFINE f == frames[i]
           r == [kind |-> "values", at |-> server, faultless |-> spent.faults = 0,
                 values |-> ValuesOf(f)]
<1>1. CASE Len(f.nodes) < Len(f.variables)
  <2>1. UNCHANGED <<setup, frames, result>>
    BY <1>1 DEF Read, around
  <2>2. QED BY <2>1, CompleteStays
<1>2. CASE ~(Len(f.nodes) < Len(f.variables))
  <2>1. UNCHANGED <<setup, frames>> /\ result' = [result EXCEPT ![i] = r]
        /\ f.nodes # << >>
    BY <1>2 DEF Read, Reported, around
  <2>2. Proper(f)
    BY DEF AnswerInv
  <2>3. Answers(ValuesOf(f), f.variables, setup.nodes)
    <3> HIDE DEF f
    <3>1. QED BY <1>2, <2>2, ValuesAnswer
  <2>4. \A v \in ToSet(f.variables) : AskedFor(v)
    <3> HIDE DEF f
    <3>1. IsList(f.variables) /\ f.nodes = Readable(f.variables)
      BY <2>2 DEF Proper
    <3>2. /\ Len(f.nodes) \in Nat
          /\ Len(f.nodes) >= Len(f.variables) =>
                \A k \in DOMAIN f.variables : AskedFor(f.variables[k])
      BY <3>1, ReadableIs
    <3>3. Len(f.nodes) >= Len(f.variables)
      BY <1>2, <3>1, <3>2 DEF IsList
    <3>4. QED BY <3>2, <3>3 DEF ToSet
  <2>5. r.kind = "values" /\ r.values = ValuesOf(f)
    OBVIOUS
  <2> HIDE DEF r, f
  <2>6. Complete(r, f, setup.nodes)
    BY <2>1, <2>3, <2>4, <2>5 DEF Complete
  <2>7. QED BY <2>1, <2>6, Completing DEF f
<1>3. QED BY <1>1, <1>2

LEMMA ReadFailsCompletes ==
    ASSUME OInv, SpentInv, FaultInv, CompleteInv, NEW i \in DOMAIN frames, ReadFails(i)
    PROVE  CompleteInv'
<1> DEFINE r == [NoResult EXCEPT !.kind = "error", !.faultless = spent.faults = 0]
<1>1. UNCHANGED <<setup, frames>>
      /\ (result' = result \/ (tries[i] = 2 /\ result' = [result EXCEPT ![i] = r]))
  BY DEF ReadFails, TriedInVain, Reported, around
<1>2. r.kind = "error" /\ (r.faultless <=> spent.faults = 0) /\ r.values = << >>
  BY DEF NoResult
<1> HIDE DEF r
<1>3. tries[i] = 2 => Complete(r, frames[i], setup.nodes)
  BY <1>2, ReadFailsFaults DEF Complete
<1>4. QED BY <1>1, <1>3, CompleteStays, Completing

LEMMA FreshIsComplete ==
    ASSUME UNCHANGED setup, result' = [i \in DOMAIN frames' |-> NoResult]
    PROVE  CompleteInv'
<1>1. DOMAIN result' = DOMAIN frames'
  OBVIOUS
<1>2. \A i \in DOMAIN frames' : result'[i] = NoResult
  OBVIOUS
<1>3. QED BY <1>1, <1>2, NoResultIsComplete DEF CompleteInv

LEMMA NextCompletes ==
    ASSUME OInv, AnswerInv, SpentInv, FaultInv, CompleteInv, [Next]_vars
    PROVE  CompleteInv'
<1>1. CASE StartPoll
  <2>1. UNCHANGED <<setup, frames>> /\ result' = [i \in DOMAIN frames' |-> NoResult]
    BY <1>1 DEF StartPoll, around
  <2>2. QED BY <2>1, FreshIsComplete
<1>2. CASE Start \/ Restart
  <2>1. UNCHANGED setup /\ result' = [i \in DOMAIN frames' |-> NoResult]
    BY <1>2 DEF Start, Restart, Started, Collecting
  <2>2. QED BY <2>1, FreshIsComplete
<1>3. CASE UpdateDevice \/ Destroy \/ Change \/ UNCHANGED vars
  <2>1. UNCHANGED <<setup, frames, result>>
    BY <1>3 DEF UpdateDevice, Destroy, Change, vars, around, workers
  <2>2. QED BY <2>1, CompleteStays
<1>4. ASSUME NEW i \in DOMAIN frames,
             TakeIdle(i) \/ Register(i) \/ Receive(i) \/ Redial(i) \/ Release(i)
      PROVE  CompleteInv'
  <2>1. UNCHANGED <<setup, frames, result>>
    BY <1>4 DEF TakeIdle, Register, Receive, Redial, Release, around, workers
  <2>2. QED BY <2>1, CompleteStays
<1>5. ASSUME NEW i \in DOMAIN frames, Read(i) \/ ReadFails(i)
      PROVE  CompleteInv'
  BY <1>5, ReadCompletes, ReadFailsCompletes
<1>6. ASSUME NEW m \in DOMAIN session, Lose(m) \/ Regain(m)
      PROVE  CompleteInv'
  <2>1. UNCHANGED <<setup, frames, result>>
    BY <1>6 DEF Lose, Regain, around, workers
  <2>2. QED BY <2>1, CompleteStays
<1>7. QED BY <1>1, <1>2, <1>3, <1>4, <1>5, <1>6 DEF Next

(* Lists with the same elements, each once, are of one length. *)
LEMMA SameLength ==
    ASSUME NEW E, NEW s \in Seq(E), NEW t \in Seq(E), Fulfils(s, t)
    PROVE  Len(s) = Len(t)
<1>1. ASSUME NEW u \in Seq(E), Unambiguous(u)
      PROVE  IsFiniteSet(ToSet(u)) /\ Cardinality(ToSet(u)) = Len(u)
  <2>1. Len(u) \in Nat /\ DOMAIN u = 1..Len(u) /\ u = [i \in 1..Len(u) |-> u[i]]
    OBVIOUS
  <2>2. IsFiniteSet(1..Len(u)) /\ Cardinality(1..Len(u)) = Len(u)
    <3>1. ASSUME NEW n \in Nat PROVE IsFiniteSet(1..n) /\ Cardinality(1..n) = n
      BY FS_Interval
    <3>2. QED BY <2>1, <3>1
  <2>3. u \in Bijection(1..Len(u), ToSet(u))
    <3>1. u \in [1..Len(u) -> ToSet(u)]
      BY <2>1 DEF ToSet
    <3>2. \A i, j \in 1..Len(u) : u[i] = u[j] => i = j
      BY <1>1, <2>1 DEF Unambiguous
    <3>3. \A v \in ToSet(u) : \E i \in 1..Len(u) : u[i] = v
      BY <2>1 DEF ToSet
    <3>4. IsInjective(u)
      BY <2>1, <3>2 DEF IsInjective
    <3>5. QED BY <3>1, <3>3, <3>4 DEF Bijection, Injection, Surjection
  <2>4. Cardinality(1..Len(u)) = Cardinality(ToSet(u)) /\ IsFiniteSet(ToSet(u))
    <3>1. ExistsBijection(1..Len(u), ToSet(u))
      BY <2>3 DEF ExistsBijection
    <3> QED BY <2>2, <3>1, FS_Bijection
  <2>5. QED BY <2>2, <2>4
<1>2. QED BY <1>1 DEF Fulfils

(* A broker was asked for the variables of one of the two requests. *)
WantedInv == wanted \in {setup.variables, setup.update}

LEMMA InitCompletes == Init => CompleteInv /\ WantedInv
<1> SUFFICES ASSUME Init PROVE CompleteInv /\ WantedInv
  OBVIOUS
<1>1. result = [i \in DOMAIN frames |-> NoResult] /\ WantedInv
  BY DEF Init, Collecting, WantedInv
<1>2. QED BY <1>1, NoResultIsComplete DEF CompleteInv

LEMMA NextWanted == WantedInv /\ [Next]_vars => WantedInv'
<1> SUFFICES ASSUME WantedInv, [Next]_vars PROVE WantedInv'
  OBVIOUS
<1>1. CASE Start \/ Restart
  BY <1>1 DEF Start, Restart, Started, WantedInv
<1>2. CASE UNCHANGED <<setup, wanted>>
  BY <1>2 DEF WantedInv
<1>3. CASE StartPoll \/ UpdateDevice \/ Destroy \/ Change \/ UNCHANGED vars
  BY <1>2, <1>3 DEF StartPoll, UpdateDevice, Destroy, Change, vars, around
<1>4. ASSUME NEW i \in DOMAIN frames,
             \/ TakeIdle(i) \/ Register(i) \/ Receive(i)
             \/ Read(i) \/ ReadFails(i) \/ Redial(i) \/ Release(i)
      PROVE  WantedInv'
  BY <1>2, <1>4 DEF TakeIdle, Register, Receive, Read, ReadFails, Redial, Release, around
<1>5. ASSUME NEW m \in DOMAIN session, Lose(m) \/ Regain(m) PROVE WantedInv'
  BY <1>2, <1>5 DEF Lose, Regain, around
<1>6. QED BY <1>1, <1>3, <1>4, <1>5 DEF Next

(* Where every frame has reported what the server knows of it, the poll has
   reported what the server knows of the request. *)
LEMMA CompletePoll ==
    ASSUME OInv, AnswerInv, RequestInv, CompleteInv, WantedInv
    PROVE  PollIsComplete
<1> DEFINE told == UNION {{<<i, k>> : k \in DOMAIN result[i].values} : i \in DOMAIN result}
           name(p) == result[p[1]].values[p[2]].v.name
           asked == {w \in ToSet(wanted) : AskedFor(w) /\ w.node \in setup.nodes}
<1> SUFFICES ASSUME Unmistakable,
                    \A i \in DOMAIN result : result[i].kind # "none" /\ result[i].faultless
             PROVE  /\ {name(p) : p \in told} = {v.name : v \in asked}
                    /\ \A p, q \in told : name(p) = name(q) => p = q
                    /\ Len(wanted) <= GroupSize /\ (\E v \in ToSet(wanted) : AskedFor(v)) =>
                          \A i \in DOMAIN result : result[i].kind = "values"
  BY DEF PollIsComplete
<1>1. PICK list \in Seq(Requestable) : frames = NewFrames(list) /\ Fulfils(list, wanted)
  BY DEF RequestInv
<1> DEFINE groups == VariablesInGroupOf(list)
<1>2. /\ DOMAIN result = DOMAIN groups /\ DOMAIN frames = DOMAIN groups
      /\ \A i \in DOMAIN groups : frames[i].variables = groups[i]
  BY <1>1 DEF NewFrames, CompleteInv
<1>3. Partition(groups, list) /\ Unambiguous(list) /\ ToSet(list) = ToSet(wanted)
  BY <1>1, GroupsPartition DEF Fulfils
<1>4. list \in Seq(Requestable) /\ (Len(list) <= GroupSize => groups = <<list>>)
  BY <1>1 DEF VariablesInGroupOf
<1> HIDE DEF groups
<1>5. \A i \in DOMAIN groups : /\ IsList(groups[i]) /\ frames[i].nodes = Readable(groups[i])
                              /\ Complete(result[i], frames[i], setup.nodes)
  BY <1>2 DEF AnswerInv, Proper, CompleteInv
<1>6. \A i, j \in DOMAIN groups : \A u \in ToSet(groups[i]), v \in ToSet(groups[j]) :
         u.name = v.name => i = j
  BY <1>3 DEF Partition, ToSet
<1>7. \A i \in DOMAIN groups : Unambiguous(groups[i])
  BY <1>3 DEF Partition, Unambiguous
<1>8. ASSUME NEW i \in DOMAIN groups
      PROVE  \/ /\ result[i].kind = "values"
                /\ \A v \in ToSet(groups[i]) : AskedFor(v)
                /\ Answers(result[i].values, groups[i], setup.nodes)
             \/ /\ result[i].values = << >>
                /\ \A v \in ToSet(groups[i]) : ~AskedFor(v)
  <2>1. CASE result[i].kind = "values"
    BY <1>2, <1>5, <2>1 DEF Complete
  <2>2. CASE result[i].kind # "values"
    <3>1. frames[i].nodes = << >> /\ result[i].values = << >>
      BY <1>2, <1>5, <2>2 DEF Complete
    <3>2. \A k \in DOMAIN groups[i] : ~AskedFor(groups[i][k])
      BY <1>5, <3>1, ReadableIs
    <3>3. QED BY <3>1, <3>2 DEF ToSet
  <2>3. QED BY <2>1, <2>2
<1>9. ASSUME NEW i \in DOMAIN groups, NEW k \in DOMAIN result[i].values
      PROVE  /\ Answers(result[i].values, groups[i], setup.nodes)
             /\ result[i].values[k].v \in ToSet(groups[i]) \cap asked
  <2>1. DOMAIN result[i].values # {}
    OBVIOUS
  <2>2. result[i].values # << >>
    BY <2>1
  <2>3. /\ \A v \in ToSet(groups[i]) : AskedFor(v)
        /\ Answers(result[i].values, groups[i], setup.nodes)
    BY <1>8, <2>2
  <2>4. ToSet(groups[i]) \subseteq ToSet(wanted)
    <3>1. \A l \in DOMAIN groups[i] : groups[i][l] \in ToSet(wanted)
      BY <1>3 DEF Partition
    <3>2. ToSet(groups[i]) = {groups[i][l] : l \in DOMAIN groups[i]}
      BY DEF ToSet
    <3>3. QED BY <3>1, <3>2
  <2>5. QED BY <2>3, <2>4 DEF Answers
<1>10. ASSUME NEW v \in asked
       PROVE  \E p \in told : name(p) = v.name
  <2>1. PICK i \in DOMAIN groups : \E l \in DOMAIN groups[i] : groups[i][l] = v
    BY <1>3 DEF Partition
  <2>2. v \in ToSet(groups[i])
    BY <2>1 DEF ToSet
  <2>3. PICK k \in DOMAIN result[i].values : result[i].values[k].v = v
    BY <1>8, <2>2 DEF Answers
  <2>4. <<i, k>> \in told /\ name(<<i, k>>) = v.name
    BY <1>2, <2>3
  <2>5. QED BY <2>4
<1>11. ASSUME NEW p \in told
       PROVE  \E i \in DOMAIN groups : \E k \in DOMAIN result[i].values :
                 p = <<i, k>> /\ name(p) = result[i].values[k].v.name
  BY <1>2
<1>12. {name(p) : p \in told} = {v.name : v \in asked}
  <2>1. \A p \in told : \E v \in asked : name(p) = v.name
    BY <1>9, <1>11
  <2>2. QED
    <3> HIDE DEF told, name, asked
    <3>1. QED BY <1>10, <2>1
<1>13. ASSUME NEW p \in told, NEW q \in told, name(p) = name(q)
       PROVE  p = q
  <2>1. PICK i \in DOMAIN groups : \E k \in DOMAIN result[i].values :
           p = <<i, k>> /\ name(p) = result[i].values[k].v.name
    BY <1>11
  <2>2. PICK k \in DOMAIN result[i].values :
           p = <<i, k>> /\ name(p) = result[i].values[k].v.name
    BY <2>1
  <2>3. PICK j \in DOMAIN groups : \E l \in DOMAIN result[j].values :
           q = <<j, l>> /\ name(q) = result[j].values[l].v.name
    BY <1>11
  <2>4. PICK l \in DOMAIN result[j].values :
           q = <<j, l>> /\ name(q) = result[j].values[l].v.name
    BY <2>3
  <2>5. result[i].values[k].v.name = result[j].values[l].v.name
    BY <1>13, <2>2, <2>4
  <2>6. i = j
    BY <1>6, <1>9, <2>5
  <2>7. k = l
    BY <1>7, <1>9, <2>5, <2>6 DEF Answers
  <2>8. QED BY <2>2, <2>4, <2>6, <2>7
<1>14. ASSUME Len(wanted) <= GroupSize, NEW v \in ToSet(wanted), AskedFor(v),
              NEW i \in DOMAIN result
       PROVE  result[i].kind = "values"
  <2>1. wanted \in Seq(Requestable)
    BY RequestsAreLists DEF WantedInv, OInv, ListInv
  <2>2. Len(list) = Len(wanted)
    BY <1>1, <2>1, SameLength
  <2>3. groups = <<list>>
    BY <1>4, <1>14, <2>2
  <2>4. i \in DOMAIN groups /\ ToSet(groups[i]) = ToSet(wanted)
    BY <1>2, <1>3, <2>3
  <2>5. QED BY <1>8, <1>14, <2>4
<1>15. QED BY <1>12, <1>13, <1>14

(* For any lists of variables, any size of a group and any number of
   clients, a poll of a broker that has met no fault, neither of the server
   nor of the network, reports every variable it was made for that is asked
   for and known, each under its own name and once, and no other. *)
THEOREM OpcUaPollIsComplete == Spec => []PollIsComplete
<1> DEFINE I == /\ OInv /\ AnswerInv /\ SpentInv /\ FaultInv
                /\ RequestInv /\ CompleteInv /\ WantedInv
<1>1. Init => I
  BY InitAccounts, InitAnswers, InitRequest, InitCompletes
<1>2. I /\ [Next]_vars => I'
  BY NextAccounts, NextAnswers, NextSpent, NextFaults, NextRequest, NextCompletes, NextWanted
<1>3. I => PollIsComplete
  BY CompletePoll
<1> HIDE DEF I
<1>4. QED BY <1>1, <1>2, <1>3, PTL DEF Spec

================================================================================
