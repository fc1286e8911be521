-------------------------- MODULE VariableTableProofs --------------------------
(***************************************************************************)
(* What the operators of VariableTable compute, of lists as long as one    *)
(* likes, and the facts about lists, numbers and powers of two that the    *)
(* other proofs share.  The operators are folds, and the provers cannot    *)
(* instantiate an operator: the induction is stated of sets and functions. *)
(* The numbers of which something holds are a set, the steps of a fold a   *)
(* function, and where a fold has come to after each element another.      *)
(***************************************************************************)
EXTENDS VariableTable, FiniteSetTheorems, WellFoundedInduction, TLAPS

(* A set of numbers with 0 and with the successor of each has them all. *)
LEMMA SetInduction ==
    ASSUME NEW S, 0 \in S, \A n \in Nat : n \in S => n + 1 \in S
    PROVE  Nat \subseteq S
<1> DEFINE T == Nat \ S
           R == {ss \in Nat \X Nat : ss[1] < ss[2]}
<1> SUFFICES ASSUME T # {} PROVE FALSE
  OBVIOUS
<1>1. PICK t \in T : \A u \in T : ~(<<u, t>> \in R)
  <2>1. IsWellFoundedOn(R, Nat)
    BY NatLessThanWellFounded DEF OpToRel
  <2>2. T \subseteq Nat
    OBVIOUS
  <2> HIDE DEF T, R
  <2>3. QED BY <2>1, <2>2, WFMin
<1>2. t \in Nat /\ t # 0 /\ t \notin S
  OBVIOUS
<1>3. t - 1 \in Nat /\ (t - 1) + 1 = t
  BY <1>2
<1>4. t - 1 \in T
  BY <1>2, <1>3
<1>5. <<t - 1, t>> \in R
  BY <1>2, <1>3
<1>6. QED BY <1>1, <1>4, <1>5

-----------------------------------------------------------------------------
(* Lists. *)

IsList(s) == Len(s) \in Nat /\ s = [k \in 1..Len(s) |-> s[k]]

(* A function on 1..n is a list of n. *)
LEMMA ListOf ==
    ASSUME NEW n \in Nat, NEW f, f = [i \in 1..n |-> f[i]]
    PROVE  f \in Seq({f[i] : i \in 1..n}) /\ Len(f) = n
<1> DEFINE S == {f[i] : i \in 1..n}
<1>1. f \in [1..n -> S]
  OBVIOUS
<1> HIDE DEF S
<1>2. f \in Seq(S) /\ Len(f) = n
  BY <1>1
<1>3. QED BY <1>2 DEF S

LEMMA Joined ==
    ASSUME NEW A, NEW B, NEW a \in Seq(A), NEW b \in Seq(B)
    PROVE  /\ DOMAIN (a \o b) = 1..(Len(a) + Len(b))
           /\ \A i \in 1..(Len(a) + Len(b)) :
                 (a \o b)[i] = IF i <= Len(a) THEN a[i] ELSE b[i - Len(a)]
OBVIOUS

LEMMA ListsJoin ==
    ASSUME NEW a, NEW b, IsList(a), IsList(b)
    PROVE  /\ IsList(a \o b) /\ Len(a \o b) = Len(a) + Len(b)
           /\ \A i \in 1..Len(a) : (a \o b)[i] = a[i]
           /\ \A i \in 1..Len(b) : (a \o b)[Len(a) + i] = b[i]
<1> DEFINE A == {a[i] : i \in 1..Len(a)}
           B == {b[i] : i \in 1..Len(b)}
           c == a \o b
<1>1. Len(a) \in Nat /\ Len(b) \in Nat /\ a \in Seq(A) /\ b \in Seq(B)
  BY ListOf DEF IsList
<1> HIDE DEF A, B
<1>2. /\ DOMAIN c = 1..(Len(a) + Len(b)) /\ Len(c) = Len(a) + Len(b)
      /\ c \in Seq(A \cup B)
      /\ \A i \in 1..(Len(a) + Len(b)) : c[i] = IF i <= Len(a) THEN a[i] ELSE b[i - Len(a)]
  BY <1>1, Joined
<1>3. IsList(c)
  <2> HIDE DEF c
  <2>1. QED BY <1>2 DEF IsList
<1>4. ASSUME NEW i \in 1..Len(b)
      PROVE  c[Len(a) + i] = b[i]
  <2>1. Len(a) + i \in 1..(Len(a) + Len(b)) /\ ~(Len(a) + i <= Len(a))
        /\ (Len(a) + i) - Len(a) = i
    BY <1>1
  <2>2. QED BY <1>2, <2>1
<1>5. \A i \in 1..Len(a) : c[i] = a[i]
  BY <1>1, <1>2
<1>6. QED BY <1>2, <1>3, <1>4, <1>5

Join(a, b) == a \o b

LEMMA ListsJoined ==
    \A a, b : IsList(a) /\ IsList(b) =>
        /\ IsList(Join(a, b)) /\ Len(Join(a, b)) = Len(a) + Len(b)
        /\ \A i \in 1..(Len(a) + Len(b)) :
              Join(a, b)[i] = IF i <= Len(a) THEN a[i] ELSE b[i - Len(a)]
<1> SUFFICES ASSUME NEW a, NEW b, IsList(a), IsList(b)
             PROVE  /\ IsList(a \o b) /\ Len(a \o b) = Len(a) + Len(b)
                    /\ \A i \in 1..(Len(a) + Len(b)) :
                          (a \o b)[i] = IF i <= Len(a) THEN a[i] ELSE b[i - Len(a)]
  BY DEF Join
<1>1. /\ a \in Seq({a[i] : i \in 1..Len(a)})
      /\ b \in Seq({b[i] : i \in 1..Len(b)})
  BY ListOf DEF IsList
<1>2. \A i \in 1..(Len(a) + Len(b)) :
        (a \o b)[i] = IF i <= Len(a) THEN a[i] ELSE b[i - Len(a)]
  BY <1>1, Joined
<1>3. QED BY <1>2, ListsJoin

LEMMA InAList ==
    ASSUME NEW A, NEW E, A \subseteq E, NEW s \in Seq(A)
    PROVE  s \in Seq(E)
<1>1. s \in [1..Len(s) -> A] /\ Len(s) \in Nat
  OBVIOUS
<1>2. s \in [1..Len(s) -> E]
  BY <1>1
<1>3. QED BY <1>1, <1>2

(* A part of a list, and what is left of it. *)
LEMMA Slice ==
    ASSUME NEW s, IsList(s), NEW a \in Nat, NEW n \in Nat, a + n <= Len(s)
    PROVE  LET p == SubSeq(s, a + 1, a + n)
           IN  IsList(p) /\ Len(p) = n
<1> DEFINE E == {s[i] : i \in 1..Len(s)}
<1>1. s \in Seq(E) /\ Len(s) \in Nat
  BY ListOf DEF IsList
<1> HIDE DEF E
<1> DEFINE p == SubSeq(s, a + 1, a + n)
<1>2. p \in Seq(E) /\ Len(p) = n
  BY <1>1
<1> HIDE DEF p
<1>3. IsList(p)
  BY <1>2 DEF IsList
<1>4. QED BY <1>2, <1>3 DEF p

LEMMA SliceHas ==
    ASSUME NEW s, IsList(s), NEW a \in Nat, NEW n \in Nat, a + n <= Len(s), NEW i \in 1..n
    PROVE  SubSeq(s, a + 1, a + n)[i] = s[a + i]
<1> DEFINE E == {s[j] : j \in 1..Len(s)}
<1>1. s \in Seq(E) /\ Len(s) \in Nat
  BY ListOf DEF IsList
<1> HIDE DEF E
<1>2. QED BY <1>1

LEMMA RestHas ==
    ASSUME NEW s, IsList(s), NEW a \in Nat, NEW i \in Nat \ {0}, a + i <= Len(s)
    PROVE  SubSeq(s, a + 1, Len(s))[i] = s[a + i]
<1>1. Len(s) \in Nat
  BY DEF IsList
<1> DEFINE n == Len(s) - a
           l == Len(s)
<1>2. n \in Nat /\ a + n = l /\ i \in 1..n /\ a + n <= Len(s)
  BY <1>1
<1> HIDE DEF n, l
<1>3. SubSeq(s, a + 1, a + n)[i] = s[a + i]
  BY <1>2, SliceHas
<1>4. QED BY <1>2, <1>3 DEF l

-----------------------------------------------------------------------------
(* Numbers. *)

(* How often a number goes into another. *)
LEMMA Quotient ==
    ASSUME NEW a \in Nat, NEW b \in Nat \ {0}
    PROVE  a \div b \in Nat
OBVIOUS

LEMMA Division ==
    ASSUME NEW a \in Nat, NEW b \in Nat \ {0}
    PROVE  \E r \in 0..(b - 1) : a = b * (a \div b) + r
OBVIOUS

LEMMA Remainder ==
    ASSUME NEW a \in Nat, NEW d \in Nat \ {0}
    PROVE  a % d \in Nat /\ a % d <= a /\ a % d < d
<1>1. PICK r \in 0..(d - 1) : a = d * (a \div d) + r
  BY Division
<1>2. a % d \in 0..(d - 1)
  OBVIOUS
<1>3. d * (a \div d) \in Nat
  BY Quotient
<1>4. a = d * (a \div d) + (a % d)
  OBVIOUS
<1>5. QED BY <1>2, <1>3, <1>4

(* The quotient is the only one. *)
LEMMA QuotientIs ==
    ASSUME NEW d \in Nat \ {0}, NEW q \in Nat, NEW r \in Nat, r < d,
           NEW a, a = d * q + r
    PROVE  a \div d = q /\ a % d = r
<1> DEFINE p == a \div d
<1>1. a \in Nat
  <2>1. d * q \in Nat
    OBVIOUS
  <2>2. QED BY <2>1
<1>2. p \in Nat /\ a % d \in 0..(d - 1) /\ a = d * p + (a % d)
  BY <1>1, Quotient
<1> HIDE DEF p
<1>3. ASSUME NEW x \in Nat, NEW y \in Nat, NEW s \in 0..(d - 1), NEW t \in 0..(d - 1),
             d * x + s = d * y + t, x < y
      PROVE  FALSE
  <2>1. PICK z \in Nat : y = x + 1 + z
    <3>1. y - (x + 1) \in Nat /\ y = x + 1 + (y - (x + 1))
      BY <1>3
    <3>2. QED BY <3>1
  <2>2. d * y = d * x + d + d * z /\ d * z \in Nat /\ d * x \in Nat
    BY <2>1
  <2>3. QED BY <1>3, <2>2
<1>4. r \in 0..(d - 1)
  OBVIOUS
<1>5. ~(p < q) /\ ~(q < p)
  BY <1>2, <1>3, <1>4
<1>6. p = q
  BY <1>2, <1>5
<1>7. a % d = r
  <2>1. d * q \in Nat
    OBVIOUS
  <2>2. QED BY <1>2, <1>6, <2>1
<1>8. QED BY <1>6, <1>7 DEF p

LEMMA QuotientTwice ==
    ASSUME NEW a \in Nat, NEW b \in Nat \ {0}, NEW c \in Nat \ {0}
    PROVE  (a \div b) \div c = a \div (b * c)
<1> DEFINE q == a \div b
           s == q \div c
           d == b * c
<1>1. PICK r \in 0..(b - 1) : a = b * q + r
  BY Division
<1>2. q \in Nat
  BY Quotient
<1> HIDE DEF q
<1>3. PICK t \in 0..(c - 1) : q = c * s + t
  BY <1>2, Division
<1>4. s \in Nat
  BY <1>2, Quotient
<1> HIDE DEF s
<1>5. PICK z \in Nat : c = t + 1 + z
  <2>1. c - (t + 1) \in Nat /\ c = t + 1 + (c - (t + 1))
    OBVIOUS
  <2>2. QED BY <2>1
<1> DEFINE x == b * t
           y == b * z
<1>6. x \in Nat /\ y \in Nat
  OBVIOUS
<1>7. d = x + b + y
  BY <1>5
<1>8. b * q = d * s + x
  <2>1. b * (c * s + t) = (b * c) * s + b * t
    BY <1>4
  <2>2. QED BY <1>3, <2>1
<1> HIDE DEF x, y, d
<1>9. d \in Nat \ {0} /\ x + r \in Nat /\ x + r < d
  BY <1>6, <1>7
<1>10. a = d * s + (x + r)
  <2> DEFINE e == d * s
  <2>1. e \in Nat
    BY <1>4, <1>9
  <2> HIDE DEF e
  <2>2. a = e + (x + r)
    BY <1>1, <1>6, <1>8, <2>1 DEF e
  <2>3. QED BY <2>2 DEF e
<1>11. a \div d = s
  BY <1>4, <1>9, <1>10, QuotientIs
<1>12. QED BY <1>11 DEF s, q, d

(* Counting from 0. *)
LEMMA Counting ==
    ASSUME NEW n \in Nat, NEW K, 0 \in K, \A k \in 1..n : k - 1 \in K => k \in K
    PROVE  \A k \in 0..n : k \in K
<1> DEFINE S == {k \in Nat : k <= n => k \in K}
<1>1. 0 \in S
  OBVIOUS
<1>2. ASSUME NEW k \in Nat, k \in S PROVE k + 1 \in S
  <2> SUFFICES ASSUME k + 1 <= n PROVE k + 1 \in K
    OBVIOUS
  <2>1. k + 1 \in 1..n /\ (k + 1) - 1 = k /\ k \in K
    BY <1>2
  <2>2. QED BY <2>1
<1> HIDE DEF S
<1>3. Nat \subseteq S
  BY <1>1, <1>2, SetInduction
<1>4. QED BY <1>3 DEF S

(* Powers of two: 2 ^ n counts the subsets of n numbers. *)
LEMMA UpTo ==
    ASSUME NEW n \in Nat
    PROVE  IsFiniteSet(1..n) /\ Cardinality(1..n) = n
BY FS_Interval

LEMMA Power ==
    ASSUME NEW n \in Nat
    PROVE  2 ^ n \in Nat
<1>1. IsFiniteSet(SUBSET (1..n)) /\ Cardinality(SUBSET (1..n)) = 2 ^ n
  BY UpTo, FS_SUBSET
<1>2. QED BY <1>1, FS_CardinalityType

LEMMA Doubles ==
    ASSUME NEW n \in Nat
    PROVE  2 ^ (n + 1) = 2 ^ n + 2 ^ n
<1> DEFINE S == SUBSET (1..n)
           h == [X \in S |-> X \cup {n + 1}]
           T == {X \cup {n + 1} : X \in S}
<1>1. IsFiniteSet(S) /\ Cardinality(S) = 2 ^ n
  BY UpTo, FS_SUBSET
<1>2. n + 1 \in Nat
  OBVIOUS
<1>3. Cardinality(SUBSET (1..(n + 1))) = 2 ^ (n + 1)
  BY <1>2, UpTo, FS_SUBSET
<1>4. 1..(n + 1) = 1..n \cup {n + 1} /\ n + 1 \notin 1..n
  OBVIOUS
<1>5. SUBSET (1..(n + 1)) = S \cup T
  <2>1. ASSUME NEW Y \in SUBSET (1..(n + 1)), n + 1 \in Y PROVE Y \in T
    <3>1. Y \ {n + 1} \in S /\ Y = (Y \ {n + 1}) \cup {n + 1}
      BY <1>4, <2>1
    <3>2. QED BY <3>1
  <2>2. ASSUME NEW Y \in SUBSET (1..(n + 1)), n + 1 \notin Y PROVE Y \in S
    BY <1>4, <2>2
  <2>3. S \subseteq SUBSET (1..(n + 1)) /\ T \subseteq SUBSET (1..(n + 1))
    BY <1>4
  <2>4. QED BY <2>1, <2>2, <2>3
<1>6. S \cap T = {}
  BY <1>4
<1>7. h \in Injection(S, T) /\ h \in Surjection(S, T)
  <2>1. ASSUME NEW X \in S, NEW Y \in S, X \cup {n + 1} = Y \cup {n + 1} PROVE X = Y
    BY <1>4, <2>1
  <2>2. \A Y \in T : \E X \in S : h[X] = Y
    OBVIOUS
  <2>3. \A X, Y \in S : h[X] = h[Y] => X = Y
    BY <2>1
  <2>4. h \in [S -> T]
    OBVIOUS
  <2> HIDE DEF h, S, T
  <2>5. QED BY <2>2, <2>3, <2>4 DEF Injection, Surjection, IsInjective
<1> HIDE DEF S, T, h
<1>8. IsFiniteSet(T) /\ Cardinality(T) = Cardinality(S)
  BY <1>1, <1>7, FS_Surjection
<1>9. Cardinality(S \cup T) = Cardinality(S) + Cardinality(T) - Cardinality(S \cap T)
  BY <1>1, <1>8, FS_Union
<1>10. Cardinality(S \cap T) = 0 /\ Cardinality(S) \in Nat
  BY <1>1, <1>6, FS_EmptySet, FS_CardinalityType
<1> DEFINE a == 2 ^ n
           b == 2 ^ (n + 1)
<1>11. Cardinality(S) = a /\ Cardinality(S \cup T) = b
  BY <1>1, <1>3, <1>5
<1> HIDE DEF a, b
<1>12. b = a + a
  BY <1>8, <1>9, <1>10, <1>11
<1>13. QED BY <1>12 DEF a, b

LEMMA PowerIsPositive ==
    ASSUME NEW n \in Nat
    PROVE  2 ^ n \in Nat \ {0}
<1> DEFINE K == {k \in 0..n : 2 ^ k \in Nat \ {0}}
<1>1. 0 \in K
  <2>1. 2 ^ 0 = 1 /\ 0 \in 0..n
    OBVIOUS
  <2>2. QED BY <2>1
<1>2. ASSUME NEW k \in 1..n, k - 1 \in K PROVE k \in K
  <2>1. k - 1 \in Nat /\ (k - 1) + 1 = k /\ k \in 0..n
    OBVIOUS
  <2>2. 2 ^ k = 2 ^ (k - 1) + 2 ^ (k - 1)
    BY <2>1, Doubles
  <2>3. 2 ^ (k - 1) \in Nat \ {0}
    BY <1>2
  <2>4. QED BY <2>1, <2>2, <2>3
<1> HIDE DEF K
<1>3. n \in K
  BY <1>1, <1>2, Counting
<1>4. QED BY <1>3 DEF K

LEMMA PowersMultiply ==
    ASSUME NEW a \in Nat, NEW b \in Nat
    PROVE  2 ^ (a + b) = 2 ^ a * 2 ^ b
<1> DEFINE K == {k \in 0..b : 2 ^ (a + k) = 2 ^ a * 2 ^ k}
<1>1. 0 \in K
  <2> DEFINE p == 2 ^ a
  <2>1. p \in Nat
    BY Power
  <2>2. 2 ^ (a + 0) = p /\ 2 ^ 0 = 1 /\ 0 \in 0..b
    <3>1. a + 0 = a
      OBVIOUS
    <3>2. QED BY <3>1
  <2> HIDE DEF p
  <2>3. p * 1 = p
    BY <2>1
  <2>4. QED BY <2>2, <2>3 DEF p
<1>2. ASSUME NEW k \in 1..b, k - 1 \in K PROVE k \in K
  <2> DEFINE p == 2 ^ a
             q == 2 ^ (k - 1)
             s == 2 ^ (a + (k - 1))
  <2>1. /\ k - 1 \in Nat /\ (k - 1) + 1 = k /\ k \in 0..b
        /\ a + (k - 1) \in Nat /\ (a + (k - 1)) + 1 = a + k
    OBVIOUS
  <2>2. 2 ^ k = q + q
    BY <2>1, Doubles
  <2>3. 2 ^ (a + k) = s + s
    BY <2>1, Doubles
  <2>4. p \in Nat /\ q \in Nat /\ s = p * q
    BY <1>2, <2>1, Power
  <2> HIDE DEF p, q, s
  <2>5. s + s = p * (q + q)
    BY <2>4
  <2>6. QED BY <2>1, <2>2, <2>3, <2>5 DEF p
<1> HIDE DEF K
<1>3. b \in K
  BY <1>1, <1>2, Counting
<1>4. QED BY <1>3 DEF K

-----------------------------------------------------------------------------
(* FoldLeft goes through the sets of places, taking the highest each time. *)

Iterates(it, n, base, step) ==
    it = [T \in SUBSET (1..n) |->
             IF T = {} THEN base ELSE step[Max(T)][it[T \ {Max(T)}]]]

LEMMA HasHighest ==
    ASSUME NEW S \in SUBSET Nat, NEW n \in Nat, S # {}, \A x \in S : x <= n
    PROVE  /\ Max(S) \in S
           /\ \A x \in S : x <= Max(S)
<1> DEFINE T == {n - x : x \in S}
           R == {ss \in Nat \X Nat : ss[1] < ss[2]}
<1>1. T \subseteq Nat /\ T # {}
  <2>1. T \subseteq Nat
    OBVIOUS
  <2>2. PICK x \in S : n - x \in T
    OBVIOUS
  <2>3. QED BY <2>1, <2>2
<1>2. PICK t \in T : \A u \in T : ~ (<<u, t>> \in R)
  <2>1. IsWellFoundedOn(R, Nat)
    BY NatLessThanWellFounded DEF OpToRel
  <2> HIDE DEF T, R
  <2>2. QED BY <1>1, <2>1, WFMin
<1>3. \A u \in T : ~ (u < t)
  BY <1>1, <1>2
<1>4. PICK x \in S : t = n - x
  OBVIOUS
<1>5. \A y \in S : y <= x
  BY <1>3, <1>4
<1>6. Max(S) \in S /\ \A y \in S : Max(S) >= y
  BY <1>5 DEF Max
<1>7. QED BY <1>6

LEMMA HighestOf ==
    ASSUME NEW T \in SUBSET Nat, NEW k \in T, \A i \in T : i <= k
    PROVE  Max(T) = k
<1>1. k \in T /\ \A i \in T : k >= i
  OBVIOUS
<1>2. Max(T) \in T /\ \A i \in T : Max(T) >= i
  BY <1>1 DEF Max
<1>3. Max(T) \in Nat /\ Max(T) >= k /\ Max(T) <= k
  BY <1>2
<1>4. QED BY <1>3

LEMMA HighestIn ==
    ASSUME NEW n \in Nat, NEW T \in SUBSET (1..n), T # {}
    PROVE  Max(T) \in T
<1>1. T \in SUBSET Nat /\ \A x \in T : x <= n
  OBVIOUS
<1>2. QED BY <1>1, HasHighest

(* What is left of a beginning without its highest place. *)
LEMMA Beginning ==
    ASSUME NEW n \in Nat, NEW k \in 1..n
    PROVE  /\ 1..k \in SUBSET (1..n) /\ 1..k # {} /\ (1..k) \ {k} = 1..(k - 1)
           /\ k \in 0..n /\ k - 1 \in 0..n /\ Max(1..k) = k
<1>1. k \in Nat /\ k >= 1 /\ k <= n
  OBVIOUS
<1>2. k \in 1..k /\ k \in 0..n /\ k - 1 \in 0..n
  BY <1>1
<1>3. (1..k) \ {k} = 1..(k - 1)
  BY <1>1
<1>4. \A i \in 1..k : i \in 1..n
  BY <1>1
<1>5. Max(1..k) = k
  <2>1. 1..k \in SUBSET Nat /\ \A i \in 1..k : i <= k
    BY <1>1
  <2>2. QED BY <1>2, <2>1, HighestOf
<1>6. QED BY <1>2, <1>3, <1>4, <1>5

LEMMA IterationExists ==
    ASSUME NEW V, NEW base \in V, NEW n \in Nat, NEW step,
           \A i \in 1..n, v \in V : step[i][v] \in V
    PROVE  \E it \in [SUBSET (1..n) -> V] : Iterates(it, n, base, step)
<1> DEFINE Has(m) == \E it \in [SUBSET (1..m) -> V] : Iterates(it, m, base, step)
           S == {m \in Nat : m <= n => Has(m)}
<1>1. 0 \in S
  <2> DEFINE it == [T \in SUBSET (1..0) |-> base]
  <2>1. \A T \in SUBSET (1..0) : T = {}
    OBVIOUS
  <2>2. it \in [SUBSET (1..0) -> V] /\ Iterates(it, 0, base, step)
    BY <2>1 DEF Iterates
  <2>3. QED BY <2>2
<1>2. ASSUME NEW m \in Nat, m \in S, m + 1 <= n
      PROVE  Has(m + 1)
  <2>1. PICK old \in [SUBSET (1..m) -> V] : Iterates(old, m, base, step)
    <3>1. m <= n
      BY <1>2
    <3>2. QED BY <1>2, <3>1
  <2> DEFINE it == [T \in SUBSET (1..(m + 1)) |->
                       IF m + 1 \in T THEN step[m + 1][old[T \ {m + 1}]] ELSE old[T]]
  <2>2. \A T \in SUBSET (1..(m + 1)) :
           /\ T \ {m + 1} \in SUBSET (1..m)
           /\ m + 1 \notin T => T \in SUBSET (1..m)
    <3>1. \A i \in 1..(m + 1) : i # m + 1 => i \in 1..m
      BY <1>2
    <3>2. QED BY <3>1
  <2>3. it \in [SUBSET (1..(m + 1)) -> V]
    BY <1>2, <2>2
  <2>4. \A T \in SUBSET (1..m) : T \in SUBSET (1..(m + 1)) /\ it[T] = old[T]
    BY <2>2
  <2>5. ASSUME NEW T \in SUBSET (1..(m + 1))
        PROVE  it[T] = IF T = {} THEN base ELSE step[Max(T)][it[T \ {Max(T)}]]
    <3>1. CASE m + 1 \in T
      <4>1. Max(T) = m + 1
        <5>1. T \in SUBSET Nat /\ \A i \in T : i <= m + 1
          OBVIOUS
        <5>2. QED BY <3>1, <5>1, HighestOf
      <4>2. it[T \ {m + 1}] = old[T \ {m + 1}]
        BY <2>2, <2>4
      <4>3. it[T] = step[m + 1][old[T \ {m + 1}]] /\ T # {}
        BY <3>1
      <4> HIDE DEF it
      <4>4. QED BY <4>1, <4>2, <4>3
    <3>2. CASE m + 1 \notin T
      <4>1. T \in SUBSET (1..m) /\ it[T] = old[T]
        BY <2>2, <2>4, <3>2
      <4>2. old[T] = IF T = {} THEN base ELSE step[Max(T)][old[T \ {Max(T)}]]
        BY <2>1, <4>1 DEF Iterates
      <4>3. it[T \ {Max(T)}] = old[T \ {Max(T)}]
        BY <2>4, <4>1
      <4> HIDE DEF it
      <4>4. QED BY <4>1, <4>2, <4>3
    <3>3. QED BY <3>1, <3>2
  <2>6. it = [T \in SUBSET (1..(m + 1)) |->
                 IF T = {} THEN base ELSE step[Max(T)][it[T \ {Max(T)}]]]
    <3>1. it = [T \in SUBSET (1..(m + 1)) |-> it[T]]
      OBVIOUS
    <3> HIDE DEF it
    <3>2. QED BY <2>5, <3>1
  <2>7. QED BY <2>3, <2>6 DEF Iterates
<1> HIDE DEF Has
<1>3. \A m \in Nat : m \in S => m + 1 \in S
  BY <1>2
<1> HIDE DEF S
<1>4. Nat \subseteq S
  BY <1>1, <1>3, SetInduction
<1>5. n \in S
  BY <1>4
<1>6. Has(n)
  BY <1>5 DEF S
<1>7. QED BY <1>6 DEF Has

(* What each step of an iteration keeps, its end has. *)
LEMMA IterationStays ==
    ASSUME NEW n \in Nat, NEW it, NEW V, it[{}] \in V,
           \A T \in SUBSET (1..n) : T # {} /\ it[T \ {Max(T)}] \in V => it[T] \in V
    PROVE  it[1..n] \in V
<1> DEFINE S == {k \in Nat : k <= n => it[1..k] \in V}
<1>1. 0 \in S
  <2>1. 1..0 = {}
    OBVIOUS
  <2>2. QED BY <2>1
<1>2. ASSUME NEW k \in Nat, k \in S PROVE k + 1 \in S
  <2> SUFFICES ASSUME k + 1 <= n PROVE it[1..(k + 1)] \in V
    OBVIOUS
  <2>1. k + 1 \in 1..n /\ (k + 1) - 1 = k /\ k <= n
    OBVIOUS
  <2>2. /\ 1..(k + 1) \in SUBSET (1..n) /\ 1..(k + 1) # {}
        /\ (1..(k + 1)) \ {k + 1} = 1..k /\ Max(1..(k + 1)) = k + 1
    <3> DEFINE h == k + 1
    <3>1. h \in 1..n /\ h - 1 = k
      BY <2>1
    <3> HIDE DEF h
    <3>2. /\ 1..h \in SUBSET (1..n) /\ 1..h # {}
          /\ (1..h) \ {h} = 1..(h - 1) /\ Max(1..h) = h
      BY <3>1, Beginning
    <3>3. QED BY <3>1, <3>2 DEF h
  <2>3. it[1..k] \in V
    BY <1>2, <2>1
  <2>4. QED BY <2>2, <2>3
<1> HIDE DEF S
<1>3. Nat \subseteq S
  BY <1>1, <1>2, SetInduction
<1>4. n \in S /\ n <= n
  BY <1>3
<1>5. QED BY <1>4 DEF S

(* The same where what is kept goes with the number of steps. *)
LEMMA IterationGrows ==
    ASSUME NEW n \in Nat, NEW it, NEW P, <<0, it[{}]>> \in P,
           \A k \in 1..n : <<k - 1, it[1..(k - 1)]>> \in P => <<k, it[1..k]>> \in P
    PROVE  <<n, it[1..n]>> \in P
<1> DEFINE S == {k \in Nat : k <= n => <<k, it[1..k]>> \in P}
<1>1. 0 \in S
  <2>1. 1..0 = {}
    OBVIOUS
  <2>2. QED BY <2>1
<1>2. ASSUME NEW k \in Nat, k \in S PROVE k + 1 \in S
  <2> SUFFICES ASSUME k + 1 <= n PROVE <<k + 1, it[1..(k + 1)]>> \in P
    OBVIOUS
  <2>1. k + 1 \in 1..n /\ (k + 1) - 1 = k /\ k <= n
    OBVIOUS
  <2>2. <<k, it[1..k]>> \in P
    BY <1>2, <2>1
  <2>3. QED BY <2>1, <2>2
<1> HIDE DEF S
<1>3. Nat \subseteq S
  BY <1>1, <1>2, SetInduction
<1>4. n \in S /\ n <= n
  BY <1>3
<1>5. QED BY <1>4 DEF S

-----------------------------------------------------------------------------
(* The operators of VariableTable. *)

(* Tables of variables of E. *)
Maps(E) == UNION {[D -> Nat] : D \in SUBSET {v.name : v \in E}}
Tables(E) == [list : Seq(E), map : Maps(E)]

LEMMA MapIn ==
    ASSUME NEW E, NEW f, NEW D \in SUBSET {v.name : v \in E}, f \in [D -> Nat]
    PROVE  f \in Maps(E)
BY DEF Maps

LEMMA MapOut ==
    ASSUME NEW E, NEW f \in Maps(E)
    PROVE  /\ DOMAIN f \subseteq {v.name : v \in E}
           /\ f \in [DOMAIN f -> Nat]
BY DEF Maps

LEMMA Replaced ==
    ASSUME NEW E, NEW s \in Seq(E), NEW p, NEW v \in E
    PROVE  LET u == [s EXCEPT ![p] = v]
           IN  /\ u \in Seq(E) /\ Len(u) = Len(s) /\ DOMAIN u = DOMAIN s
               /\ \A i \in DOMAIN s : u[i] = IF i = p THEN v ELSE s[i]
<1> DEFINE u == [s EXCEPT ![p] = v]
           n == Len(s)
<1>1. n \in Nat /\ DOMAIN s = 1..n /\ \A i \in 1..n : s[i] \in E
  OBVIOUS
<1>2. DOMAIN u = DOMAIN s /\ \A i \in DOMAIN s : u[i] = IF i = p THEN v ELSE s[i]
  OBVIOUS
<1>3. u = [i \in 1..n |-> u[i]]
  BY <1>1
<1> HIDE DEF u, n
<1>4. \A i \in 1..n : u[i] \in E
  BY <1>1, <1>2
<1>5. u \in [1..n -> E]
  BY <1>3, <1>4
<1>6. u \in Seq(E) /\ Len(u) = n
  BY <1>1, <1>5
<1>7. QED BY <1>2, <1>6 DEF u, n

LEMMA UpsertTable ==
    ASSUME NEW E, NEW t \in Tables(E), NEW v \in E
    PROVE  Upsert(t, v) \in Tables(E)
<1> DEFINE trimmed == TrimSpace(v.name)
           end == Len(t.list) + 1
           map == [n \in DOMAIN t.map \cup {v.name} |->
                      IF n = v.name THEN end ELSE t.map[n]]
<1>1. t.list \in Seq(E) /\ t.map \in Maps(E) /\ t = [list |-> t.list, map |-> t.map]
  BY DEF Tables
<1> HIDE DEF trimmed
<1>2. CASE trimmed \in DOMAIN t.map
  <2>1. [t.list EXCEPT ![t.map[trimmed]] = v] \in Seq(E)
    BY <1>1, Replaced
  <2>2. Upsert(t, v) = [list |-> [t.list EXCEPT ![t.map[trimmed]] = v], map |-> t.map]
    BY <1>1, <1>2 DEF Upsert, trimmed
  <2>3. QED BY <1>1, <2>1, <2>2 DEF Tables
<1>3. CASE trimmed \notin DOMAIN t.map
  <2>1. Append(t.list, v) \in Seq(E) /\ end \in Nat
    BY <1>1
  <2>2. map \in Maps(E)
    <3>1. DOMAIN t.map \subseteq {w.name : w \in E} /\ t.map \in [DOMAIN t.map -> Nat]
      BY <1>1, MapOut
    <3> HIDE DEF end
    <3>2. map \in [DOMAIN t.map \cup {v.name} -> Nat]
      BY <2>1, <3>1
    <3>3. DOMAIN t.map \cup {v.name} \in SUBSET {w.name : w \in E}
      BY <3>1
    <3> HIDE DEF map
    <3>4. QED BY <3>2, <3>3, MapIn
  <2>3. Upsert(t, v) = [list |-> Append(t.list, v), map |-> map]
    BY <1>3 DEF Upsert, trimmed
  <2> HIDE DEF map
  <2>4. QED BY <2>1, <2>2, <2>3 DEF Tables
<1>4. QED BY <1>2, <1>3

(* UpsertAll, as it is defined: the iteration of a fold. *)
UpsertFold(it, t, vs) ==
    it = [T \in SUBSET DOMAIN vs |->
             IF T = {} THEN t ELSE Upsert(it[T \ {Max(T)}], vs[Max(T)])]

Upserts(r, t, vs) ==
    /\ r[0] = t
    /\ \A k \in 1..Len(vs) : r[k] = Upsert(r[k - 1], vs[k])

LEMMA UpsertRuns ==
    ASSUME NEW E, NEW t \in Tables(E), NEW vs \in Seq(E)
    PROVE  \E r : Upserts(r, t, vs) /\ UpsertAll(t, vs) = r[Len(vs)]
<1> DEFINE n == Len(vs)
           V == Tables(E)
           step == [i \in 1..n |-> [u \in V |-> Upsert(u, vs[i])]]
<1>1. n \in Nat /\ DOMAIN vs = 1..n /\ \A i \in 1..n : vs[i] \in E
  OBVIOUS
<1> HIDE DEF n, V
<1>2. \A T \in SUBSET (1..n) : T # {} => Max(T) \in T
  BY <1>1, HighestIn
<1>3. \E it : UpsertFold(it, t, vs)
  <2>1. \A i \in 1..n, u \in V : step[i][u] = Upsert(u, vs[i]) /\ step[i][u] \in V
    BY <1>1, UpsertTable DEF V
  <2> HIDE DEF step
  <2>2. PICK it \in [SUBSET (1..n) -> V] : Iterates(it, n, t, step)
    <3>1. t \in V
      BY DEF V
    <3>2. QED BY <1>1, <2>1, <3>1, IterationExists
  <2>3. \A T \in SUBSET (1..n) :
          it[T] = IF T = {} THEN t ELSE step[Max(T)][it[T \ {Max(T)}]]
    BY <2>2 DEF Iterates
  <2>4. \A T \in SUBSET (1..n) :
          it[T] = IF T = {} THEN t ELSE Upsert(it[T \ {Max(T)}], vs[Max(T)])
    <3> SUFFICES ASSUME NEW T \in SUBSET (1..n), T # {}
                 PROVE  it[T] = Upsert(it[T \ {Max(T)}], vs[Max(T)])
      BY <2>3
    <3>1. Max(T) \in 1..n /\ T \ {Max(T)} \in SUBSET (1..n)
      BY <1>2
    <3>2. it[T \ {Max(T)}] \in V
      BY <2>2, <3>1
    <3>3. it[T] = step[Max(T)][it[T \ {Max(T)}]]
      BY <2>3
    <3>4. QED BY <2>1, <3>1, <3>2, <3>3
  <2>5. it = [T \in SUBSET (1..n) |->
                IF T = {} THEN t ELSE Upsert(it[T \ {Max(T)}], vs[Max(T)])]
    BY <2>2, <2>4
  <2>6. QED BY <1>1, <2>5 DEF UpsertFold
<1> DEFINE it == CHOOSE it : UpsertFold(it, t, vs)
           r == [k \in 0..n |-> it[1..k]]
<1>4. UpsertFold(it, t, vs)
  BY <1>3
<1>5. UpsertAll(t, vs) = it[DOMAIN vs]
  BY DEF UpsertAll, FoldLeft, MapThenFoldSet, UpsertFold
<1> HIDE DEF it
<1>6. \A T \in SUBSET (1..n) :
        it[T] = IF T = {} THEN t ELSE Upsert(it[T \ {Max(T)}], vs[Max(T)])
  BY <1>1, <1>4 DEF UpsertFold
<1>7. r[0] = t
  <2>1. 1..0 = {} /\ 0 \in 0..n
    BY <1>1
  <2>2. QED BY <1>6, <2>1
<1>8. ASSUME NEW k \in 1..n PROVE r[k] = Upsert(r[k - 1], vs[k])
  <2>1. /\ 1..k \in SUBSET (1..n) /\ 1..k # {} /\ (1..k) \ {k} = 1..(k - 1)
        /\ k \in 0..n /\ k - 1 \in 0..n /\ Max(1..k) = k
    BY <1>1, Beginning
  <2>2. it[1..k] = Upsert(it[(1..k) \ {Max(1..k)}], vs[Max(1..k)])
    BY <1>6, <2>1
  <2>3. it[1..k] = Upsert(it[1..(k - 1)], vs[k])
    BY <2>1, <2>2
  <2>4. r[k] = it[1..k] /\ r[k - 1] = it[1..(k - 1)]
    BY <2>1
  <2> HIDE DEF r
  <2>5. QED BY <2>3, <2>4
<1>9. UpsertAll(t, vs) = r[n]
  BY <1>1, <1>5
<1>10. Upserts(r, t, vs)
  BY <1>7, <1>8 DEF Upserts, n
<1>11. QED BY <1>9, <1>10 DEF n

(* However the names are: the result is a table of the variables. *)
LEMMA UpsertAllTable ==
    ASSUME NEW E, NEW t \in Tables(E), NEW vs \in Seq(E)
    PROVE  UpsertAll(t, vs) \in Tables(E)
<1> DEFINE n == Len(vs)
<1>1. n \in Nat /\ \A i \in 1..n : vs[i] \in E
  OBVIOUS
<1>2. PICK r : Upserts(r, t, vs) /\ UpsertAll(t, vs) = r[n]
  BY UpsertRuns
<1> DEFINE S == {k \in Nat : k <= n => r[k] \in Tables(E)}
<1> HIDE DEF n
<1>3. 0 \in S
  BY <1>2 DEF Upserts
<1>4. ASSUME NEW k \in Nat, k \in S PROVE k + 1 \in S
  <2> SUFFICES ASSUME k + 1 <= n PROVE r[k + 1] \in Tables(E)
    OBVIOUS
  <2>1. k + 1 \in 1..n /\ (k + 1) - 1 = k /\ k <= n
    BY <1>1
  <2>2. r[k + 1] = Upsert(r[k], vs[k + 1])
    BY <1>2, <2>1 DEF Upserts, n
  <2>3. QED BY <1>1, <1>4, <2>1, <2>2, UpsertTable
<1> HIDE DEF S
<1>5. Nat \subseteq S
  BY <1>3, <1>4, SetInduction
<1>6. n \in S /\ n <= n
  BY <1>1, <1>5
<1>7. QED BY <1>2, <1>6 DEF S

-----------------------------------------------------------------------------
(* What is kept of a list: the variables of other names, in their order,
   each at the place that is counted for it. *)

WithoutFold(it, s, gone) ==
    it = [T \in SUBSET DOMAIN s |->
             IF T = {} THEN << >>
             ELSE IF s[Max(T)].name \in gone THEN it[T \ {Max(T)}]
                  ELSE Append(it[T \ {Max(T)}], s[Max(T)])]

Withouts(r, s, gone) ==
    /\ r[0] = << >>
    /\ \A k \in 1..Len(s) :
          r[k] = IF s[k].name \in gone THEN r[k - 1] ELSE Append(r[k - 1], s[k])

LEMMA WithoutRuns ==
    ASSUME NEW E, NEW s \in Seq(E), NEW gone
    PROVE  \E r : Withouts(r, s, gone) /\ Without(s, gone) = r[Len(s)]
<1> DEFINE n == Len(s)
           V == Seq(E)
           Next1(i, u) == IF s[i].name \in gone THEN u ELSE Append(u, s[i])
           step == [i \in 1..n |-> [u \in V |-> Next1(i, u)]]
<1>1. n \in Nat /\ DOMAIN s = 1..n /\ \A i \in 1..n : s[i] \in E
  OBVIOUS
<1>2. \A i \in 1..n, u \in V : Next1(i, u) \in V
  OBVIOUS
<1> HIDE DEF n, V, Next1
<1>3. \A T \in SUBSET (1..n) : T # {} => Max(T) \in T
  BY <1>1, HighestIn
<1>4. \E it : WithoutFold(it, s, gone)
  <2>1. \A i \in 1..n, u \in V : step[i][u] = Next1(i, u) /\ step[i][u] \in V
    BY <1>2
  <2> HIDE DEF step
  <2>2. PICK it \in [SUBSET (1..n) -> V] : Iterates(it, n, << >>, step)
    <3>1. << >> \in V
      BY DEF V
    <3>2. QED BY <1>1, <2>1, <3>1, IterationExists
  <2>3. \A T \in SUBSET (1..n) :
          it[T] = IF T = {} THEN << >> ELSE step[Max(T)][it[T \ {Max(T)}]]
    BY <2>2 DEF Iterates
  <2>4. \A T \in SUBSET (1..n) :
          it[T] = IF T = {} THEN << >> ELSE Next1(Max(T), it[T \ {Max(T)}])
    <3> SUFFICES ASSUME NEW T \in SUBSET (1..n), T # {}
                 PROVE  it[T] = Next1(Max(T), it[T \ {Max(T)}])
      BY <2>3
    <3>1. Max(T) \in 1..n /\ T \ {Max(T)} \in SUBSET (1..n)
      BY <1>3
    <3>2. it[T \ {Max(T)}] \in V
      BY <2>2, <3>1
    <3>3. it[T] = step[Max(T)][it[T \ {Max(T)}]]
      BY <2>3
    <3>4. QED BY <2>1, <3>1, <3>2, <3>3
  <2>5. it = [T \in SUBSET (1..n) |->
                IF T = {} THEN << >> ELSE Next1(Max(T), it[T \ {Max(T)}])]
    BY <2>2, <2>4
  <2>6. QED BY <1>1, <2>5 DEF WithoutFold, Next1
<1> DEFINE it == CHOOSE it : WithoutFold(it, s, gone)
           r == [k \in 0..n |-> it[1..k]]
<1>5. WithoutFold(it, s, gone)
  BY <1>4
<1>6. Without(s, gone) = it[DOMAIN s]
  BY DEF Without, FoldLeft, MapThenFoldSet, WithoutFold
<1> HIDE DEF it
<1>7. \A T \in SUBSET (1..n) :
        it[T] = IF T = {} THEN << >> ELSE Next1(Max(T), it[T \ {Max(T)}])
  BY <1>1, <1>5 DEF WithoutFold, Next1
<1>8. r[0] = << >>
  <2>1. 1..0 = {} /\ 0 \in 0..n
    BY <1>1
  <2>2. QED BY <1>7, <2>1
<1>9. ASSUME NEW k \in 1..n PROVE r[k] = Next1(k, r[k - 1])
  <2>1. /\ 1..k \in SUBSET (1..n) /\ 1..k # {} /\ (1..k) \ {k} = 1..(k - 1)
        /\ k \in 0..n /\ k - 1 \in 0..n /\ Max(1..k) = k
    BY <1>1, Beginning
  <2>2. it[1..k] = Next1(Max(1..k), it[(1..k) \ {Max(1..k)}])
    BY <1>7, <2>1
  <2>3. it[1..k] = Next1(k, it[1..(k - 1)])
    BY <2>1, <2>2
  <2>4. r[k] = it[1..k] /\ r[k - 1] = it[1..(k - 1)]
    BY <2>1
  <2> HIDE DEF r
  <2>5. QED BY <2>3, <2>4
<1>10. Without(s, gone) = r[n]
  BY <1>1, <1>6
<1>11. Withouts(r, s, gone)
  <2> HIDE DEF r
  <2>1. QED BY <1>8, <1>9 DEF Withouts, n, Next1
<1>12. QED BY <1>10, <1>11 DEF n

Left(s, gone) == {i \in DOMAIN s : s[i].name \notin gone}
Place(s, gone, i) == Cardinality({j \in Left(s, gone) : j <= i})

LEMMA Count ==
    ASSUME NEW n \in Nat, NEW L \in SUBSET (1..n)
    PROVE  /\ \A i : Cardinality({j \in L : j <= i}) \in Nat
           /\ Cardinality({j \in L : j <= 0}) = 0
           /\ \A k \in 0..(n - 1) :
                 Cardinality({j \in L : j <= k + 1})
                   = IF k + 1 \in L THEN Cardinality({j \in L : j <= k}) + 1
                                    ELSE Cardinality({j \in L : j <= k})
<1> DEFINE C(i) == {j \in L : j <= i}
<1>0. \A j \in L : j \in Nat /\ 1 <= j
  OBVIOUS
<1>1. \A i : IsFiniteSet(C(i)) /\ Cardinality(C(i)) \in Nat
  <2> SUFFICES ASSUME NEW i PROVE IsFiniteSet(C(i)) /\ Cardinality(C(i)) \in Nat
    OBVIOUS
  <2>1. IsFiniteSet(1..n)
    BY FS_Interval
  <2>2. C(i) \subseteq 1..n
    OBVIOUS
  <2> HIDE DEF C
  <2>3. IsFiniteSet(C(i))
    BY <2>1, <2>2, FS_Subset
  <2>4. QED BY <2>3, FS_CardinalityType
<1>2. Cardinality(C(0)) = 0
  <2>1. \A j \in L : ~(j <= 0)
    BY <1>0
  <2>2. C(0) = {}
    BY <2>1
  <2>3. QED BY <2>2, FS_EmptySet
<1>3. ASSUME NEW k \in 0..(n - 1)
      PROVE  Cardinality(C(k + 1))
               = IF k + 1 \in L THEN Cardinality(C(k)) + 1 ELSE Cardinality(C(k))
  <2>1. CASE k + 1 \in L
    <3>1. C(k + 1) = C(k) \cup {k + 1} /\ k + 1 \notin C(k)
      <4>1. \A j \in L : j <= k + 1 <=> j <= k \/ j = k + 1
        BY <1>0
      <4>2. k \in Nat /\ ~(k + 1 <= k)
        OBVIOUS
      <4>3. QED BY <2>1, <4>1, <4>2
    <3> HIDE DEF C
    <3>2. IsFiniteSet(C(k))
      BY <1>1
    <3>3. QED BY <2>1, <3>1, <3>2, FS_AddElement
  <2>2. CASE k + 1 \notin L
    <3>1. C(k + 1) = C(k)
      <4>1. \A j \in L : j <= k + 1 <=> j <= k
        BY <1>0, <2>2
      <4>2. QED BY <4>1
    <3> HIDE DEF C
    <3>2. QED BY <2>2, <3>1
  <2>3. QED BY <2>1, <2>2
<1>4. QED BY <1>1, <1>2, <1>3

LEMMA WithoutIs ==
    ASSUME NEW E, NEW s \in Seq(E), NEW gone
    PROVE  LET w == Without(s, gone)
           IN  /\ w \in Seq(E)
               /\ \A i \in Left(s, gone) : /\ Place(s, gone, i) \in 1..Len(w)
                                           /\ w[Place(s, gone, i)] = s[i]
               /\ \A p \in 1..Len(w) : \E i \in Left(s, gone) : p = Place(s, gone, i)
<1> DEFINE n == Len(s)
           L == Left(s, gone)
           C(i) == Place(s, gone, i)
<1>1. n \in Nat /\ DOMAIN s = 1..n /\ \A i \in 1..n : s[i] \in E
  OBVIOUS
<1>2. PICK r : Withouts(r, s, gone) /\ Without(s, gone) = r[n]
  BY WithoutRuns
<1>3. r[0] = << >>
      /\ \A k \in 1..n : r[k] = IF k \in L THEN Append(r[k - 1], s[k]) ELSE r[k - 1]
  BY <1>1, <1>2 DEF Withouts, Left
<1>4. L \in SUBSET (1..n)
  BY <1>1 DEF Left
<1>5. /\ \A i : C(i) \in Nat
      /\ C(0) = 0
      /\ \A k \in 0..(n - 1) : C(k + 1) = IF k + 1 \in L THEN C(k) + 1 ELSE C(k)
  BY <1>1, <1>4, Count DEF Place
<1> DEFINE Upto(k) == /\ r[k] \in Seq(E) /\ Len(r[k]) = C(k)
                      /\ \A i \in L : i <= k => C(i) \in 1..Len(r[k]) /\ r[k][C(i)] = s[i]
                      /\ \A p \in 1..Len(r[k]) : \E i \in L : i <= k /\ p = C(i)
           S == {k \in Nat : k <= n => Upto(k)}
<1> HIDE DEF n, L, C
<1>6. Upto(0)
  <2>1. << >> \in Seq(E) /\ Len(<< >>) = 0 /\ 1..0 = {}
    OBVIOUS
  <2>2. \A i \in L : ~(i <= 0)
    BY <1>1, <1>4
  <2>3. QED BY <1>3, <1>5, <2>1, <2>2
<1>7. ASSUME NEW k \in 0..(n - 1), Upto(k) PROVE Upto(k + 1)
  <2>1. k + 1 \in 1..n /\ (k + 1) - 1 = k /\ k \in Nat
    BY <1>1
  <2>2. \A i \in L : i <= k + 1 <=> i <= k \/ i = k + 1
    BY <1>1, <1>4, <2>1
  <2>3. CASE k + 1 \notin L
    <3>1. r[k + 1] = r[k] /\ C(k + 1) = C(k)
      BY <1>3, <1>5, <2>1, <2>3
    <3>2. \A i \in L : i <= k + 1 <=> i <= k
      BY <2>2, <2>3
    <3>3. QED BY <1>7, <3>1, <3>2
  <2>4. CASE k + 1 \in L
    <3> DEFINE a == r[k]
               b == r[k + 1]
               e == s[k + 1]
    <3>1. b = Append(a, e) /\ C(k + 1) = C(k) + 1 /\ e \in E
      BY <1>1, <1>3, <1>5, <2>1, <2>4
    <3>2. a \in Seq(E) /\ Len(a) = C(k) /\ C(k) \in Nat
      BY <1>5, <1>7
    <3>3. \A i \in L : i <= k => C(i) \in 1..Len(a) /\ a[C(i)] = s[i]
      BY <1>7
    <3>4. \A p \in 1..Len(a) : \E i \in L : i <= k /\ p = C(i)
      BY <1>7
    <3> HIDE DEF a, b, e
    <3>5. /\ b \in Seq(E) /\ Len(b) = Len(a) + 1
          /\ \A p \in 1..Len(a) : b[p] = a[p]
          /\ b[Len(a) + 1] = e
      BY <3>1, <3>2
    <3>6. \A i \in L : i <= k + 1 => C(i) \in 1..Len(b) /\ b[C(i)] = s[i]
      <4> SUFFICES ASSUME NEW i \in L, i <= k + 1
                   PROVE  C(i) \in 1..Len(b) /\ b[C(i)] = s[i]
        OBVIOUS
      <4>1. CASE i <= k
        BY <3>2, <3>3, <3>5, <4>1
      <4>2. CASE i = k + 1
        <5>1. C(i) = Len(a) + 1 /\ s[i] = e
          BY <3>1, <3>2, <4>2 DEF e
        <5>2. QED BY <3>2, <3>5, <5>1
      <4>3. QED BY <2>2, <4>1, <4>2
    <3>7. \A p \in 1..Len(b) : \E i \in L : i <= k + 1 /\ p = C(i)
      <4> SUFFICES ASSUME NEW p \in 1..Len(b)
                   PROVE  \E i \in L : i <= k + 1 /\ p = C(i)
        OBVIOUS
      <4>1. CASE p \in 1..Len(a)
        BY <2>2, <3>4, <4>1
      <4>2. CASE p = Len(a) + 1
        BY <2>2, <2>4, <3>1, <3>2, <4>2
      <4>3. p \in 1..Len(a) \/ p = Len(a) + 1
        BY <3>2, <3>5
      <4>4. QED BY <4>1, <4>2, <4>3
    <3>8. Len(b) = C(k + 1)
      BY <3>1, <3>2, <3>5
    <3>9. QED BY <3>5, <3>6, <3>7, <3>8 DEF b
  <2>5. QED BY <2>3, <2>4
<1> HIDE DEF Upto
<1>8. 0 \in S
  BY <1>6
<1>9. ASSUME NEW k \in Nat, k \in S PROVE k + 1 \in S
  <2> SUFFICES ASSUME k + 1 <= n PROVE Upto(k + 1)
    OBVIOUS
  <2>1. k \in 0..(n - 1) /\ k <= n
    BY <1>1
  <2>2. Upto(k)
    BY <1>9, <2>1
  <2>3. QED BY <1>7, <2>1, <2>2
<1> HIDE DEF S
<1>10. Nat \subseteq S
  BY <1>8, <1>9, SetInduction
<1>11. Upto(n)
  <2>1. n \in S /\ n <= n
    BY <1>1, <1>10
  <2>2. QED BY <2>1 DEF S
<1>12. \A i \in L : i <= n
  BY <1>1, <1>4
<1>13. QED BY <1>2, <1>11, <1>12 DEF Upto, C, L

-----------------------------------------------------------------------------
(* Updating a table. *)

LEMMA KeptTable ==
    ASSUME NEW E, NEW t, t = [list |-> t.list, map |-> t.map], t.list \in Seq(E), NEW vs
    PROVE  Kept(DeepCopy(t), vs) \in Tables(E)
<1> DEFINE s == t.list
           d == DeepCopy(t)
           gone == OnlySrc(d, vs)
           left == {i \in DOMAIN s : s[i].name \notin gone}
           place(i) == Cardinality({j \in left : j <= i})
           map == [n \in DOMAIN d.map \ gone |-> place(d.map[n])]
<1>1. d = [list |-> s, map |-> Indexed(s)]
  BY DEF DeepCopy, IndexDevice
<1>2. Kept(d, vs) = [list |-> Without(s, gone), map |-> map]
  BY <1>1 DEF Kept, Remembered
<1>3. DOMAIN d.map = Names(s)
  BY <1>1 DEF Indexed
<1>4. DOMAIN s = 1..Len(s) /\ Len(s) \in Nat /\ \A i \in DOMAIN s : s[i] \in E
  OBVIOUS
<1>5. Names(s) \subseteq {v.name : v \in E}
  BY <1>4 DEF Names
<1>6. \A i : place(i) \in Nat
  <2> SUFFICES ASSUME NEW i PROVE place(i) \in Nat
    OBVIOUS
  <2>1. IsFiniteSet(1..Len(s))
    <3> DEFINE n == Len(s)
    <3>1. n \in Int /\ 1 \in Int
      BY <1>4
    <3> HIDE DEF n
    <3>2. IsFiniteSet(1..n)
      BY <3>1, FS_Interval
    <3>3. QED BY <3>2 DEF n
  <2>2. {j \in left : j <= i} \subseteq 1..Len(s)
    BY <1>4
  <2>3. IsFiniteSet({j \in left : j <= i})
    BY <2>1, <2>2, FS_Subset
  <2>4. QED BY <2>3, FS_CardinalityType
<1>7. Without(s, gone) \in Seq(E)
  BY WithoutIs
<1> HIDE DEF d, gone, left, place
<1>8. map \in [DOMAIN d.map \ gone -> Nat]
  BY <1>6
<1>9. map \in Maps(E)
  <2>1. DOMAIN d.map \ gone \in SUBSET {v.name : v \in E}
    BY <1>3, <1>5
  <2> HIDE DEF map
  <2>2. QED BY <1>8, <2>1, MapIn
<1>10. Kept(d, vs) \in Tables(E)
  <2> HIDE DEF map
  <2>1. QED BY <1>2, <1>7, <1>9 DEF Tables
<1>11. QED BY <1>10 DEF d

(* A table that leads to variables it has, all of which the request names. *)
Fit(t, E, vs) ==
    /\ t \in Tables(E)
    /\ Faithful(t)
    /\ \A n \in DOMAIN t.map : t.map[n] \in DOMAIN t.list
    /\ Names(t.list) \subseteq Names(vs)

(* The map of a list without two variables of one name. *)
LEMMA IndexedIs ==
    ASSUME NEW E, NEW s \in Seq(E), Unambiguous(s)
    PROVE  /\ DOMAIN Indexed(s) = Names(s)
           /\ \A n \in Names(s) : Indexed(s)[n] \in DOMAIN s /\ s[Indexed(s)[n]].name = n
<1>1. ASSUME NEW n \in Names(s)
      PROVE  LastPlace(Places(s, n)) \in Places(s, n)
  <2>1. PICK i \in DOMAIN s : s[i].name = n
    BY DEF Names
  <2>2. Places(s, n) = {i} /\ i \in Nat
    BY <2>1 DEF Places, Unambiguous
  <2>3. \E j \in {i} : \A h \in {i} : h <= j
    BY <2>2
  <2>4. QED BY <2>2, <2>3 DEF LastPlace
<1>2. QED BY <1>1 DEF Indexed, Places

LEMMA KeptFit ==
    ASSUME NEW E, NEW t \in Tables(E), Faithful(t), NEW vs \in Seq(E)
    PROVE  Fit(Kept(DeepCopy(t), vs), E, vs)
<1> DEFINE d == DeepCopy(t)
           s == t.list
           gone == OnlySrc(d, vs)
           L == Left(s, gone)
           C(i) == Place(s, gone, i)
           w == Without(s, gone)
           k == Kept(d, vs)
<1>1. t = [list |-> s, map |-> t.map] /\ s \in Seq(E) /\ Unambiguous(s)
  BY DEF Tables, Faithful
<1>2. d = [list |-> s, map |-> Indexed(s)]
  BY <1>1 DEF DeepCopy, IndexDevice
<1>3. gone = Names(s) \ Names(vs)
  BY <1>2 DEF OnlySrc
<1>4. /\ DOMAIN d.map = Names(s)
      /\ \A n \in Names(s) : d.map[n] \in DOMAIN s /\ s[d.map[n]].name = n
  <2>1. d.map = Indexed(s)
    BY <1>2
  <2>2. QED BY <1>1, <2>1, IndexedIs
<1>5. k = [list |-> w, map |-> [n \in DOMAIN d.map \ gone |-> C(d.map[n])]]
  BY <1>2 DEF Kept, Remembered, Left, Place
<1>6. /\ w \in Seq(E)
      /\ \A i \in L : C(i) \in 1..Len(w) /\ w[C(i)] = s[i]
      /\ \A p \in 1..Len(w) : \E i \in L : p = C(i)
  BY <1>1, WithoutIs
<1>7. L = {i \in DOMAIN s : s[i].name \notin gone}
  BY DEF Left
<1> HIDE DEF d, gone, L, C, w, k, s
<1>8. DOMAIN w = 1..Len(w)
  BY <1>6
<1>9. Names(w) = Names(s) \ gone
  <2>1. ASSUME NEW p \in DOMAIN w PROVE w[p].name \in Names(s) \ gone
    <3>1. PICK i \in L : w[p] = s[i]
      BY <1>6, <1>8
    <3>2. QED BY <1>7, <3>1 DEF Names
  <2>2. ASSUME NEW n \in Names(s) \ gone PROVE n \in Names(w)
    <3>1. PICK i \in DOMAIN s : s[i].name = n
      BY DEF Names
    <3>2. i \in L
      BY <1>7, <3>1
    <3>3. C(i) \in DOMAIN w /\ w[C(i)].name = n
      BY <1>6, <1>8, <3>1, <3>2
    <3>4. QED BY <3>3 DEF Names
  <2>3. QED BY <2>1, <2>2 DEF Names
<1>10. Unambiguous(w)
  <2> SUFFICES ASSUME NEW p \in DOMAIN w, NEW q \in DOMAIN w, w[p].name = w[q].name
               PROVE  p = q
    BY DEF Unambiguous
  <2>1. PICK i \in L : p = C(i) /\ w[p] = s[i]
    BY <1>6, <1>8
  <2>2. PICK j \in L : q = C(j) /\ w[q] = s[j]
    BY <1>6, <1>8
  <2>3. i = j
    BY <1>1, <1>7, <2>1, <2>2 DEF Unambiguous
  <2>4. QED BY <2>1, <2>2, <2>3
<1>11. DOMAIN k.map = Names(s) \ gone /\ k.list = w
  BY <1>4, <1>5
<1>12. ASSUME NEW n \in Names(s) \ gone
       PROVE  k.map[n] \in DOMAIN w /\ w[k.map[n]].name = n
  <2>1. k.map[n] = C(d.map[n])
    BY <1>4, <1>5
  <2>2. d.map[n] \in L /\ s[d.map[n]].name = n
    BY <1>4, <1>7, <1>12
  <2>3. QED BY <1>6, <1>8, <2>1, <2>2
<1>13. k \in Tables(E)
  <2>1. Names(s) \ gone \in SUBSET {v.name : v \in E}
    <3>1. \A p \in DOMAIN w : w[p] \in E
      BY <1>6
    <3>2. QED BY <1>9, <3>1 DEF Names
  <2>2. k.map \in [Names(s) \ gone -> Nat]
    <3>1. k.map = [n \in Names(s) \ gone |-> k.map[n]]
      BY <1>4, <1>5
    <3>2. \A n \in Names(s) \ gone : k.map[n] \in Nat
      BY <1>8, <1>12
    <3>3. QED BY <3>1, <3>2
  <2>3. k.map \in Maps(E)
    BY <2>1, <2>2, MapIn
  <2>4. k = [list |-> w, map |-> k.map]
    BY <1>5
  <2>5. QED BY <1>6, <2>3, <2>4 DEF Tables
<1>14. Faithful(k)
  BY <1>9, <1>10, <1>11, <1>12 DEF Faithful
<1>15. Names(w) \subseteq Names(vs)
  BY <1>3, <1>9
<1>16. Fit(k, E, vs)
  BY <1>11, <1>12, <1>13, <1>14, <1>15 DEF Fit
<1>17. QED BY <1>16 DEF k, d

LEMMA CreatedFit ==
    ASSUME NEW E, NEW s \in Seq(E), Unambiguous(s)
    PROVE  [list |-> s, map |-> Indexed(s)] \in Tables(E)
           /\ Faithful([list |-> s, map |-> Indexed(s)])
<1> DEFINE t == [list |-> s, map |-> Indexed(s)]
<1>1. /\ DOMAIN Indexed(s) = Names(s)
      /\ \A n \in Names(s) : Indexed(s)[n] \in DOMAIN s /\ s[Indexed(s)[n]].name = n
  BY IndexedIs
<1>2. DOMAIN s \subseteq Nat /\ \A i \in DOMAIN s : s[i] \in E
  OBVIOUS
<1>3. Names(s) \in SUBSET {v.name : v \in E}
  BY <1>2 DEF Names
<1>4. Indexed(s) \in [Names(s) -> Nat]
  <2>1. Indexed(s) = [n \in Names(s) |-> Indexed(s)[n]]
    BY DEF Indexed
  <2>2. QED BY <1>1, <1>2, <2>1
<1>5. Indexed(s) \in Maps(E)
  BY <1>3, <1>4, MapIn
<1>6. t \in Tables(E)
  BY <1>5 DEF Tables
<1>7. Faithful(t)
  BY <1>1 DEF Faithful
<1>8. QED BY <1>6, <1>7

(* A variable that is put into a table takes the place of the one of its
   name; the others stay where they are. *)
LEMMA UpsertFit ==
    ASSUME NEW E, NEW vs \in Seq(E), NEW t, Fit(t, E, vs),
           NEW v \in E, v.name \in Names(vs), TrimSpace(v.name) = v.name
    PROVE  LET u == Upsert(t, v)
           IN  /\ Fit(u, E, vs)
               /\ \E p \in DOMAIN u.list : u.list[p] = v
               /\ \A w : w.name # v.name /\ (\E p \in DOMAIN t.list : t.list[p] = w)
                           => \E p \in DOMAIN u.list : u.list[p] = w
<1> DEFINE u == Upsert(t, v)
           s == t.list
           end == Len(s) + 1
           n == v.name
<1>1. /\ t = [list |-> s, map |-> t.map] /\ s \in Seq(E) /\ t \in Tables(E)
      /\ Unambiguous(s) /\ DOMAIN t.map = Names(s)
      /\ \A x \in Names(s) : t.map[x] \in DOMAIN s /\ s[t.map[x]].name = x
      /\ Names(s) \subseteq Names(vs)
  BY DEF Fit, Tables, Faithful
<1>2. u \in Tables(E)
  BY <1>1, UpsertTable
<1>3. CASE n \in Names(s)
  <2> DEFINE p == t.map[n]
             l == [s EXCEPT ![p] = v]
  <2>1. p \in DOMAIN s /\ s[p].name = n
    BY <1>1, <1>3
  <2>2. u = [list |-> l, map |-> t.map]
    BY <1>1, <1>3 DEF Upsert
  <2>3. DOMAIN l = DOMAIN s /\ \A i \in DOMAIN s : l[i] = IF i = p THEN v ELSE s[i]
    BY <1>1, Replaced
  <2>4. u.list = l /\ u.map = t.map
    BY <2>2
  <2> HIDE DEF l, u, s, p
  <2>5. \A i \in DOMAIN s : l[i].name = s[i].name
    BY <2>1, <2>3
  <2>6. Names(l) = Names(s)
    BY <2>3, <2>5 DEF Names
  <2>7. Unambiguous(l)
    BY <1>1, <2>3, <2>5 DEF Unambiguous
  <2>8. \A x \in Names(s) : t.map[x] \in DOMAIN l /\ l[t.map[x]].name = x
    BY <1>1, <2>3, <2>5
  <2>9. Fit(u, E, vs)
    BY <1>1, <1>2, <2>4, <2>6, <2>7, <2>8 DEF Fit, Faithful
  <2>10. p \in DOMAIN u.list /\ u.list[p] = v
    BY <2>1, <2>3, <2>4
  <2>11. ASSUME NEW w, w.name # n, NEW i \in DOMAIN s, s[i] = w
         PROVE  \E j \in DOMAIN u.list : u.list[j] = w
    <3>1. i # p
      BY <2>1, <2>11
    <3>2. i \in DOMAIN u.list /\ u.list[i] = w
      BY <2>3, <2>4, <2>11, <3>1
    <3>3. QED BY <3>2
  <2>12. QED BY <2>9, <2>10, <2>11 DEF u, s
<1>4. CASE n \notin Names(s)
  <2> DEFINE l == Append(s, v)
             map == [x \in DOMAIN t.map \cup {n} |-> IF x = n THEN end ELSE t.map[x]]
  <2>1. u = [list |-> l, map |-> map]
    BY <1>1, <1>4 DEF Upsert
  <2>2. /\ Len(s) \in Nat /\ DOMAIN s = 1..Len(s) /\ DOMAIN l = 1..end
        /\ l[end] = v /\ \A i \in 1..Len(s) : l[i] = s[i]
    BY <1>1
  <2>3. u.list = l /\ u.map = map
    BY <2>1
  <2>4. DOMAIN map = Names(s) \cup {n}
        /\ map[n] = end /\ \A x \in Names(s) : map[x] = t.map[x]
    BY <1>1, <1>4
  <2>5. /\ DOMAIN l = DOMAIN s \cup {end} /\ end \notin DOMAIN s
        /\ l[end] = v /\ \A i \in DOMAIN s : l[i] = s[i]
    BY <2>2
  <2> HIDE DEF l, u, s, end, map
  <2>6. Names(l) = Names(s) \cup {n}
    <3>1. ASSUME NEW i \in DOMAIN l PROVE l[i].name \in Names(s) \cup {n}
      BY <2>5 DEF Names
    <3>2. ASSUME NEW x \in Names(s) PROVE x \in Names(l)
      <4>1. PICK i \in DOMAIN s : s[i].name = x
        BY DEF Names
      <4>2. i \in DOMAIN l /\ l[i].name = x
        BY <2>5, <4>1
      <4>3. QED BY <4>2 DEF Names
    <3>3. n \in Names(l)
      BY <2>5 DEF Names
    <3>4. QED BY <3>1, <3>2, <3>3 DEF Names
  <2>7. Unambiguous(l)
    <3> SUFFICES ASSUME NEW i \in DOMAIN l, NEW j \in DOMAIN l, l[i].name = l[j].name
                 PROVE  i = j
      BY DEF Unambiguous
    <3>1. \A h \in DOMAIN s : s[h].name # n
      BY <1>4 DEF Names
    <3>2. CASE i = end \/ j = end
      BY <2>5, <3>1, <3>2
    <3>3. CASE i \in DOMAIN s /\ j \in DOMAIN s
      BY <1>1, <2>5, <3>3 DEF Unambiguous
    <3>4. QED BY <2>5, <3>2, <3>3
  <2>8. \A x \in Names(l) : map[x] \in DOMAIN l /\ l[map[x]].name = x
    BY <1>1, <2>4, <2>5, <2>6
  <2>9. Names(l) \subseteq Names(vs)
    BY <1>1, <2>6
  <2>10. Fit(u, E, vs)
    BY <1>2, <2>3, <2>4, <2>6, <2>7, <2>8, <2>9 DEF Fit, Faithful
  <2>11. end \in DOMAIN u.list /\ u.list[end] = v
    BY <2>3, <2>5
  <2>12. ASSUME NEW w, NEW i \in DOMAIN s, s[i] = w
         PROVE  \E j \in DOMAIN u.list : u.list[j] = w
    <3>1. i \in DOMAIN u.list /\ u.list[i] = w
      BY <2>3, <2>5, <2>12
    <3>2. QED BY <3>1
  <2>13. QED BY <2>10, <2>11, <2>12 DEF u, s
<1>5. QED BY <1>3, <1>4

(* After an update of a faithful table by a request that has no name twice
   and none with a blank, the table is faithful and has what was requested. *)
LEMMA UpdateIs ==
    ASSUME NEW E, NEW t \in Tables(E), Faithful(t), NEW vs \in Seq(E), Unambiguous(vs),
           \A i \in DOMAIN vs : TrimSpace(vs[i].name) = vs[i].name
    PROVE  LET u == UpsertAll(Kept(DeepCopy(t), vs), vs)
           IN  u \in Tables(E) /\ Faithful(u) /\ ToSet(u.list) = ToSet(vs)
<1> DEFINE k0 == Kept(DeepCopy(t), vs)
           u == UpsertAll(k0, vs)
           n == Len(vs)
<1>1. Fit(k0, E, vs)
  BY KeptFit
<1>2. n \in Nat /\ DOMAIN vs = 1..n /\ \A i \in 1..n : vs[i] \in E
  OBVIOUS
<1>3. PICK r : Upserts(r, k0, vs) /\ u = r[n]
  <2>1. k0 \in Tables(E)
    BY <1>1 DEF Fit
  <2> HIDE DEF k0
  <2>2. QED BY <2>1, UpsertRuns
<1>4. r[0] = k0 /\ \A k \in 1..n : r[k] = Upsert(r[k - 1], vs[k])
  BY <1>3 DEF Upserts
<1> DEFINE Has(k, w) == \E p \in DOMAIN r[k].list : r[k].list[p] = w
           Upto(k) == Fit(r[k], E, vs) /\ \A i \in 1..k : Has(k, vs[i])
           S == {k \in Nat : k <= n => Upto(k)}
<1> HIDE DEF k0, u, n
<1>5. Upto(0)
  BY <1>1, <1>4
<1>6. ASSUME NEW k \in 0..(n - 1), Upto(k) PROVE Upto(k + 1)
  <2>1. k + 1 \in 1..n /\ (k + 1) - 1 = k /\ k \in Nat
    BY <1>2
  <2>2. r[k + 1] = Upsert(r[k], vs[k + 1])
    BY <1>4, <2>1
  <2>3. /\ vs[k + 1] \in E /\ vs[k + 1].name \in Names(vs)
        /\ TrimSpace(vs[k + 1].name) = vs[k + 1].name
    BY <1>2, <2>1 DEF Names
  <2>4. /\ Fit(r[k + 1], E, vs)
        /\ Has(k + 1, vs[k + 1])
        /\ \A w : w.name # vs[k + 1].name /\ Has(k, w) => Has(k + 1, w)
    <3> DEFINE t1 == r[k]
               v == vs[k + 1]
    <3>1. Fit(t1, E, vs)
      BY <1>6
    <3>2. v \in E /\ v.name \in Names(vs) /\ TrimSpace(v.name) = v.name
      BY <2>3
    <3> HIDE DEF t1, v
    <3>3. LET w == Upsert(t1, v)
          IN  /\ Fit(w, E, vs)
              /\ \E p \in DOMAIN w.list : w.list[p] = v
              /\ \A x : x.name # v.name /\ (\E p \in DOMAIN t1.list : t1.list[p] = x)
                           => \E p \in DOMAIN w.list : w.list[p] = x
      BY <3>1, <3>2, UpsertFit
    <3>4. r[k + 1] = Upsert(t1, v)
      BY <2>2 DEF t1, v
    <3> HIDE DEF Has
    <3>5. Fit(r[k + 1], E, vs)
      BY <3>3, <3>4
    <3>6. Has(k + 1, v) /\ \A x : x.name # v.name /\ Has(k, x) => Has(k + 1, x)
      BY <3>3, <3>4 DEF Has, t1
    <3>7. QED BY <3>5, <3>6 DEF v
  <2> HIDE DEF Has
  <2>5. ASSUME NEW i \in 1..k PROVE Has(k + 1, vs[i])
    <3>1. i \in DOMAIN vs /\ k + 1 \in DOMAIN vs /\ i # k + 1
      BY <1>2, <2>1
    <3>2. vs[i].name # vs[k + 1].name
      BY <3>1 DEF Unambiguous
    <3>3. Has(k, vs[i])
      BY <1>6
    <3>4. QED BY <2>4, <3>2, <3>3
  <2>6. \A i \in 1..(k + 1) : i \in 1..k \/ i = k + 1
    BY <2>1
  <2>7. QED BY <2>4, <2>5, <2>6
<1> HIDE DEF Upto
<1>7. 0 \in S
  BY <1>5
<1>8. ASSUME NEW k \in Nat, k \in S PROVE k + 1 \in S
  <2> SUFFICES ASSUME k + 1 <= n PROVE Upto(k + 1)
    OBVIOUS
  <2>1. k \in 0..(n - 1) /\ k <= n
    BY <1>2
  <2>2. Upto(k)
    BY <1>8, <2>1
  <2>3. QED BY <1>6, <2>1, <2>2
<1> HIDE DEF S
<1>9. Nat \subseteq S
  BY <1>7, <1>8, SetInduction
<1>10. Upto(n)
  <2>1. n \in S /\ n <= n
    BY <1>2, <1>9
  <2>2. QED BY <2>1 DEF S
<1>11. /\ Fit(u, E, vs)
       /\ \A i \in 1..n : \E p \in DOMAIN u.list : u.list[p] = vs[i]
  BY <1>3, <1>10 DEF Upto
<1>12. u \in Tables(E) /\ Faithful(u) /\ Names(u.list) \subseteq Names(vs)
  BY <1>11 DEF Fit
<1>13. ToSet(vs) \subseteq ToSet(u.list)
  BY <1>2, <1>11 DEF ToSet
<1>14. ASSUME NEW p \in DOMAIN u.list PROVE u.list[p] \in ToSet(vs)
  <2>1. PICK i \in DOMAIN vs : vs[i].name = u.list[p].name
    BY <1>12 DEF Names
  <2>2. PICK q \in DOMAIN u.list : u.list[q] = vs[i]
    BY <1>2, <1>11, <2>1
  <2>3. p = q
    BY <1>12, <2>1, <2>2 DEF Faithful, Unambiguous
  <2>4. QED BY <2>1, <2>2, <2>3 DEF ToSet
<1>15. ToSet(u.list) = ToSet(vs)
  BY <1>13, <1>14 DEF ToSet
<1>16. QED BY <1>12, <1>15 DEF u, k0

-----------------------------------------------------------------------------
(* However the names are, a map leads into its list. *)

Rooted(t, E) == t \in Tables(E) /\ \A n \in DOMAIN t.map : t.map[n] \in DOMAIN t.list

LEMMA LastPlaceIs ==
    ASSUME NEW E, NEW s \in Seq(E), NEW n \in Names(s)
    PROVE  LastPlace(Places(s, n)) \in DOMAIN s /\ s[LastPlace(Places(s, n))].name = n
<1> DEFINE S == Places(s, n)
           last == Len(s)
<1>1. last \in Nat /\ DOMAIN s = 1..last
  OBVIOUS
<1>2. S \subseteq DOMAIN s /\ S # {} /\ \A i \in S : s[i].name = n
  BY DEF Names, Places
<1> HIDE DEF S, last
<1>3. S \in SUBSET Nat /\ \A i \in S : i <= last
  BY <1>1, <1>2
<1>4. \E i \in S : \A j \in S : j <= i
  BY <1>1, <1>2, <1>3, HasHighest
<1>5. LastPlace(S) \in S
  BY <1>4 DEF LastPlace
<1>6. QED BY <1>2, <1>5 DEF S

LEMMA CreatedRooted ==
    ASSUME NEW E, NEW s \in Seq(E)
    PROVE  Rooted([list |-> s, map |-> Indexed(s)], E)
<1> DEFINE t == [list |-> s, map |-> Indexed(s)]
<1>1. DOMAIN s \subseteq Nat /\ \A i \in DOMAIN s : s[i] \in E
  OBVIOUS
<1>2. Names(s) \in SUBSET {v.name : v \in E}
  BY <1>1 DEF Names
<1>3. \A n \in Names(s) : Indexed(s)[n] \in DOMAIN s
  BY LastPlaceIs DEF Indexed
<1>4. Indexed(s) \in [Names(s) -> Nat]
  <2>1. Indexed(s) = [n \in Names(s) |-> Indexed(s)[n]]
    BY DEF Indexed
  <2>2. QED BY <1>1, <1>3, <2>1
<1>5. Indexed(s) \in Maps(E)
  BY <1>2, <1>4, MapIn
<1>6. QED BY <1>3, <1>4, <1>5 DEF Rooted, Tables

LEMMA KeptRooted ==
    ASSUME NEW E, NEW t, Rooted(t, E), NEW vs
    PROVE  Rooted(Kept(DeepCopy(t), vs), E)
<1> DEFINE d == DeepCopy(t)
           s == t.list
           gone == OnlySrc(d, vs)
           L == Left(s, gone)
           C(i) == Place(s, gone, i)
           w == Without(s, gone)
           k == Kept(d, vs)
<1>1. t = [list |-> s, map |-> t.map] /\ s \in Seq(E)
  BY DEF Rooted, Tables
<1>2. d = [list |-> s, map |-> Indexed(s)]
  BY <1>1 DEF DeepCopy, IndexDevice
<1>3. /\ DOMAIN d.map = Names(s)
      /\ \A n \in Names(s) : d.map[n] \in DOMAIN s /\ s[d.map[n]].name = n
  <2>1. d.map = Indexed(s)
    BY <1>2
  <2> HIDE DEF d, s
  <2>2. \A n \in Names(s) : LastPlace(Places(s, n)) \in DOMAIN s
                            /\ s[LastPlace(Places(s, n))].name = n
    BY <1>1, LastPlaceIs
  <2>3. QED BY <2>1, <2>2 DEF Indexed
<1>4. k = [list |-> w, map |-> [n \in DOMAIN d.map \ gone |-> C(d.map[n])]]
  BY <1>2 DEF Kept, Remembered, Left, Place
<1>5. w \in Seq(E) /\ \A i \in L : C(i) \in 1..Len(w)
  BY <1>1, WithoutIs
<1>6. L = {i \in DOMAIN s : s[i].name \notin gone}
  BY DEF Left
<1>7. k \in Tables(E)
  BY <1>1, KeptTable
<1> HIDE DEF d, gone, L, C, w, k, s
<1>8. DOMAIN w = 1..Len(w)
  BY <1>5
<1>9. ASSUME NEW n \in DOMAIN k.map PROVE k.map[n] \in DOMAIN k.list
  <2>1. n \in DOMAIN d.map \ gone /\ k.map[n] = C(d.map[n]) /\ k.list = w
    BY <1>4
  <2>2. d.map[n] \in L
    BY <1>3, <1>6, <2>1
  <2>3. QED BY <1>5, <1>8, <2>1, <2>2
<1>10. QED BY <1>7, <1>9 DEF Rooted, k, d

LEMMA UpsertRooted ==
    ASSUME NEW E, NEW t, Rooted(t, E), NEW v \in E
    PROVE  Rooted(Upsert(t, v), E)
<1> DEFINE u == Upsert(t, v)
           s == t.list
           trimmed == TrimSpace(v.name)
           end == Len(s) + 1
<1>1. /\ t = [list |-> s, map |-> t.map] /\ s \in Seq(E) /\ t \in Tables(E)
      /\ \A n \in DOMAIN t.map : t.map[n] \in DOMAIN s
  BY DEF Rooted, Tables
<1>2. u \in Tables(E)
  BY <1>1, UpsertTable
<1>3. CASE trimmed \in DOMAIN t.map
  <2> DEFINE l == [s EXCEPT ![t.map[trimmed]] = v]
  <2>1. u = [list |-> l, map |-> t.map]
    BY <1>1, <1>3 DEF Upsert
  <2>2. DOMAIN l = DOMAIN s
    OBVIOUS
  <2> HIDE DEF l, s, u
  <2>3. QED BY <1>1, <1>2, <2>1, <2>2 DEF Rooted, u
<1>4. CASE trimmed \notin DOMAIN t.map
  <2> DEFINE l == Append(s, v)
             map == [n \in DOMAIN t.map \cup {v.name} |->
                        IF n = v.name THEN end ELSE t.map[n]]
  <2>1. u = [list |-> l, map |-> map]
    BY <1>4 DEF Upsert
  <2>2. DOMAIN s \subseteq DOMAIN l /\ end \in DOMAIN l
    BY <1>1
  <2>3. \A n \in DOMAIN map : map[n] = end \/ (n \in DOMAIN t.map /\ map[n] = t.map[n])
    OBVIOUS
  <2> HIDE DEF l, s, u, map, end
  <2>4. QED BY <1>1, <1>2, <2>1, <2>2, <2>3 DEF Rooted, u
<1>5. QED BY <1>3, <1>4

LEMMA UpdateRooted ==
    ASSUME NEW E, NEW t, Rooted(t, E), NEW vs \in Seq(E)
    PROVE  Rooted(UpsertAll(Kept(DeepCopy(t), vs), vs), E)
<1> DEFINE n == Len(vs)
           k0 == Kept(DeepCopy(t), vs)
<1>1. n \in Nat /\ \A i \in 1..n : vs[i] \in E
  OBVIOUS
<1>2. Rooted(k0, E) /\ k0 \in Tables(E)
  BY KeptRooted DEF Rooted
<1> HIDE DEF k0
<1>3. PICK r : Upserts(r, k0, vs) /\ UpsertAll(k0, vs) = r[n]
  BY <1>2, UpsertRuns
<1> DEFINE S == {k \in Nat : k <= n => Rooted(r[k], E)}
<1> HIDE DEF n
<1>4. 0 \in S
  BY <1>2, <1>3 DEF Upserts
<1>5. ASSUME NEW k \in Nat, k \in S PROVE k + 1 \in S
  <2> SUFFICES ASSUME k + 1 <= n PROVE Rooted(r[k + 1], E)
    OBVIOUS
  <2>1. k + 1 \in 1..n /\ (k + 1) - 1 = k /\ k <= n
    BY <1>1
  <2>2. r[k + 1] = Upsert(r[k], vs[k + 1])
    BY <1>3, <2>1 DEF Upserts, n
  <2>3. QED BY <1>1, <1>5, <2>1, <2>2, UpsertRooted
<1> HIDE DEF S
<1>6. Nat \subseteq S
  BY <1>4, <1>5, SetInduction
<1>7. n \in S /\ n <= n
  BY <1>1, <1>6
<1>8. QED BY <1>3, <1>7 DEF S, k0
=================================================================================
