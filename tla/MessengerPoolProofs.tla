------------------------- MODULE MessengerPoolProofs -------------------------
(***************************************************************************)
(* Proofs about MessengerPool for any number of workers, deliveries and    *)
(* messengers: type correctness, exclusive use of a messenger, no leak and *)
(* no stranded waiter in a live pool, and that the pool implements         *)
(* MessengerLease.                                                         *)
(***************************************************************************)
EXTENDS MessengerPool, TLAPS

(* What ties a caller's place to its messenger, and a pool that has not been
   destroyed to its creation. *)
CallerInv ==
    \A c \in Callers :
        /\ pc[c] \in {"done", "start", "refused"} => granted[c] = NoMessenger
        /\ pc[c] = "using" => granted[c] # NoMessenger
        /\ c \in ConnRequests => pc[c] = "waiting" /\ granted[c] = NoMessenger

LiveInv ==
    ~destroyed =>
        /\ made = Size
        /\ ~muxStuck
        /\ closedRequests = {}
        /\ ConnRequests # {} => Idle = 0
        /\ \A c \in Callers : pc[c] # "refused"
        /\ \A c \in Callers :
              pc[c] = "waiting" /\ granted[c] = NoMessenger => c \in ConnRequests

IInv == TypeOK /\ ExclusiveMessenger /\ CallerInv /\ LiveInv /\ LivePoolIsWhole

-----------------------------------------------------------------------------
(* Facts about the list: what Remove(Front()) and PushBack do to the set of
   its elements, and that they keep its elements distinct. *)

Elements(s) == {s[i] : i \in DOMAIN s}

Distinct(s) == \A i, j \in DOMAIN s : i # j => s[i] # s[j]

LEMMA TailElements ==
    ASSUME NEW S, NEW s \in Seq(S), s # <<>>, Distinct(s)
    PROVE  /\ Tail(s) \in Seq(S)
           /\ Len(Tail(s)) = Len(s) - 1
           /\ Len(s) > 0
           /\ Head(s) \in S
           /\ Elements(Tail(s)) = Elements(s) \ {Head(s)}
           /\ Head(s) \in Elements(s)
           /\ Distinct(Tail(s))
<1>1. Len(s) \in Nat /\ Len(s) > 0 /\ DOMAIN s = 1..Len(s) /\ Head(s) = s[1]
  OBVIOUS
<1>2. /\ Tail(s) \in Seq(S)
      /\ Len(Tail(s)) = Len(s) - 1
      /\ DOMAIN Tail(s) = 1..(Len(s) - 1)
      /\ \A i \in 1..(Len(s) - 1) : Tail(s)[i] = s[i + 1]
  OBVIOUS
<1>3. Elements(Tail(s)) \subseteq Elements(s) \ {Head(s)}
  BY <1>1, <1>2 DEF Elements, Distinct
<1>4. ASSUME NEW x \in Elements(s) \ {Head(s)}
      PROVE  x \in Elements(Tail(s))
  <2>1. PICK i \in 1..Len(s) : x = s[i] /\ i # 1
    BY <1>1 DEF Elements
  <2>2. i - 1 \in 1..(Len(s) - 1) /\ Tail(s)[i - 1] = x
    BY <1>1, <1>2, <2>1
  <2>3. QED BY <1>2, <2>2 DEF Elements
<1>5. Head(s) \in Elements(s) /\ Head(s) \in S
  BY <1>1 DEF Elements
<1>6. Distinct(Tail(s))
  BY <1>1, <1>2 DEF Distinct
<1>7. QED BY <1>1, <1>2, <1>3, <1>4, <1>5, <1>6

LEMMA AppendElements ==
    ASSUME NEW S, NEW s \in Seq(S), NEW x \in S, x \notin Elements(s), Distinct(s)
    PROVE  /\ Append(s, x) \in Seq(S)
           /\ Len(Append(s, x)) = Len(s) + 1
           /\ Elements(Append(s, x)) = Elements(s) \cup {x}
           /\ Distinct(Append(s, x))
<1>1. /\ Len(s) \in Nat
      /\ DOMAIN s = 1..Len(s)
      /\ Append(s, x) \in Seq(S)
      /\ Len(Append(s, x)) = Len(s) + 1
      /\ DOMAIN Append(s, x) = 1..(Len(s) + 1)
      /\ Append(s, x)[Len(s) + 1] = x
      /\ \A i \in 1..Len(s) : Append(s, x)[i] = s[i]
  OBVIOUS
<1>2. Elements(Append(s, x)) = Elements(s) \cup {x}
  BY <1>1 DEF Elements
<1>3. Distinct(Append(s, x))
  BY <1>1 DEF Elements, Distinct
<1>4. QED BY <1>1, <1>2, <1>3

LEMMA WiderList ==
    ASSUME NEW n \in Nat, NEW s \in Seq(1..n)
    PROVE  s \in Seq(1..(n + 1))
OBVIOUS

LEMMA ListedElements ==
    /\ Listed = Elements(Messengers)
    /\ Listed' = Elements(Messengers')
    /\ TypeOK => Listed \subseteq 1..made /\ NoMessenger \notin Listed
<1>1. Listed = Elements(Messengers) /\ Listed' = Elements(Messengers')
  BY DEF Listed, Elements
<1>2. TypeOK => Listed \subseteq 1..made
  BY DEF Listed, TypeOK
<1>3. QED BY <1>1, <1>2 DEF NoMessenger, TypeOK

-----------------------------------------------------------------------------
(* The invariant is inductive. *)

LEMMA InitEstablishes == Init => IInv
<1> SUFFICES ASSUME Init PROVE IInv
  OBVIOUS
<1> USE PoolAssumption
<1>1. Messengers \in Seq(1..Size) /\ Len(Messengers) = Size /\ DOMAIN Messengers = 1..Size
      /\ \A i \in 1..Size : Messengers[i] = i
  BY DEF Init
<1>2. Listed = 1..Size
  BY <1>1 DEF Listed
<1>3. TypeOK
  <2>1. pc \in [Callers -> Places]
    BY DEF Init, Places
  <2>2. granted \in [Callers -> 0..Size]
    BY DEF Init, NoMessenger
  <2>3. QED BY <1>1, <2>1, <2>2 DEF Init, TypeOK
<1>4. ExclusiveMessenger
  BY <1>1, <1>2 DEF Init, ExclusiveMessenger, NoMessenger
<1>5. CallerInv /\ LiveInv
  BY DEF Init, CallerInv, LiveInv, NoMessenger
<1>6. LivePoolIsWhole
  BY <1>1, <1>2 DEF Init, LivePoolIsWhole, NoMessenger
<1>7. QED BY <1>3, <1>4, <1>5, <1>6 DEF IInv

LEMMA TakeIdlePreserves ==
    ASSUME IInv, NEW c \in Callers, TakeIdle(c)
    PROVE  IInv'
<1> DEFINE m == Head(Messengers)
<1>0. TypeOK /\ ExclusiveMessenger /\ CallerInv /\ LiveInv /\ LivePoolIsWhole
  BY DEF IInv
<1>1. Distinct(Messengers) /\ Messengers \in Seq(1..made) /\ Messengers # <<>>
  BY <1>0 DEF ExclusiveMessenger, Distinct, TypeOK, TakeIdle
<1>2. /\ Messengers' = Tail(Messengers)
      /\ Messengers' \in Seq(1..made)
      /\ Len(Messengers') = Len(Messengers) - 1
      /\ m \in 1..made
      /\ m \in Listed
      /\ Listed' = Listed \ {m}
      /\ Distinct(Messengers')
  BY <1>1, TailElements, ListedElements DEF TakeIdle, FrontRemoved
<1>3. /\ pc[c] = "start" /\ Idle \in Nat /\ Idle > 0 /\ Idle' = Idle - 1
      /\ granted' = [granted EXCEPT ![c] = m]
      /\ pc' = [pc EXCEPT ![c] = "using"]
      /\ UNCHANGED <<ConnRequests, closedRequests, made, muxStuck, destroyed>>
  BY <1>0 DEF TakeIdle, NothingIdle, TypeOK
<1>4. TypeOK'
  BY <1>0, <1>2, <1>3 DEF TypeOK, Places
<1>5. ExclusiveMessenger'
  BY <1>0, <1>2, <1>3 DEF TypeOK, ExclusiveMessenger, Distinct, NoMessenger
<1>6. CallerInv'
  BY <1>0, <1>2, <1>3 DEF TypeOK, CallerInv, NoMessenger
<1>7. LiveInv'
  BY <1>0, <1>3 DEF TypeOK, LiveInv, NoMessenger
<1>8. LivePoolIsWhole'
  <2> SUFFICES ASSUME ~destroyed
               PROVE  1..Size = (Listed' \cup {granted'[d] : d \in Callers}) \ {NoMessenger}
    BY <1>0, <1>2, <1>3 DEF LivePoolIsWhole, TypeOK
  <2>1. granted[c] = NoMessenger
    BY <1>0, <1>3 DEF CallerInv
  <2>2. {granted'[d] : d \in Callers} \ {NoMessenger}
          = ({granted[d] : d \in Callers} \ {NoMessenger}) \cup {m}
    BY <1>0, <1>2, <1>3, <2>1 DEF TypeOK, NoMessenger
  <2>3. QED BY <1>0, <1>2, <1>3, <2>2 DEF LivePoolIsWhole, NoMessenger
<1>9. QED BY <1>4, <1>5, <1>6, <1>7, <1>8 DEF IInv

LEMMA PutBackPreserves ==
    ASSUME IInv, NEW c \in Callers, PutBack(c)
    PROVE  IInv'
<1> DEFINE m == granted[c]
<1>0. TypeOK /\ ExclusiveMessenger /\ CallerInv /\ LiveInv /\ LivePoolIsWhole
  BY DEF IInv
<1>1. /\ pc[c] = "using" /\ Idle \in Nat /\ Idle' = Idle + 1
      /\ Messengers' = Append(Messengers, m)
      /\ granted' = [granted EXCEPT ![c] = NoMessenger]
      /\ pc' = [pc EXCEPT ![c] = "done"]
      /\ UNCHANGED <<ConnRequests, closedRequests, made, muxStuck, destroyed>>
  BY <1>0 DEF PutBack, IdleCounted, TypeOK
<1>2. /\ Distinct(Messengers) /\ Messengers \in Seq(1..made)
      /\ m \in 1..made /\ m \notin Elements(Messengers)
  BY <1>0, <1>1, ListedElements
     DEF ExclusiveMessenger, Distinct, TypeOK, CallerInv, NoMessenger
<1>3. /\ Messengers' \in Seq(1..made)
      /\ Len(Messengers') = Len(Messengers) + 1
      /\ Listed' = Listed \cup {m}
      /\ Distinct(Messengers')
  <2>1. /\ Append(Messengers, m) \in Seq(1..made)
        /\ Len(Append(Messengers, m)) = Len(Messengers) + 1
        /\ Elements(Append(Messengers, m)) = Elements(Messengers) \cup {m}
        /\ Distinct(Append(Messengers, m))
    <3> HIDE DEF m
    <3>1. QED BY <1>2, AppendElements
  <2>2. QED BY <1>1, <2>1, ListedElements
<1>4. TypeOK'
  BY <1>0, <1>1, <1>3 DEF TypeOK, Places, NoMessenger
<1>5. ExclusiveMessenger'
  <2>1. granted' \in [Callers -> 0..made] /\ NoMessenger \notin Listed'
    BY <1>0, <1>1, <1>2, <1>3, ListedElements DEF TypeOK, NoMessenger
  <2>2. \A e \in Callers : granted'[e] \notin Listed'
    BY <1>0, <1>1, <1>3, <2>1 DEF TypeOK, ExclusiveMessenger, NoMessenger
  <2>3. \A e, f \in Callers :
           e # f /\ granted'[e] # NoMessenger => granted'[e] # granted'[f]
    BY <1>0, <1>1 DEF TypeOK, ExclusiveMessenger, NoMessenger
  <2>4. QED BY <1>3, <2>2, <2>3 DEF ExclusiveMessenger, Distinct
<1>6. CallerInv'
  BY <1>0, <1>1 DEF TypeOK, CallerInv, NoMessenger
<1>7. LiveInv'
  <2>1. ~destroyed => ConnRequests = {}
    BY <1>0 DEF LiveInv, PutBack, HandsOver
  <2>2. \A d \in Callers : pc'[d] = "waiting" => pc[d] = "waiting" /\ granted'[d] = granted[d]
    BY <1>0, <1>1 DEF TypeOK
  <2>3. \A d \in Callers : pc'[d] = "refused" => pc[d] = "refused"
    BY <1>0, <1>1 DEF TypeOK
  <2>4. QED BY <1>0, <1>1, <2>1, <2>2, <2>3 DEF LiveInv
<1>8. LivePoolIsWhole'
  <2> SUFFICES ASSUME ~destroyed
               PROVE  1..Size = (Listed' \cup {granted'[d] : d \in Callers}) \ {NoMessenger}
    BY <1>0, <1>1, <1>3 DEF LivePoolIsWhole, TypeOK
  <2>1. {granted'[d] : d \in Callers} \cup {m, NoMessenger}
          = {granted[d] : d \in Callers} \cup {NoMessenger}
    BY <1>0, <1>1 DEF TypeOK, NoMessenger
  <2>2. QED BY <1>0, <1>1, <1>2, <1>3, <2>1 DEF LivePoolIsWhole, NoMessenger
<1>9. QED BY <1>4, <1>5, <1>6, <1>7, <1>8 DEF IInv

LEMMA HandOverPreserves ==
    ASSUME IInv, NEW c \in Callers, NEW d \in Callers, HandOver(c, d)
    PROVE  IInv'
<1>0. TypeOK /\ ExclusiveMessenger /\ CallerInv /\ LiveInv /\ LivePoolIsWhole
  BY DEF IInv
<1>1. /\ pc[c] = "using" /\ d \in ConnRequests
      /\ ConnRequests' = ConnRequests \ {d}
      /\ granted' = [granted EXCEPT ![c] = NoMessenger, ![d] = granted[c]]
      /\ pc' = [pc EXCEPT ![c] = "done"]
      /\ UNCHANGED <<Messengers, Idle, closedRequests, made, muxStuck, destroyed>>
  BY DEF HandOver, Sent
<1>2. pc[d] = "waiting" /\ granted[d] = NoMessenger /\ c # d /\ granted[c] # NoMessenger
  BY <1>0, <1>1 DEF CallerInv
<1>3. Listed' = Listed
  BY <1>1 DEF Listed
<1>4. TypeOK'
  BY <1>0, <1>1 DEF TypeOK, Places, NoMessenger
<1>5. ExclusiveMessenger'
  BY <1>0, <1>1, <1>2, <1>3 DEF TypeOK, ExclusiveMessenger, NoMessenger
<1>6. CallerInv'
  BY <1>0, <1>1, <1>2 DEF TypeOK, CallerInv, NoMessenger
<1>7. LiveInv'
  BY <1>0, <1>1, <1>2 DEF TypeOK, LiveInv, NoMessenger
<1>8. LivePoolIsWhole'
  <2>1. {granted'[e] : e \in Callers} = {granted[e] : e \in Callers}
    BY <1>0, <1>1, <1>2 DEF TypeOK
  <2>2. QED BY <1>0, <1>1, <1>3, <2>1 DEF LivePoolIsWhole
<1>9. QED BY <1>4, <1>5, <1>6, <1>7, <1>8 DEF IInv

LEMMA HandToClosedPreserves ==
    ASSUME IInv, NEW c \in Callers, NEW d \in Callers, HandToClosed(c, d)
    PROVE  IInv'
<1>0. TypeOK /\ ExclusiveMessenger /\ CallerInv /\ LiveInv /\ LivePoolIsWhole
  BY DEF IInv
<1>1. /\ pc[c] = "using" /\ d \in closedRequests
      /\ closedRequests' = closedRequests \ {d}
      /\ granted' = [granted EXCEPT ![c] = NoMessenger]
      /\ pc' = [pc EXCEPT ![c] = "done"]
      /\ UNCHANGED <<Messengers, Idle, ConnRequests, made, muxStuck, destroyed>>
  BY DEF HandToClosed
<1>2. destroyed /\ destroyed' /\ Listed' = Listed
  BY <1>0, <1>1 DEF LiveInv, Listed
<1>3. TypeOK'
  BY <1>0, <1>1 DEF TypeOK, Places, NoMessenger
<1>4. ExclusiveMessenger'
  <2>1. NoMessenger \notin Listed
    BY <1>0, ListedElements
  <2>2. QED BY <1>0, <1>1, <1>2, <2>1 DEF TypeOK, ExclusiveMessenger
<1>5. CallerInv'
  BY <1>0, <1>1 DEF TypeOK, CallerInv, NoMessenger
<1>6. LiveInv' /\ LivePoolIsWhole'
  BY <1>2 DEF LiveInv, LivePoolIsWhole
<1>7. QED BY <1>3, <1>4, <1>5, <1>6 DEF IInv

LEMMA ConnectPreserves ==
    ASSUME IInv, NEW c \in Callers, Connect(c)
    PROVE  IInv'
<1>0. TypeOK /\ ExclusiveMessenger /\ CallerInv /\ LiveInv /\ LivePoolIsWhole
  BY DEF IInv
<1>1. /\ pc[c] = "refused" /\ made' = made + 1
      /\ granted' = [granted EXCEPT ![c] = made + 1]
      /\ pc' = [pc EXCEPT ![c] = "using"]
      /\ UNCHANGED <<Messengers, Idle, ConnRequests, closedRequests, muxStuck, destroyed>>
  BY DEF Connect
<1>2. /\ destroyed /\ destroyed' /\ Listed' = Listed /\ made \in Nat
      /\ granted[c] = NoMessenger
  BY <1>0, <1>1 DEF LiveInv, Listed, TypeOK, CallerInv
<1>3. Messengers \in Seq(1..made) /\ Messengers' \in Seq(1..made') /\ Listed \subseteq 1..made
  BY <1>0, <1>1, <1>2, WiderList DEF TypeOK, Listed
<1>4. TypeOK'
  BY <1>0, <1>1, <1>2, <1>3 DEF TypeOK, Places
<1>5. ExclusiveMessenger'
  <2>1. \A e \in Callers : granted[e] \in 0..made
    BY <1>0 DEF TypeOK
  <2>2. QED BY <1>0, <1>1, <1>2, <1>3, <2>1 DEF TypeOK, ExclusiveMessenger, NoMessenger
<1>6. CallerInv'
  BY <1>0, <1>1, <1>2 DEF TypeOK, CallerInv, NoMessenger
<1>7. LiveInv' /\ LivePoolIsWhole'
  BY <1>2 DEF LiveInv, LivePoolIsWhole
<1>8. QED BY <1>4, <1>5, <1>6, <1>7 DEF IInv

LEMMA DestroyPreserves ==
    ASSUME IInv, Destroy
    PROVE  IInv'
<1>0. TypeOK /\ ExclusiveMessenger /\ CallerInv
  BY DEF IInv
<1>1. Messengers' = <<>> /\ Messengers' \in Seq(1..made) /\ Listed' = {}
  BY DEF Destroy, Listed
<1>2. QED BY <1>0, <1>1
        DEF IInv, TypeOK, ExclusiveMessenger, CallerInv, LiveInv, LivePoolIsWhole, Destroy

(* The steps that move a caller and touch neither the list nor a messenger. *)
LEMMA QuietStepsPreserve ==
    ASSUME IInv, NEW c \in Callers,
           \/ Register(c) \/ Receive(c) \/ Refuse(c) \/ ConnectFails(c)
           \/ TakeFromEmptyList(c) \/ StartPoll
    PROVE  IInv'
<1>0. TypeOK /\ ExclusiveMessenger /\ CallerInv /\ LiveInv /\ LivePoolIsWhole
  BY DEF IInv
<1>1. CASE Register(c)
  BY <1>0, <1>1 DEF IInv, TypeOK, ExclusiveMessenger, CallerInv, LiveInv, LivePoolIsWhole,
                    Listed, Register, NothingIdle, Places
<1>2. CASE Receive(c)
  BY <1>0, <1>2 DEF IInv, TypeOK, ExclusiveMessenger, CallerInv, LiveInv, LivePoolIsWhole,
                    Listed, Receive, Places
<1>3. CASE Refuse(c)
  BY <1>0, <1>3 DEF IInv, TypeOK, ExclusiveMessenger, CallerInv, LiveInv, LivePoolIsWhole,
                    Listed, Refuse, Places
<1>4. CASE ConnectFails(c)
  BY <1>0, <1>4 DEF IInv, TypeOK, ExclusiveMessenger, CallerInv, LiveInv, LivePoolIsWhole,
                    Listed, ConnectFails, Places
<1>5. CASE TakeFromEmptyList(c)
  <2>1. destroyed /\ destroyed' /\ Idle > 0 /\ Idle' \in Nat
    <3>1. Idle > 0 /\ Idle \in Nat /\ Idle' = Idle - 1 /\ destroyed' = destroyed
      BY <1>0, <1>5 DEF TypeOK, TakeFromEmptyList, NothingIdle
    <3>2. ~destroyed => Idle = 0
      BY <1>0, <1>5 DEF LivePoolIsWhole, TakeFromEmptyList
    <3>3. QED BY <1>0, <3>1, <3>2 DEF TypeOK
  <2>2. QED BY <1>0, <1>5, <2>1
          DEF IInv, TypeOK, ExclusiveMessenger, CallerInv, LiveInv, LivePoolIsWhole,
              Listed, TakeFromEmptyList, Places
<1>6. CASE StartPoll
  <2>1. \A e \in Callers : \/ pc'[e] = pc[e]
                           \/ pc[e] = "done" /\ pc'[e] = "start"
    BY <1>0, <1>6 DEF StartPoll, TypeOK
  <2>2. pc' \in [Callers -> Places]
    BY <1>0, <1>6 DEF StartPoll, TypeOK, Places
  <2>3. QED BY <1>0, <1>6, <2>1, <2>2
          DEF IInv, TypeOK, ExclusiveMessenger, CallerInv, LiveInv, LivePoolIsWhole,
              Listed, StartPoll
<1>7. QED BY <1>1, <1>2, <1>3, <1>4, <1>5, <1>6

LEMMA NextPreserves == IInv /\ [Next]_vars => IInv'
<1> SUFFICES ASSUME IInv, [Next]_vars PROVE IInv'
  OBVIOUS
<1>1. CASE UNCHANGED vars
  BY <1>1 DEF vars, IInv, TypeOK, ExclusiveMessenger, CallerInv, LiveInv, LivePoolIsWhole, Listed
<1>2. CASE StartPoll
  <2>1. CASE Callers = {}
    BY <1>2, <2>1 DEF StartPoll, Callers
  <2>2. CASE Callers # {}
    BY <1>2, <2>2, QuietStepsPreserve
  <2>3. QED BY <2>1, <2>2
<1>3. CASE Destroy
  BY <1>3, DestroyPreserves
<1>4. ASSUME NEW c \in Callers, Get(c) \/ Receive(c) \/ Refuse(c) \/ ConnectFails(c)
      PROVE  IInv'
  BY <1>4, TakeIdlePreserves, QuietStepsPreserve DEF Get
<1>5. ASSUME NEW c \in Callers, Connect(c) \/ Release(c)
      PROVE  IInv'
  BY <1>5, ConnectPreserves, PutBackPreserves, HandOverPreserves, HandToClosedPreserves
     DEF Release
<1>6. QED BY <1>1, <1>2, <1>3, <1>4, <1>5 DEF Next

-----------------------------------------------------------------------------
(* The theorems *)

LEMMA SpecInvariant == Spec => []IInv
<1>1. QED BY InitEstablishes, NextPreserves, PTL DEF Spec

(* Every variable of the pool keeps its type in every behaviour: in
   particular Idle never goes negative, whatever Destroy left behind. *)
THEOREM PoolTypeOK == Spec => []TypeOK
<1>1. IInv => TypeOK
  BY DEF IInv
<1>2. QED BY <1>1, SpecInvariant, PTL

(* No connection is ever used by two goroutines of GetMessenger and
   ReleaseMessenger at once, nor idle while it is used, even after Destroy. *)
THEOREM PoolExclusive == Spec => []ExclusiveMessenger
<1>1. IInv => ExclusiveMessenger
  BY DEF IInv
<1>2. QED BY <1>1, SpecInvariant, PTL

(* Until Destroy the counter is the length of the list and no connection of
   NewClients leaks. *)
THEOREM PoolWhole == Spec => []LivePoolIsWhole
<1>1. IInv => LivePoolIsWhole
  BY DEF IInv
<1>2. QED BY <1>1, SpecInvariant, PTL

(* Until Destroy a queued request never waits beside an idle connection, and
   some caller has one to hand over. *)
THEOREM PoolWaiterHasHolder == Spec => []WaiterHasHolder
<1>1. ASSUME IInv, ~destroyed, ConnRequests # {}
      PROVE  Idle = 0 /\ \E c \in Callers \ ConnRequests : granted[c] # NoMessenger
  <2>1. Idle = 0 /\ Idle = Len(Messengers) /\ Messengers \in Seq(1..made)
    BY <1>1 DEF IInv, LiveInv, LivePoolIsWhole, TypeOK
  <2>2. Listed = {}
    BY <2>1 DEF Listed
  <2>3. 1 \in 1..Size
    BY PoolAssumption
  <2>4. PICK c \in Callers : granted[c] = 1
    BY <1>1, <2>2, <2>3 DEF IInv, LivePoolIsWhole
  <2>5. granted[c] # NoMessenger
    BY <2>4 DEF NoMessenger
  <2>6. c \notin ConnRequests
    BY <1>1, <2>5 DEF IInv, CallerInv
  <2>7. QED BY <2>1, <2>5, <2>6
<1>2. IInv => WaiterHasHolder
  BY <1>1 DEF WaiterHasHolder
<1>3. QED BY <1>2, SpecInvariant, PTL

-----------------------------------------------------------------------------
(* The pool implements MessengerLease. *)

LEMMA LeaseInit == Init => Lease!Init
<1> SUFFICES ASSUME Init PROVE Lease!Init
  OBVIOUS
<1>1. Listed = 1..Size
  BY PoolAssumption DEF Init, Listed
<1>2. QED BY <1>1 DEF Init, Lease!Init, NoMessenger, Lease!NoMessenger

LEMMA LeaseStep == IInv /\ [Next]_vars => [Lease!Next]_(Lease!vars)
<1> SUFFICES ASSUME IInv, [Next]_vars PROVE [Lease!Next]_(Lease!vars)
  OBVIOUS
<1> USE DEF NoMessenger, Lease!NoMessenger
<1>0. TypeOK /\ ExclusiveMessenger /\ CallerInv /\ LiveInv
  BY DEF IInv
<1>1. ASSUME Messengers' = Messengers, UNCHANGED <<granted, made, destroyed>>
      PROVE  UNCHANGED Lease!vars
  BY <1>1 DEF Listed, Lease!vars
<1>2. CASE UNCHANGED vars
  BY <1>1, <1>2 DEF vars
<1>3. CASE StartPoll
  BY <1>1, <1>3 DEF StartPoll
<1>4. CASE Destroy
  <2>1. Listed' = {}
    BY <1>4 DEF Destroy, Listed
  <2>2. Lease!Close
    BY <1>4, <2>1 DEF Destroy, Lease!Close
  <2>3. QED BY <2>2 DEF Lease!Next
<1>5. ASSUME NEW c \in Callers, TakeIdle(c)
      PROVE  Lease!Next
  <2>1. Distinct(Messengers) /\ Messengers \in Seq(1..made) /\ Messengers # <<>>
    BY <1>0, <1>5 DEF ExclusiveMessenger, Distinct, TypeOK, TakeIdle
  <2>2. Head(Messengers) \in Listed /\ Listed' = Listed \ {Head(Messengers)}
    BY <1>5, <2>1, TailElements, ListedElements DEF TakeIdle, FrontRemoved
  <2>3. granted[c] = NoMessenger
    BY <1>0, <1>5 DEF CallerInv, TakeIdle
  <2>4. Lease!Acquire(c)
    BY <1>5, <2>2, <2>3 DEF TakeIdle, Lease!Acquire
  <2>5. QED BY <2>4 DEF Lease!Next
<1>6. ASSUME NEW c \in Callers, PutBack(c)
      PROVE  Lease!Next
  <2>1. /\ Distinct(Messengers) /\ Messengers \in Seq(1..made)
        /\ granted[c] \in 1..made /\ granted[c] \notin Elements(Messengers)
    BY <1>0, <1>6, ListedElements
       DEF PutBack, ExclusiveMessenger, Distinct, TypeOK, CallerInv
  <2>2. Elements(Append(Messengers, granted[c])) = Elements(Messengers) \cup {granted[c]}
    <3> DEFINE g == granted[c]
               M == 1..made
    <3>1. /\ Messengers \in Seq(M) /\ g \in M
          /\ g \notin Elements(Messengers) /\ Distinct(Messengers)
      BY <2>1
    <3> HIDE DEF g, M
    <3>2. Elements(Append(Messengers, g)) = Elements(Messengers) \cup {g}
      BY <3>1, AppendElements
    <3>3. QED BY <3>2 DEF g
  <2>3. Listed' = Listed \cup {granted[c]}
    BY <1>6, <2>2, ListedElements DEF PutBack
  <2>4. Lease!Return(c)
    BY <1>0, <1>6, <2>3 DEF PutBack, CallerInv, Lease!Return
  <2>5. QED BY <2>4 DEF Lease!Next
<1>7. ASSUME NEW c \in Callers, NEW d \in Callers, HandOver(c, d)
      PROVE  Lease!Next
  <2>1. Lease!HandOver(c, d)
    BY <1>0, <1>7 DEF HandOver, Sent, CallerInv, Listed, Lease!HandOver
  <2>2. QED BY <2>1 DEF Lease!Next
<1>8. ASSUME NEW c \in Callers, NEW d \in Callers, HandToClosed(c, d)
      PROVE  Lease!Next
  <2>1. Lease!Lose(c)
    BY <1>0, <1>8 DEF HandToClosed, CallerInv, LiveInv, Listed, Lease!Lose
  <2>2. QED BY <2>1 DEF Lease!Next
<1>9. ASSUME NEW c \in Callers, Connect(c)
      PROVE  Lease!Next
  <2>1. Lease!Connect(c)
    BY <1>0, <1>9 DEF Connect, CallerInv, LiveInv, Listed, Lease!Connect
  <2>2. QED BY <2>1 DEF Lease!Next
<1>10. ASSUME NEW c \in Callers,
              Register(c) \/ TakeFromEmptyList(c) \/ Receive(c) \/ Refuse(c) \/ ConnectFails(c)
       PROVE  UNCHANGED Lease!vars
  BY <1>1, <1>10 DEF Register, TakeFromEmptyList, Receive, Refuse, ConnectFails
<1>11. QED BY <1>2, <1>3, <1>4, <1>5, <1>6, <1>7, <1>8, <1>9, <1>10
           DEF Next, Get, Release

(* Clients implements the lease for any number of callers and messengers:
   each step of GetMessenger, ReleaseMessenger, DeliverAction's own dialling
   and Destroy is a step of MessengerLease or leaves it unchanged. *)
THEOREM PoolImplementsLease == Spec => ImplementsLease
<1>1. QED BY SpecInvariant, LeaseInit, LeaseStep, PTL DEF Spec, ImplementsLease, Lease!Spec
=============================================================================
