----------------------------- MODULE BrokerProofs -----------------------------
(***************************************************************************)
(* Proofs about Broker for any set of frames, either way of counting a     *)
(* broken connection and any number of polls: its types, that Destroy      *)
(* finds no poll running, that results are whole and handled in order, and *)
(* that the broker implements ResultStream.                                *)
(***************************************************************************)
EXTENDS Broker, SequenceTheorems, TLAPS

(* The collector and Destroy: messages run during a poll only, and whoever
   is past ExitCh has seen the collector return. *)
CollectorInv ==
    /\ asking # {} => collector = "polling"
    /\ destroyer \in {"clients", "done"} <=> collector = "exited"
    /\ collector = "polling" => poll \in Polls

(* A frame whose connection is dialled again has a try left. *)
RetryInv == \A f \in broken : tries[f] < Tries

(* Where each roll is: started with its poll, gathering while the poll runs,
   sent while its result is in VariableCh or with the consumer. *)
RollInv ==
    /\ \A p \in Polls : roll[p].at = "unborn" <=> poll < p
    /\ \A p \in Polls :
          roll[p].at = "gathering" <=> p = poll /\ collector = "polling"
    /\ \A p \in Polls :
          roll[p].at = "sent" <=>
              p = consumer \/ (VariableCh # <<>> /\ p = Head(VariableCh))
    /\ VariableCh # <<>> => Head(VariableCh) # consumer

(* What a roll has gathered when the frames still asked are left out. *)
Whole(r, frames) ==
    /\ r.values \cup r.errs \cup r.dropped = frames
    /\ r.values \cap r.errs = {}
    /\ r.dropped \cap (r.values \cup r.errs) = {}

GatheredInv ==
    \A p \in Polls :
        /\ roll[p].at = "unborn" => Whole(roll[p], {})
        /\ roll[p].at = "gathering" => Whole(roll[p], Frames \ asking)
        /\ roll[p].at \in {"ready", "sent"} => Whole(roll[p], Frames)

IInv == TypeOK /\ CollectorInv /\ RetryInv /\ RollInv /\ GatheredInv

-----------------------------------------------------------------------------
LEMMA BoundIsNat == MaxPolls \in Nat
BY BrokerAssumption DEF BrokerAssumption

(* The results channel has room for one. *)

LEMMA ChannelOfOne ==
    ASSUME NEW S, NEW s \in Seq(S), Len(s) <= 1
    PROVE  /\ s # <<>> => Len(s) = 1 /\ Head(s) \in S /\ Tail(s) = <<>>
           /\ Len(s) < 1 => s = <<>>
<1>1. Len(s) \in Nat
  OBVIOUS
<1>2. s # <<>> => Len(s) # 0
  BY EmptySeq, Zenon
<1>3. \A n \in Nat : n <= 1 /\ n # 0 => n = 1
  OBVIOUS
<1>4. s # <<>> => Len(s) = 1
  BY <1>1, <1>2, <1>3, Zenon
<1>5. s # <<>> => Head(s) \in S /\ Tail(s) \in Seq(S) /\ Len(Tail(s)) = Len(s) - 1
  BY HeadTailProperties
<1>6. QED BY <1>1, <1>2, <1>4, <1>5

LEMMA SentIntoEmpty ==
    ASSUME NEW S, NEW x \in S
    PROVE  /\ Append(<<>>, x) \in Seq(S)
           /\ Len(Append(<<>>, x)) = 1
           /\ Append(<<>>, x) # <<>>
           /\ Head(Append(<<>>, x)) = x
OBVIOUS

-----------------------------------------------------------------------------
(* The invariant is inductive. *)

LEMMA InitEstablishes == Init => IInv
<1> SUFFICES ASSUME Init PROVE IInv
  OBVIOUS
<1>1. TypeOK
  <2>1. roll \in [Polls -> Roll]
    BY DEF Init, Roll, Empty
  <2>2. tries \in [Frames -> 0..Tries]
    BY DEF Init, Tries
  <2>3. VariableCh \in Seq(Polls) /\ Len(VariableCh) <= 1 /\ handled \in Seq(Polls)
    BY DEF Init
  <2>4. poll \in 0..MaxPolls /\ consumer \in 0..MaxPolls
    BY BoundIsNat DEF Init
  <2>5. QED BY <2>1, <2>2, <2>3, <2>4 DEF Init, TypeOK
<1>2. CollectorInv /\ RetryInv
  BY DEF Init, CollectorInv, RetryInv
<1>3. RollInv
  BY DEF Init, RollInv, Empty, Polls
<1>4. GatheredInv
  BY DEF Init, GatheredInv, Whole, Empty
<1>5. QED BY <1>1, <1>2, <1>3, <1>4 DEF IInv

LEMMA CollectKeeps == IInv /\ Collect => IInv'
<1> SUFFICES ASSUME IInv, Collect PROVE IInv'
  OBVIOUS
<1> USE DEF IInv
<1>1. CASE StartPoll
  <2>1. TypeOK'
    <3>1. roll' \in [Polls -> Roll]
      BY <1>1 DEF StartPoll, TypeOK, Roll
    <3>2. poll' \in 0..MaxPolls
      BY <1>1, BoundIsNat DEF StartPoll, TypeOK
    <3>3. QED BY <1>1, <3>1, <3>2 DEF StartPoll, TypeOK
  <2>2. CollectorInv'
    BY <1>1, BoundIsNat DEF StartPoll, ExitOffered, CollectorInv, TypeOK, Polls
  <2>3. RetryInv' BY <1>1 DEF StartPoll, RetryInv
  <2>4. RollInv' BY <1>1 DEF StartPoll, RollInv, TypeOK, Roll, Polls
  <2>5. GatheredInv'
    BY <1>1 DEF StartPoll, GatheredInv, RollInv, Whole, TypeOK, Roll, Polls
  <2>6. QED BY <2>1, <2>2, <2>3, <2>4, <2>5
<1>2. CASE EndPoll
  <2>1. TypeOK' BY <1>2 DEF EndPoll, TypeOK, Roll, Polls
  <2>2. CollectorInv' BY <1>2 DEF EndPoll, AllDone, CollectorInv
  <2>3. RetryInv' BY <1>2 DEF EndPoll, RetryInv
  <2>4. RollInv' BY <1>2 DEF EndPoll, RollInv, CollectorInv, TypeOK, Roll, Polls
  <2>5. GatheredInv'
    BY <1>2 DEF EndPoll, AllDone, GatheredInv, RollInv, CollectorInv, Whole, TypeOK, Roll, Polls
  <2>6. QED BY <2>1, <2>2, <2>3, <2>4, <2>5
<1>3. CASE Pause \/ TakeExit
  <2>1. TypeOK' BY <1>3 DEF Pause, TakeExit, TypeOK
  <2>2. CollectorInv' BY <1>3 DEF Pause, TakeExit, ExitOffered, CollectorInv
  <2>3. RetryInv' BY <1>3 DEF Pause, TakeExit, RetryInv
  <2>4. RollInv' BY <1>3 DEF Pause, TakeExit, RollInv
  <2>5. GatheredInv' BY <1>3 DEF Pause, TakeExit, GatheredInv
  <2>6. QED BY <2>1, <2>2, <2>3, <2>4, <2>5
<1>4. QED BY <1>1, <1>2, <1>3 DEF Collect

(* A message() adds to what its roll has gathered and moves no roll. *)
LEMMA MessageMovesNoRoll ==
    ASSUME NEW f \in Frames, IInv, Message(f)
    PROVE  /\ f \in asking /\ collector = "polling" /\ poll \in Polls
           /\ roll[poll].at = "gathering"
           /\ UNCHANGED <<collector, poll, VariableCh, consumer, handled,
                          destroyer, backlog, panicked>>
           /\ \A p \in Polls : roll'[p].at = roll[p].at
<1>1. /\ f \in asking /\ collector = "polling" /\ poll \in Polls
      /\ roll[poll].at = "gathering"
      /\ UNCHANGED <<collector, poll, VariableCh, consumer, handled,
                     destroyer, backlog, panicked>>
  BY DEF Message, Ask, Redial, GiveUp, Drop, IInv, CollectorInv, RollInv, TypeOK
<1>2. \/ roll' = roll
      \/ roll' = [roll EXCEPT ![poll].values = @ \cup {f}]
      \/ roll' = [roll EXCEPT ![poll].errs = @ \cup {f}]
      \/ roll' = [roll EXCEPT ![poll].dropped = @ \cup {f}]
  BY DEF Message, Ask, Redial, GiveUp, Drop, SendValues, SendError
<1>3. roll \in [Polls -> Roll]
  BY DEF IInv, TypeOK
<1>4. \A p \in Polls : roll'[p].at = roll[p].at
  BY <1>1, <1>2, <1>3 DEF Roll
<1>5. QED BY <1>1, <1>4

LEMMA MessageKeeps ==
    ASSUME NEW f \in Frames, IInv, Message(f)
    PROVE  IInv'
<1> USE DEF IInv
<1>0. /\ f \in asking /\ collector = "polling" /\ poll \in Polls
      /\ roll[poll].at = "gathering"
      /\ UNCHANGED <<collector, poll, VariableCh, consumer, handled, destroyer>>
  BY MessageMovesNoRoll
<1>1. TypeOK'
  <2>1. roll' \in [Polls -> Roll]
    <3>1. /\ roll \in [Polls -> Roll]
          /\ roll[poll] \in Roll
          /\ roll[poll].values \cup {f} \in SUBSET Frames
          /\ roll[poll].errs \cup {f} \in SUBSET Frames
          /\ roll[poll].dropped \cup {f} \in SUBSET Frames
      BY <1>0 DEF TypeOK, Roll
    <3>2. \/ roll' = roll
          \/ roll' = [roll EXCEPT ![poll].values = @ \cup {f}]
          \/ roll' = [roll EXCEPT ![poll].errs = @ \cup {f}]
          \/ roll' = [roll EXCEPT ![poll].dropped = @ \cup {f}]
      BY DEF Message, Ask, Redial, GiveUp, Drop, SendValues, SendError
    <3>3. QED BY <3>1, <3>2 DEF Roll
  <2>2. tries' \in [Frames -> 0..Tries]
    BY DEF Message, Ask, Redial, GiveUp, Drop, SendValues, SendError, Done,
           Retried, RetryInv, TypeOK, Tries
  <2>3. /\ asking' \subseteq Frames
        /\ broken' \subseteq asking'
        /\ UNCHANGED <<backlog, panicked>>
    BY DEF Message, Ask, Redial, GiveUp, Drop, SendValues, SendError, Done,
           TypeOK
  <2>4. QED BY <1>0, <2>1, <2>2, <2>3 DEF TypeOK
<1>2. CollectorInv'
  BY <1>0 DEF CollectorInv
<1>3. RetryInv'
  BY DEF Message, Ask, Redial, GiveUp, Drop, SendValues, SendError, Done,
         Retried, RetryInv, TypeOK, Tries
<1>4. \A p \in Polls : roll'[p].at = roll[p].at
  BY MessageMovesNoRoll
<1>5. RollInv'
  BY <1>0, <1>4 DEF RollInv
<1>6. GatheredInv'
  <2>1. \A p \in Polls : p # poll => roll'[p] = roll[p]
    BY DEF Message, Ask, Redial, GiveUp, Drop, SendValues, SendError, Done, TypeOK
  <2>2. Whole(roll[poll], Frames \ asking)
    BY <1>0 DEF GatheredInv
  <2>3. Whole(roll'[poll], Frames \ asking')
    <3>1. CASE UNCHANGED <<asking, roll>>
      BY <2>2, <3>1
    <3>2. CASE SendValues(f)
      BY <1>0, <2>2, <3>2 DEF SendValues, Done, Whole, TypeOK, Roll
    <3>3. CASE SendError(f)
      BY <1>0, <2>2, <3>3 DEF SendError, Done, Whole, TypeOK, Roll
    <3>4. CASE Drop(f)
      BY <1>0, <2>2, <3>4 DEF Drop, Done, Whole, TypeOK, Roll
    <3>5. QED BY <3>1, <3>2, <3>3, <3>4 DEF Message, Ask, Redial, GiveUp
  <2>4. \A p \in Polls : p # poll => roll[p].at # "gathering"
    BY DEF RollInv
  <2>5. QED BY <1>0, <1>4, <2>1, <2>3, <2>4 DEF GatheredInv
<1>7. QED BY <1>1, <1>2, <1>3, <1>5, <1>6

LEMMA RollKeeps ==
    ASSUME NEW p \in Polls, IInv, RollVariable(p)
    PROVE  IInv'
<1> USE DEF IInv
<1>1. CASE RollSends(p)
  <2>1. /\ VariableCh = <<>>
        /\ VariableCh' \in Seq(Polls) /\ Len(VariableCh') = 1
        /\ VariableCh' # <<>> /\ Head(VariableCh') = p
    <3>1. VariableCh \in Seq(Polls) /\ Len(VariableCh) < 1 /\ Len(VariableCh) <= 1
      BY <1>1 DEF RollSends, MaySend, HasRoom, Capacity, TypeOK
    <3>2. VariableCh = <<>>
      BY <3>1, ChannelOfOne
    <3>3. VariableCh' = Append(<<>>, p)
      BY <1>1, <3>2 DEF RollSends
    <3>4. QED BY <3>2, <3>3, SentIntoEmpty
  <2>2. p # consumer
    BY <1>1 DEF RollSends, RollInv
  <2>3. TypeOK'
    <3>1. roll' \in [Polls -> Roll]
      BY <1>1 DEF RollSends, AfterSend, TypeOK, Roll
    <3>2. QED BY <1>1, <2>1, <3>1 DEF RollSends, TypeOK
  <2>4. CollectorInv' BY <1>1 DEF RollSends, CollectorInv
  <2>5. RetryInv' BY <1>1 DEF RollSends, RetryInv
  <2>6. RollInv'
    BY <1>1, <2>1, <2>2 DEF RollSends, AfterSend, RollInv, TypeOK, Roll
  <2>7. GatheredInv'
    BY <1>1 DEF RollSends, AfterSend, GatheredInv, Whole, TypeOK, Roll
  <2>8. QED BY <2>3, <2>4, <2>5, <2>6, <2>7
<1>2. CASE RollPanics(p)
  <2>1. TypeOK' BY <1>2 DEF RollPanics, TypeOK
  <2>2. CollectorInv' /\ RetryInv' /\ RollInv' /\ GatheredInv'
    BY <1>2 DEF RollPanics, CollectorInv, RetryInv, RollInv, GatheredInv
  <2>3. QED BY <2>1, <2>2
<1>3. QED BY <1>1, <1>2 DEF RollVariable

LEMMA ConsumeKeeps == IInv /\ Consume => IInv'
<1> SUFFICES ASSUME IInv, Consume PROVE IInv'
  OBVIOUS
<1> USE DEF IInv
<1>1. CASE TakeResult
  <2>1. VariableCh # <<>> /\ Head(VariableCh) \in Polls /\ VariableCh' = <<>>
    <3>1. VariableCh \in Seq(Polls) /\ Len(VariableCh) <= 1 /\ VariableCh # <<>>
      BY <1>1 DEF TakeResult, HasResult, TypeOK
    <3>2. Head(VariableCh) \in Polls /\ Tail(VariableCh) = <<>>
      BY <3>1, ChannelOfOne
    <3>3. QED BY <1>1, <3>1, <3>2 DEF TakeResult
  <2>2. TypeOK'
    <3>1. consumer' \in 0..MaxPolls
      BY <1>1, <2>1, BoundIsNat DEF TakeResult, Polls
    <3>2. VariableCh' \in Seq(Polls) /\ Len(VariableCh') <= 1
      BY <2>1
    <3>3. QED BY <1>1, <3>1, <3>2 DEF TakeResult, TypeOK
  <2>3. CollectorInv' BY <1>1 DEF TakeResult, CollectorInv
  <2>4. RetryInv' BY <1>1 DEF TakeResult, RetryInv
  <2>5. RollInv'
    <3>1. consumer = 0 /\ consumer \notin Polls
      BY <1>1, BoundIsNat DEF TakeResult, Polls
    <3>2. QED BY <1>1, <2>1, <3>1 DEF TakeResult, RollInv
  <2>6. GatheredInv' BY <1>1 DEF TakeResult, GatheredInv
  <2>7. QED BY <2>2, <2>3, <2>4, <2>5, <2>6
<1>2. CASE HandleResult
  <2>1. consumer \in Polls /\ roll[consumer].at = "sent"
    BY <1>2, BoundIsNat DEF HandleResult, TypeOK, RollInv, Polls
  <2>2. TypeOK'
    <3>1. roll' \in [Polls -> Roll]
      BY <1>2 DEF HandleResult, Empty, TypeOK, Roll
    <3>2. handled' \in Seq(Polls)
      BY <1>2, <2>1 DEF HandleResult, TypeOK
    <3>3. consumer' \in 0..MaxPolls
      BY <1>2, BoundIsNat DEF HandleResult
    <3>4. QED BY <1>2, <3>1, <3>2, <3>3 DEF HandleResult, TypeOK
  <2>3. CollectorInv' BY <1>2 DEF HandleResult, CollectorInv
  <2>4. RetryInv' BY <1>2 DEF HandleResult, RetryInv
  <2>5. /\ \A p \in Polls : p # consumer => roll'[p] = roll[p]
        /\ roll'[consumer].at = "gone"
    BY <1>2, <2>1 DEF HandleResult, Empty, TypeOK
  <2>6. RollInv'
    <3>1. consumer' = 0 /\ 0 \notin Polls
      BY <1>2, BoundIsNat DEF HandleResult, Polls
    <3>2. UNCHANGED <<poll, collector, VariableCh>>
      BY <1>2 DEF HandleResult
    <3>3. VariableCh # <<>> => Head(VariableCh) # consumer /\ Head(VariableCh) \in Polls
      BY ChannelOfOne DEF RollInv, TypeOK
    <3>4. \A p \in Polls :
             /\ roll'[p].at = "unborn" <=> poll' < p
             /\ roll'[p].at = "gathering" <=> p = poll' /\ collector' = "polling"
             /\ roll'[p].at = "sent" <=>
                   p = consumer' \/ (VariableCh' # <<>> /\ p = Head(VariableCh'))
      <4> TAKE p \in Polls
      <4>1. CASE p = consumer
        BY <4>1, <2>1, <2>5, <3>1, <3>2, <3>3 DEF RollInv
      <4>2. CASE p # consumer
        BY <4>2, <2>5, <3>1, <3>2 DEF RollInv
      <4>3. QED BY <4>1, <4>2
    <3>5. VariableCh' # <<>> => Head(VariableCh') # consumer'
      BY <3>1, <3>2, <3>3
    <3>6. QED BY <3>4, <3>5 DEF RollInv
  <2>7. GatheredInv'
    BY <1>2, <2>5 DEF HandleResult, GatheredInv
  <2>8. QED BY <2>2, <2>3, <2>4, <2>6, <2>7
<1>3. QED BY <1>1, <1>2 DEF Consume

LEMMA DestroyKeeps == IInv /\ (Destroy \/ CloseVariableCh) => IInv'
<1> SUFFICES ASSUME IInv, Destroy \/ CloseVariableCh PROVE IInv'
  OBVIOUS
<1> USE DEF IInv
<1>1. TypeOK'
  BY DEF Destroy, CloseVariableCh, ExitBlocks, TypeOK
<1>2. CollectorInv'
  BY DEF Destroy, CloseVariableCh, ExitBlocks, CollectorInv, TypeOK
<1>3. RetryInv' /\ RollInv' /\ GatheredInv'
  BY DEF Destroy, CloseVariableCh, RetryInv, RollInv, GatheredInv
<1>4. QED BY <1>1, <1>2, <1>3

LEMMA NextKeeps == IInv /\ [Next]_vars => IInv'
<1> SUFFICES ASSUME IInv, [Next]_vars PROVE IInv'
  OBVIOUS
<1>1. CASE UNCHANGED vars
  BY <1>1 DEF vars, IInv, TypeOK, CollectorInv, RetryInv, RollInv, GatheredInv
<1>2. CASE Next
  BY <1>2, CollectKeeps, MessageKeeps, RollKeeps, ConsumeKeeps, DestroyKeeps DEF Next
<1>3. QED BY <1>1, <1>2

(* The inductive invariant holds of every behaviour of the broker. *)
LEMMA SpecInvariant == Spec => []IInv
<1>1. QED BY InitEstablishes, NextKeeps, PTL DEF Spec

-----------------------------------------------------------------------------
(* Order: while no two rolls were ready at a time, everything handled is
   behind what is with the consumer, that behind what VariableCh holds, and
   that behind the roll that is ready. *)

Pending(p) == roll[p].at \in {"sent", "ready"}

HandledInv == \A i \in DOMAIN handled : roll[handled[i]].at = "gone"

OrderInv ==
    ~backlog =>
        /\ \A p, q \in Polls :
              roll[p].at = "ready" /\ roll[q].at = "ready" => p = q
        /\ \A i, j \in DOMAIN handled : i < j => handled[i] < handled[j]
        /\ \A i \in DOMAIN handled, p \in Polls : Pending(p) => handled[i] < p
        /\ \A p \in Polls :
              consumer # 0 /\ p # consumer /\ Pending(p) => consumer < p
        /\ \A p, q \in Polls :
              roll[p].at = "sent" /\ roll[q].at = "ready" => p < q

OInv == IInv /\ HandledInv /\ OrderInv

LEMMA AppendedLast ==
    ASSUME NEW S, NEW s \in Seq(S), NEW x \in S
    PROVE  /\ DOMAIN s = 1..Len(s) /\ Len(s) \in Nat
           /\ DOMAIN Append(s, x) = 1..(Len(s) + 1)
           /\ \A i \in 1..Len(s) : Append(s, x)[i] = s[i]
           /\ Append(s, x)[Len(s) + 1] = x
OBVIOUS

LEMMA HandledPolls ==
    TypeOK => /\ DOMAIN handled = 1..Len(handled) /\ Len(handled) \in Nat
              /\ \A i \in DOMAIN handled : handled[i] \in Polls
BY DEF TypeOK

(* A step that changes neither the place of a roll nor what is handled. *)
LEMMA SamePlaces ==
    ASSUME OInv, UNCHANGED <<handled, consumer, backlog>>,
           \A p \in Polls : roll'[p].at = roll[p].at
    PROVE  HandledInv' /\ OrderInv'
BY HandledPolls DEF OInv, IInv, HandledInv, OrderInv, Pending

LEMMA OrderKept == OInv /\ [Next]_vars => HandledInv' /\ OrderInv'
<1> SUFFICES ASSUME OInv, [Next]_vars PROVE HandledInv' /\ OrderInv'
  OBVIOUS
<1> USE HandledPolls DEF OInv, IInv
<1>1. CASE UNCHANGED vars
  BY <1>1, SamePlaces DEF vars
<1>2. CASE StartPoll
  <2>1. \A p \in Polls : p # poll + 1 => roll'[p].at = roll[p].at
    BY <1>2 DEF StartPoll, TypeOK
  <2>2. poll + 1 \in Polls /\ roll[poll + 1].at = "unborn" /\ roll'[poll + 1].at = "gathering"
    BY <1>2, BoundIsNat DEF StartPoll, TypeOK, Roll, RollInv, Polls
  <2>3. UNCHANGED <<handled, consumer, backlog>>
    BY <1>2 DEF StartPoll
  <2>4. QED BY <2>1, <2>2, <2>3 DEF HandledInv, OrderInv, Pending
<1>3. CASE EndPoll
  <2>1. /\ UNCHANGED <<handled, consumer, poll>>
        /\ \A p \in Polls : p # poll => roll'[p].at = roll[p].at
        /\ poll \in Polls /\ roll[poll].at = "gathering" /\ roll'[poll].at = "ready"
    BY <1>3 DEF EndPoll, TypeOK, Roll, RollInv, CollectorInv
  <2>2. HandledInv'
    BY <2>1 DEF HandledInv
  <2>3. \A p \in Polls : roll[p].at \notin {"unborn", "gathering"} => p < poll
    BY <2>1 DEF RollInv, TypeOK, Polls
  <2>4. ~backlog' => ~backlog /\ \A p \in Polls : roll[p].at # "ready"
    BY <1>3 DEF EndPoll, Ready
  <2>5. consumer # 0 => consumer \in Polls /\ roll[consumer].at = "sent"
    BY BoundIsNat DEF TypeOK, RollInv, Polls
  <2>6. OrderInv'
    BY <2>1, <2>3, <2>4, <2>5 DEF HandledInv, OrderInv, Pending
  <2>7. QED BY <2>2, <2>6
<1>4. CASE Pause \/ TakeExit \/ Destroy \/ CloseVariableCh
  BY <1>4, SamePlaces DEF Pause, TakeExit, Destroy, CloseVariableCh
<1>5. ASSUME NEW f \in Frames, Message(f)
      PROVE  HandledInv' /\ OrderInv'
  <2>1. /\ UNCHANGED <<handled, consumer, backlog>>
        /\ \A p \in Polls : roll'[p].at = roll[p].at
    BY <1>5, MessageMovesNoRoll
  <2>2. QED BY <2>1, SamePlaces
<1>6. ASSUME NEW p \in Polls, RollVariable(p)
      PROVE  HandledInv' /\ OrderInv'
  <2>1. CASE RollSends(p)
    <3>1. /\ UNCHANGED <<handled, consumer, backlog>>
          /\ \A q \in Polls : q # p => roll'[q].at = roll[q].at
          /\ roll[p].at = "ready" /\ roll'[p].at = "sent"
      BY <2>1 DEF RollSends, AfterSend, TypeOK, Roll
    <3>2. QED BY <3>1 DEF HandledInv, OrderInv, Pending
  <2>2. CASE RollPanics(p)
    BY <2>2, SamePlaces DEF RollPanics
  <2>3. QED BY <1>6, <2>1, <2>2 DEF RollVariable
<1>7. CASE TakeResult
  <2>1. VariableCh # <<>> /\ consumer' = Head(VariableCh) /\ consumer' \in Polls
    BY <1>7, ChannelOfOne DEF TakeResult, HasResult, TypeOK
  <2>2. consumer = 0 /\ 0 \notin Polls /\ UNCHANGED <<roll, handled, backlog>>
    BY <1>7, BoundIsNat DEF TakeResult, Polls
  <2>3. \A p \in Polls : roll[p].at = "sent" <=> p = consumer'
    BY <2>1, <2>2 DEF RollInv
  <2>4. QED BY <2>1, <2>2, <2>3 DEF HandledInv, OrderInv, Pending
<1>8. CASE HandleResult
  <2>1. consumer \in Polls /\ roll[consumer].at = "sent"
    BY <1>8, BoundIsNat DEF HandleResult, TypeOK, RollInv, Polls
  <2>2. /\ \A p \in Polls : p # consumer => roll'[p] = roll[p]
        /\ roll'[consumer].at = "gone"
        /\ UNCHANGED backlog /\ consumer' = 0
    BY <1>8, <2>1 DEF HandleResult, Empty, TypeOK
  <2>3. /\ DOMAIN handled' = 1..(Len(handled) + 1)
        /\ \A i \in DOMAIN handled : handled'[i] = handled[i]
        /\ handled'[Len(handled) + 1] = consumer
    BY <1>8, <2>1, AppendedLast DEF HandleResult, TypeOK
  <2>4. HandledInv'
    BY <2>2, <2>3 DEF HandledInv
  <2>5. ASSUME ~backlog
        PROVE  /\ \A i, j \in DOMAIN handled' : i < j => handled'[i] < handled'[j]
               /\ \A i \in DOMAIN handled', p \in Polls :
                     roll'[p].at \in {"sent", "ready"} => handled'[i] < p
    <3>1. \A i \in DOMAIN handled : handled[i] < consumer
      BY <2>1, <2>5 DEF OrderInv, Pending
    <3>2. \A p \in Polls : p # consumer /\ Pending(p) => consumer < p
      BY <1>8, <2>5 DEF OrderInv, HandleResult
    <3>3. QED BY <2>1, <2>2, <2>3, <2>5, <3>1, <3>2 DEF OrderInv, Pending
  <2>6. OrderInv'
    BY <2>1, <2>2, <2>5 DEF OrderInv, Pending
  <2>7. QED BY <2>4, <2>6
<1>9. QED BY <1>1, <1>2, <1>3, <1>4, <1>5, <1>6, <1>7, <1>8
          DEF Next, Collect, Consume

LEMMA InitOrder == Init => OInv
BY InitEstablishes DEF Init, OInv, HandledInv, OrderInv, Empty

LEMMA OrderInvariant == Spec => []OInv
<1>1. OInv /\ [Next]_vars => OInv'
  BY NextKeeps, OrderKept DEF OInv
<1>2. QED BY InitOrder, <1>1, PTL DEF Spec

-----------------------------------------------------------------------------
(* The broker keeps its types: in particular VariableCh never holds more than
   its one place. *)
THEOREM BrokerTypeOK == Spec => []TypeOK
BY SpecInvariant, PTL DEF IInv

(* Past ExitCh the collector has returned and no message() runs, so Destroy
   closes idle connections only. *)
THEOREM BrokerDestroyedBetweenPolls == Spec => []DestroyedBetweenPolls
<1>1. IInv => DestroyedBetweenPolls
  BY DEF IInv, CollectorInv, DestroyedBetweenPolls
<1>2. QED BY SpecInvariant, <1>1, PTL

(* What rollVariable() sends accounts for each frame of its poll once. *)
THEOREM BrokerResultsAreWhole == Spec => []ResultsAreWhole
<1>1. IInv => ResultsAreWhole
  BY DEF IInv, GatheredInv, Whole, ResultsAreWhole
<1>2. QED BY SpecInvariant, <1>1, PTL

(* While no two rolls were ready at a time the manager handles results in
   the order of the polls, each once. *)
THEOREM BrokerResultsInOrder == Spec => []ResultsInOrder
<1>1. OInv => ResultsInOrder
  BY DEF OInv, OrderInv, ResultsInOrder
<1>2. QED BY OrderInvariant, <1>1, PTL

-----------------------------------------------------------------------------
(* The refinement of ResultStream. *)

LEMMA StreamInit == Init => Stream!Init
BY DEF Init, Stream!Init, Closed

(* A step that leaves VariableCh, its result and Destroy alone. *)
LEMMA StreamStutters ==
    ASSUME UNCHANGED <<VariableCh, destroyer>>,
           VariableCh # <<>> =>
               roll'[Head(VariableCh)].errs = roll[Head(VariableCh)].errs
    PROVE  UNCHANGED Stream!vars
BY DEF Stream!vars, Closed

LEMMA StreamStep == IInv /\ [Next]_vars => [Stream!Next]_(Stream!vars)
<1> SUFFICES ASSUME IInv, [Next]_vars PROVE [Stream!Next]_(Stream!vars)
  OBVIOUS
<1> USE DEF IInv
<1>0. VariableCh # <<>> =>
         /\ Head(VariableCh) \in Polls
         /\ Tail(VariableCh) = <<>>
         /\ roll[Head(VariableCh)].at = "sent"
         /\ Head(VariableCh) # consumer
  BY ChannelOfOne DEF TypeOK, RollInv
<1>1. CASE UNCHANGED vars
  BY <1>1, StreamStutters DEF vars
<1>2. CASE StartPoll \/ EndPoll
  <2>1. roll \in [Polls -> Roll]
    BY DEF TypeOK
  <2>2. UNCHANGED <<VariableCh, destroyer>>
    BY <1>2 DEF StartPoll, EndPoll
  <2>3. \A p \in Polls : roll'[p].errs = roll[p].errs
    BY <1>2, <2>1 DEF StartPoll, EndPoll, Roll
  <2>4. QED BY <1>0, <2>2, <2>3, StreamStutters
<1>3. CASE Pause
  BY <1>3, StreamStutters DEF Pause
<1>4. CASE TakeExit \/ Destroy
  <2>1. UNCHANGED <<VariableCh, roll>> /\ destroyer # "done" /\ destroyer' # "done"
    BY <1>4 DEF TakeExit, ExitOffered, Destroy, ExitBlocks
  <2>2. QED BY <2>1 DEF Stream!vars, Closed
<1>5. ASSUME NEW f \in Frames, Message(f)
      PROVE  UNCHANGED Stream!vars
  <2>1. poll \in Polls /\ roll[poll].at = "gathering" /\ UNCHANGED <<VariableCh, destroyer>>
    BY <1>5, MessageMovesNoRoll
  <2>2. \A p \in Polls : p # poll => roll'[p] = roll[p]
    BY <1>5 DEF Message, Ask, Redial, GiveUp, Drop, SendValues, SendError, Done, TypeOK
  <2>3. VariableCh # <<>> => Head(VariableCh) # poll
    BY <1>0, <2>1
  <2>4. QED BY <1>0, <2>1, <2>2, <2>3, StreamStutters
<1>6. ASSUME NEW p \in Polls, RollSends(p)
      PROVE  Stream!Next
  <2>1. VariableCh = <<>> /\ VariableCh' # <<>>
    <3>1. VariableCh \in Seq(Polls) /\ Len(VariableCh) < 1 /\ Len(VariableCh) <= 1
      BY <1>6 DEF RollSends, MaySend, HasRoom, Capacity, TypeOK
    <3>2. VariableCh = <<>>
      BY <3>1, ChannelOfOne
    <3>3. QED BY <1>6, <3>2, SentIntoEmpty DEF RollSends
  <2>2. ~Closed /\ UNCHANGED destroyer
    BY <1>6 DEF RollSends, MaySend
  <2>3. Stream!Produce
    BY <2>1, <2>2 DEF Stream!Produce, Closed
  <2>4. QED BY <2>3 DEF Stream!Next
<1>7. ASSUME NEW p \in Polls, RollPanics(p)
      PROVE  UNCHANGED Stream!vars
  BY <1>7, StreamStutters DEF RollPanics
<1>8. CASE TakeResult
  <2>1. VariableCh # <<>> /\ VariableCh' = <<>> /\ UNCHANGED destroyer
    BY <1>0, <1>8 DEF TakeResult, HasResult
  <2>2. Stream!Take
    BY <2>1 DEF Stream!Take, Closed
  <2>3. QED BY <2>2 DEF Stream!Next
<1>9. CASE HandleResult
  BY <1>0, <1>9, StreamStutters DEF HandleResult, TypeOK
<1>10. CASE CloseVariableCh
  <2>1. Stream!Close
    BY <1>10 DEF CloseVariableCh, Stream!Close, Closed
  <2>2. QED BY <2>1 DEF Stream!Next
<1>11. QED BY <1>1, <1>2, <1>3, <1>4, <1>5, <1>6, <1>7, <1>8, <1>9, <1>10
           DEF Next, Collect, RollVariable, Consume

(* The broker implements the results stream for any frames and polls: one
   result at a time, each taken once, none after close(VariableCh). *)
THEOREM BrokerImplementsStream == Spec => ImplementsStream
<1>1. QED BY SpecInvariant, StreamInit, StreamStep, PTL DEF Spec, ImplementsStream, Stream!Spec
=============================================================================
