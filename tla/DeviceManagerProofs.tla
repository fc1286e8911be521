------------------------- MODULE DeviceManagerProofs -------------------------
(***************************************************************************)
(* Proofs about DeviceManager, for any devices, requests, brokers and       *)
(* revisions.                                                               *)
(*                                                                          *)
(* First, until Shutdown begins the map brokers names running brokers only, *)
(* each of its own device, whatever creates, deletes, switches, updates and *)
(* probes run at the same time.  It is what keeps Destroy from being called *)
(* a second time on a broker whose collector has gone.                      *)
(*                                                                          *)
(* Then the types, and what the manager guarantees a device on which no two *)
(* operations ever ran at the same time, whatever runs on the other         *)
(* devices, whatever late results come in, and through a shutdown.  The     *)
(* argument is an assertion for every place an operation can be at, about   *)
(* the maps, the store and the status of its device, which nobody else      *)
(* changes but for the status a late result sets.                           *)
(***************************************************************************)
EXTENDS DeviceManager, TLAPS

(* Where a thread has a device. *)
Inside == {"remove", "save", "replace", "send", "load", "cancel",
           "destroying", "ready", "opened", "register"}

TypesInv ==
    /\ brokers \in [Ids -> Brokers \cup {None}]
    /\ heartBeat \in [Ids -> Revs \cup {None}]
    /\ devices \in [Ids -> Revs \cup {None}]
    /\ made \in [Ids -> 0..MaxRev]
    /\ live \subseteq Brokers
    /\ deviceOf \in [Brokers -> Ids \cup {None}]
    /\ th \in [Threads -> Thread]
    /\ \A t \in Threads : th[t].pc \in Inside => th[t].id \in Ids
    /\ \A t \in Threads : th[t].pc = "opened" => th[t].broker \in Brokers
    /\ th[Main].pc \in {"new", "shutdown", "closing", "done"}

(* Only the holder of mu is in a Destroy, and of the broker the map names. *)
DestroyingInv ==
    \A t \in Threads :
        th[t].pc = "destroying" =>
            /\ mu = t
            /\ th[t].broker = brokers[th[t].id]
            /\ th[t].broker # None

(* A broker that NewBroker returned and readyCollect has not yet put in the
   map runs no collector and is with that thread only. *)
OpenedInv ==
    /\ \A t \in Threads :
          th[t].pc = "opened" => th[t].broker \in Brokers \ live
    /\ \A s, t \in Threads :
          s # t /\ th[s].pc = "opened" /\ th[t].pc = "opened" =>
              th[s].broker # th[t].broker

MappedInv ==
    \A id \in Ids :
        brokers[id] # None => brokers[id] \in live /\ deviceOf[brokers[id]] = id

IInv ==
    /\ TypesInv
    /\ th[Main].pc = "new" => DestroyingInv /\ OpenedInv /\ MappedInv

-----------------------------------------------------------------------------
(* Facts about the constants and records. *)

LEMMA Constants ==
    /\ Main \in Threads /\ Listener \in Threads /\ Heartbeat \in Threads
    /\ Requests \subseteq Threads
    /\ Main \notin Requests /\ Main # Listener /\ Main # Heartbeat
    /\ None \notin Brokers /\ None \notin Ids /\ None \notin Threads
BY ManagerAssumption DEF ManagerAssumption, Threads

LEMMA AtIsThread ==
    ASSUME NEW pc \in Places
    PROVE  At(pc) \in Thread /\ At(pc).pc = pc /\ At(pc).broker = None
BY DEF At, Thread, Ops

(* A thread outside readyCollect's and cancelCollect's broker. *)
Plain(r) ==
    /\ r \in Thread
    /\ r.pc \notin {"opened", "destroying"}
    /\ r.pc \in Inside => r.id \in Ids

LEMMA PlainAt ==
    ASSUME NEW pc \in Places \ Inside
    PROVE  Plain(At(pc))
BY AtIsThread DEF Plain, Inside

LEMMA PlainFinish == \A t : Plain(Finish(t)) /\ Finish(t).pc \in {"done", "idle"}
BY PlainAt, AtIsThread DEF Finish, Places, Inside

(* A step that leaves the brokers alone and takes threads to plain places. *)
LEMMA PlainStep ==
    ASSUME IInv,
           UNCHANGED <<brokers, live, mu>>,
           heartBeat' \in [Ids -> Revs \cup {None}],
           devices' \in [Ids -> Revs \cup {None}],
           made' \in [Ids -> 0..MaxRev],
           deviceOf' \in [Brokers -> Ids \cup {None}],
           \A b \in live : deviceOf'[b] = deviceOf[b],
           th' \in [Threads -> Thread],
           \A t \in Threads : th'[t] = th[t] \/ Plain(th'[t]),
           th'[Main].pc \in {"new", "shutdown", "closing", "done"},
           th'[Main].pc = "new" => th[Main].pc = "new"
    PROVE  IInv'
<1>1. TypesInv'
  BY DEF IInv, TypesInv, Plain
<1>2. ASSUME th'[Main].pc = "new"
      PROVE  DestroyingInv' /\ OpenedInv' /\ MappedInv'
  <2>1. DestroyingInv /\ OpenedInv /\ MappedInv
    BY <1>2 DEF IInv
  <2>2. DestroyingInv'
    BY <2>1 DEF DestroyingInv, Plain
  <2>3. OpenedInv'
    BY <2>1 DEF OpenedInv, Plain
  <2>4. MappedInv'
    BY <2>1 DEF MappedInv
  <2>5. QED BY <2>2, <2>3, <2>4
<1>3. QED BY <1>1, <1>2 DEF IInv

(* The usual case: one thread moves, and it is not Main. *)
LEMMA OneThreadMoves ==
    ASSUME IInv,
           UNCHANGED <<brokers, live, mu, deviceOf>>,
           heartBeat' \in [Ids -> Revs \cup {None}],
           devices' \in [Ids -> Revs \cup {None}],
           made' \in [Ids -> 0..MaxRev],
           NEW t \in Threads \ {Main}, NEW r, Plain(r),
           th' = [th EXCEPT ![t] = r]
    PROVE  IInv'
<1>1. th \in [Threads -> Thread] /\ r \in Thread
  BY DEF IInv, TypesInv, Plain
<1>2. /\ th' \in [Threads -> Thread]
      /\ \A s \in Threads : th'[s] = th[s] \/ Plain(th'[s])
      /\ th'[Main] = th[Main]
  BY <1>1, Constants
<1>3. /\ th[Main].pc \in {"new", "shutdown", "closing", "done"}
      /\ deviceOf' \in [Brokers -> Ids \cup {None}]
  BY DEF IInv, TypesInv
<1>4. QED BY <1>2, <1>3, PlainStep

-----------------------------------------------------------------------------
LEMMA InitEstablishes == Init => IInv
<1> SUFFICES ASSUME Init PROVE IInv
  OBVIOUS
<1>1. PICK loaded \in [Ids -> Loaded], broker \in [Ids -> Brokers \cup {None}] :
         /\ made = [id \in Ids |-> IF loaded[id] = "absent" THEN 0 ELSE 1]
         /\ store = [id \in Ids |-> IF made[id] = 1 THEN 1 ELSE None]
         /\ devices = store
         /\ heartBeat = [id \in Ids |-> IF loaded[id] = "unconnected" THEN 1 ELSE None]
         /\ brokers = broker
         /\ live = {b \in Brokers : \E id \in Ids : broker[id] = b}
         /\ deviceOf \in [Brokers -> Ids \cup {None}]
         /\ \A i, j \in Ids : i # j /\ broker[i] # None => broker[i] # broker[j]
         /\ \A b \in Brokers :
              IF b \in live THEN deviceOf[b] # None /\ broker[deviceOf[b]] = b
                            ELSE deviceOf[b] = None
         /\ th = [t \in Threads |-> At(IF t \in {Listener, Heartbeat}
                                       THEN "idle" ELSE "new")]
  BY DEF Init
<1>2. \A t \in Threads : Plain(th[t]) /\ th[t].pc \in {"new", "idle"}
  BY <1>1, PlainAt, AtIsThread DEF Places, Inside
<1>3. th[Main].pc = "new"
  BY <1>1, Constants, AtIsThread DEF Places
<1>4. 1 \in Revs /\ 0 \in 0..MaxRev /\ 1 \in 0..MaxRev
  BY ManagerAssumption DEF ManagerAssumption, Revs
<1>5. TypesInv
  <2>1. th \in [Threads -> Thread]
    BY <1>1, <1>2 DEF Plain
  <2>2. /\ brokers \in [Ids -> Brokers \cup {None}]
        /\ live \subseteq Brokers
        /\ deviceOf \in [Brokers -> Ids \cup {None}]
    BY <1>1
  <2>3. /\ heartBeat \in [Ids -> Revs \cup {None}]
        /\ devices \in [Ids -> Revs \cup {None}]
        /\ made \in [Ids -> 0..MaxRev]
    BY <1>1, <1>4
  <2>4. QED BY <1>2, <1>3, <2>1, <2>2, <2>3 DEF TypesInv, Plain
<1>6. DestroyingInv /\ OpenedInv
  BY <1>2 DEF DestroyingInv, OpenedInv
<1>7. MappedInv
  <2>1. ASSUME NEW id \in Ids, brokers[id] # None
        PROVE  brokers[id] \in live /\ deviceOf[brokers[id]] = id
    <3>1. brokers[id] \in Brokers /\ brokers[id] \in live
      BY <1>1, <2>1
    <3>2. deviceOf[brokers[id]] \in Ids /\ brokers[deviceOf[brokers[id]]] = brokers[id]
      BY <1>1, <3>1
    <3>3. QED BY <1>1, <2>1, <3>1, <3>2
  <2>2. QED BY <2>1 DEF MappedInv
<1>8. QED BY <1>5, <1>6, <1>7 DEF IInv

-----------------------------------------------------------------------------
(* readyCollect *)

(* A thread with a device is not Main. *)
LEMMA InsideThread ==
    ASSUME IInv, NEW t \in Threads, th[t].pc \in Inside
    PROVE  t \in Threads \ {Main} /\ th[t].id \in Ids /\ th[t] \in Thread
BY DEF IInv, TypesInv, Inside

LEMMA MovedThread ==
    ASSUME NEW r \in Thread, NEW pc \in Places \ {"opened", "destroying"}, r.id \in Ids
    PROVE  Plain([r EXCEPT !.pc = pc])
BY DEF Plain, Thread

LEMMA Maps ==
    IInv => /\ heartBeat \in [Ids -> Revs \cup {None}]
            /\ devices \in [Ids -> Revs \cup {None}]
            /\ made \in [Ids -> 0..MaxRev]
            /\ th \in [Threads -> Thread]
            /\ deviceOf \in [Brokers -> Ids \cup {None}]
BY DEF IInv, TypesInv

(* Returned, for a thread that keeps no broker. *)
LEMMA ReturnedThread ==
    ASSUME NEW t \in Threads, Returned(t)
    PROVE  \E r : /\ Plain(r) /\ r.pc \in {"range", "done", "idle"}
                  /\ r.broker = None /\ th' = [th EXCEPT ![t] = r]
<1>1. CASE t = Heartbeat
  BY <1>1, PlainAt, AtIsThread DEF Returned, Places, Inside
<1>2. CASE t # Heartbeat
  BY <1>2, PlainAt, AtIsThread DEF Returned, Finish, Places, Inside
<1>3. QED BY <1>1, <1>2

LEMMA ConnectsKeeps ==
    ASSUME IInv, NEW t \in Threads, Connects(t)
    PROVE  IInv'
<1>1. t # Main /\ th[t].id \in Ids /\ th[t] \in Thread
  BY InsideThread DEF Connects, Inside
<1>2. PICK b \in Brokers : /\ Unused(b)
                           /\ th' = [th EXCEPT ![t].pc = "opened", ![t].broker = b]
  BY DEF Connects
<1>3. /\ th' \in [Threads -> Thread]
      /\ \A s \in Threads : s # t => th'[s] = th[s]
      /\ th'[t].pc = "opened" /\ th'[t].broker = b /\ th'[t].id = th[t].id
  BY <1>1, <1>2, Maps DEF Thread, Places
<1>4. UNCHANGED <<devices, heartBeat, brokers, mu, live, deviceOf, made>>
  BY DEF Connects
<1>5. TypesInv'
  BY <1>1, <1>3, <1>4, Constants DEF IInv, TypesInv, Inside
<1>6. b \notin live /\ \A s \in Threads : th[s].broker # b
  BY <1>2 DEF Unused
<1>7. ASSUME th'[Main].pc = "new"
      PROVE  DestroyingInv' /\ OpenedInv' /\ MappedInv'
  <2>1. DestroyingInv /\ OpenedInv /\ MappedInv
    BY <1>1, <1>3, <1>7, Constants DEF IInv
  <2>2. DestroyingInv'
    BY <1>3, <1>4, <2>1 DEF DestroyingInv
  <2>3. OpenedInv'
    BY <1>3, <1>4, <1>6, <2>1 DEF OpenedInv
  <2>4. QED BY <1>4, <2>1, <2>2, <2>3 DEF MappedInv
<1>8. QED BY <1>5, <1>7 DEF IInv

LEMMA StartCollectKeeps ==
    ASSUME IInv, NEW t \in Threads, StartCollect(t)
    PROVE  IInv'
<1> DEFINE b == th[t].broker
           id == th[t].id
<1>1. t # Main /\ id \in Ids /\ th[t] \in Thread /\ th[t].pc = "opened"
  BY InsideThread DEF StartCollect, Inside
<1>2. PICK r : /\ Plain(r) /\ r.pc \in {"range", "done", "idle"}
               /\ th' = [th EXCEPT ![t] = r]
  BY ReturnedThread DEF StartCollect
<1>3. /\ th' \in [Threads -> Thread]
      /\ \A s \in Threads : s # t => th'[s] = th[s]
      /\ th'[t].pc \notin Inside
  BY <1>2, Maps DEF Plain, Inside
<1>4. /\ brokers' = [brokers EXCEPT ![id] = b]
      /\ live' = live \cup {b}
      /\ deviceOf' = [deviceOf EXCEPT ![b] = id]
      /\ mu = None
      /\ UNCHANGED <<devices, heartBeat, mu, made>>
  BY DEF StartCollect
<1>5. b \in Brokers
  BY <1>1 DEF IInv, TypesInv
<1>6. TypesInv'
  <2>1. /\ brokers' \in [Ids -> Brokers \cup {None}]
        /\ live' \subseteq Brokers
        /\ deviceOf' \in [Brokers -> Ids \cup {None}]
    BY <1>1, <1>4, <1>5 DEF IInv, TypesInv
  <2>2. \A s \in Threads :
           /\ th'[s].pc \in Inside => th'[s].id \in Ids
           /\ th'[s].pc = "opened" => th'[s].broker \in Brokers
    BY <1>3 DEF IInv, TypesInv, Inside
  <2>3. th'[Main] = th[Main]
    BY <1>1, <1>3, Constants
  <2>4. QED BY <1>3, <1>4, <2>1, <2>2, <2>3 DEF IInv, TypesInv
<1>7. ASSUME th'[Main].pc = "new"
      PROVE  DestroyingInv' /\ OpenedInv' /\ MappedInv'
  <2>1. DestroyingInv /\ OpenedInv /\ MappedInv
    BY <1>1, <1>3, <1>7, Constants DEF IInv
  <2>2. b \notin live
    BY <1>1, <2>1 DEF OpenedInv
  <2>3. DestroyingInv'
    BY <1>3, <1>4, <2>1, Constants DEF DestroyingInv, Inside
  <2>4. OpenedInv'
    BY <1>1, <1>3, <1>4, <2>1 DEF OpenedInv, Inside
  <2>5. MappedInv'
    <3>1. ASSUME NEW j \in Ids, brokers'[j] # None
          PROVE  brokers'[j] \in live' /\ deviceOf'[brokers'[j]] = j
      <4>1. CASE j = id
        BY <1>1, <1>4, <1>5, <4>1 DEF IInv, TypesInv
      <4>2. CASE j # id
        <5>1. brokers'[j] = brokers[j] /\ brokers[j] \in live /\ deviceOf[brokers[j]] = j
          BY <1>1, <1>4, <2>1, <3>1, <4>2 DEF IInv, TypesInv, MappedInv
        <5>2. QED BY <1>4, <2>2, <5>1 DEF IInv, TypesInv
      <4>3. QED BY <4>1, <4>2
    <3>2. QED BY <3>1 DEF MappedInv
  <2>6. QED BY <2>3, <2>4, <2>5
<1>8. QED BY <1>6, <1>7 DEF IInv

LEMMA ReadyCollectKeeps ==
    ASSUME IInv, NEW t \in Threads, ReadyCollect(t)
    PROVE  IInv'
<1>1. CASE ConnectFails(t)
  <2>1. t \in Threads \ {Main} /\ th[t].id \in Ids /\ th[t] \in Thread
    BY <1>1, InsideThread DEF ConnectFails, Inside
  <2>2. PICK r : Plain(r) /\ th' = [th EXCEPT ![t] = r]
    <3>1. Plain(At("purge")) /\ Plain([th[t] EXCEPT !.pc = "register"])
      BY <2>1, PlainAt, MovedThread DEF Places, Inside
    <3>2. QED BY <1>1, <3>1 DEF ConnectFails
  <2>3. QED BY <1>1, <2>1, <2>2, Maps, OneThreadMoves DEF ConnectFails
<1>2. CASE RegisterForProbe(t)
  <2>1. t \in Threads \ {Main} /\ th[t] \in Thread
    BY <1>2, InsideThread DEF RegisterForProbe, Inside
  <2>2. heartBeat' \in [Ids -> Revs \cup {None}]
    BY <1>2, <2>1, Maps DEF RegisterForProbe, Probed, Thread
  <2>3. QED BY <1>2, <2>1, <2>2, Maps, PlainFinish, OneThreadMoves DEF RegisterForProbe
<1>3. CASE NothingToCollect(t)
  <2>1. t \in Threads \ {Main}
    BY <1>3, InsideThread DEF NothingToCollect, Inside
  <2>2. PICK r : Plain(r) /\ th' = [th EXCEPT ![t] = r]
    BY <1>3, ReturnedThread DEF NothingToCollect
  <2>3. QED BY <1>3, <2>1, <2>2, Maps, OneThreadMoves DEF NothingToCollect
<1>4. QED BY <1>1, <1>2, <1>3, ConnectsKeeps, StartCollectKeeps DEF ReadyCollect

-----------------------------------------------------------------------------
(* cancelCollect *)

LEMMA CancelledThread ==
    ASSUME NEW t \in Threads, th[t] \in Thread, th[t].id \in Ids
    PROVE  Plain(AfterCancel(t))
<1>1. CASE th[t].op \in {"start", "restart"}
  <2>1. AfterCancel(t) = [th[t] EXCEPT !.pc = "ready", !.broker = None]
    BY <1>1 DEF AfterCancel
  <2>2. QED BY <2>1 DEF Plain, Thread, Places
<1>2. CASE th[t].op \notin {"start", "restart"}
  <2>1. AfterCancel(t) = [Finish(t) EXCEPT !.id = th[t].id]
    BY <1>2 DEF AfterCancel
  <2>2. Finish(t) \in Thread /\ Finish(t).pc \in {"done", "idle"}
    BY PlainFinish DEF Plain
  <2>3. QED BY <2>1, <2>2 DEF Plain, Thread, Inside
<1>3. QED BY <1>1, <1>2

LEMMA CancelLocksKeeps ==
    ASSUME IInv, NEW t \in Threads, CancelLocks(t)
    PROVE  IInv'
<1> DEFINE id == th[t].id
<1>1. t # Main /\ id \in Ids /\ th[t] \in Thread
  BY InsideThread DEF CancelLocks, Inside
<1>2. /\ th' = [th EXCEPT ![t].pc = "destroying", ![t].broker = brokers[id]]
      /\ brokers[id] # None /\ mu = None /\ mu' = t
      /\ heartBeat' = Unprobed(id)
      /\ UNCHANGED <<devices, brokers, live, deviceOf, made>>
  BY DEF CancelLocks
<1>3. brokers[id] \in Brokers \cup {None}
  BY <1>1 DEF IInv, TypesInv
<1>4. /\ th' \in [Threads -> Thread]
      /\ \A s \in Threads : s # t => th'[s] = th[s]
      /\ th'[t].pc = "destroying" /\ th'[t].broker = brokers[id] /\ th'[t].id = id
  BY <1>1, <1>2, <1>3, Maps DEF Thread, Places
<1>5. TypesInv'
  <2>1. heartBeat' \in [Ids -> Revs \cup {None}]
    BY <1>2, Maps DEF Unprobed
  <2>2. QED BY <1>1, <1>2, <1>4, <2>1, Constants DEF IInv, TypesInv, Inside
<1>6. ASSUME th'[Main].pc = "new"
      PROVE  DestroyingInv' /\ OpenedInv' /\ MappedInv'
  <2>1. DestroyingInv /\ OpenedInv /\ MappedInv
    BY <1>1, <1>4, <1>6, Constants DEF IInv
  <2>2. DestroyingInv'
    BY <1>2, <1>4, <2>1, Constants DEF DestroyingInv
  <2>3. OpenedInv'
    BY <1>2, <1>4, <2>1 DEF OpenedInv
  <2>4. QED BY <1>2, <2>1, <2>2, <2>3 DEF MappedInv
<1>7. QED BY <1>5, <1>6 DEF IInv

LEMMA CancelDestroysKeeps ==
    ASSUME IInv, NEW t \in Threads, CancelDestroys(t)
    PROVE  IInv'
<1> DEFINE b == th[t].broker
           id == th[t].id
<1>1. t # Main /\ id \in Ids /\ th[t] \in Thread /\ th[t].pc = "destroying"
  BY InsideThread DEF CancelDestroys, Inside
<1>2. /\ th' = [th EXCEPT ![t] = AfterCancel(t)]
      /\ brokers' = [brokers EXCEPT ![id] = None]
      /\ b \in live /\ live' = live \ {b}
      /\ deviceOf' = deviceOf \/ deviceOf' = [deviceOf EXCEPT ![b] = None]
      /\ UNCHANGED <<devices, heartBeat, made>>
  BY DEF CancelDestroys, DestroyEnds, Forgotten
<1>3. /\ th' \in [Threads -> Thread]
      /\ \A s \in Threads : s # t => th'[s] = th[s]
      /\ Plain(th'[t])
  BY <1>1, <1>2, Maps, CancelledThread DEF Plain
<1>4. TypesInv'
  <2>1. /\ brokers' \in [Ids -> Brokers \cup {None}]
        /\ live' \subseteq Brokers
        /\ deviceOf' \in [Brokers -> Ids \cup {None}]
    BY <1>1, <1>2 DEF IInv, TypesInv
  <2>2. QED BY <1>1, <1>2, <1>3, <2>1, Constants DEF IInv, TypesInv, Plain
<1>5. ASSUME th'[Main].pc = "new"
      PROVE  DestroyingInv' /\ OpenedInv' /\ MappedInv'
  <2>1. DestroyingInv /\ OpenedInv /\ MappedInv
    BY <1>1, <1>3, <1>5, Constants DEF IInv
  <2>2. mu = t /\ b = brokers[id]
    BY <1>1, <2>1 DEF DestroyingInv
  <2>3. DestroyingInv'
    BY <1>3, <2>1, <2>2 DEF DestroyingInv, Plain
  <2>4. OpenedInv'
    BY <1>2, <1>3, <2>1 DEF OpenedInv, Plain
  <2>5. MappedInv'
    <3>1. ASSUME NEW j \in Ids, brokers'[j] # None
          PROVE  brokers'[j] \in live' /\ deviceOf'[brokers'[j]] = j
      <4>1. j # id /\ brokers'[j] = brokers[j]
        BY <1>1, <1>2, <3>1 DEF IInv, TypesInv
      <4>2. brokers[j] \in live /\ deviceOf[brokers[j]] = j /\ deviceOf[b] = id
        BY <1>1, <1>2, <2>1, <2>2, <3>1, <4>1, Constants DEF MappedInv, IInv, TypesInv
      <4>3. QED BY <1>2, <4>1, <4>2 DEF IInv, TypesInv
    <3>2. QED BY <3>1 DEF MappedInv
  <2>6. QED BY <2>3, <2>4, <2>5
<1>6. QED BY <1>4, <1>5 DEF IInv

LEMMA CancelCollectKeeps ==
    ASSUME IInv, NEW t \in Threads, CancelCollect(t)
    PROVE  IInv'
<1>1. CASE CancelWithoutBroker(t)
  <2>1. t \in Threads \ {Main} /\ th[t].id \in Ids /\ th[t] \in Thread
    BY <1>1, InsideThread DEF CancelWithoutBroker, Inside
  <2>2. heartBeat' \in [Ids -> Revs \cup {None}]
    BY <1>1, Maps DEF CancelWithoutBroker, Unprobed
  <2>3. Plain(AfterCancel(t))
    BY <2>1, CancelledThread
  <2>4. QED BY <1>1, <2>1, <2>2, <2>3, Maps, OneThreadMoves DEF CancelWithoutBroker
<1>2. QED BY <1>1, CancelLocksKeeps, CancelDestroysKeeps DEF CancelCollect

-----------------------------------------------------------------------------
(* Requests, the listener, the heartbeat, results and the shutdown *)

LEMMA BegunThread ==
    ASSUME NEW pc \in Places \ {"opened", "destroying"}, NEW op \in Ops,
           NEW id \in Ids, NEW rev \in Revs \cup {None}
    PROVE  Plain([At(pc) EXCEPT !.op = op, !.id = id, !.rev = rev])
<1>1. PICK a \in Thread : a = At(pc) /\ a.pc = pc
  BY AtIsThread
<1>2. Plain([a EXCEPT !.op = op, !.id = id, !.rev = rev])
  BY <1>1 DEF Plain, Thread
<1>3. QED BY <1>1, <1>2

LEMMA NewThread ==
    ASSUME NEW r \in Requests
    PROVE  r \in Threads \ {Main}
BY Constants

LEMMA RequestKeeps ==
    ASSUME IInv, NEW r \in Requests, NEW id \in Ids,
           \/ CreateDevice(r, id) \/ DeleteDevice(r, id) \/ UpdateDevice(r, id)
           \/ DeliverAction(r, id) \/ \E op \in Switches : SwitchDeviceStatus(r, id, op)
    PROVE  IInv'
<1>0. r \in Threads \ {Main}
  BY NewThread
<1>1. 1 \in Revs /\ 1 \in 0..MaxRev /\ MaxRev \in Nat
  BY ManagerAssumption DEF ManagerAssumption, Revs
<1>2. devices[id] # None => devices[id] \in Revs
  BY Maps
<1>3. CASE CreateDevice(r, id)
  <2>1. Plain([At("ready") EXCEPT !.op = "create", !.id = id, !.rev = 1])
    BY <1>1, BegunThread DEF Places, Ops
  <2>2. made' \in [Ids -> 0..MaxRev] /\ devices' \in [Ids -> Revs \cup {None}]
    BY <1>1, <1>3, Maps DEF CreateDevice
  <2>3. QED BY <1>0, <1>3, <2>1, <2>2, Maps, OneThreadMoves DEF CreateDevice, Begin
<1>4. CASE DeleteDevice(r, id)
  <2>1. Plain([At("remove") EXCEPT !.op = "delete", !.id = id, !.rev = devices[id]])
    BY <1>2, <1>4, BegunThread DEF DeleteDevice, Places, Ops
  <2>2. QED BY <1>0, <1>4, <2>1, Maps, OneThreadMoves DEF DeleteDevice, Begin
<1>5. CASE UpdateDevice(r, id)
  <2>1. made[id] + 1 \in Revs /\ made' = [made EXCEPT ![id] = made[id] + 1]
    BY <1>1, <1>5, Maps DEF UpdateDevice, Revs
  <2>2. Plain([At("save") EXCEPT !.op = "update", !.id = id, !.rev = made[id] + 1])
    BY <2>1, BegunThread DEF Places, Ops
  <2>3. made' \in [Ids -> 0..MaxRev]
    BY <1>1, <2>1, Maps DEF Revs
  <2>4. QED BY <1>0, <1>5, <2>2, <2>3, Maps, OneThreadMoves DEF UpdateDevice, Begin
<1>6. CASE DeliverAction(r, id)
  <2>1. /\ Plain([At("deliver") EXCEPT !.op = "deliver", !.id = id, !.rev = devices[id]])
        /\ Plain(Finish(r))
    BY <1>2, <1>6, BegunThread, PlainFinish DEF DeliverAction, Places, Ops
  <2>2. \E s : Plain(s) /\ th' = [th EXCEPT ![r] = s]
    BY <1>6, <2>1 DEF DeliverAction, Begin
  <2>3. QED BY <1>0, <1>6, <2>2, Maps, OneThreadMoves DEF DeliverAction
<1>7. ASSUME NEW op \in Switches, SwitchDeviceStatus(r, id, op)
      PROVE  IInv'
  <2>1. Plain([At("send") EXCEPT !.op = op, !.id = id, !.rev = None])
    BY BegunThread DEF Places, Ops
  <2>2. QED BY <1>0, <1>7, <2>1, Maps, OneThreadMoves DEF SwitchDeviceStatus, Begin
<1>8. QED BY <1>3, <1>4, <1>5, <1>6, <1>7

LEMMA ReceiveKeeps ==
    ASSUME IInv, NEW r \in Requests, Receive(r)
    PROVE  IInv'
<1>1. /\ r \in Threads \ {Main} /\ Listener \in Threads \ {Main}
      /\ th[r].id \in Ids /\ th[r] \in Thread
  BY InsideThread, NewThread, Constants DEF Receive, Inside
<1>2. Plain([th[r] EXCEPT !.pc = "load"]) /\ Plain(Finish(r))
  BY <1>1, MovedThread, PlainFinish DEF Places
<1>3. th' = [th EXCEPT ![Listener] = [th[r] EXCEPT !.pc = "load"], ![r] = Finish(r)]
  BY DEF Receive
<1>4. /\ th' \in [Threads -> Thread]
      /\ \A s \in Threads : th'[s] = th[s] \/ Plain(th'[s])
      /\ th'[Main] = th[Main]
  <2> DEFINE moved == [th[r] EXCEPT !.pc = "load"]
             ended == Finish(r)
  <2>1. moved \in Thread /\ ended \in Thread /\ th \in [Threads -> Thread]
    BY <1>2, Maps DEF Plain
  <2>2. Plain(moved) /\ Plain(ended)
    BY <1>2
  <2>3. th' = [th EXCEPT ![Listener] = moved, ![r] = ended]
    BY <1>3
  <2> HIDE DEF moved, ended
  <2>4. /\ th' \in [Threads -> Thread]
        /\ \A s \in Threads : th'[s] = th[s] \/ th'[s] = moved \/ th'[s] = ended
        /\ th'[Main] = th[Main]
    BY <1>1, <2>1, <2>3, Constants
  <2>5. QED BY <2>2, <2>4
<1>5. UNCHANGED <<brokers, live, mu, deviceOf, heartBeat, devices, made>>
  BY DEF Receive
<1>6. th[Main].pc \in {"new", "shutdown", "closing", "done"}
  BY DEF IInv, TypesInv
<1>7. QED BY <1>4, <1>5, <1>6, Maps, PlainStep

LEMMA ContinueKeeps ==
    ASSUME IInv, NEW r \in Requests, Continue(r) \/ Unmap(r)
    PROVE  IInv'
<1>0. r \in Threads \ {Main}
  BY NewThread
<1>1. CASE StoreDelete(r)
  <2>1. Plain([th[r] EXCEPT !.pc = "cancel"])
    BY <1>1, InsideThread, NewThread, MovedThread DEF StoreDelete, Inside, Places
  <2>2. QED BY <1>0, <1>1, <2>1, Maps, OneThreadMoves DEF StoreDelete
<1>2. CASE StoreUpdate(r)
  <2>1. Plain([th[r] EXCEPT !.pc = "replace"]) /\ Plain(Finish(r))
    BY <1>2, InsideThread, NewThread, MovedThread, PlainFinish DEF StoreUpdate, Inside, Places
  <2>2. \E s : Plain(s) /\ th' = [th EXCEPT ![r] = s]
    BY <1>2, <2>1 DEF StoreUpdate
  <2>3. QED BY <1>0, <1>2, <2>2, Maps, OneThreadMoves DEF StoreUpdate
<1>3. CASE ReplaceDevice(r)
  <2>1. th[r] \in Thread
    BY <1>0, Maps
  <2>2. devices' \in [Ids -> Revs \cup {None}]
    BY <1>3, <2>1, Maps DEF ReplaceDevice, Thread
  <2>3. QED BY <1>0, <1>3, <2>2, Maps, PlainFinish, OneThreadMoves DEF ReplaceDevice
<1>4. CASE ReadBroker(r)
  BY <1>0, <1>4, Maps, PlainFinish, OneThreadMoves DEF ReadBroker
<1>5. CASE Unmap(r)
  <2>1. devices' \in [Ids -> Revs \cup {None}]
    BY <1>5, Maps DEF Unmap
  <2>2. th[Main].pc \in {"new", "shutdown", "closing", "done"}
    BY DEF IInv, TypesInv
  <2>3. QED BY <1>5, <2>1, <2>2, Maps, PlainStep DEF Unmap
<1>6. QED BY <1>1, <1>2, <1>3, <1>4, <1>5, ReceiveKeeps DEF Continue

LEMMA ListenKeeps == IInv /\ Listen => IInv'
<1> SUFFICES ASSUME IInv, Listen PROVE IInv'
  OBVIOUS
<1>0. Listener \in Threads \ {Main} /\ th[Main].pc \in {"new", "shutdown", "closing", "done"}
  BY Constants DEF IInv, TypesInv
<1>1. CASE LoadMissing
  BY <1>0, <1>1, Maps, PlainStep DEF LoadMissing
<1>2. CASE Load
  <2> DEFINE id == th[Listener].id
             next == SwitchFrom(status[id][devices[id]], th[Listener].op)
  <2>1. id \in Ids /\ th[Listener] \in Thread /\ devices[id] \in Revs
    BY <1>2, InsideThread, Constants, Maps DEF Load, Inside
  <2>2. next \in {"idle", "ready", "cancel"}
    BY DEF SwitchFrom
  <2>3. /\ Plain(At("idle"))
        /\ next # "idle" => Plain([th[Listener] EXCEPT !.pc = next, !.rev = devices[id]])
    BY <2>1, <2>2, PlainAt DEF Plain, Thread, Places, Inside
  <2>4. \E s : Plain(s) /\ th' = [th EXCEPT ![Listener] = s]
    BY <1>2, <2>3 DEF Load
  <2>5. QED BY <1>0, <1>2, <2>4, Maps, OneThreadMoves DEF Load
<1>3. QED BY <1>1, <1>2 DEF Listen

LEMMA HeartBeatKeeps == IInv /\ HeartBeatDetection => IInv'
<1> SUFFICES ASSUME IInv, HeartBeatDetection PROVE IInv'
  OBVIOUS
<1>0. Heartbeat \in Threads \ {Main} /\ th[Main].pc \in {"new", "shutdown", "closing", "done"}
  BY Constants DEF IInv, TypesInv
<1>1. Plain(At("range")) /\ Plain(At("purge")) /\ Plain(At("idle"))
  BY PlainAt DEF Places, Inside
<1>2. CASE Tick
  BY <1>0, <1>1, <1>2, Maps, OneThreadMoves DEF Tick
<1>3. CASE EndRange
  BY <1>0, <1>1, <1>3, Maps, OneThreadMoves DEF EndRange
<1>4. CASE Purge
  <2>1. CASE th' = [th EXCEPT ![Heartbeat] = At("idle")] /\ UNCHANGED heartBeat
    BY <1>0, <1>1, <1>4, <2>1, Maps, OneThreadMoves DEF Purge
  <2>2. CASE UNCHANGED th /\ \E id \in resume : heartBeat' = Unprobed(id)
    <3>1. heartBeat' \in [Ids -> Revs \cup {None}]
      BY <2>2, Maps DEF Unprobed
    <3>2. QED BY <1>0, <1>4, <2>2, <3>1, Maps, PlainStep DEF Purge
  <2>3. QED BY <1>4, <2>1, <2>2 DEF Purge
<1>5. ASSUME NEW id \in Ids, Visit(id)
      PROVE  IInv'
  <2>1. heartBeat[id] \in Revs
    BY <1>5, Maps DEF Visit, Due
  <2>2. Plain([At("ready") EXCEPT !.op = "probe", !.id = id, !.rev = heartBeat[id]])
    BY <2>1, BegunThread DEF Places, Ops
  <2>3. QED BY <1>0, <1>5, <2>2, Maps, OneThreadMoves DEF Visit, Begin
<1>6. QED BY <1>2, <1>3, <1>4, <1>5 DEF HeartBeatDetection

LEMMA ResultKeeps ==
    ASSUME IInv, NEW b \in Brokers, Produce(b) \/ Consume(b)
    PROVE  IInv'
<1>1. /\ deviceOf' \in [Brokers -> Ids \cup {None}]
      /\ \A c \in live : deviceOf'[c] = deviceOf[c]
  <2>1. \/ deviceOf' = deviceOf
        \/ b \notin live /\ deviceOf' = [deviceOf EXCEPT ![b] = None]
    BY DEF Produce, Consume, ReaderAfter
  <2>2. deviceOf \in [Brokers -> Ids \cup {None}] /\ live \subseteq Brokers
    BY DEF IInv, TypesInv
  <2>3. QED BY <2>1, <2>2
<1>2. UNCHANGED <<brokers, live, mu, heartBeat, devices, made, th>>
  BY DEF Produce, Consume
<1>3. th[Main].pc \in {"new", "shutdown", "closing", "done"}
  BY DEF IInv, TypesInv
<1>4. QED BY <1>1, <1>2, <1>3, Maps, PlainStep

LEMMA StopKeeps == IInv /\ Stop => IInv'
<1> SUFFICES ASSUME IInv, Stop PROVE IInv'
  OBVIOUS
<1>1. PICK r : /\ th' = [th EXCEPT ![Main] = r] /\ r \in Thread
               /\ r.pc \in {"shutdown", "closing", "done"}
  <2>1. At("shutdown") \in Thread /\ At("done") \in Thread
    BY AtIsThread DEF Places
  <2>2. ASSUME NEW id \in Ids, ShutdownVisits(id)
        PROVE  [th[Main] EXCEPT !.pc = "closing", !.broker = brokers[id]] \in Thread
    <3>1. th[Main] \in Thread /\ brokers[id] \in Brokers \cup {None}
      BY Maps, Constants DEF IInv, TypesInv
    <3>2. QED BY <3>1 DEF Thread, Places
  <2>3. At("shutdown").pc = "shutdown" /\ At("done").pc = "done"
    BY DEF At
  <2>4. CASE Shutdown \/ ShutdownDestroys \/ ShutdownEnds
    BY <2>1, <2>3, <2>4 DEF Shutdown, ShutdownDestroys, ShutdownEnds
  <2>5. ASSUME NEW id \in Ids, ShutdownVisits(id)
        PROVE  \E r : /\ th' = [th EXCEPT ![Main] = r] /\ r \in Thread
                      /\ r.pc \in {"shutdown", "closing", "done"}
    <3>1. th' = [th EXCEPT ![Main] = [th[Main] EXCEPT !.pc = "closing", !.broker = brokers[id]]]
      BY <2>5 DEF ShutdownVisits
    <3>2. [th[Main] EXCEPT !.pc = "closing", !.broker = brokers[id]].pc = "closing"
      BY Maps, Constants DEF Thread
    <3>3. QED BY <2>2, <2>5, <3>1, <3>2
  <2>6. QED BY <2>4, <2>5 DEF Stop
<1>2. /\ UNCHANGED <<brokers, heartBeat, devices, made>>
      /\ live' \subseteq live
      /\ deviceOf' \in [Brokers -> Ids \cup {None}]
  BY Maps DEF Stop, Shutdown, ShutdownVisits, ShutdownDestroys, ShutdownEnds, DestroyEnds
<1>3. /\ th' \in [Threads -> Thread]
      /\ \A s \in Threads : s # Main => th'[s] = th[s]
      /\ th'[Main].pc \in {"shutdown", "closing", "done"}
  BY <1>1, Maps, Constants
<1>4. QED BY <1>2, <1>3 DEF IInv, TypesInv, Inside

LEMMA NextKeeps == IInv /\ [Next]_vars => IInv'
<1> SUFFICES ASSUME IInv, [Next]_vars PROVE IInv'
  OBVIOUS
<1>0. th[Main].pc \in {"new", "shutdown", "closing", "done"}
  BY DEF IInv, TypesInv
<1>1. CASE UNCHANGED vars
  BY <1>0, <1>1, Maps, PlainStep DEF vars
<1>2. CASE MapRace
  BY <1>0, <1>2, Maps, PlainStep DEF MapRace
<1>3. CASE Next /\ ~MapRace
  <2>1. ASSUME NEW r \in Requests, Request(r)
        PROVE  IInv'
    BY <2>1, RequestKeeps DEF Request
  <2>2. ASSUME NEW t \in Threads, Collect(t)
        PROVE  IInv'
    BY <2>2, ReadyCollectKeeps, CancelCollectKeeps DEF Collect
  <2>3. QED BY <1>3, <2>1, <2>2, ContinueKeeps, ResultKeeps, ListenKeeps,
               HeartBeatKeeps, StopKeeps DEF Next
<1>4. QED BY <1>1, <1>2, <1>3

(* Until Shutdown begins, whatever readyCollect, cancelCollect, the listener,
   the heartbeat and the requests do to a device at the same time, the map
   brokers names running brokers of its devices only (but for the one Destroy
   under way), so cancelCollect never calls Destroy on a broker whose
   collector has already taken ExitCh, for any devices and brokers. *)
THEOREM ManagerMappedBrokerRuns == Spec => []MappedBrokerRuns
<1>1. IInv => MappedBrokerRuns
  BY DEF IInv, MappedInv, MappedBrokerRuns
<1>2. QED BY InitEstablishes, NextKeeps, <1>1, PTL DEF Spec

-----------------------------------------------------------------------------
(* Types.  A revision that devices, an update or a switch refers to has been
   made, and the updated one is not the first. *)

RevisionInv ==
    /\ \A id \in Ids : devices[id] # None => devices[id] <= made[id]
    /\ \A t \in Threads :
          th[t].pc \in {"save", "replace"} =>
              th[t].rev # None /\ 1 < th[t].rev /\ th[t].rev <= made[th[t].id]

TInv == IInv /\ TypeOK /\ RevisionInv

LEMMA RevisionsAre == Revs \subseteq Nat /\ 1 \in Revs /\ MaxRev \in Nat \ {0}
BY ManagerAssumption DEF ManagerAssumption, Revs

LEMMA StatusSet ==
    ASSUME status \in [Ids -> [Revs -> Status]], NEW t, NEW s \in Status,
           SetStatus(t, s)
    PROVE  status' \in [Ids -> [Revs -> Status]]
BY DEF SetStatus

LEMMA StatusAt ==
    ASSUME status \in [Ids -> [Revs -> Status]], NEW id, NEW rev, NEW s \in Status,
           status' = [status EXCEPT ![id][rev] = s]
    PROVE  status' \in [Ids -> [Revs -> Status]]
OBVIOUS

(* The variables InitEstablishes and NextKeeps say nothing of, but version. *)
Rest ==
    /\ store \in [Ids -> Revs \cup {None}]
    /\ mu \in Threads \cup {None}
    /\ status \in [Ids -> [Revs -> Status]]
    /\ result \in [Brokers -> {"none", "ok", "err"}]
    /\ unmap \subseteq Requests
    /\ resume \subseteq Ids
    /\ closed \subseteq Ids
    /\ crashed \in Crashes
    /\ overlapped \subseteq Ids

LEMMA CollectTypes ==
    ASSUME IInv, Rest, NEW t \in Threads, Collect(t)
    PROVE  Rest'
<1>1. UNCHANGED <<store, result, unmap, closed, crashed, overlapped>>
  BY DEF Collect, ReadyCollect, CancelCollect, ConnectFails, RegisterForProbe,
         NothingToCollect, Connects, StartCollect, CancelWithoutBroker,
         CancelLocks, CancelDestroys
<1>2. mu' \in Threads \cup {None}
  BY DEF Rest, Collect, ReadyCollect, CancelCollect, ConnectFails, RegisterForProbe,
         NothingToCollect, Connects, StartCollect, CancelWithoutBroker,
         CancelLocks, CancelDestroys
<1>3. resume' \subseteq Ids
  <2>1. CASE Returned(t)
    <3>1. CASE NothingToCollect(t) \/ StartCollect(t)
      BY <2>1, <3>1, InsideThread DEF Rest, Returned, NothingToCollect, StartCollect, Inside
    <3>2. CASE ~(NothingToCollect(t) \/ StartCollect(t))
      BY <3>2 DEF Rest, Collect, ReadyCollect, CancelCollect, ConnectFails,
         RegisterForProbe, Connects, CancelWithoutBroker, CancelLocks, CancelDestroys
    <3>3. QED BY <3>1, <3>2
  <2>2. CASE ~Returned(t)
    BY <2>2 DEF Rest, Collect, ReadyCollect, CancelCollect, ConnectFails,
         RegisterForProbe, NothingToCollect, Connects, StartCollect,
         CancelWithoutBroker, CancelLocks, CancelDestroys
  <2>3. QED BY <2>1, <2>2
<1>4. status' \in [Ids -> [Revs -> Status]]
  <2>1. \/ UNCHANGED status
        \/ \E s \in Status : SetStatus(t, s)
    BY DEF Collect, ReadyCollect, CancelCollect, ConnectFails, RegisterForProbe,
         NothingToCollect, Connects, StartCollect, CancelWithoutBroker,
         CancelLocks, CancelDestroys, StopStatus, Status
  <2>2. QED BY <2>1, StatusSet DEF Rest
<1>5. QED BY <1>1, <1>2, <1>3, <1>4 DEF Rest

LEMMA RequestTypes ==
    ASSUME IInv, Rest, NEW r \in Requests, Request(r) \/ Continue(r) \/ Unmap(r)
    PROVE  Rest'
<1>1. CASE Request(r)
  <2>1. PICK id \in Ids :
           \/ CreateDevice(r, id) \/ DeleteDevice(r, id) \/ UpdateDevice(r, id)
           \/ DeliverAction(r, id) \/ \E op \in Switches : SwitchDeviceStatus(r, id, op)
    BY <1>1 DEF Request
  <2>2. /\ UNCHANGED <<mu, result, unmap, resume, closed, crashed>>
        /\ store' \in [Ids -> Revs \cup {None}]
    BY <2>1, RevisionsAre DEF Rest, CreateDevice, DeleteDevice, UpdateDevice,
       DeliverAction, SwitchDeviceStatus
  <2>3. overlapped' \subseteq Ids
    BY <2>1 DEF Rest, CreateDevice, DeleteDevice, UpdateDevice, DeliverAction,
       SwitchDeviceStatus, Enter
  <2>4. status' \in [Ids -> [Revs -> Status]]
    <3>1. CASE UpdateDevice(r, id)
      <4>1. status[id][devices[id]] \in Status
        BY <3>1, Maps DEF UpdateDevice, Rest
      <4>2. QED BY <3>1, <4>1, StatusAt DEF UpdateDevice, Rest
    <3>2. CASE ~UpdateDevice(r, id)
      BY <2>1, <3>2 DEF Rest, CreateDevice, DeleteDevice, DeliverAction, SwitchDeviceStatus
    <3>3. QED BY <3>1, <3>2
  <2>5. QED BY <2>2, <2>3, <2>4 DEF Rest
<1>2. CASE Continue(r) \/ Unmap(r)
  <2>1. /\ UNCHANGED <<mu, status, result, resume, closed, crashed, overlapped>>
        /\ unmap' \subseteq Requests
    BY <1>2 DEF Rest, Continue, StoreDelete, StoreUpdate, ReplaceDevice, Receive,
       ReadBroker, Unmap
  <2>2. store' \in [Ids -> Revs \cup {None}]
    <3>1. CASE StoreUpdate(r)
      <4>1. th[r].rev \in Revs \cup {None}
        BY Maps, Constants DEF Thread
      <4>2. QED BY <3>1, <4>1 DEF StoreUpdate, Rest
    <3>2. CASE ~StoreUpdate(r)
      BY <1>2, <3>2 DEF Rest, Continue, StoreDelete, ReplaceDevice, Receive,
         ReadBroker, Unmap
    <3>3. QED BY <3>1, <3>2
  <2>3. QED BY <2>1, <2>2 DEF Rest
<1>3. QED BY <1>1, <1>2

LEMMA RestTypes ==
    ASSUME IInv, Rest, [Next]_vars
    PROVE  Rest'
<1>1. ASSUME NEW b \in Brokers, Produce(b) \/ Consume(b)
      PROVE  Rest'
  <2>1. UNCHANGED <<store, mu, unmap, resume, closed, crashed, overlapped>>
    BY <1>1 DEF Produce, Consume
  <2>2. result' \in [Brokers -> {"none", "ok", "err"}]
    BY <1>1, ManagerAssumption DEF Produce, Consume, Rest, ManagerAssumption
  <2>3. status' \in [Ids -> [Revs -> Status]]
    <3>1. \/ UNCHANGED status
          \/ \E s \in Status : \E id, rev : status' = [status EXCEPT ![id][rev] = s]
      BY <1>1 DEF Produce, Consume, Status
    <3>2. QED BY <3>1, StatusAt DEF Rest
  <2>4. QED BY <2>1, <2>2, <2>3 DEF Rest
<1>2. CASE Listen
  BY <1>2 DEF Rest, Listen, LoadMissing, Load, Crashes
<1>3. CASE HeartBeatDetection
  <2>1. UNCHANGED <<store, mu, status, result, unmap, closed, crashed>>
    BY <1>3 DEF HeartBeatDetection, Tick, EndRange, Purge, Visit
  <2>2. resume' \subseteq Ids /\ overlapped' \subseteq Ids
    BY <1>3 DEF Rest, HeartBeatDetection, Tick, EndRange, Purge, Visit, Enter
  <2>3. QED BY <2>1, <2>2 DEF Rest
<1>4. CASE Stop
  BY <1>4 DEF Rest, Stop, Shutdown, ShutdownVisits, ShutdownDestroys, ShutdownEnds
<1>5. CASE MapRace \/ UNCHANGED vars
  BY <1>5 DEF Rest, MapRace, vars, Crashes
<1>6. QED BY <1>1, <1>2, <1>3, <1>4, <1>5, CollectTypes, RequestTypes DEF Next

-----------------------------------------------------------------------------
(* Revisions and versions *)

Versions == version \in [Ids -> [Revs -> Nat \ {0}]]

VInv == Versions /\ RevisionInv

Saving == {"save", "replace"}

(* A step that makes no revision, saves none and puts none in devices. *)
LEMMA OtherRevisions ==
    ASSUME IInv, VInv, UNCHANGED <<version, made>>,
           \A id \in Ids : devices'[id] \in {devices[id], None},
           \A t \in Threads : th'[t] = th[t] \/ th'[t].pc \notin Saving
    PROVE  VInv'
<1>1. RevisionInv'
  BY DEF VInv, RevisionInv, Saving
<1>2. QED BY <1>1 DEF VInv, Versions

(* Where the records that threads are given lead. *)
LEMMA Records ==
    /\ \A pc : At(pc).pc = pc /\ At(pc).id = None
    /\ \A t : Finish(t).pc \in {"done", "idle"} /\ Finish(t).id = None
    /\ \A pc, op, id, rev :
          LET r == [At(pc) EXCEPT !.op = op, !.id = id, !.rev = rev]
          IN r.pc = pc /\ r.op = op /\ r.id = id /\ r.rev = rev
BY DEF At, Finish

LEMMA BegunElsewhere ==
    ASSUME NEW t, NEW pc, NEW op, NEW id, NEW rev, pc \notin Saving,
           Begin(t, pc, op, id, rev)
    PROVE  \E r : r.pc \notin Saving /\ th' = [th EXCEPT ![t] = r]
<1> DEFINE r == [At(pc) EXCEPT !.op = op, !.id = id, !.rev = rev]
<1>1. r.pc = pc
  BY Records
<1>2. th' = [th EXCEPT ![t] = r]
  BY DEF Begin
<1>3. QED BY <1>1, <1>2

LEMMA CreateVersions ==
    ASSUME IInv, VInv, NEW r \in Requests, NEW id \in Ids, CreateDevice(r, id)
    PROVE  VInv'
<1>1. /\ made[id] = 0 /\ made' = [made EXCEPT ![id] = 1] /\ UNCHANGED version
      /\ devices' = [devices EXCEPT ![id] = 1]
      /\ \A t \in Threads : th'[t] = th[t] \/ th'[t].pc \notin Saving
  BY Maps, NewThread, Records DEF CreateDevice, Begin, Saving
<1>2. ASSUME NEW t \in Threads, th[t].pc \in Saving
      PROVE  th[t].rev \in Nat /\ 1 < th[t].rev /\ th[t].rev <= made'[th[t].id]
  <2>1. th[t].rev \in Nat /\ 1 < th[t].rev /\ th[t].rev <= made[th[t].id]
    BY <1>2, Maps, RevisionsAre DEF VInv, RevisionInv, Saving, Thread
  <2>2. th[t].id \in Ids
    BY <1>2, InsideThread DEF Saving, Inside
  <2>3. QED BY <1>1, <2>1, <2>2, Maps
<1>3. RevisionInv'
  <2>1. \A j \in Ids : devices'[j] # None => devices'[j] <= made'[j]
    BY <1>1, Maps DEF VInv, RevisionInv
  <2>2. QED BY <1>1, <1>2, <2>1 DEF VInv, RevisionInv, Saving
<1>4. QED BY <1>1, <1>3 DEF VInv, Versions

LEMMA UpdateVersions ==
    ASSUME IInv, VInv, NEW r \in Requests, NEW id \in Ids, UpdateDevice(r, id)
    PROVE  VInv'
<1> DEFINE new == made[id] + 1
           old == devices[id]
           s   == [At("save") EXCEPT !.op = "update", !.id = id, !.rev = new]
<1>1. /\ made[id] < MaxRev /\ made' = [made EXCEPT ![id] = new]
      /\ version' = [version EXCEPT ![id][new] = version[id][old]]
      /\ th' = [th EXCEPT ![r] = s] /\ UNCHANGED devices /\ old # None
  BY DEF UpdateDevice, Begin
<1>2. s.pc = "save" /\ s.id = id /\ s.rev = new
  BY Records
<1>3. /\ r \in Threads /\ old \in Revs /\ old <= made[id]
      /\ made[id] \in Nat /\ new \in Revs
  BY <1>1, Maps, NewThread, RevisionsAre DEF VInv, RevisionInv, Revs
<1>4. version[id][old] \in Nat \ {0}
  BY <1>3 DEF VInv, Versions
<1> HIDE DEF s
<1>5. \A t \in Threads : th'[t] = IF t = r THEN s ELSE th[t]
  BY <1>1, Maps
<1>6. ASSUME NEW t \in Threads, th[t].pc \in Saving
      PROVE  /\ th[t].id \in Ids /\ th[t].rev \in Revs /\ 1 < th[t].rev
             /\ th[t].rev <= made[th[t].id]
  BY <1>6, Maps, RevisionsAre, InsideThread DEF VInv, RevisionInv, Saving, Thread, Inside
<1>7. RevisionInv'
  <2>1. \A j \in Ids : devices'[j] # None => devices'[j] <= made'[j]
    BY <1>1, <1>3, Maps, RevisionsAre DEF VInv, RevisionInv
  <2>2. ASSUME NEW t \in Threads, th'[t].pc \in Saving
        PROVE  th'[t].rev # None /\ 1 < th'[t].rev /\ th'[t].rev <= made'[th'[t].id]
    <3>1. CASE t = r
      BY <1>1, <1>2, <1>3, <1>5, <3>1, Maps, RevisionsAre, ManagerAssumption
         DEF Revs, ManagerAssumption
    <3>2. CASE t # r
      <4>1. th'[t] = th[t]
        BY <1>5, <3>2
      <4>2. QED BY <1>1, <1>3, <1>6, <2>2, <4>1, Maps, RevisionsAre, ManagerAssumption
                DEF ManagerAssumption
    <3>3. QED BY <3>1, <3>2
  <2>3. QED BY <2>1, <2>2 DEF RevisionInv, Saving
<1>8. Versions'
  BY <1>1, <1>4 DEF VInv, Versions
<1>9. QED BY <1>7, <1>8 DEF VInv

LEMMA StoreUpdateVersions ==
    ASSUME IInv, VInv, NEW r \in Requests, StoreUpdate(r)
    PROVE  VInv'
<1> DEFINE id == th[r].id
           rev == th[r].rev
<1>1. /\ th[r].pc = "save" /\ UNCHANGED <<made, devices>> /\ r \in Threads
      /\ th[r] \in Thread
  BY Maps, NewThread DEF StoreUpdate
<1>2. id \in Ids /\ rev \in Revs
  BY <1>1, InsideThread, Maps DEF Inside, VInv, RevisionInv, Thread
<1>3. \A t \in Threads :
         \/ th'[t] = th[t]
         \/ /\ th'[t].id = th[t].id /\ th'[t].rev = th[t].rev
            /\ th[t].pc = "save" /\ th'[t].pc = "replace"
         \/ th'[t].pc \notin Saving
  BY <1>1, Maps, Records DEF StoreUpdate, Saving, Thread, Places
<1>4. RevisionInv'
  BY <1>1, <1>3 DEF VInv, RevisionInv, Saving
<1>5. Versions'
  <2>1. CASE UNCHANGED version
    BY <2>1 DEF VInv, Versions
  <2>2. CASE version' # version
    <3>1. PICK bump \in 0..MaxBump : version' = [version EXCEPT ![id][rev] = @ + bump]
      BY <2>2 DEF StoreUpdate
    <3>2. bump \in Nat /\ version[id][rev] \in Nat \ {0}
      BY <1>2, ManagerAssumption DEF ManagerAssumption, VInv, Versions
    <3>3. version[id][rev] + bump \in Nat \ {0}
      BY <3>2
    <3>4. QED BY <3>1, <3>3 DEF VInv, Versions
  <2>3. QED BY <2>1, <2>2
<1>6. QED BY <1>4, <1>5 DEF VInv

LEMMA ReplaceVersions ==
    ASSUME IInv, VInv, NEW r \in Requests, ReplaceDevice(r)
    PROVE  VInv'
<1>1. /\ th[r].pc = "replace" /\ UNCHANGED <<made, version>>
      /\ devices' = [devices EXCEPT ![th[r].id] = th[r].rev]
      /\ \A t \in Threads : th'[t] = th[t] \/ th'[t].pc \notin Saving
      /\ r \in Threads
  BY Maps, NewThread, Records DEF ReplaceDevice, Saving
<1>2. th[r].rev <= made[th[r].id]
  BY <1>1 DEF VInv, RevisionInv
<1>3. RevisionInv'
  BY <1>1, <1>2, Maps DEF VInv, RevisionInv, Saving
<1>4. QED BY <1>1, <1>3 DEF VInv, Versions

LEMMA CollectVersions ==
    ASSUME IInv, VInv, NEW t \in Threads, Collect(t)
    PROVE  VInv'
<1>1. UNCHANGED <<version, made, devices>>
  BY DEF Collect, ReadyCollect, CancelCollect, ConnectFails, RegisterForProbe,
         NothingToCollect, Connects, StartCollect, CancelWithoutBroker,
         CancelLocks, CancelDestroys
<1>2. th[t] \in Thread /\ th \in [Threads -> Thread]
  BY Maps
<1>3. AfterCancel(t).pc \in {"ready", "done", "idle"}
  <2>1. [Finish(t) EXCEPT !.id = th[t].id].pc \in {"done", "idle"}
    BY DEF Finish, At
  <2>2. [th[t] EXCEPT !.pc = "ready", !.broker = None].pc = "ready"
    BY <1>2 DEF Thread
  <2>3. QED BY <2>1, <2>2 DEF AfterCancel
<1>4. \E r : r.pc \notin Saving /\ th' = [th EXCEPT ![t] = r]
  <2>1. CASE ReadyCollect(t)
    <3>1. /\ At("purge").pc = "purge" /\ At("range").pc = "range"
          /\ [th[t] EXCEPT !.pc = "register"].pc = "register"
          /\ Finish(t).pc \in {"done", "idle"}
          /\ \A b : [th[t] EXCEPT !.pc = "opened", !.broker = b].pc = "opened"
      BY <1>2, Records DEF Thread
    <3>2. CASE ConnectFails(t)
      BY <3>1, <3>2 DEF ConnectFails, Saving
    <3>3. CASE RegisterForProbe(t)
      BY <3>1, <3>3 DEF RegisterForProbe, Saving
    <3>4. CASE NothingToCollect(t) \/ StartCollect(t)
      BY <3>1, <3>4 DEF NothingToCollect, StartCollect, Returned, Saving
    <3>5. CASE Connects(t)
      <4>1. PICK b : th' = [th EXCEPT ![t] = [@ EXCEPT !.pc = "opened", !.broker = b]]
        BY <1>2, <3>5 DEF Connects
      <4>2. QED BY <3>1, <4>1 DEF Saving
    <3>6. QED BY <2>1, <3>2, <3>3, <3>4, <3>5 DEF ReadyCollect
  <2>2. CASE CancelCollect(t)
    <3>1. \A b : [th[t] EXCEPT !.pc = "destroying", !.broker = b].pc = "destroying"
      BY <1>2 DEF Thread
    <3>2. CASE CancelWithoutBroker(t) \/ CancelDestroys(t)
      BY <1>3, <3>2 DEF CancelWithoutBroker, CancelDestroys, Saving
    <3>3. CASE CancelLocks(t)
      <4>1. \E b : th' = [th EXCEPT ![t] = [th[t] EXCEPT !.pc = "destroying", !.broker = b]]
        BY <1>2, <3>3 DEF CancelLocks
      <4>2. QED BY <3>1, <4>1 DEF Saving
    <3>4. QED BY <2>2, <3>2, <3>3 DEF CancelCollect
  <2>3. QED BY <2>1, <2>2 DEF Collect
<1>5. \A s \in Threads : th'[s] = th[s] \/ th'[s].pc \notin Saving
  BY <1>2, <1>4
<1>6. QED BY <1>1, <1>5, OtherRevisions

LEMMA RequestVersions ==
    ASSUME IInv, VInv, NEW r \in Requests, Request(r) \/ Continue(r) \/ Unmap(r)
    PROVE  VInv'
<1>0. r \in Threads /\ Listener \in Threads /\ th \in [Threads -> Thread]
  BY NewThread, Constants, Maps
<1>1. ASSUME NEW id \in Ids,
             \/ DeleteDevice(r, id) \/ DeliverAction(r, id)
             \/ \E op \in Switches : SwitchDeviceStatus(r, id, op)
      PROVE  VInv'
  <2>1. UNCHANGED <<version, made, devices>>
    BY <1>1 DEF DeleteDevice, DeliverAction, SwitchDeviceStatus
  <2>2. \E s : s.pc \notin Saving /\ th' = [th EXCEPT ![r] = s]
    <3>1. CASE th' = [th EXCEPT ![r] = Finish(r)]
      BY <3>1, Records DEF Saving
    <3>2. CASE th' # [th EXCEPT ![r] = Finish(r)]
      BY <1>1, <3>2, BegunElsewhere DEF DeleteDevice, DeliverAction,
         SwitchDeviceStatus, Saving
    <3>3. QED BY <3>1, <3>2
  <2>3. QED BY <1>0, <2>1, <2>2, OtherRevisions
<1>2. CASE StoreDelete(r) \/ ReadBroker(r) \/ Unmap(r)
  <2>1. /\ UNCHANGED <<version, made>>
        /\ \A id \in Ids : devices'[id] \in {devices[id], None}
    BY <1>2, Maps DEF StoreDelete, ReadBroker, Unmap
  <2>2. \/ th' = th
        \/ \E s : s.pc \notin Saving /\ th' = [th EXCEPT ![r] = s]
    <3>1. [th[r] EXCEPT !.pc = "cancel"].pc = "cancel"
      BY <1>0 DEF Thread
    <3>2. QED BY <1>2, <3>1, Records DEF StoreDelete, ReadBroker, Unmap, Saving
  <2>3. QED BY <1>0, <2>1, <2>2, OtherRevisions
<1>3. CASE Receive(r)
  <2>1. UNCHANGED <<version, made, devices>>
    BY <1>3 DEF Receive
  <2>2. [th[r] EXCEPT !.pc = "load"].pc = "load" /\ Finish(r).pc \notin Saving
    BY <1>0, Records DEF Thread, Saving
  <2>3. \A s \in Threads : th'[s] = th[s] \/ th'[s].pc \notin Saving
    <3> DEFINE moved == [th[r] EXCEPT !.pc = "load"]
               ended == Finish(r)
    <3>1. th' = [th EXCEPT ![Listener] = moved, ![r] = ended]
      BY <1>3 DEF Receive
    <3>2. moved.pc \notin Saving /\ ended.pc \notin Saving
      BY <2>2 DEF Saving
    <3> HIDE DEF moved, ended
    <3>3. QED BY <1>0, <3>1, <3>2
  <2>4. QED BY <2>1, <2>3, OtherRevisions
<1>4. QED BY <1>1, <1>2, <1>3, CreateVersions, UpdateVersions, StoreUpdateVersions,
             ReplaceVersions DEF Request, Continue

LEMMA NextVersions ==
    ASSUME IInv, VInv, [Next]_vars
    PROVE  VInv'
<1>0. /\ Listener \in Threads /\ Heartbeat \in Threads /\ Main \in Threads
      /\ th \in [Threads -> Thread]
  BY Constants, Maps
<1>1. CASE Listen
  <2>1. UNCHANGED <<version, made, devices>>
    BY <1>1 DEF Listen, LoadMissing, Load
  <2>2. \A s, op : SwitchFrom(s, op) \in {"idle", "ready", "cancel"}
    BY DEF SwitchFrom
  <2>3. \A pc, rev : [th[Listener] EXCEPT !.pc = pc, !.rev = rev].pc = pc
    BY <1>0 DEF Thread
  <2>4. th' = th \/ \E s : s.pc \notin Saving /\ th' = [th EXCEPT ![Listener] = s]
    <3>1. CASE LoadMissing
      BY <3>1 DEF LoadMissing
    <3>2. CASE Load
      <4> DEFINE next == SwitchFrom(status[th[Listener].id][devices[th[Listener].id]],
                                    th[Listener].op)
      <4>1. next \notin Saving
        BY <2>2 DEF Saving
      <4>2. th' = [th EXCEPT ![Listener] =
                     IF next = "idle" THEN At("idle")
                     ELSE [@ EXCEPT !.pc = next, !.rev = devices[th[Listener].id]]]
        BY <3>2 DEF Load
      <4> HIDE DEF next
      <4>3. At("idle").pc \notin Saving
        BY Records DEF Saving
      <4>4. CASE next = "idle"
        BY <4>2, <4>3, <4>4
      <4>5. CASE next # "idle"
        <5> DEFINE s == [th[Listener] EXCEPT !.pc = next, !.rev = devices[th[Listener].id]]
        <5>1. s.pc \notin Saving
          BY <2>3, <4>1
        <5>2. th' = [th EXCEPT ![Listener] = s]
          BY <1>0, <4>2, <4>5
        <5>3. QED BY <5>1, <5>2
      <4>6. QED BY <4>4, <4>5
    <3>3. QED BY <1>1, <3>1, <3>2 DEF Listen
  <2>5. QED BY <1>0, <2>1, <2>4, OtherRevisions
<1>2. CASE HeartBeatDetection
  <2>1. UNCHANGED <<version, made, devices>>
    BY <1>2 DEF HeartBeatDetection, Tick, EndRange, Purge, Visit
  <2>2. th' = th \/ \E s : s.pc \notin Saving /\ th' = [th EXCEPT ![Heartbeat] = s]
    <3>1. CASE Tick
      <4>1. th' = [th EXCEPT ![Heartbeat] = At("range")]
        BY <3>1 DEF Tick
      <4>2. QED BY <4>1, Records DEF Saving
    <3>2. CASE EndRange
      <4>1. th' = [th EXCEPT ![Heartbeat] = At("purge")]
        BY <3>2 DEF EndRange
      <4>2. QED BY <4>1, Records DEF Saving
    <3>3. CASE Purge
      <4>1. th' = th \/ th' = [th EXCEPT ![Heartbeat] = At("idle")]
        BY <3>3 DEF Purge
      <4>2. QED BY <4>1, Records DEF Saving
    <3>4. ASSUME NEW id \in Ids, Visit(id)
          PROVE  \E s : s.pc \notin Saving /\ th' = [th EXCEPT ![Heartbeat] = s]
      BY <3>4, BegunElsewhere DEF Visit, Saving
    <3>5. QED BY <1>2, <3>1, <3>2, <3>3, <3>4 DEF HeartBeatDetection
  <2>3. QED BY <1>0, <2>1, <2>2, OtherRevisions
<1>3. CASE Stop
  <2>1. UNCHANGED <<version, made, devices>>
    BY <1>3 DEF Stop, Shutdown, ShutdownVisits, ShutdownDestroys, ShutdownEnds
  <2>2. \A b : [th[Main] EXCEPT !.pc = "closing", !.broker = b].pc = "closing"
    BY <1>0 DEF Thread
  <2>3. \E s : s.pc \notin Saving /\ th' = [th EXCEPT ![Main] = s]
    <3>1. CASE Shutdown \/ ShutdownDestroys
      <4>1. th' = [th EXCEPT ![Main] = At("shutdown")]
        BY <3>1 DEF Shutdown, ShutdownDestroys
      <4>2. QED BY <4>1, Records DEF Saving
    <3>2. CASE ShutdownEnds
      <4>1. th' = [th EXCEPT ![Main] = At("done")]
        BY <3>2 DEF ShutdownEnds
      <4>2. QED BY <4>1, Records DEF Saving
    <3>3. ASSUME NEW id \in Ids, ShutdownVisits(id)
          PROVE  \E s : s.pc \notin Saving /\ th' = [th EXCEPT ![Main] = s]
      <4>1. th' = [th EXCEPT ![Main] = [@ EXCEPT !.pc = "closing", !.broker = brokers[id]]]
        BY <3>3 DEF ShutdownVisits
      <4>2. QED BY <2>2, <4>1 DEF Saving
    <3>4. QED BY <1>3, <3>1, <3>2, <3>3 DEF Stop
  <2>4. QED BY <1>0, <2>1, <2>3, OtherRevisions
<1>4. ASSUME \/ MapRace \/ UNCHANGED vars
             \/ \E b \in Brokers : Produce(b) \/ Consume(b)
      PROVE  VInv'
  <2>1. UNCHANGED <<version, made, devices, th>>
    BY <1>4 DEF MapRace, vars, Produce, Consume
  <2>2. QED BY <2>1, OtherRevisions
<1>5. QED BY <1>1, <1>2, <1>3, <1>4, CollectVersions, RequestVersions DEF Next

-----------------------------------------------------------------------------
(* Whoever starts a collector starts the goroutine that takes its results; it
   ends behind the collector. *)
ReaderInv == \A b \in live : deviceOf[b] # None

LEMMA CollectReaders ==
    ASSUME IInv, ReaderInv, NEW t \in Threads, Collect(t)
    PROVE  ReaderInv'
<1>1. CASE StartCollect(t)
  <2>1. th[t].id \in Ids
    BY <1>1, InsideThread DEF StartCollect, Inside
  <2>2. QED BY <1>1, <2>1, Maps, Constants DEF StartCollect, ReaderInv, IInv, TypesInv
<1>2. CASE CancelDestroys(t)
  BY <1>2, Maps DEF CancelDestroys, DestroyEnds, ReaderInv, IInv, TypesInv
<1>3. CASE ~StartCollect(t) /\ ~CancelDestroys(t)
  <2>1. UNCHANGED <<live, deviceOf>>
    BY <1>3 DEF Collect, ReadyCollect, CancelCollect, ConnectFails, RegisterForProbe,
       NothingToCollect, Connects, CancelWithoutBroker, CancelLocks
  <2>2. QED BY <2>1 DEF ReaderInv
<1>4. QED BY <1>1, <1>2, <1>3

LEMMA NextReaders ==
    ASSUME IInv, ReaderInv, [Next]_vars
    PROVE  ReaderInv'
<1>1. ASSUME NEW r \in Requests, Request(r) \/ Continue(r) \/ Unmap(r)
      PROVE  UNCHANGED <<live, deviceOf>>
  BY <1>1 DEF Request, CreateDevice, DeleteDevice, UpdateDevice, DeliverAction,
     SwitchDeviceStatus, Continue, StoreDelete, StoreUpdate, ReplaceDevice, Receive,
     ReadBroker, Unmap
<1>2. ASSUME Listen \/ HeartBeatDetection \/ MapRace \/ UNCHANGED vars
      PROVE  UNCHANGED <<live, deviceOf>>
  BY <1>2 DEF Listen, LoadMissing, Load, HeartBeatDetection, Tick, EndRange, Purge, Visit,
     MapRace, vars
<1>3. ASSUME NEW b \in Brokers, Produce(b) \/ Consume(b)
      PROVE  ReaderInv'
  BY <1>3, Maps DEF Produce, Consume, ReaderAfter, ReaderInv, IInv, TypesInv
<1>4. CASE Stop
  <2>1. CASE ShutdownDestroys
    BY <2>1, Maps DEF ShutdownDestroys, DestroyEnds, ReaderInv, IInv, TypesInv
  <2>2. CASE ~ShutdownDestroys
    BY <1>4, <2>2 DEF Stop, Shutdown, ShutdownVisits, ShutdownEnds, ReaderInv
  <2>3. QED BY <2>1, <2>2
<1>5. QED BY <1>1, <1>2, <1>3, <1>4, CollectReaders DEF Next, ReaderInv

-----------------------------------------------------------------------------
LEMMA TInvIs == TInv <=> IInv /\ Rest /\ VInv /\ ReaderInv
BY DEF TInv, IInv, TypesInv, TypeOK, Rest, VInv, Versions, ReaderInv

LEMMA InitTypes == Init => TInv
<1> SUFFICES ASSUME Init PROVE TInv
  OBVIOUS
<1>1. PICK loaded \in [Ids -> Loaded] :
         /\ made = [id \in Ids |-> IF loaded[id] = "absent" THEN 0 ELSE 1]
         /\ version = [id \in Ids |-> [v \in Revs |-> 1]]
         /\ store = [id \in Ids |-> IF made[id] = 1 THEN 1 ELSE None]
         /\ devices = store
         /\ status = [id \in Ids |-> [v \in Revs |->
                        IF v = made[id] THEN loaded[id] ELSE "stopped"]]
         /\ result = [b \in Brokers |-> "none"]
         /\ mu = None /\ unmap = {} /\ resume = {} /\ closed = {}
         /\ crashed = "no" /\ overlapped = {}
         /\ th = [t \in Threads |-> At(IF t \in {Listener, Heartbeat}
                                   THEN "idle" ELSE "new")]
  BY DEF Init
<1>2. Rest
  <2>1. \A id \in Ids, v \in Revs :
           (IF v = made[id] THEN loaded[id] ELSE "stopped") \in Status
    <3>1. ASSUME NEW id \in Ids, NEW v \in Revs, v = made[id]
          PROVE  loaded[id] \in Status
      <4>1. loaded[id] # "absent"
        BY <1>1, <3>1, RevisionsAre DEF Revs
      <4>2. loaded[id] \in Loaded
        OBVIOUS
      <4>3. QED BY <4>1, <4>2 DEF Loaded, Status
    <3>2. QED BY <3>1 DEF Status
  <2>2. status \in [Ids -> [Revs -> Status]]
    BY <1>1, <2>1
  <2>3. store \in [Ids -> Revs \cup {None}]
    BY <1>1, RevisionsAre
  <2>4. QED BY <1>1, <2>2, <2>3 DEF Rest, Crashes
<1>3. VInv
  <2>1. \A t \in Threads : th[t].pc \notin Saving
    BY <1>1, Records DEF Saving
  <2>2. Versions
    BY <1>1 DEF Versions
  <2>3. \A id \in Ids : devices[id] # None => devices[id] <= made[id]
    <3>1. \A id \in Ids : devices[id] # None => made[id] = 1 /\ devices[id] = 1
      BY <1>1
    <3>2. QED BY <3>1
  <2>4. QED BY <2>1, <2>2, <2>3 DEF VInv, RevisionInv, Saving
<1>4. ReaderInv
  BY DEF Init, ReaderInv
<1>5. QED BY <1>2, <1>3, <1>4, InitEstablishes, TInvIs

LEMMA NextTypes == TInv /\ [Next]_vars => TInv'
<1>1. IInv /\ Rest /\ VInv /\ ReaderInv /\ [Next]_vars =>
         (IInv /\ Rest /\ VInv /\ ReaderInv)'
  BY NextKeeps, RestTypes, NextVersions, NextReaders
<1>2. TInv' <=> (IInv /\ Rest /\ VInv /\ ReaderInv)'
  BY TInvIs, PTL
<1>3. QED BY <1>1, <1>2, TInvIs

(* Every variable keeps its type, for any devices, revisions and versions; and
   a broker that collects always has the goroutine that takes its results. *)
THEOREM ManagerTypeOK == Spec => []TypeOK
<1>1. TInv => TypeOK
  BY DEF TInv
<1>2. QED BY InitTypes, NextTypes, <1>1, PTL DEF Spec

-----------------------------------------------------------------------------
(* What holds of a device that no operation is on. *)

Calm(id) ==
    /\ devices[id] = None => heartBeat[id] = None /\ brokers[id] = None
    /\ heartBeat[id] = None \/ brokers[id] = None
    /\ devices[id] # None /\ status[id][devices[id]] = "stopped" =>
          heartBeat[id] = None /\ brokers[id] = None
    /\ devices[id] = 1 => heartBeat[id] \in {None, 1}
    /\ devices[id] = 1 /\ status[id][1] = "unconnected" =>
          heartBeat[id] # None \/ brokers[id] # None

Settled(id) == Calm(id) /\ devices[id] = store[id]

(* The device is in memory and on disk. *)
Present(id) == devices[id] = store[id] /\ devices[id] # None

NotStopped(id) == status[id][devices[id]] # "stopped"
NotUnconnected(id) == devices[id] = 1 => status[id][1] # "unconnected"

(* A status that says stopped is that of a device nothing collects for. *)
StoppedIsFree(id, rev) ==
    status[id][rev] = "stopped" => heartBeat[id] = None /\ brokers[id] = None

(* DeleteDevice, once store.Delete is over. *)
Leaving(t, id) == store[id] = None /\ (t \in unmap \/ devices[id] = None)

(* readyCollect may start: nothing collects, and the heartbeat probes the
   object that is registered, everybody else an object that is not. *)
Free(t, id) ==
    /\ Present(id)
    /\ brokers[id] = None
    /\ IF t = Heartbeat
       THEN /\ heartBeat[id] = th[t].rev
            /\ heartBeat[id] # None
            /\ devices[id] = 1 => heartBeat[id] = 1
            /\ NotStopped(id)
       ELSE th[t].rev = devices[id] /\ heartBeat[id] = None

(* The assertion at each place of the thread t that is on the device. *)
Asserted(t, id) ==
    LET pc  == th[t].pc
        op  == th[t].op
        rev == th[t].rev
    IN /\ pc \in {"send", "load"} =>
             Settled(id) /\ devices[id] # None /\ op \in Switches
       /\ pc = "remove" =>
             Settled(id) /\ devices[id] # None /\ rev = devices[id] /\ op = "delete"
       /\ pc = "save" =>
             /\ Settled(id)
             /\ devices[id] # None
             /\ rev # devices[id]
             /\ version[id][rev] = version[id][devices[id]]
             /\ StoppedIsFree(id, rev)
       /\ pc = "replace" =>
             /\ store[id] = rev
             /\ heartBeat[id] = None \/ brokers[id] = None
             /\ StoppedIsFree(id, rev)
       /\ pc \in {"cancel", "destroying"} =>
             /\ t # Heartbeat
             /\ \/ op \in Switches /\ Present(id) /\ rev = devices[id]
                \/ op = "delete" /\ Leaving(t, id)
       /\ pc = "destroying" =>
             /\ heartBeat[id] = None
             /\ th[t].broker = brokers[id]
             /\ op \in Switches => NotUnconnected(id)
       /\ pc \in {"ready", "opened"} => Free(t, id)
       /\ pc = "opened" => NotStopped(id) /\ NotUnconnected(id)
       /\ pc = "register" =>
             /\ Present(id)
             /\ rev = devices[id]
             /\ brokers[id] = None
             /\ NotStopped(id)
       /\ pc \in {"range", "purge", "shutdown", "closing"} => FALSE

(* The heartbeat has started the device again and not yet purged it. *)
Resumed(id) ==
    /\ Present(id)
    /\ NotStopped(id)
    /\ NotUnconnected(id) \/ brokers[id] # None

(* DeleteDevice between store.Delete and devices.Delete; cancelCollect may
   have ended already. *)
Departing(r, id) ==
    /\ Leaving(r, id)
    /\ th[r].pc = "done" => heartBeat[id] = None /\ brokers[id] = None

Inactive == {"new", "idle", "done", "deliver"}

On(t, id) == th[t].id = id /\ th[t].pc \notin Inactive

Engages(t, id) == On(t, id) \/ (t \in unmap /\ th[t].id = id)

AtWork(t, id) == Engages(t, id) \/ (t = Heartbeat /\ id \in resume)

WorkInv(t, id) ==
    /\ On(t, id) => Asserted(t, id)
    /\ t \in unmap /\ th[t].id = id => Departing(t, id)
    /\ t = Heartbeat /\ id \in resume => Resumed(id) /\ ~On(t, id)

(* One thread at a time, whose assertion holds, and one collector. *)
DeviceInv(id) ==
    /\ \A s, t \in Threads : AtWork(s, id) /\ AtWork(t, id) => s = t
    /\ \A t \in Threads : AtWork(t, id) => WorkInv(t, id)
    /\ (\A t \in Threads : ~AtWork(t, id)) => Settled(id)
    /\ \A b \in live : deviceOf[b] = id => b = brokers[id]

SerialInv == \A id \in Ids : Serial(id) => DeviceInv(id)

(* Only a delete owes devices.Delete. *)
UnmapInv ==
    /\ \A t \in Threads : th[t].pc = "remove" => th[t].op = "delete"
    /\ \A r \in unmap :
          \/ th[r].pc = "done"
          \/ th[r].pc \in {"cancel", "destroying"} /\ th[r].op = "delete"

SInv == TInv /\ UnmapInv /\ SerialInv

-----------------------------------------------------------------------------
(* What a step on one device leaves of the others. *)

LEMMA Types ==
    TInv => /\ store \in [Ids -> Revs \cup {None}]
            /\ devices \in [Ids -> Revs \cup {None}]
            /\ heartBeat \in [Ids -> Revs \cup {None}]
            /\ brokers \in [Ids -> Brokers \cup {None}]
            /\ status \in [Ids -> [Revs -> Status]]
            /\ version \in [Ids -> [Revs -> Nat \ {0}]]
            /\ deviceOf \in [Brokers -> Ids \cup {None}]
            /\ live \subseteq Brokers
            /\ th \in [Threads -> Thread]
            /\ unmap \subseteq Requests
            /\ resume \subseteq Ids
BY DEF TInv, TypeOK

LEMMA EngagedIsAtWork ==
    ASSUME TInv, NEW id \in Ids
    PROVE  Engaged(id) <=> \E t \in Threads : AtWork(t, id)
<1>1. unmap \subseteq Threads /\ Heartbeat \in Threads
  BY Types, Constants
<1>2. QED BY <1>1 DEF Engaged, AtWork, Engages, On, Inactive

LEMMA Frame ==
    ASSUME SInv, NEW j \in Ids, Serial(j),
           UNCHANGED <<store[j], devices[j], heartBeat[j], brokers[j], status[j],
                       version[j]>>,
           \A t \in Threads :
               \/ th'[t] = th[t] /\ (t \in unmap' <=> t \in unmap)
               \/ ~Engages(t, j) /\ ~Engages(t, j)',
           j \in resume' <=> j \in resume,
           \A b \in live' : deviceOf'[b] = j => b \in live /\ deviceOf[b] = j
    PROVE  DeviceInv(j)'
<1>1. DeviceInv(j)
  BY DEF SInv, SerialInv
<1>2. \A t \in Threads : Engages(t, j)' <=> Engages(t, j)
  BY DEF Engages, On
<1>3. \A t \in Threads : AtWork(t, j)' <=> AtWork(t, j)
  BY <1>2 DEF AtWork
<1>4. Settled(j)' <=> Settled(j)
  BY DEF Settled, Calm
<1>5. Resumed(j)' <=> Resumed(j)
  BY DEF Resumed, Present, NotStopped, NotUnconnected
<1>6. ASSUME NEW t \in Threads, WorkInv(t, j), AtWork(t, j)'
      PROVE  WorkInv(t, j)'
  <2>1. CASE Engages(t, j)
    <3>1. th'[t] = th[t] /\ (t \in unmap' <=> t \in unmap)
      BY <2>1
    <3>2. Asserted(t, j)' <=> Asserted(t, j)
      BY <3>1 DEF Asserted, Settled, Calm, Present, NotStopped, NotUnconnected,
         StoppedIsFree, Leaving, Free
    <3>3. Departing(t, j)' <=> Departing(t, j)
      BY <3>1 DEF Departing, Leaving
    <3>4. QED BY <1>5, <1>6, <3>1, <3>2, <3>3 DEF WorkInv, On
  <2>2. CASE ~Engages(t, j)
    BY <1>2, <1>5, <1>6, <2>2 DEF WorkInv, Engages
  <2>3. QED BY <2>1, <2>2
<1>7. QED BY <1>1, <1>3, <1>4, <1>6 DEF DeviceInv

(* A thread at one of these places is on no device of its own. *)
Away == {"range", "purge", "shutdown", "closing"}

LEMMA AwayIsOff ==
    ASSUME SInv, NEW t \in Threads, NEW j \in Ids, Serial(j), th[t].pc \in Away
    PROVE  th[t].id # j
BY DEF SInv, SerialInv, DeviceInv, WorkInv, AtWork, Engages, On, Asserted, Away, Inactive

(* The step leaves alone what is not the device's or the thread's. *)
Aside(t, i) ==
    /\ \A j \in Ids : j # i =>
          /\ UNCHANGED <<store[j], devices[j], heartBeat[j], brokers[j],
                         status[j], version[j]>>
          /\ j \in resume' <=> j \in resume
          /\ \A b \in live' : deviceOf'[b] = j => b \in live /\ deviceOf[b] = j
    /\ \A s \in Threads : s # t => (s \in unmap' <=> s \in unmap)
    /\ unmap' \subseteq Requests
    /\ overlapped \subseteq overlapped'

(* One thread moves, on the device i. *)
LEMMA OneDevice ==
    ASSUME SInv, NEW t \in Threads, NEW i, NEW r,
           th' = [th EXCEPT ![t] = r], Aside(t, i),
           th[t].id = i \/ th[t].pc \in Away \cup {"new", "idle", "deliver"},
           r.id \in {i, None} \/ (r.id = th[t].id /\ th[t].pc \in Away),
           t \in unmap' => \/ r.pc = "done"
                           \/ r.pc \in {"cancel", "destroying"} /\ r.op = "delete",
           r.pc = "remove" => r.op = "delete",
           i \in Ids /\ i \notin overlapped' => DeviceInv(i)'
    PROVE  SerialInv' /\ UnmapInv'
<1>0. /\ \A s \in Threads : s # t => (s \in unmap' <=> s \in unmap)
      /\ unmap' \subseteq Requests /\ overlapped \subseteq overlapped'
  BY DEF Aside
<1>1. \A s \in Threads : th'[s] = IF s = t THEN r ELSE th[s]
  BY Types DEF SInv
<1>2. unmap \subseteq Requests /\ Requests \subseteq Threads /\ None \notin Ids
  BY Types, Constants DEF SInv
<1>3. UnmapInv'
  BY <1>0, <1>1, <1>2 DEF SInv, UnmapInv
<1>4. ASSUME NEW j \in Ids, j # i, j \notin overlapped'
      PROVE  DeviceInv(j)'
  <2>1. Serial(j)
    BY <1>0, <1>4 DEF Serial
  <2>2. th[t].pc \in Away => th[t].id # j
    BY <2>1, AwayIsOff
  <2>3. th[t].pc \in Away \cup {"new", "idle", "deliver"} => t \notin unmap
    BY DEF SInv, UnmapInv, Away
  <2>4. ~Engages(t, j)
    BY <1>4, <2>2, <2>3 DEF Engages, On, Inactive
  <2>5. ~Engages(t, j)'
    BY <1>0, <1>1, <1>2, <1>4, <2>2 DEF Engages, On
  <2>6. \A s \in Threads :
            \/ th'[s] = th[s] /\ (s \in unmap' <=> s \in unmap)
            \/ ~Engages(s, j) /\ ~Engages(s, j)'
    BY <1>0, <1>1, <2>4, <2>5
  <2>7. QED BY <1>4, <2>1, <2>6, Frame DEF Aside
<1>5. QED BY <1>3, <1>4 DEF SerialInv, Serial

-----------------------------------------------------------------------------
(* What a step does on its device, when no other operation is on it. *)

LEMMA Advances ==
    ASSUME SInv, NEW t \in Threads, NEW i \in Ids, NEW r, Serial(i),
           AtWork(t, i) \/ \A s \in Threads : ~AtWork(s, i),
           th' = [th EXCEPT ![t] = r],
           \A s \in Threads : s # t => (s \in unmap' <=> s \in unmap),
           i \in resume' => i \in resume \/ t = Heartbeat,
           \A b \in live' : deviceOf'[b] = i => b = brokers'[i],
           WorkInv(t, i)',
           ~AtWork(t, i)' => Settled(i)'
    PROVE  DeviceInv(i)'
<1>1. \A s \in Threads : s # t => ~AtWork(s, i)
  BY DEF SInv, SerialInv, DeviceInv
<1>2. \A s \in Threads : s # t => th'[s] = th[s]
  BY Types DEF SInv
<1>3. \A s \in Threads : s # t => ~AtWork(s, i)'
  BY <1>1, <1>2, Constants DEF AtWork, Engages, On
<1>4. QED BY <1>3 DEF DeviceInv

(* A thread on a device it has to itself. *)
LEMMA Alone ==
    ASSUME SInv, NEW t \in Threads, NEW i \in Ids, Serial(i), On(t, i)
    PROVE  /\ AtWork(t, i) /\ Asserted(t, i) /\ i \notin resume
           /\ t \in unmap => Departing(t, i)
           /\ \A b \in live : deviceOf[b] = i => b = brokers[i]
<1>1. DeviceInv(i) /\ AtWork(t, i)
  BY DEF SInv, SerialInv, AtWork, Engages
<1>2. WorkInv(t, i)
  BY <1>1 DEF DeviceInv
<1>3. i \notin resume
  BY <1>1, <1>2, Constants DEF DeviceInv, AtWork, WorkInv
<1>4. QED BY <1>1, <1>2, <1>3 DEF DeviceInv, WorkInv, On

(* The thread goes to its next place, or ends. *)
LEMMA Goes ==
    ASSUME SInv, NEW t \in Threads, NEW i \in Ids, NEW r, Serial(i),
           On(t, i) \/ \A s \in Threads : ~AtWork(s, i),
           th' = [th EXCEPT ![t] = r],
           unmap' = unmap, t \notin unmap, resume' = resume,
           \A b \in live' : deviceOf'[b] = i => b = brokers'[i],
           IF r.id = i /\ r.pc \notin Inactive THEN Asserted(t, i)' ELSE Settled(i)'
    PROVE  DeviceInv(i)'
<1>1. i \notin resume
  BY Alone, Constants DEF AtWork
<1>2. th'[t] = r
  BY Types DEF SInv
<1>3. WorkInv(t, i)' /\ (~AtWork(t, i)' => Settled(i)')
  BY <1>1, <1>2 DEF WorkInv, AtWork, Engages, On
<1>4. AtWork(t, i) \/ \A s \in Threads : ~AtWork(s, i)
  BY DEF AtWork, Engages
<1>5. QED BY <1>1, <1>3, <1>4, Advances

-----------------------------------------------------------------------------
(* readyCollect *)

(* The map entries of one device, and its statuses. *)
LEMMA StatusSets ==
    ASSUME TInv, NEW t \in Threads, th[t].id \in Ids, NEW s, SetStatus(t, s)
    PROVE  /\ \A j \in Ids : j # th[t].id => status'[j] = status[j]
           /\ \A v \in Revs : status'[th[t].id][v] =
                                  IF v = th[t].rev THEN s ELSE status[th[t].id][v]
BY Types DEF SetStatus

LEMMA OnDevice ==
    ASSUME SInv, NEW t \in Threads, th[t].pc \in Inside
    PROVE  \E i \in Ids : i = th[t].id /\ On(t, i) /\ th[t] \in Thread
<1>1. TInv /\ IInv
  BY DEF SInv, TInv
<1>2. th[t].id \in Ids /\ th[t] \in Thread
  BY <1>1, InsideThread
<1>3. QED BY <1>2 DEF On, Inside, Inactive

(* Only cancelCollect and what comes after it run with a delete pending. *)
LEMMA NotPending ==
    ASSUME SInv, NEW t \in Threads, th[t].pc \notin {"cancel", "destroying", "done"}
    PROVE  t \notin unmap /\ unmap \subseteq Requests
BY Types DEF SInv, UnmapInv

LEMMA ConnectFailsKeeps ==
    ASSUME SInv, NEW t \in Threads, ConnectFails(t)
    PROVE  SerialInv' /\ UnmapInv'
<1> DEFINE r == IF t = Heartbeat THEN At("purge") ELSE [th[t] EXCEPT !.pc = "register"]
<1>0. PICK i \in Ids : i = th[t].id /\ On(t, i) /\ th[t] \in Thread
  BY OnDevice DEF ConnectFails, Inside
<1>1. /\ th[t].pc = "ready" /\ SetStatus(t, "unconnected")
      /\ th' = [th EXCEPT ![t] = r]
      /\ UNCHANGED <<store, devices, heartBeat, brokers, live, deviceOf, unmap,
                     resume, version, overlapped>>
  BY DEF ConnectFails
<1>2. t \notin unmap /\ unmap \subseteq Requests /\ TInv
  BY <1>1, NotPending DEF SInv
<1>3. /\ \A j \in Ids : j # i => status'[j] = status[j]
      /\ \A v \in Revs : status'[i][v] =
                              IF v = th[t].rev THEN "unconnected" ELSE status[i][v]
  BY <1>0, <1>1, <1>2, StatusSets
<1>4. /\ t = Heartbeat => r.id = None /\ r.pc = "purge"
      /\ t # Heartbeat => r.id = i /\ r.pc = "register" /\ r.rev = th[t].rev
  BY <1>0, Records DEF Thread
<1>5. th'[t] = r
  BY <1>0, <1>1, <1>2, Types
<1> HIDE DEF r
<1>6. ASSUME i \notin overlapped'
      PROVE  DeviceInv(i)'
  <2>1. Serial(i) /\ Free(t, i)
    BY <1>0, <1>1, <1>6, Alone DEF Serial, Asserted
  <2>2. CASE t = Heartbeat
    <3>1. Settled(i)'
      <4>1. /\ devices[i] = store[i] /\ devices[i] \in Revs /\ brokers[i] = None
            /\ devices[i] # None /\ heartBeat[i] # None /\ status[i][devices[i]] # "stopped"
            /\ devices[i] = 1 => heartBeat[i] = 1
        BY <1>2, <2>1, <2>2, Types DEF Free, Present, NotStopped
      <4>2. status'[i][devices[i]] # "stopped"
        BY <1>3, <4>1
      <4>3. QED BY <1>1, <4>1, <4>2 DEF Settled, Calm
    <3>2. r.id # i
      BY <1>4, <2>2, Constants
    <3>3. \A b \in live' : deviceOf'[b] = i => b = brokers'[i]
      BY <1>0, <1>1, <2>1, Alone
    <3>4. QED BY <1>0, <1>1, <1>2, <2>1, <3>1, <3>2, <3>3, Goes
  <2>3. CASE t # Heartbeat
    <3>1. Asserted(t, i)'
      <4>1. /\ Present(i) /\ devices[i] \in Revs /\ brokers[i] = None
            /\ th[t].rev = devices[i]
        BY <1>2, <2>1, <2>3, Types DEF Free, Present
      <4>2. status'[i][devices[i]] # "stopped"
        BY <1>3, <4>1
      <4>3. th'[t].pc = "register" /\ th'[t].rev = th[t].rev
        BY <1>4, <1>5, <2>3
      <4>4. QED BY <1>1, <4>1, <4>2, <4>3 DEF Asserted, Present, NotStopped
    <3>2. r.id = i /\ r.pc \notin Inactive
      BY <1>4, <2>3 DEF Inactive
    <3>3. QED BY <1>0, <1>1, <1>2, <2>1, <3>1, <3>2, Alone, Goes
  <2>4. QED BY <2>2, <2>3
<1>7. /\ r.id \in {i, None} /\ r.pc \in {"purge", "register"}
  BY <1>4
<1>8. Aside(t, i)
  BY <1>1, <1>2, <1>3 DEF Aside
<1>9. QED BY <1>0, <1>1, <1>2, <1>6, <1>7, <1>8, OneDevice

LEMMA RegisterKeeps ==
    ASSUME SInv, NEW t \in Threads, RegisterForProbe(t)
    PROVE  SerialInv' /\ UnmapInv'
<1> DEFINE r == Finish(t)
<1>0. PICK i \in Ids : i = th[t].id /\ On(t, i) /\ th[t] \in Thread
  BY OnDevice DEF RegisterForProbe, Inside
<1>1. /\ th[t].pc = "register" /\ heartBeat' = [heartBeat EXCEPT ![th[t].id] = th[t].rev]
      /\ th' = [th EXCEPT ![t] = r]
      /\ UNCHANGED <<store, devices, status, brokers, live, deviceOf, unmap,
                     resume, version, overlapped>>
  BY DEF RegisterForProbe, Probed
<1>2. t \notin unmap /\ unmap \subseteq Requests /\ TInv
  BY <1>1, NotPending DEF SInv
<1>3. /\ \A j \in Ids : j # i => heartBeat'[j] = heartBeat[j]
      /\ heartBeat'[i] = th[t].rev
  BY <1>0, <1>1, <1>2, Types
<1>4. r.id = None /\ r.pc \in {"done", "idle"}
  BY Records
<1> HIDE DEF r
<1>5. ASSUME i \notin overlapped'
      PROVE  DeviceInv(i)'
  <2>1. /\ Serial(i) /\ Present(i) /\ th[t].rev = devices[i] /\ brokers[i] = None
        /\ NotStopped(i)
    BY <1>0, <1>1, <1>5, Alone DEF Serial, Asserted
  <2>2. Settled(i)'
    BY <1>1, <1>3, <2>1 DEF Settled, Calm, Present, NotStopped
  <2>3. r.id # i
    BY <1>4, Constants
  <2>4. QED BY <1>0, <1>1, <1>2, <2>1, <2>2, <2>3, Alone, Goes
<1>6. Aside(t, i)
  BY <1>1, <1>2, <1>3 DEF Aside
<1>7. QED BY <1>0, <1>1, <1>2, <1>4, <1>5, <1>6, OneDevice

LEMMA ReturnsTo ==
    ASSUME NEW t \in Threads, Returned(t)
    PROVE  \E r : /\ th' = [th EXCEPT ![t] = r]
                  /\ r.id = None /\ r.pc \in {"range", "done", "idle"}
                  /\ resume' = IF t = Heartbeat THEN resume \cup {th[t].id} ELSE resume
<1>1. CASE t = Heartbeat
  BY <1>1, Records DEF Returned
<1>2. CASE t # Heartbeat
  BY <1>2, Records DEF Returned
<1>3. QED BY <1>1, <1>2

(* readyCollect has come back with nil: the heartbeat keeps the device until
   it purges it, everybody else is done with it. *)
LEMMA ReturnsKeep ==
    ASSUME SInv, NEW t \in Threads, NEW i \in Ids, Serial(i), On(t, i),
           NEW r, th' = [th EXCEPT ![t] = r],
           r.id = None, r.pc \in {"range", "done", "idle"},
           resume' = IF t = Heartbeat THEN resume \cup {i} ELSE resume,
           unmap' = unmap, t \notin unmap,
           \A b \in live' : deviceOf'[b] = i => b = brokers'[i],
           IF t = Heartbeat THEN Resumed(i)' ELSE Settled(i)'
    PROVE  DeviceInv(i)'
<1>1. /\ AtWork(t, i) /\ i \notin resume
  BY Alone
<1>2. th'[t] = r /\ None \notin Ids
  BY Types, Constants DEF SInv
<1>3. ~On(t, i)'
  BY <1>2 DEF On
<1>4. WorkInv(t, i)' /\ (~AtWork(t, i)' => Settled(i)')
  BY <1>1, <1>2, <1>3 DEF WorkInv, AtWork, Engages
<1>5. QED BY <1>1, <1>4, Advances

LEMMA NothingKeeps ==
    ASSUME SInv, NEW t \in Threads, NothingToCollect(t)
    PROVE  SerialInv' /\ UnmapInv'
<1>0. PICK i \in Ids : i = th[t].id /\ On(t, i) /\ th[t] \in Thread
  BY OnDevice DEF NothingToCollect, Inside
<1>1. /\ th[t].pc = "ready" /\ SetStatus(t, "emptyVariable")
      /\ UNCHANGED <<store, devices, heartBeat, brokers, live, deviceOf, unmap,
                     version, overlapped>>
  BY DEF NothingToCollect
<1>2. t \notin unmap /\ unmap \subseteq Requests /\ TInv
  BY <1>1, NotPending DEF SInv
<1>3. /\ \A j \in Ids : j # i => status'[j] = status[j]
      /\ \A v \in Revs : status'[i][v] =
                              IF v = th[t].rev THEN "emptyVariable" ELSE status[i][v]
  BY <1>0, <1>1, <1>2, StatusSets
<1>4. PICK r : /\ th' = [th EXCEPT ![t] = r]
               /\ r.id = None /\ r.pc \in {"range", "done", "idle"}
               /\ resume' = IF t = Heartbeat THEN resume \cup {i} ELSE resume
  BY <1>0, ReturnsTo DEF NothingToCollect
<1>5. ASSUME i \notin overlapped'
      PROVE  DeviceInv(i)'
  <2>1. Serial(i) /\ Free(t, i)
    BY <1>0, <1>1, <1>5, Alone DEF Serial, Asserted
  <2>2. /\ devices[i] = store[i] /\ devices[i] \in Revs /\ devices[i] # None
        /\ brokers[i] = None
    BY <1>2, <2>1, Types DEF Free, Present
  <2>3. status'[i][devices[i]] \in {"emptyVariable", status[i][devices[i]]}
    BY <1>3, <2>2
  <2>4. CASE t = Heartbeat
    <3>1. /\ status[i][devices[i]] # "stopped" /\ heartBeat[i] = th[t].rev
          /\ devices[i] = 1 => heartBeat[i] = 1
      BY <2>1, <2>4 DEF Free, NotStopped
    <3>2. status'[i][devices[i]] # "stopped"
      BY <2>3, <3>1
    <3>3. devices[i] = 1 => status'[i][1] # "unconnected"
      BY <1>3, <2>2, <3>1
    <3>4. Resumed(i)'
      BY <1>1, <2>2, <3>2, <3>3 DEF Resumed, Present, NotStopped, NotUnconnected
    <3>5. \A b \in live' : deviceOf'[b] = i => b = brokers'[i]
      BY <1>0, <1>1, <2>1, Alone
    <3>6. QED BY <1>0, <1>1, <1>2, <1>4, <2>1, <2>4, <3>4, <3>5, ReturnsKeep
  <2>5. CASE t # Heartbeat
    <3>1. th[t].rev = devices[i] /\ heartBeat[i] = None
      BY <2>1, <2>5 DEF Free
    <3>2. status'[i][devices[i]] = "emptyVariable"
      BY <1>3, <2>2, <3>1
    <3>3. Settled(i)'
      BY <1>1, <2>2, <3>1, <3>2 DEF Settled, Calm
    <3>4. QED BY <1>0, <1>1, <1>2, <1>4, <2>1, <2>5, <3>3, Alone, ReturnsKeep
  <2>6. QED BY <2>4, <2>5
<1>6. Aside(t, i)
  <2>1. \A j \in Ids : j # i => (j \in resume' <=> j \in resume)
    BY <1>4
  <2>2. QED BY <1>1, <1>2, <1>3, <2>1 DEF Aside
<1>7. QED BY <1>0, <1>1, <1>2, <1>4, <1>5, <1>6, OneDevice

LEMMA ConnectsKeepsSerial ==
    ASSUME SInv, NEW t \in Threads, Connects(t)
    PROVE  SerialInv' /\ UnmapInv'
<1>0. PICK i \in Ids : i = th[t].id /\ On(t, i) /\ th[t] \in Thread
  BY OnDevice DEF Connects, Inside
<1>1. /\ th[t].pc = "ready" /\ SetStatus(t, "collecting")
      /\ UNCHANGED <<store, devices, heartBeat, brokers, live, deviceOf, unmap,
                     resume, version, overlapped>>
  BY DEF Connects
<1>2. t \notin unmap /\ unmap \subseteq Requests /\ TInv
  BY <1>1, NotPending DEF SInv
<1>3. /\ \A j \in Ids : j # i => status'[j] = status[j]
      /\ \A v \in Revs : status'[i][v] =
                              IF v = th[t].rev THEN "collecting" ELSE status[i][v]
  BY <1>0, <1>1, <1>2, StatusSets
<1>4. PICK b \in Brokers :
         th' = [th EXCEPT ![t] = [th[t] EXCEPT !.pc = "opened", !.broker = b]]
  BY <1>0, <1>2, Types DEF Connects
<1> DEFINE r == [th[t] EXCEPT !.pc = "opened", !.broker = b]
<1>5. r.id = i /\ r.pc = "opened" /\ r.rev = th[t].rev /\ th' = [th EXCEPT ![t] = r]
  BY <1>0, <1>4 DEF Thread
<1> HIDE DEF r
<1>6. th'[t] = r
  BY <1>2, <1>5, Types
<1>7. ASSUME i \notin overlapped'
      PROVE  DeviceInv(i)'
  <2>1. Serial(i) /\ Free(t, i)
    BY <1>0, <1>1, <1>7, Alone DEF Serial, Asserted
  <2>2. /\ devices[i] = store[i] /\ devices[i] \in Revs /\ devices[i] # None
        /\ brokers[i] = None
    BY <1>2, <2>1, Types DEF Free, Present
  <2>3. /\ status'[i][devices[i]] # "stopped"
        /\ devices[i] = 1 => status'[i][1] # "unconnected"
    BY <1>3, <2>1, <2>2 DEF Free, NotStopped
  <2>4. Free(t, i)'
    BY <1>1, <1>5, <1>6, <2>1, <2>2, <2>3 DEF Free, Present, NotStopped
  <2>5. Asserted(t, i)'
    BY <1>1, <1>5, <1>6, <2>3, <2>4 DEF Asserted, NotStopped, NotUnconnected
  <2>6. r.id = i /\ r.pc \notin Inactive
    BY <1>5 DEF Inactive
  <2>7. QED BY <1>0, <1>1, <1>2, <1>5, <2>1, <2>5, <2>6, Alone, Goes
<1>8. r.id \in {i, None} /\ r.pc = "opened"
  BY <1>5
<1>9. th[t].id = i /\ t \notin unmap' /\ th' = [th EXCEPT ![t] = r]
  BY <1>0, <1>1, <1>2, <1>5
<1>10. Aside(t, i)
  BY <1>1, <1>2, <1>3 DEF Aside
<1>11. QED BY <1>7, <1>8, <1>9, <1>10, OneDevice

LEMMA StartKeeps ==
    ASSUME SInv, NEW t \in Threads, StartCollect(t)
    PROVE  SerialInv' /\ UnmapInv'
<1>0. PICK i \in Ids : i = th[t].id /\ On(t, i) /\ th[t] \in Thread
  BY OnDevice DEF StartCollect, Inside
<1>1. /\ th[t].pc = "opened"
      /\ brokers' = [brokers EXCEPT ![i] = th[t].broker]
      /\ live' = live \cup {th[t].broker}
      /\ deviceOf' = [deviceOf EXCEPT ![th[t].broker] = i]
      /\ UNCHANGED <<store, devices, heartBeat, status, unmap, version, overlapped>>
  BY <1>0 DEF StartCollect
<1>2. t \notin unmap /\ unmap \subseteq Requests /\ TInv
  BY <1>1, NotPending DEF SInv
<1>3. th[t].broker \in Brokers
  BY <1>1, <1>2 DEF TInv, IInv, TypesInv
<1>4. PICK r : /\ th' = [th EXCEPT ![t] = r]
               /\ r.id = None /\ r.pc \in {"range", "done", "idle"}
               /\ resume' = IF t = Heartbeat THEN resume \cup {i} ELSE resume
  BY <1>0, ReturnsTo DEF StartCollect
<1>5. /\ brokers'[i] = th[t].broker /\ brokers'[i] # None
      /\ \A j \in Ids : j # i => brokers'[j] = brokers[j]
      /\ \A c \in Brokers : deviceOf'[c] = IF c = th[t].broker THEN i ELSE deviceOf[c]
      /\ live \subseteq Brokers
  BY <1>1, <1>2, <1>3, Types, Constants
<1>6. ASSUME i \notin overlapped'
      PROVE  DeviceInv(i)'
  <2>1. Serial(i) /\ Free(t, i) /\ NotStopped(i) /\ NotUnconnected(i)
    BY <1>0, <1>1, <1>6, Alone DEF Serial, Asserted
  <2>2. /\ devices[i] = store[i] /\ devices[i] # None /\ brokers[i] = None
    BY <2>1 DEF Free, Present
  <2>3. \A c \in live' : deviceOf'[c] = i => c = brokers'[i]
    <3>1. \A c \in live : deviceOf[c] # i
      BY <1>0, <1>5, <2>1, <2>2, Alone, Constants
    <3>2. QED BY <1>1, <1>5, <3>1
  <2>4. CASE t = Heartbeat
    <3>1. Resumed(i)'
      BY <1>1, <1>5, <2>1, <2>2 DEF Resumed, Present, NotStopped
    <3>2. QED BY <1>0, <1>1, <1>2, <1>4, <2>1, <2>3, <2>4, <3>1, ReturnsKeep
  <2>5. CASE t # Heartbeat
    <3>1. heartBeat[i] = None
      BY <2>1, <2>5 DEF Free
    <3>2. Settled(i)'
      BY <1>1, <1>5, <2>1, <2>2, <3>1 DEF Settled, Calm, NotStopped
    <3>3. QED BY <1>0, <1>1, <1>2, <1>4, <2>1, <2>3, <2>5, <3>2, ReturnsKeep
  <2>6. QED BY <2>4, <2>5
<1>7. \A j \in Ids : j # i => (j \in resume' <=> j \in resume)
  BY <1>0, <1>4
<1>8. \A j \in Ids : j # i =>
          \A c \in live' : deviceOf'[c] = j => c \in live /\ deviceOf[c] = j
  <2>1. live' \subseteq Brokers
    BY <1>1, <1>3, <1>5
  <2>2. QED BY <1>1, <1>5, <2>1
<1>9. Aside(t, i)
  BY <1>1, <1>2, <1>5, <1>7, <1>8 DEF Aside
<1>10. th[t].id = i /\ t \notin unmap' /\ r.id = None /\ r.pc # "remove"
  BY <1>0, <1>1, <1>2, <1>4
<1>11. QED BY <1>4, <1>6, <1>9, <1>10, OneDevice

-----------------------------------------------------------------------------
(* cancelCollect *)

LEMMA AfterCancelIs ==
    ASSUME NEW t \in Threads, th[t] \in Thread
    PROVE  /\ AfterCancel(t).id = th[t].id
           /\ IF th[t].op \in {"start", "restart"}
              THEN /\ AfterCancel(t).pc = "ready"
                   /\ AfterCancel(t).rev = th[t].rev
              ELSE /\ AfterCancel(t).pc \in {"done", "idle"}
                   /\ t \in Requests => AfterCancel(t).pc = "done"
<1>1. CASE th[t].op \in {"start", "restart"}
  BY <1>1 DEF AfterCancel, Thread
<1>2. CASE th[t].op \notin {"start", "restart"}
  BY <1>2 DEF AfterCancel, Finish, At
<1>3. QED BY <1>1, <1>2

(* The end of cancelCollect, with a broker or without. *)
LEMMA CancelEnds ==
    ASSUME SInv, NEW t \in Threads, NEW i \in Ids, Serial(i), On(t, i),
           th[t].pc \in {"cancel", "destroying"}, th[t] \in Thread,
           th' = [th EXCEPT ![t] = AfterCancel(t)],
           UNCHANGED <<store, devices, unmap, resume>>,
           heartBeat'[i] = None, brokers'[i] = None,
           th[t].op \in Switches => NotUnconnected(i)',
           \A b \in live' : deviceOf'[b] # i
    PROVE  DeviceInv(i)'
<1> DEFINE r == AfterCancel(t)
<1>1. /\ t # Heartbeat /\ AtWork(t, i) /\ i \notin resume
      /\ \/ th[t].op \in Switches /\ Present(i) /\ th[t].rev = devices[i]
         \/ th[t].op = "delete" /\ Leaving(t, i)
  BY Alone DEF Asserted
<1>2. th[t].id = i /\ th'[t] = r
  BY Types DEF SInv, On
<1>3. /\ r.id = i
      /\ IF th[t].op \in {"start", "restart"}
         THEN r.pc = "ready" /\ r.rev = th[t].rev
         ELSE r.pc \in {"done", "idle"}
  BY <1>2, AfterCancelIs
<1> HIDE DEF r
<1>4. CASE th[t].op \in {"start", "restart"}
  <2>1. th[t].op \in Switches /\ th[t].op # "delete"
    BY <1>4 DEF Switches
  <2>2. t \notin unmap /\ Present(i) /\ th[t].rev = devices[i]
    BY <1>1, <2>1 DEF SInv, UnmapInv, On, Inactive
  <2>3. Asserted(t, i)'
    BY <1>1, <1>2, <1>3, <1>4, <2>2 DEF Asserted, Free, Present
  <2>4. WorkInv(t, i)' /\ AtWork(t, i)'
    BY <1>1, <1>2, <1>3, <1>4, <2>2, <2>3 DEF WorkInv, AtWork, Engages, On, Inactive
  <2>5. QED BY <1>1, <1>2, <2>4, Advances
<1>5. CASE th[t].op \notin {"start", "restart"}
  <2>1. ~On(t, i)'
    BY <1>2, <1>3, <1>5 DEF On, Inactive
  <2>2. CASE t \in unmap
    <3>1. Leaving(t, i)
      BY <2>2, Alone DEF Departing
    <3>2. Departing(t, i)'
      BY <3>1 DEF Departing, Leaving
    <3>3. WorkInv(t, i)' /\ AtWork(t, i)'
      BY <1>1, <1>2, <1>3, <2>1, <2>2, <3>2 DEF WorkInv, AtWork, Engages
    <3>4. QED BY <1>1, <1>2, <3>3, Advances
  <2>3. CASE t \notin unmap
    <3>1. devices[i] = store[i] /\ NotUnconnected(i)'
      <4>1. CASE th[t].op \in Switches
        BY <1>1, <4>1 DEF Present, Switches
      <4>2. CASE th[t].op \notin Switches
        <5>1. devices[i] = None /\ store[i] = None
          BY <1>1, <2>3, <4>2 DEF Leaving
        <5>2. None # 1
          BY ManagerAssumption DEF ManagerAssumption
        <5>3. QED BY <5>1, <5>2 DEF NotUnconnected
      <4>3. QED BY <4>1, <4>2
    <3>2. Settled(i)'
      BY <3>1 DEF Settled, Calm, NotUnconnected
    <3>3. WorkInv(t, i)'
      BY <1>1, <2>1, <2>3 DEF WorkInv
    <3>4. QED BY <1>1, <1>2, <3>2, <3>3, Advances
  <2>4. QED BY <2>2, <2>3
<1>6. QED BY <1>4, <1>5

(* What UnmapInv asks of the thread that ends. *)
LEMMA CancelledPending ==
    ASSUME SInv, NEW t \in Threads, th[t].pc \in {"cancel", "destroying"},
           th[t] \in Thread, t \in unmap
    PROVE  AfterCancel(t).pc = "done"
<1>1. th[t].op = "delete" /\ t \in Requests
  BY Types DEF SInv, UnmapInv
<1>2. QED BY <1>1, AfterCancelIs

LEMMA StopsStatus ==
    ASSUME TInv, NEW t \in Threads, th[t].id \in Ids, StopStatus(t)
    PROVE  /\ \A j \in Ids : j # th[t].id => status'[j] = status[j]
           /\ th[t].op \in Switches /\ th[t].rev \in Revs =>
                 status'[th[t].id][th[t].rev] = "stopped"
<1>1. CASE th[t].op = "delete"
  BY <1>1 DEF StopStatus, Switches
<1>2. CASE th[t].op # "delete"
  BY <1>2, StatusSets DEF StopStatus
<1>3. QED BY <1>1, <1>2

LEMMA CancelWithoutKeeps ==
    ASSUME SInv, NEW t \in Threads, CancelWithoutBroker(t)
    PROVE  SerialInv' /\ UnmapInv'
<1> DEFINE r == AfterCancel(t)
<1>0. PICK i \in Ids : i = th[t].id /\ On(t, i) /\ th[t] \in Thread
  BY OnDevice DEF CancelWithoutBroker, Inside
<1>1. /\ th[t].pc = "cancel" /\ StopStatus(t) /\ brokers[i] = None
      /\ heartBeat' = [heartBeat EXCEPT ![i] = None]
      /\ th' = [th EXCEPT ![t] = r]
      /\ UNCHANGED <<store, devices, brokers, live, deviceOf, unmap, resume,
                     version, overlapped>>
  BY <1>0 DEF CancelWithoutBroker, Unprobed
<1>2. unmap \subseteq Requests /\ TInv
  BY Types DEF SInv
<1>3. /\ \A j \in Ids : j # i => status'[j] = status[j] /\ heartBeat'[j] = heartBeat[j]
      /\ heartBeat'[i] = None
      /\ th[t].op \in Switches /\ th[t].rev \in Revs =>
            status'[i][th[t].rev] = "stopped"
  BY <1>0, <1>1, <1>2, StopsStatus, Types
<1>4. Aside(t, i)
  BY <1>1, <1>2, <1>3 DEF Aside
<1>5. ASSUME i \notin overlapped'
      PROVE  DeviceInv(i)'
  <2>1. Serial(i) /\ Asserted(t, i) /\ \A b \in live : deviceOf[b] = i => b = brokers[i]
    BY <1>0, <1>1, <1>5, Alone DEF Serial
  <2>2. \A b \in live' : deviceOf'[b] # i
    BY <1>1, <1>2, <2>1, Types, Constants
  <2>3. ASSUME th[t].op \in Switches PROVE NotUnconnected(i)'
    <3>1. th[t].op # "delete"
      BY <2>3 DEF Switches
    <3>2. devices[i] \in Revs /\ th[t].rev = devices[i]
      BY <1>1, <1>2, <2>1, <3>1, Types DEF Asserted, Present
    <3>3. status'[i][devices[i]] = "stopped"
      BY <1>3, <2>3, <3>2
    <3>4. QED BY <1>1, <3>3 DEF NotUnconnected
  <2>4. QED BY <1>0, <1>1, <1>3, <2>1, <2>2, <2>3, CancelEnds
<1>6. /\ r.id = i /\ r.pc # "remove" /\ (t \in unmap' => r.pc = "done")
  BY <1>0, <1>1, AfterCancelIs, CancelledPending
<1>7. QED BY <1>0, <1>1, <1>4, <1>5, <1>6, OneDevice

LEMMA CancelLocksSerial ==
    ASSUME SInv, NEW t \in Threads, CancelLocks(t)
    PROVE  SerialInv' /\ UnmapInv'
<1>0. PICK i \in Ids : i = th[t].id /\ On(t, i) /\ th[t] \in Thread
  BY OnDevice DEF CancelLocks, Inside
<1> DEFINE r == [th[t] EXCEPT !.pc = "destroying", !.broker = brokers[i]]
<1>1. /\ th[t].pc = "cancel" /\ StopStatus(t)
      /\ heartBeat' = [heartBeat EXCEPT ![i] = None]
      /\ UNCHANGED <<store, devices, brokers, live, deviceOf, unmap, resume,
                     version, overlapped>>
  BY <1>0 DEF CancelLocks, Unprobed
<1>2. unmap \subseteq Requests /\ TInv
  BY Types DEF SInv
<1>3. /\ \A j \in Ids : j # i => status'[j] = status[j] /\ heartBeat'[j] = heartBeat[j]
      /\ heartBeat'[i] = None
      /\ th[t].op \in Switches /\ th[t].rev \in Revs =>
            status'[i][th[t].rev] = "stopped"
  BY <1>0, <1>1, <1>2, StopsStatus, Types
<1>4. Aside(t, i)
  BY <1>1, <1>2, <1>3 DEF Aside
<1>5. /\ th' = [th EXCEPT ![t] = r]
      /\ r.id = i /\ r.pc = "destroying" /\ r.op = th[t].op /\ r.rev = th[t].rev
      /\ r.broker = brokers[i]
  BY <1>0, <1>2, Types DEF CancelLocks, Thread
<1> HIDE DEF r
<1>6. th'[t] = r
  BY <1>2, <1>5, Types
<1>7. ASSUME i \notin overlapped'
      PROVE  DeviceInv(i)'
  <2>1. /\ Serial(i) /\ Asserted(t, i) /\ AtWork(t, i) /\ i \notin resume
        /\ t \in unmap => Departing(t, i)
        /\ \A b \in live : deviceOf[b] = i => b = brokers[i]
    BY <1>0, <1>1, <1>7, Alone DEF Serial
  <2>2. /\ t # Heartbeat
        /\ \/ th[t].op \in Switches /\ Present(i) /\ th[t].rev = devices[i]
           \/ th[t].op = "delete" /\ Leaving(t, i)
    BY <1>1, <2>1 DEF Asserted
  <2>3. ASSUME th[t].op \in Switches PROVE NotUnconnected(i)'
    <3>1. th[t].op # "delete"
      BY <2>3 DEF Switches
    <3>2. devices[i] \in Revs /\ th[t].rev = devices[i]
      BY <1>2, <2>2, <3>1, Types DEF Present
    <3>3. status'[i][devices[i]] = "stopped"
      BY <1>3, <2>3, <3>2
    <3>4. QED BY <1>1, <3>3 DEF NotUnconnected
  <2>4. Asserted(t, i)'
    BY <1>1, <1>3, <1>5, <1>6, <2>2, <2>3 DEF Asserted, Present, Leaving
  <2>5. t \in unmap => Departing(t, i)'
    BY <1>1, <1>5, <1>6, <2>1 DEF Departing, Leaving
  <2>6. WorkInv(t, i)' /\ AtWork(t, i)'
    BY <1>1, <1>5, <1>6, <2>1, <2>4, <2>5 DEF WorkInv, AtWork, Engages, On, Inactive
  <2>7. QED BY <1>1, <1>5, <2>1, <2>6, Advances
<1>8. t \in unmap' => r.pc = "destroying" /\ r.op = "delete"
  BY <1>1, <1>5 DEF SInv, UnmapInv
<1>9. QED BY <1>0, <1>4, <1>5, <1>7, <1>8, OneDevice

LEMMA CancelDestroysSerial ==
    ASSUME SInv, NEW t \in Threads, CancelDestroys(t)
    PROVE  SerialInv' /\ UnmapInv'
<1> DEFINE r == AfterCancel(t)
<1>0. PICK i \in Ids : i = th[t].id /\ On(t, i) /\ th[t] \in Thread
  BY OnDevice DEF CancelDestroys, Inside
<1>1. /\ th[t].pc = "destroying"
      /\ brokers' = [brokers EXCEPT ![i] = None]
      /\ live' = live \ {th[t].broker}
      /\ \/ deviceOf' = deviceOf
         \/ deviceOf' = [deviceOf EXCEPT ![th[t].broker] = None]
      /\ th' = [th EXCEPT ![t] = r]
      /\ UNCHANGED <<store, devices, heartBeat, status, unmap, resume, version,
                     overlapped>>
  BY <1>0 DEF CancelDestroys, DestroyEnds, Forgotten
<1>2. unmap \subseteq Requests /\ TInv
  BY Types DEF SInv
<1>3. /\ \A j \in Ids : j # i => brokers'[j] = brokers[j]
      /\ brokers'[i] = None
      /\ \A b \in live' : b \in live /\ b # th[t].broker /\ deviceOf'[b] = deviceOf[b]
  BY <1>1, <1>2, Types
<1>4. Aside(t, i)
  BY <1>1, <1>2, <1>3 DEF Aside
<1>5. ASSUME i \notin overlapped'
      PROVE  DeviceInv(i)'
  <2>1. Serial(i) /\ Asserted(t, i) /\ \A b \in live : deviceOf[b] = i => b = brokers[i]
    BY <1>0, <1>1, <1>5, Alone DEF Serial
  <2>2. /\ heartBeat[i] = None /\ th[t].broker = brokers[i]
        /\ th[t].op \in Switches => NotUnconnected(i)
    BY <1>1, <2>1 DEF Asserted
  <2>3. \A b \in live' : deviceOf'[b] # i
    BY <1>3, <2>1, <2>2
  <2>4. th[t].op \in Switches => NotUnconnected(i)'
    BY <1>1, <2>2 DEF NotUnconnected
  <2>5. QED BY <1>0, <1>1, <1>3, <2>1, <2>2, <2>3, <2>4, CancelEnds
<1>6. /\ r.id = i /\ r.pc # "remove" /\ (t \in unmap' => r.pc = "done")
  BY <1>0, <1>1, AfterCancelIs, CancelledPending
<1>7. QED BY <1>0, <1>1, <1>4, <1>5, <1>6, OneDevice

-----------------------------------------------------------------------------
(* Requests *)

(* An operation that begins on a device and leaves it serial finds it quiet. *)
LEMMA Entered ==
    ASSUME SInv, NEW i \in Ids, Enter(i), i \notin overlapped'
    PROVE  /\ Serial(i) /\ Settled(i)
           /\ \A t \in Threads : ~AtWork(t, i)
           /\ \A b \in live : deviceOf[b] = i => b = brokers[i]
<1>1. ~Engaged(i) /\ Serial(i)
  BY DEF Enter, Serial
<1>2. \A t \in Threads : ~AtWork(t, i)
  BY <1>1, EngagedIsAtWork DEF SInv
<1>3. QED BY <1>1, <1>2 DEF SInv, SerialInv, DeviceInv

LEMMA EnterKeeps ==
    ASSUME NEW i \in Ids, Enter(i)
    PROVE  overlapped \subseteq overlapped'
BY DEF Enter

LEMMA CreateSerial ==
    ASSUME SInv, NEW t \in Requests, NEW i \in Ids, CreateDevice(t, i)
    PROVE  SerialInv' /\ UnmapInv'
<1> DEFINE r == [At("ready") EXCEPT !.op = "create", !.id = i, !.rev = 1]
<1>1. /\ th[t].pc = "new" /\ made[i] = 0 /\ Enter(i)
      /\ store' = [store EXCEPT ![i] = 1] /\ devices' = [devices EXCEPT ![i] = 1]
      /\ th' = [th EXCEPT ![t] = r]
      /\ UNCHANGED <<heartBeat, brokers, status, live, deviceOf, unmap, resume, version>>
  BY DEF CreateDevice, Begin
<1>2. /\ t \in Threads /\ t # Heartbeat /\ t \notin unmap /\ unmap \subseteq Requests
      /\ TInv
  BY <1>1, NewThread, NotPending, ManagerAssumption DEF SInv, ManagerAssumption
<1>3. r.id = i /\ r.pc = "ready" /\ r.op = "create" /\ r.rev = 1
  BY Records
<1> HIDE DEF r
<1>4. /\ th'[t] = r
      /\ store'[i] = 1 /\ devices'[i] = 1
      /\ \A j \in Ids : j # i => store'[j] = store[j] /\ devices'[j] = devices[j]
  BY <1>1, <1>2, Types
<1>5. Aside(t, i)
  BY <1>1, <1>2, <1>4, EnterKeeps DEF Aside
<1>6. devices[i] = None
  BY <1>1, <1>2, Types, RevisionsAre DEF TInv, RevisionInv, Revs
<1>7. ASSUME i \notin overlapped'
      PROVE  DeviceInv(i)'
  <2>1. /\ Serial(i) /\ Settled(i) /\ \A s \in Threads : ~AtWork(s, i)
        /\ \A b \in live : deviceOf[b] = i => b = brokers[i]
    BY <1>1, <1>7, Entered
  <2>2. heartBeat[i] = None /\ brokers[i] = None /\ None # 1
    BY <1>6, <2>1, ManagerAssumption DEF Settled, Calm, ManagerAssumption
  <2>3. Asserted(t, i)'
    BY <1>1, <1>2, <1>3, <1>4, <2>2 DEF Asserted, Free, Present
  <2>4. r.id = i /\ r.pc \notin Inactive
    BY <1>3 DEF Inactive
  <2>5. QED BY <1>1, <1>2, <2>1, <2>3, <2>4, Goes
<1>8. QED BY <1>1, <1>2, <1>3, <1>5, <1>7, OneDevice

LEMMA DeleteSerial ==
    ASSUME SInv, NEW t \in Requests, NEW i \in Ids, DeleteDevice(t, i)
    PROVE  SerialInv' /\ UnmapInv'
<1> DEFINE r == [At("remove") EXCEPT !.op = "delete", !.id = i, !.rev = devices[i]]
<1>1. /\ th[t].pc = "new" /\ devices[i] # None /\ Enter(i)
      /\ th' = [th EXCEPT ![t] = r]
      /\ UNCHANGED <<store, devices, heartBeat, brokers, status, live, deviceOf,
                     unmap, resume, version>>
  BY DEF DeleteDevice, Begin
<1>2. t \in Threads /\ t \notin unmap /\ unmap \subseteq Requests /\ TInv
  BY <1>1, NewThread, NotPending DEF SInv
<1>3. r.id = i /\ r.pc = "remove" /\ r.op = "delete" /\ r.rev = devices[i]
  BY Records
<1> HIDE DEF r
<1>4. th'[t] = r
  BY <1>1, <1>2, Types
<1>5. Aside(t, i)
  BY <1>1, <1>2, EnterKeeps DEF Aside
<1>6. ASSUME i \notin overlapped'
      PROVE  DeviceInv(i)'
  <2>1. /\ Serial(i) /\ Settled(i) /\ \A s \in Threads : ~AtWork(s, i)
        /\ \A b \in live : deviceOf[b] = i => b = brokers[i]
    BY <1>1, <1>6, Entered
  <2>2. Settled(i)'
    BY <1>1, <2>1 DEF Settled, Calm
  <2>3. Asserted(t, i)'
    BY <1>1, <1>3, <1>4, <2>2 DEF Asserted
  <2>4. r.id = i /\ r.pc \notin Inactive
    BY <1>3 DEF Inactive
  <2>5. QED BY <1>1, <1>2, <2>1, <2>3, <2>4, Goes
<1>7. QED BY <1>1, <1>2, <1>3, <1>5, <1>6, OneDevice

LEMMA SwitchSerial ==
    ASSUME SInv, NEW t \in Requests, NEW i \in Ids, NEW op \in Switches,
           SwitchDeviceStatus(t, i, op)
    PROVE  SerialInv' /\ UnmapInv'
<1> DEFINE r == [At("send") EXCEPT !.op = op, !.id = i, !.rev = None]
<1>1. /\ th[t].pc = "new" /\ devices[i] # None /\ Enter(i)
      /\ th' = [th EXCEPT ![t] = r]
      /\ UNCHANGED <<store, devices, heartBeat, brokers, status, live, deviceOf,
                     unmap, resume, version>>
  BY DEF SwitchDeviceStatus, Begin, Found
<1>2. t \in Threads /\ t \notin unmap /\ unmap \subseteq Requests /\ TInv
  BY <1>1, NewThread, NotPending DEF SInv
<1>3. r.id = i /\ r.pc = "send" /\ r.op = op
  BY Records
<1> HIDE DEF r
<1>4. th'[t] = r
  BY <1>1, <1>2, Types
<1>5. Aside(t, i)
  BY <1>1, <1>2, EnterKeeps DEF Aside
<1>6. ASSUME i \notin overlapped'
      PROVE  DeviceInv(i)'
  <2>1. /\ Serial(i) /\ Settled(i) /\ \A s \in Threads : ~AtWork(s, i)
        /\ \A b \in live : deviceOf[b] = i => b = brokers[i]
    BY <1>1, <1>6, Entered
  <2>2. Settled(i)'
    BY <1>1, <2>1 DEF Settled, Calm
  <2>3. Asserted(t, i)'
    BY <1>1, <1>3, <1>4, <2>2 DEF Asserted
  <2>4. r.id = i /\ r.pc \notin Inactive
    BY <1>3 DEF Inactive
  <2>5. QED BY <1>1, <1>2, <2>1, <2>3, <2>4, Goes
<1>7. QED BY <1>1, <1>2, <1>3, <1>5, <1>6, OneDevice

LEMMA UpdateSerial ==
    ASSUME SInv, NEW t \in Requests, NEW i \in Ids, UpdateDevice(t, i)
    PROVE  SerialInv' /\ UnmapInv'
<1>0. PICK new : new = made[i] + 1
  OBVIOUS
<1> DEFINE r == [At("save") EXCEPT !.op = "update", !.id = i, !.rev = new]
<1>1. /\ th[t].pc = "new" /\ devices[i] # None /\ made[i] < MaxRev /\ Enter(i)
      /\ status' = [status EXCEPT ![i][new] = status[i][devices[i]]]
      /\ version' = [version EXCEPT ![i][new] = version[i][devices[i]]]
      /\ th' = [th EXCEPT ![t] = r]
      /\ UNCHANGED <<store, devices, heartBeat, brokers, live, deviceOf, unmap, resume>>
  BY <1>0 DEF UpdateDevice, Begin
<1>2. t \in Threads /\ t \notin unmap /\ unmap \subseteq Requests /\ TInv
  BY <1>1, NewThread, NotPending DEF SInv
<1>3. r.id = i /\ r.pc = "save" /\ r.rev = new
  BY Records
<1>4. /\ devices[i] \in Revs /\ devices[i] # new /\ new # 1 /\ new \in Revs
  <2>1. devices[i] \in Revs /\ devices[i] <= made[i] /\ made[i] \in Nat
    BY <1>1, <1>2, Types DEF TInv, RevisionInv, TypeOK
  <2>2. QED BY <1>0, <1>1, <2>1, RevisionsAre DEF Revs
<1>5. /\ \A j \in Ids : j # i => status'[j] = status[j] /\ version'[j] = version[j]
      /\ status'[i][new] = status[i][devices[i]]
      /\ version'[i][new] = version[i][devices[i]]
      /\ \A v \in Revs : v # new => status'[i][v] = status[i][v]
                                     /\ version'[i][v] = version[i][v]
  BY <1>1, <1>2, <1>4, Types
<1> HIDE DEF r
<1>6. th'[t] = r
  BY <1>1, <1>2, Types
<1>7. Aside(t, i)
  BY <1>1, <1>2, <1>5, EnterKeeps DEF Aside
<1>8. ASSUME i \notin overlapped'
      PROVE  DeviceInv(i)'
  <2>1. /\ Serial(i) /\ Settled(i) /\ \A s \in Threads : ~AtWork(s, i)
        /\ \A b \in live : deviceOf[b] = i => b = brokers[i]
    BY <1>1, <1>8, Entered
  <2>2. /\ status'[i][devices[i]] = status[i][devices[i]]
        /\ version'[i][devices[i]] = version[i][devices[i]]
        /\ status'[i][1] = status[i][1]
    BY <1>4, <1>5, RevisionsAre
  <2>3. Settled(i)'
    BY <1>1, <2>1, <2>2 DEF Settled, Calm
  <2>4. StoppedIsFree(i, new)'
    BY <1>1, <1>5, <2>1 DEF StoppedIsFree, Settled, Calm
  <2>5. Asserted(t, i)'
    BY <1>1, <1>3, <1>4, <1>5, <1>6, <2>2, <2>3, <2>4 DEF Asserted, StoppedIsFree
  <2>6. r.id = i /\ r.pc \notin Inactive
    BY <1>3 DEF Inactive
  <2>7. QED BY <1>1, <1>2, <2>1, <2>5, <2>6, Goes
<1>9. QED BY <1>1, <1>2, <1>3, <1>7, <1>8, OneDevice

LEMMA StoreDeleteSerial ==
    ASSUME SInv, NEW t \in Requests, StoreDelete(t)
    PROVE  SerialInv' /\ UnmapInv'
<1> DEFINE r == [th[t] EXCEPT !.pc = "cancel"]
<1>0. t \in Threads /\ t # Heartbeat /\ TInv
  BY NewThread, ManagerAssumption DEF SInv, ManagerAssumption
<1>1. PICK i \in Ids : i = th[t].id /\ On(t, i) /\ th[t] \in Thread
  BY <1>0, OnDevice DEF StoreDelete, Inside
<1>2. /\ th[t].pc = "remove" /\ unmap' = unmap \cup {t}
      /\ store' = IF OnDisk(i, version[i][th[t].rev])
                  THEN [store EXCEPT ![i] = None] ELSE store
      /\ th' = [th EXCEPT ![t] = r]
      /\ UNCHANGED <<devices, heartBeat, brokers, status, live, deviceOf, resume,
                     version, overlapped>>
  BY <1>1 DEF StoreDelete, FoldedVersion
<1>3. /\ r.id = i /\ r.pc = "cancel" /\ r.op = th[t].op /\ r.rev = th[t].rev
  BY <1>1 DEF Thread
<1> HIDE DEF r
<1>4. th[t].op = "delete" /\ th'[t] = r /\ unmap' \subseteq Requests
  BY <1>0, <1>2, Types DEF SInv, UnmapInv
<1>5. \A j \in Ids : j # i => store'[j] = store[j]
  BY <1>0, <1>2, Types
<1>6. Aside(t, i)
  BY <1>2, <1>4, <1>5 DEF Aside
<1>7. ASSUME i \notin overlapped'
      PROVE  DeviceInv(i)'
  <2>1. /\ Serial(i) /\ Asserted(t, i) /\ AtWork(t, i) /\ i \notin resume
        /\ \A b \in live : deviceOf[b] = i => b = brokers[i]
    BY <1>0, <1>1, <1>2, <1>7, Alone DEF Serial
  <2>2. OnDisk(i, version[i][th[t].rev])
    BY <1>2, <2>1 DEF Asserted, Settled, OnDisk
  <2>3. store'[i] = None
    BY <1>0, <1>2, <2>2, Types
  <2>4. Leaving(t, i)'
    BY <1>2, <2>3 DEF Leaving
  <2>5. Asserted(t, i)'
    BY <1>0, <1>3, <1>4, <2>4 DEF Asserted
  <2>6. WorkInv(t, i)' /\ AtWork(t, i)'
    BY <1>0, <1>2, <1>3, <1>4, <2>1, <2>4, <2>5
       DEF WorkInv, AtWork, Engages, On, Departing, Inactive
  <2>7. QED BY <1>0, <1>2, <2>1, <2>6, Advances
<1>8. QED BY <1>0, <1>1, <1>2, <1>3, <1>4, <1>6, <1>7, OneDevice

LEMMA UnmapSerial ==
    ASSUME SInv, NEW t \in Requests, Unmap(t)
    PROVE  SerialInv' /\ UnmapInv'
<1>0. t \in Threads /\ t # Heartbeat /\ TInv
  BY NewThread, ManagerAssumption DEF SInv, ManagerAssumption
<1>1. PICK i : i = th[t].id
  OBVIOUS
<1>2. /\ t \in unmap /\ unmap' = unmap \ {t}
      /\ devices' = [devices EXCEPT ![i] = None]
      /\ UNCHANGED <<store, heartBeat, brokers, status, live, deviceOf, th, resume,
                     version, overlapped>>
  BY <1>1 DEF Unmap
<1>3. th' = [th EXCEPT ![t] = th[t]] /\ unmap \subseteq Requests
  BY <1>0, <1>2, Types
<1>4. /\ \A j \in Ids : j # i => devices'[j] = devices[j]
      /\ i \in Ids => devices'[i] = None
  BY <1>0, <1>2, Types
<1>5. Aside(t, i)
  BY <1>2, <1>3, <1>4 DEF Aside
<1>6. ASSUME i \in Ids, i \notin overlapped'
      PROVE  DeviceInv(i)'
  <2>1. Serial(i) /\ DeviceInv(i) /\ AtWork(t, i)
    BY <1>0, <1>1, <1>2, <1>6 DEF SInv, SerialInv, Serial, AtWork, Engages
  <2>2. /\ Departing(t, i) /\ (On(t, i) => Asserted(t, i)) /\ i \notin resume
        /\ \A b \in live : deviceOf[b] = i => b = brokers[i]
    BY <1>0, <1>1, <1>2, <2>1, Constants DEF DeviceInv, WorkInv, AtWork
  <2>3. store'[i] = None /\ devices'[i] = None /\ Leaving(t, i)'
    BY <1>2, <1>4, <1>6, <2>2 DEF Departing, Leaving
  <2>4. CASE th[t].pc = "done"
    <3>1. Settled(i)'
      BY <1>2, <2>2, <2>3, <2>4, ManagerAssumption
         DEF Departing, Settled, Calm, ManagerAssumption
    <3>2. ~AtWork(t, i)'
      BY <1>0, <1>2, <2>4 DEF AtWork, Engages, On, Inactive
    <3>3. WorkInv(t, i)'
      BY <1>0, <3>2 DEF WorkInv, AtWork, Engages
    <3>4. QED BY <1>0, <1>2, <1>3, <1>6, <2>1, <2>2, <3>1, <3>3, Advances
  <2>5. CASE th[t].pc # "done"
    <3>1. th[t].pc \in {"cancel", "destroying"} /\ th[t].op = "delete"
      BY <1>2, <2>5 DEF SInv, UnmapInv
    <3>2. Asserted(t, i)
      BY <1>1, <2>2, <3>1 DEF On, Inactive
    <3>3. Asserted(t, i)'
      BY <1>0, <1>2, <2>3, <3>1, <3>2 DEF Asserted, Switches
    <3>4. WorkInv(t, i)' /\ AtWork(t, i)'
      BY <1>0, <1>1, <1>2, <3>1, <3>3 DEF WorkInv, AtWork, Engages, On, Inactive
    <3>5. QED BY <1>0, <1>2, <1>3, <1>6, <2>1, <2>2, <3>4, Advances
  <2>6. QED BY <2>4, <2>5
<1>7. th[t].pc # "remove"
  BY <1>2 DEF SInv, UnmapInv
<1>8. QED BY <1>0, <1>1, <1>2, <1>3, <1>5, <1>6, <1>7, OneDevice

LEMMA StoreUpdateSerial ==
    ASSUME SInv, NEW t \in Requests, StoreUpdate(t)
    PROVE  SerialInv' /\ UnmapInv'
<1>0. t \in Threads /\ TInv
  BY NewThread DEF SInv
<1>1. PICK i \in Ids : i = th[t].id /\ On(t, i) /\ th[t] \in Thread
  BY <1>0, OnDevice DEF StoreUpdate, Inside
<1>2. PICK rev \in Revs : rev = th[t].rev
  BY <1>0, <1>1 DEF StoreUpdate, TInv, RevisionInv, Thread
<1>3. /\ th[t].pc = "save"
      /\ UNCHANGED <<devices, heartBeat, brokers, status, live, deviceOf, unmap,
                     resume, overlapped>>
  BY DEF StoreUpdate
<1>4. t \notin unmap /\ unmap \subseteq Requests
  BY <1>0, <1>3, NotPending
<1>5. PICK r : /\ th' = [th EXCEPT ![t] = r]
               /\ r.id \in {i, None} /\ r.pc # "remove"
               /\ OnDisk(i, version[i][rev]) =>
                     /\ r.id = i /\ r.pc = "replace" /\ r.rev = rev
                     /\ store' = [store EXCEPT ![i] = rev]
  <2>1. CASE OnDisk(i, version[i][rev])
    <3> DEFINE m == [th[t] EXCEPT !.pc = "replace"]
    <3>1. m.id = i /\ m.pc = "replace" /\ m.rev = rev
      BY <1>1, <1>2 DEF Thread
    <3>2. th' = [th EXCEPT ![t] = m] /\ store' = [store EXCEPT ![i] = rev]
      BY <1>1, <1>2, <2>1, <1>0, Types DEF StoreUpdate
    <3>3. QED BY <3>1, <3>2
  <2>2. CASE ~OnDisk(i, version[i][rev])
    BY <1>1, <1>2, <2>2, Records DEF StoreUpdate
  <2>3. QED BY <2>1, <2>2
<1>6. \A j \in Ids : j # i => store'[j] = store[j] /\ version'[j] = version[j]
  <2>1. \/ UNCHANGED <<store, version>>
        \/ /\ store' = [store EXCEPT ![i] = rev]
           /\ \E bump \in 0..MaxBump : version' = [version EXCEPT ![i][rev] = @ + bump]
    BY <1>1, <1>2 DEF StoreUpdate
  <2>2. QED BY <1>0, <2>1, Types
<1>7. Aside(t, i)
  BY <1>3, <1>4, <1>6 DEF Aside
<1>8. ASSUME i \notin overlapped'
      PROVE  DeviceInv(i)'
  <2>1. /\ Serial(i) /\ Asserted(t, i)
        /\ \A b \in live : deviceOf[b] = i => b = brokers[i]
    BY <1>0, <1>1, <1>3, <1>8, Alone DEF Serial
  <2>2. /\ Settled(i) /\ devices[i] # None /\ StoppedIsFree(i, rev)
        /\ version[i][rev] = version[i][devices[i]]
    BY <1>2, <1>3, <2>1 DEF Asserted
  <2>3. OnDisk(i, version[i][rev])
    BY <2>2 DEF OnDisk, Settled
  <2>4. r.id = i /\ r.pc = "replace" /\ r.rev = rev /\ store'[i] = rev /\ th'[t] = r
    BY <1>0, <1>5, <2>3, Types
  <2>5. Asserted(t, i)'
    BY <1>3, <2>2, <2>4 DEF Asserted, Settled, Calm, StoppedIsFree
  <2>6. r.pc \notin Inactive
    BY <2>4 DEF Inactive
  <2>7. QED BY <1>0, <1>1, <1>3, <1>4, <1>5, <2>1, <2>4, <2>5, <2>6, Goes
<1>9. QED BY <1>0, <1>1, <1>3, <1>4, <1>5, <1>7, <1>8, OneDevice

LEMMA ReplaceSerial ==
    ASSUME SInv, NEW t \in Requests, ReplaceDevice(t)
    PROVE  SerialInv' /\ UnmapInv'
<1> DEFINE r == Finish(t)
<1>0. t \in Threads /\ TInv
  BY NewThread DEF SInv
<1>1. PICK i \in Ids : i = th[t].id /\ On(t, i) /\ th[t] \in Thread
  BY <1>0, OnDevice DEF ReplaceDevice, Inside
<1>2. PICK rev : rev = th[t].rev
  OBVIOUS
<1>3. /\ th[t].pc = "replace" /\ devices' = [devices EXCEPT ![i] = rev]
      /\ th' = [th EXCEPT ![t] = r]
      /\ UNCHANGED <<store, heartBeat, brokers, status, live, deviceOf, unmap,
                     resume, version, overlapped>>
  BY <1>1, <1>2 DEF ReplaceDevice
<1>4. /\ t \notin unmap /\ unmap \subseteq Requests
      /\ r.id = None /\ r.pc \in {"done", "idle"}
      /\ devices'[i] = rev
      /\ \A j \in Ids : j # i => devices'[j] = devices[j]
  BY <1>0, <1>3, NotPending, Records, Types
<1> HIDE DEF r
<1>5. Aside(t, i)
  BY <1>3, <1>4 DEF Aside
<1>6. ASSUME i \notin overlapped'
      PROVE  DeviceInv(i)'
  <2>1. /\ Serial(i) /\ Asserted(t, i)
        /\ \A b \in live : deviceOf[b] = i => b = brokers[i]
    BY <1>0, <1>1, <1>3, <1>6, Alone DEF Serial
  <2>2. /\ store[i] = rev /\ (heartBeat[i] = None \/ brokers[i] = None)
        /\ StoppedIsFree(i, rev)
    BY <1>2, <1>3, <2>1 DEF Asserted
  <2>3. rev # None /\ rev # 1
    BY <1>0, <1>2, <1>3 DEF TInv, RevisionInv
  <2>4. Settled(i)'
    BY <1>3, <1>4, <2>2, <2>3 DEF Settled, Calm, StoppedIsFree
  <2>5. r.id # i
    BY <1>4, Constants
  <2>6. QED BY <1>0, <1>1, <1>3, <1>4, <2>1, <2>4, <2>5, Goes
<1>7. QED BY <1>0, <1>1, <1>3, <1>4, <1>5, <1>6, OneDevice

LEMMA ReceiveSerial ==
    ASSUME SInv, NEW t \in Requests, Receive(t)
    PROVE  SerialInv' /\ UnmapInv'
<1> DEFINE moved == [th[t] EXCEPT !.pc = "load"]
           ended == Finish(t)
<1>0. /\ t \in Threads /\ Listener \in Threads /\ t # Listener /\ TInv
      /\ t # Heartbeat /\ Listener # Heartbeat
  BY NewThread, Constants, ManagerAssumption DEF SInv, ManagerAssumption
<1>1. PICK i \in Ids : i = th[t].id /\ On(t, i) /\ th[t] \in Thread
  BY <1>0, OnDevice DEF Receive, Inside
<1>2. /\ th[t].pc = "send" /\ th[Listener].pc = "idle"
      /\ th' = [th EXCEPT ![Listener] = moved, ![t] = ended]
      /\ UNCHANGED <<store, devices, heartBeat, brokers, status, live, deviceOf,
                     unmap, resume, version, overlapped>>
  BY DEF Receive
<1>3. /\ moved.id = i /\ moved.pc = "load" /\ moved.op = th[t].op
      /\ ended.id = None /\ ended.pc \in {"done", "idle"}
  BY <1>1, Records DEF Thread
<1> HIDE DEF moved, ended
<1>4. \A s \in Threads : th'[s] = IF s = Listener THEN moved
                                  ELSE IF s = t THEN ended ELSE th[s]
  BY <1>0, <1>2, Types
<1>5. /\ t \notin unmap /\ Listener \notin unmap
      /\ unmap \subseteq Threads /\ None \notin Ids
  BY <1>0, <1>2, NotPending, Types, Constants
<1>6. UnmapInv'
  <2>1. UnmapInv
    BY DEF SInv
  <2>2. \A s \in Threads : th'[s] = th[s] \/ th'[s].pc # "remove"
    BY <1>3, <1>4
  <2>3. unmap' = unmap /\ \A s \in unmap : th'[s] = th[s]
    BY <1>2, <1>4, <1>5
  <2>4. QED BY <2>1, <2>2, <2>3 DEF UnmapInv
<1>7. ASSUME NEW j \in Ids, j \notin overlapped'
      PROVE  DeviceInv(j)'
  <2>1. Serial(j) /\ DeviceInv(j)
    BY <1>2, <1>7 DEF Serial, SInv, SerialInv
  <2>2. CASE j # i
    <3>1. \A s \in {t, Listener} : ~Engages(s, j) /\ ~Engages(s, j)'
      BY <1>1, <1>2, <1>3, <1>4, <1>5, <1>0, <2>2 DEF Engages, On, Inactive
    <3>2. \A s \in Threads : \/ th'[s] = th[s] /\ (s \in unmap' <=> s \in unmap)
                             \/ ~Engages(s, j) /\ ~Engages(s, j)'
      BY <1>2, <1>4, <3>1
    <3>3. QED BY <1>2, <2>1, <3>2, Frame
  <2>3. CASE j = i
    <3>1. /\ Asserted(t, i) /\ i \notin resume
          /\ \A b \in live : deviceOf[b] = i => b = brokers[i]
          /\ \A s \in Threads : s # t => ~AtWork(s, i)
      BY <1>0, <1>1, <2>1, <2>3, Alone DEF DeviceInv
    <3>2. \A s \in Threads : s # Listener => ~AtWork(s, i)'
      BY <1>0, <1>2, <1>3, <1>4, <1>5, <3>1 DEF AtWork, Engages, On
    <3>3. Settled(i) /\ devices[i] # None /\ th[t].op \in Switches
      BY <1>2, <3>1 DEF Asserted
    <3>4. Settled(i)'
      BY <1>2, <3>3 DEF Settled, Calm
    <3>5. Asserted(Listener, i)'
      BY <1>0, <1>2, <1>3, <1>4, <3>3, <3>4 DEF Asserted
    <3>6. WorkInv(Listener, i)'
      BY <1>0, <1>2, <1>5, <3>5 DEF WorkInv
    <3>7. AtWork(Listener, i)'
      BY <1>0, <1>3, <1>4 DEF AtWork, Engages, On, Inactive
    <3>8. \A b \in live' : deviceOf'[b] = i => b = brokers'[i]
      BY <1>2, <3>1
    <3>9. DeviceInv(i)'
      BY <1>0, <3>2, <3>6, <3>7, <3>8 DEF DeviceInv
    <3>10. QED BY <2>3, <3>9
  <2>4. QED BY <2>2, <2>3
<1>8. QED BY <1>6, <1>7 DEF SerialInv, Serial

-----------------------------------------------------------------------------
(* Steps that touch no device: a thread with none of its own moves, or none
   moves, and collectors may end. *)
LEMMA NoDevice ==
    ASSUME SInv, NEW t \in Threads, NEW r,
           th' = [th EXCEPT ![t] = r],
           UNCHANGED <<store, devices, heartBeat, brokers, status, version, unmap,
                       resume, overlapped>>,
           \A b \in live' : b \in live /\ deviceOf'[b] = deviceOf[b],
           \/ r = th[t]
           \/ /\ th[t].pc \in Away \cup {"new", "idle", "deliver"}
              /\ \/ r.id = None
                 \/ r.pc = "deliver"
                 \/ r.id = th[t].id /\ th[t].pc \in Away
              /\ r.pc # "remove"
    PROVE  SerialInv' /\ UnmapInv'
<1>1. /\ \A s \in Threads : th'[s] = IF s = t THEN r ELSE th[s]
      /\ unmap \subseteq Threads /\ None \notin Ids
  BY Types, Constants DEF SInv
<1>2. r # th[t] => t \notin unmap
  BY NotPending DEF Away
<1>3. UnmapInv'
  BY <1>1, <1>2 DEF SInv, UnmapInv
<1>4. ASSUME NEW j \in Ids, j \notin overlapped'
      PROVE  DeviceInv(j)'
  <2>1. Serial(j)
    BY <1>4 DEF Serial
  <2>2. CASE r = th[t]
    <3>1. \A s \in Threads : th'[s] = th[s] /\ (s \in unmap' <=> s \in unmap)
      BY <1>1, <2>2
    <3>2. QED BY <2>1, <3>1, Frame
  <2>3. CASE r # th[t]
    <3>1. th[t].pc \in Away => th[t].id # j
      BY <2>1, AwayIsOff
    <3>2. ~Engages(t, j) /\ ~Engages(t, j)'
      BY <1>1, <1>2, <2>3, <3>1 DEF Engages, On, Inactive
    <3>3. \A s \in Threads : \/ th'[s] = th[s] /\ (s \in unmap' <=> s \in unmap)
                             \/ ~Engages(s, j) /\ ~Engages(s, j)'
      BY <1>1, <3>2
    <3>4. QED BY <2>1, <3>3, Frame
  <2>4. QED BY <2>2, <2>3
<1>5. QED BY <1>3, <1>4 DEF SerialInv, Serial

LEMMA RequestSerial ==
    ASSUME SInv, NEW t \in Requests, Request(t) \/ Continue(t) \/ Unmap(t)
    PROVE  SerialInv' /\ UnmapInv'
<1>0. t \in Threads
  BY NewThread
<1>1. ASSUME NEW i \in Ids, DeliverAction(t, i)
      PROVE  SerialInv' /\ UnmapInv'
  <2>1. PICK r : /\ th' = [th EXCEPT ![t] = r] /\ r.pc # "remove"
                 /\ r.id = None \/ r.pc = "deliver"
    <3>1. CASE th' = [th EXCEPT ![t] = Finish(t)]
      BY <3>1, Records
    <3>2. CASE th' # [th EXCEPT ![t] = Finish(t)]
      <4> DEFINE r == [At("deliver") EXCEPT !.op = "deliver", !.id = i, !.rev = devices[i]]
      <4>1. r.pc = "deliver"
        BY Records
      <4>2. th' = [th EXCEPT ![t] = r]
        BY <1>1, <3>2 DEF DeliverAction, Begin
      <4>3. QED BY <4>1, <4>2
    <3>3. QED BY <3>1, <3>2
  <2>2. QED BY <1>0, <1>1, <2>1, NoDevice DEF DeliverAction
<1>2. CASE ReadBroker(t)
  <2>1. PICK r : th' = [th EXCEPT ![t] = r] /\ r.pc # "remove" /\ r.id = None
    BY <1>2, Records DEF ReadBroker
  <2>2. QED BY <1>0, <1>2, <2>1, NoDevice DEF ReadBroker
<1>3. QED BY <1>1, <1>2, CreateSerial, DeleteSerial, UpdateSerial, SwitchSerial,
             StoreDeleteSerial, StoreUpdateSerial, ReplaceSerial, ReceiveSerial,
             UnmapSerial DEF Request, Continue

LEMMA CollectSerial ==
    ASSUME SInv, NEW t \in Threads, Collect(t)
    PROVE  SerialInv' /\ UnmapInv'
BY ConnectFailsKeeps, RegisterKeeps, NothingKeeps, ConnectsKeepsSerial, StartKeeps,
   CancelWithoutKeeps, CancelLocksSerial, CancelDestroysSerial
   DEF Collect, ReadyCollect, CancelCollect

-----------------------------------------------------------------------------
(* The listener, the heartbeat, late results and the shutdown *)

LEMMA LoadSerial ==
    ASSUME SInv, Load
    PROVE  SerialInv' /\ UnmapInv'
<1> DEFINE t == Listener
<1>0. t \in Threads /\ t # Heartbeat /\ TInv
  BY Constants, ManagerAssumption DEF SInv, ManagerAssumption
<1>1. PICK i \in Ids : i = th[t].id /\ On(t, i) /\ th[t] \in Thread
  BY <1>0, OnDevice DEF Load, Inside
<1>2. PICK next : next = SwitchFrom(status[i][devices[i]], th[t].op)
  OBVIOUS
<1>3. /\ next \in {"idle", "ready", "cancel"}
      /\ next = "ready" => status[i][devices[i]] = "stopped"
  BY <1>2 DEF SwitchFrom
<1> DEFINE r == IF next = "idle" THEN At("idle")
                ELSE [th[t] EXCEPT !.pc = next, !.rev = devices[i]]
<1>4. /\ th[t].pc = "load" /\ devices[i] # None /\ th' = [th EXCEPT ![t] = r]
      /\ UNCHANGED <<store, devices, heartBeat, brokers, status, live, deviceOf,
                     unmap, resume, version, overlapped>>
  BY <1>1, <1>2 DEF Load
<1>5. /\ next = "idle" => r.id = None /\ r.pc = "idle"
      /\ next # "idle" => /\ r.id = i /\ r.pc = next /\ r.rev = devices[i]
                         /\ r.op = th[t].op
  BY <1>1, Records DEF Thread
<1> HIDE DEF r
<1>6. th'[t] = r /\ t \notin unmap /\ unmap \subseteq Requests
  BY <1>0, <1>4, Types, NotPending
<1>7. Aside(t, i)
  BY <1>4, <1>6 DEF Aside
<1>8. ASSUME i \notin overlapped'
      PROVE  DeviceInv(i)'
  <2>1. /\ Serial(i) /\ Asserted(t, i)
        /\ \A b \in live : deviceOf[b] = i => b = brokers[i]
    BY <1>0, <1>1, <1>4, <1>8, Alone DEF Serial
  <2>2. Settled(i) /\ th[t].op \in Switches
    BY <1>4, <2>1 DEF Asserted
  <2>3. CASE next = "idle"
    <3>1. Settled(i)' /\ r.id # i
      BY <1>4, <1>5, <2>2, <2>3, Constants DEF Settled, Calm
    <3>2. QED BY <1>0, <1>1, <1>4, <1>6, <2>1, <3>1, Goes
  <2>4. CASE next # "idle"
    <3>1. Asserted(t, i)'
      <4>1. CASE next = "cancel"
        BY <1>0, <1>4, <1>5, <1>6, <2>2, <4>1 DEF Asserted, Present, Settled
      <4>2. CASE next = "ready"
        <5>1. heartBeat[i] = None /\ brokers[i] = None
          BY <1>3, <1>4, <2>2, <4>2 DEF Settled, Calm
        <5>2. QED BY <1>0, <1>4, <1>5, <1>6, <2>2, <4>2, <5>1
                  DEF Asserted, Free, Present, Settled
      <4>3. QED BY <1>3, <2>4, <4>1, <4>2
    <3>2. r.id = i /\ r.pc \notin Inactive
      BY <1>3, <1>5, <2>4 DEF Inactive
    <3>3. QED BY <1>0, <1>1, <1>4, <1>6, <2>1, <3>1, <3>2, Goes
  <2>5. QED BY <2>3, <2>4
<1>9. r.id \in {i, None} /\ r.pc # "remove"
  BY <1>3, <1>5
<1>10. QED BY <1>0, <1>1, <1>4, <1>6, <1>7, <1>8, <1>9, OneDevice

LEMMA VisitSerial ==
    ASSUME SInv, NEW i \in Ids, Visit(i)
    PROVE  SerialInv' /\ UnmapInv'
<1> DEFINE t == Heartbeat
           r == [At("ready") EXCEPT !.op = "probe", !.id = i, !.rev = heartBeat[i]]
<1>1. /\ th[t].pc = "range" /\ heartBeat[i] # None /\ Enter(i)
      /\ th' = [th EXCEPT ![t] = r]
      /\ UNCHANGED <<store, devices, heartBeat, brokers, status, live, deviceOf,
                     unmap, resume, version>>
  BY DEF Visit, Begin, Due
<1>2. t \in Threads /\ t \notin unmap /\ unmap \subseteq Requests /\ TInv
  BY <1>1, Constants, NotPending DEF SInv
<1>3. r.id = i /\ r.pc = "ready" /\ r.rev = heartBeat[i]
  BY Records
<1> HIDE DEF r
<1>4. th'[t] = r
  BY <1>1, <1>2, Types
<1>5. Aside(t, i)
  BY <1>1, <1>2, EnterKeeps DEF Aside
<1>6. ASSUME i \notin overlapped'
      PROVE  DeviceInv(i)'
  <2>1. /\ Serial(i) /\ Settled(i) /\ \A s \in Threads : ~AtWork(s, i)
        /\ \A b \in live : deviceOf[b] = i => b = brokers[i]
    BY <1>1, <1>6, Entered
  <2>2. /\ Present(i) /\ brokers[i] = None /\ NotStopped(i)
        /\ devices[i] = 1 => heartBeat[i] = 1
    BY <1>1, <2>1 DEF Settled, Calm, Present, NotStopped
  <2>3. Free(t, i)'
    BY <1>1, <1>3, <1>4, <2>2 DEF Free, Present, NotStopped
  <2>4. Asserted(t, i)'
    BY <1>3, <1>4, <2>3 DEF Asserted
  <2>5. r.id = i /\ r.pc \notin Inactive
    BY <1>3 DEF Inactive
  <2>6. QED BY <1>1, <1>2, <2>1, <2>4, <2>5, Goes
<1>7. th[t].pc \in Away
  BY <1>1 DEF Away
<1>8. QED BY <1>1, <1>2, <1>3, <1>5, <1>6, <1>7, OneDevice

LEMMA PurgeSerial ==
    ASSUME SInv, Purge
    PROVE  SerialInv' /\ UnmapInv'
<1> DEFINE t == Heartbeat
<1>0. /\ t \in Threads /\ th[t].pc = "purge" /\ t \notin unmap
      /\ unmap \subseteq Requests /\ TInv
  BY Constants, NotPending DEF Purge, SInv
<1>1. CASE th' = [th EXCEPT ![t] = At("idle")] /\ UNCHANGED <<heartBeat, resume>>
  <2>1. At("idle").id = None /\ At("idle").pc # "remove"
    BY Records
  <2>2. PICK r : /\ th' = [th EXCEPT ![t] = r] /\ r.id = None /\ r.pc # "remove"
    BY <1>1, <2>1
  <2>3. QED BY <1>0, <1>1, <2>2, NoDevice DEF Purge, Away
<1>2. ASSUME NEW i \in resume, heartBeat' = Unprobed(i), resume' = resume \ {i},
             UNCHANGED th
      PROVE  SerialInv' /\ UnmapInv'
  <2>1. /\ i \in Ids /\ th' = [th EXCEPT ![t] = th[t]]
        /\ heartBeat'[i] = None
        /\ \A j \in Ids : j # i => heartBeat'[j] = heartBeat[j]
        /\ UNCHANGED <<store, devices, brokers, status, live, deviceOf, unmap,
                       version, overlapped>>
    BY <1>0, <1>2, Types DEF Purge, Unprobed
  <2>2. Aside(t, i)
    BY <1>0, <1>2, <2>1 DEF Aside
  <2>3. ASSUME i \notin overlapped'
        PROVE  DeviceInv(i)'
    <3>1. Serial(i) /\ DeviceInv(i) /\ AtWork(t, i)
      BY <1>2, <2>1, <2>3 DEF SInv, SerialInv, Serial, AtWork
    <3>2. /\ Resumed(i) /\ ~On(t, i)
          /\ \A b \in live : deviceOf[b] = i => b = brokers[i]
      BY <1>0, <1>2, <3>1 DEF DeviceInv, WorkInv
    <3>3. Settled(i)'
      BY <2>1, <3>2 DEF Resumed, Present, NotStopped, NotUnconnected, Settled, Calm
    <3>4. WorkInv(t, i)'
      BY <1>0, <1>2, <2>1, <3>2 DEF WorkInv, On
    <3>5. QED BY <1>0, <1>2, <2>1, <3>1, <3>2, <3>3, <3>4, Advances
  <2>4. th[t].pc \in Away /\ th[t].pc # "remove"
    BY <1>0 DEF Away
  <2>5. QED BY <1>0, <2>1, <2>2, <2>3, <2>4, OneDevice
<1>3. QED BY <1>1, <1>2 DEF Purge

(* A result of a broker, however late, makes the status of the device's object
   collecting or collectingError, which no assertion speaks against. *)
LEMMA LateResult ==
    ASSUME SInv, NEW i \in Ids, DeviceInv(i),
           UNCHANGED <<store, devices, heartBeat, brokers, version, live, th, unmap,
                       resume>>,
           \A b \in live : deviceOf'[b] = deviceOf[b],
           \A v \in Revs : status'[i][v] \in {"stopped", "unconnected"} =>
                               status'[i][v] = status[i][v]
    PROVE  DeviceInv(i)'
<1>0. /\ devices[i] # None => devices[i] \in Revs
      /\ 1 \in Revs
      /\ \A t \in Threads : th[t].pc \in {"save", "replace"} => th[t].rev \in Revs
  BY Types, RevisionsAre DEF SInv, TInv, RevisionInv, Thread
<1>1. Settled(i) => Settled(i)'
  BY <1>0 DEF Settled, Calm
<1>2. (devices[i] # None /\ NotStopped(i) => NotStopped(i)')
      /\ (NotUnconnected(i) => NotUnconnected(i)')
  BY <1>0 DEF NotStopped, NotUnconnected
<1>3. Resumed(i) => Resumed(i)'
  BY <1>2 DEF Resumed, Present
<1>4. ASSUME NEW t \in Threads, Asserted(t, i) PROVE Asserted(t, i)'
  <2>1. Present(i)' <=> Present(i)
    BY DEF Present
  <2>2. Leaving(t, i)' <=> Leaving(t, i)
    BY DEF Leaving
  <2>3. Free(t, i) => Free(t, i)'
    BY <1>2, <2>1 DEF Free, Present
  <2>4. th[t].pc \in {"save", "replace"} =>
           (StoppedIsFree(i, th[t].rev) => StoppedIsFree(i, th[t].rev)')
    BY <1>0 DEF StoppedIsFree
  <2>5. Free(t, i) \/ Present(i) => devices[i] # None
    BY DEF Free, Present
  <2>6. QED BY <1>1, <1>2, <1>4, <2>1, <2>2, <2>3, <2>4, <2>5 DEF Asserted
<1>5. \A t \in Threads : Departing(t, i)' <=> Departing(t, i)
  BY DEF Departing, Leaving
<1>6. \A t \in Threads : /\ AtWork(t, i)' <=> AtWork(t, i)
                         /\ On(t, i)' <=> On(t, i)
  BY DEF AtWork, Engages, On
<1>7. \A t \in Threads : WorkInv(t, i) => WorkInv(t, i)'
  BY <1>3, <1>4, <1>5, <1>6 DEF WorkInv
<1>8. QED BY <1>1, <1>6, <1>7 DEF DeviceInv

LEMMA ConsumeSerial ==
    ASSUME SInv, NEW b \in Brokers, Consume(b)
    PROVE  SerialInv' /\ UnmapInv'
<1>0. TInv
  BY DEF SInv
<1>1. UNCHANGED <<store, devices, heartBeat, brokers, version, live, th, unmap,
                  resume, overlapped>>
  BY DEF Consume
<1>2. \A c \in live : deviceOf'[c] = deviceOf[c]
  BY <1>0, Types DEF Consume, ReaderAfter
<1>3. UnmapInv'
  BY <1>1 DEF SInv, UnmapInv
<1>4. \A j \in Ids, v \in Revs : status'[j][v] \in {"stopped", "unconnected"} =>
                                    status'[j][v] = status[j][v]
  <2>1. \/ status' = status
        \/ \E i, rev, s : /\ s \notin {"stopped", "unconnected"}
                          /\ status' = [status EXCEPT ![i][rev] = s]
    BY DEF Consume
  <2>2. CASE status' = status
    BY <2>2
  <2>3. ASSUME NEW i, NEW rev, NEW s, s \notin {"stopped", "unconnected"},
               status' = [status EXCEPT ![i][rev] = s],
               NEW j \in Ids, NEW v \in Revs
        PROVE  status'[j][v] \in {s, status[j][v]}
    BY <1>0, <2>3, Types
  <2>4. ASSUME NEW i, NEW rev, NEW s, s \notin {"stopped", "unconnected"},
               status' = [status EXCEPT ![i][rev] = s]
        PROVE  \A j \in Ids, v \in Revs :
                  status'[j][v] \in {"stopped", "unconnected"} =>
                     status'[j][v] = status[j][v]
    <3>1. \A j \in Ids, v \in Revs : status'[j][v] \in {s, status[j][v]}
      BY <2>3, <2>4
    <3>2. QED BY <2>4, <3>1
  <2>5. QED BY <2>1, <2>2, <2>4
<1>5. ASSUME NEW j \in Ids, j \notin overlapped'
      PROVE  DeviceInv(j)'
  BY <1>1, <1>2, <1>4, <1>5, LateResult DEF SInv, SerialInv, Serial
<1>6. QED BY <1>3, <1>5 DEF SerialInv, Serial

LEMMA StopSerial ==
    ASSUME SInv, Stop
    PROVE  SerialInv' /\ UnmapInv'
<1>0. Main \in Threads /\ TInv /\ th[Main] \in Thread
  BY Constants, Types DEF SInv
<1>1. /\ UNCHANGED <<store, devices, heartBeat, brokers, status, version, unmap,
                     resume, overlapped>>
      /\ th[Main].pc \in Away \cup {"new"}
  BY DEF Stop, Shutdown, ShutdownVisits, ShutdownDestroys, ShutdownEnds, Away
<1>2. \A c \in live' : c \in live /\ deviceOf'[c] = deviceOf[c]
  <2>1. CASE UNCHANGED <<live, deviceOf>>
    BY <2>1
  <2>2. CASE ~UNCHANGED <<live, deviceOf>>
    <3>1. DestroyEnds(th[Main].broker)
      BY <2>2 DEF Stop, Shutdown, ShutdownVisits, ShutdownDestroys, ShutdownEnds
    <3>2. QED BY <1>0, <3>1, Types DEF DestroyEnds
  <2>3. QED BY <2>1, <2>2
<1>3. PICK r : /\ th' = [th EXCEPT ![Main] = r] /\ r.pc # "remove"
               /\ r.id = None \/ (r.id = th[Main].id /\ th[Main].pc \in Away)
  <2>1. CASE Shutdown \/ ShutdownDestroys
    <3>1. th' = [th EXCEPT ![Main] = At("shutdown")] /\ At("shutdown").pc # "remove"
            /\ At("shutdown").id = None
      BY Records, <2>1 DEF Shutdown, ShutdownDestroys
    <3>2. QED BY <3>1
  <2>2. CASE ShutdownEnds
    <3>1. th' = [th EXCEPT ![Main] = At("done")] /\ At("done").pc # "remove"
            /\ At("done").id = None
      BY Records, <2>2 DEF ShutdownEnds
    <3>2. QED BY <3>1
  <2>3. ASSUME NEW id \in Ids, ShutdownVisits(id)
        PROVE  \E r : /\ th' = [th EXCEPT ![Main] = r] /\ r.pc # "remove"
                      /\ r.id = None \/ (r.id = th[Main].id /\ th[Main].pc \in Away)
    <3> DEFINE m == [th[Main] EXCEPT !.pc = "closing", !.broker = brokers[id]]
    <3>1. m.pc = "closing" /\ m.id = th[Main].id
      BY <1>0 DEF Thread
    <3>2. th' = [th EXCEPT ![Main] = m] /\ th[Main].pc \in Away
      BY <1>0, <2>3, Types DEF ShutdownVisits, Away
    <3>3. QED BY <3>1, <3>2
  <2>4. QED BY <2>1, <2>2, <2>3 DEF Stop
<1>4. QED BY <1>0, <1>1, <1>2, <1>3, NoDevice

LEMMA NextSerial ==
    ASSUME SInv, [Next]_vars
    PROVE  SInv'
<1>0. TInv' /\ TInv
  BY NextTypes DEF SInv
<1>1. SerialInv' /\ UnmapInv'
  <2>1. ASSUME UNCHANGED <<store, devices, heartBeat, brokers, status, version, unmap,
                           resume, overlapped, live, deviceOf, th>>
        PROVE  SerialInv' /\ UnmapInv'
    <3>1. UnmapInv'
      BY <2>1 DEF SInv, UnmapInv
    <3>2. ASSUME NEW j \in Ids, j \notin overlapped'
          PROVE  DeviceInv(j)'
      <4>1. Serial(j)
        BY <2>1, <3>2 DEF Serial
      <4>2. \A t \in Threads : th'[t] = th[t] /\ (t \in unmap' <=> t \in unmap)
        BY <2>1
      <4>3. QED BY <2>1, <4>1, <4>2, Frame
    <3>3. QED BY <3>1, <3>2 DEF SerialInv, Serial
  <2>2. CASE MapRace \/ LoadMissing \/ UNCHANGED vars \/ \E b \in Brokers : Produce(b)
    BY <2>1, <2>2 DEF MapRace, LoadMissing, vars, Produce
  <2>3. CASE Tick \/ EndRange
    <3>1. PICK r : th' = [th EXCEPT ![Heartbeat] = r] /\ r.id = None /\ r.pc # "remove"
      BY <2>3, Records DEF Tick, EndRange
    <3>2. th[Heartbeat].pc \in Away \cup {"idle"}
      BY <2>3 DEF Tick, EndRange, Away
    <3>3. QED BY <2>3, <3>1, <3>2, Constants, NoDevice DEF Tick, EndRange
  <2>4. QED BY <2>2, <2>3, RequestSerial, CollectSerial, LoadSerial, VisitSerial,
               PurgeSerial, ConsumeSerial, StopSerial
            DEF Next, Listen, HeartBeatDetection
<1>2. QED BY <1>0, <1>1 DEF SInv

-----------------------------------------------------------------------------
(* Manager.Init leaves every device settled, and nobody on it. *)

LEMMA InitSerial == Init => SInv
<1> SUFFICES ASSUME Init PROVE SInv
  OBVIOUS
<1>1. PICK loaded \in [Ids -> Loaded], broker \in [Ids -> Brokers \cup {None}] :
         /\ \A id \in Ids : (broker[id] # None) <=> (loaded[id] = "collecting")
         /\ made = [id \in Ids |-> IF loaded[id] = "absent" THEN 0 ELSE 1]
         /\ store = [id \in Ids |-> IF made[id] = 1 THEN 1 ELSE None]
         /\ devices = store
         /\ heartBeat = [id \in Ids |->
                            IF loaded[id] = "unconnected" THEN 1 ELSE None]
         /\ brokers = broker
         /\ status = [id \in Ids |-> [v \in Revs |->
                         IF v = made[id] THEN loaded[id] ELSE "stopped"]]
         /\ \A b \in Brokers : b \in live => broker[deviceOf[b]] = b
         /\ live \subseteq Brokers
         /\ unmap = {} /\ resume = {}
         /\ th = [t \in Threads |-> At(IF t \in {Listener, Heartbeat}
                                      THEN "idle" ELSE "new")]
  BY DEF Init
<1>2. \A t \in Threads : th[t].pc \in {"idle", "new"}
  BY <1>1, Records
<1>3. UnmapInv
  BY <1>1, <1>2 DEF UnmapInv
<1>4. ASSUME NEW id \in Ids PROVE DeviceInv(id)
  <2>1. \A t \in Threads : ~AtWork(t, id)
    BY <1>1, <1>2 DEF AtWork, Engages, On, Inactive
  <2>2. Settled(id)
    <3>1. /\ 1 \in Revs /\ None # 1
          /\ heartBeat[id] = IF loaded[id] = "unconnected" THEN 1 ELSE None
          /\ brokers[id] # None <=> loaded[id] = "collecting"
          /\ devices[id] = IF loaded[id] = "absent" THEN None ELSE 1
          /\ devices[id] = store[id]
      BY <1>1, RevisionsAre, ManagerAssumption DEF ManagerAssumption
    <3>2. devices[id] # None => status[id][1] = loaded[id] /\ devices[id] = 1
      BY <1>1, <3>1
    <3>3. loaded[id] \in Loaded
      OBVIOUS
    <3>4. QED BY <3>1, <3>2, <3>3 DEF Settled, Calm, Loaded
  <2>3. \A b \in live : deviceOf[b] = id => b = brokers[id]
    BY <1>1
  <2>4. QED BY <2>1, <2>2, <2>3 DEF DeviceInv
<1>5. QED BY <1>3, <1>4, InitTypes DEF SInv, SerialInv

(* A device that only one operation at a time is ever on is settled whenever
   none is. *)
LEMMA QuietIsSettled ==
    ASSUME SInv, NEW id \in Ids, Serial(id), Quiet(id)
    PROVE  Settled(id)
<1>1. DeviceInv(id)
  BY DEF SInv, SerialInv
<1>2. \A t \in Threads : ~AtWork(t, id)
  BY EngagedIsAtWork DEF SInv, Quiet
<1>3. QED BY <1>1, <1>2 DEF DeviceInv

(* Without overlap readyCollect never starts a second collector for a device:
   it finds no broker in the map, because cancelCollect has destroyed the one
   that was there and a device that is being probed has none. *)
THEOREM ManagerSerialOneCollector == Spec => []SerialOneCollector
<1>1. SInv => SerialOneCollector
  BY DEF SInv, SerialInv, DeviceInv, SerialOneCollector
<1>2. QED BY InitSerial, NextSerial, <1>1, PTL DEF Spec

(* Without overlap DeleteDevice leaves no collector and no heartbeat entry
   behind, in whatever order devices.Delete and the goroutine cancelCollect
   take effect. *)
THEOREM ManagerSerialDeleteStops == Spec => []SerialDeleteStops
<1>1. ASSUME SInv PROVE SerialDeleteStops
  <2>1. ASSUME NEW id \in Ids, Serial(id), devices[id] = None, Quiet(id)
        PROVE  (\A b \in live : deviceOf[b] # id) /\ heartBeat[id] = None
    <3>1. brokers[id] = None /\ heartBeat[id] = None
      BY <1>1, <2>1, QuietIsSettled DEF Settled, Calm
    <3>2. \A b \in live : deviceOf[b] = id => b = brokers[id]
      BY <1>1, <2>1 DEF SInv, SerialInv, DeviceInv
    <3>3. live \subseteq Brokers /\ None \notin Brokers
      BY <1>1, Types, Constants DEF SInv
    <3>4. QED BY <3>1, <3>2, <3>3
  <2>2. QED BY <2>1 DEF SerialDeleteStops, DeletedStopsCollecting
<1>2. QED BY InitSerial, NextSerial, <1>1, PTL DEF Spec

(* Without overlap a device that shows unconnected is in heartBeatDevices or
   collected already: a failed connect registers it before the request or the
   listener is done, and the heartbeat purges only what it has started. *)
THEOREM ManagerSerialUnconnectedIsProbed == Spec => []SerialUnconnectedIsProbed
<1>1. ASSUME SInv PROVE SerialUnconnectedIsProbed
  <2>1. ASSUME NEW id \in Ids, Serial(id), devices[id] = 1, Quiet(id),
               status[id][devices[id]] = "unconnected"
        PROVE  heartBeat[id] # None \/ brokers[id] # None
    BY <1>1, <2>1, QuietIsSettled DEF Settled, Calm
  <2>2. QED BY <2>1 DEF SerialUnconnectedIsProbed, UnconnectedIsProbed
<1>2. QED BY InitSerial, NextSerial, <1>1, PTL DEF Spec

(* Without overlap the store and devices hold the same revision when the
   device is at rest, so a restart loads what the API showed: an update that
   store.Update refuses changes neither, and store.Delete finds the version
   that memory has. *)
THEOREM ManagerSerialStoreAgrees == Spec => []SerialStoreAgrees
<1>1. ASSUME SInv PROVE SerialStoreAgrees
  BY <1>1, QuietIsSettled DEF SerialStoreAgrees, Settled
<1>2. QED BY InitSerial, NextSerial, <1>1, PTL DEF Spec

(* listeningDeviceStatusCh asserts a nil value to be a Device, and takes the
   process down, only after two operations were on one device at once. *)
THEOREM ManagerCrashNeedsOverlap == Spec => []CrashNeedsOverlap
<1>1. Init => CrashNeedsOverlap
  BY DEF Init, CrashNeedsOverlap
<1>2. ASSUME SInv, LoadMissing PROVE overlapped # {}
  <2>1. th[Listener].pc = "load" /\ Listener \in Threads
    BY <1>2, Constants DEF LoadMissing
  <2>2. PICK id \in Ids : id = th[Listener].id /\ On(Listener, id)
    BY <1>2, <2>1, OnDevice DEF Inside
  <2>3. devices[id] = None
    BY <1>2, <2>2 DEF LoadMissing
  <2>4. Serial(id) => devices[id] # None
    BY <1>2, <2>1, <2>2, Alone DEF Asserted
  <2>5. QED BY <2>3, <2>4 DEF Serial
<1>3. ASSUME SInv, CrashNeedsOverlap, [Next]_vars PROVE CrashNeedsOverlap'
  <2>1. CASE LoadMissing
    BY <1>2, <1>3, <2>1 DEF LoadMissing, CrashNeedsOverlap
  <2>2. CASE UNCHANGED vars
    BY <1>3, <2>2 DEF vars, CrashNeedsOverlap
  <2>3. CASE MapRace
    BY <2>3 DEF MapRace, CrashNeedsOverlap
  <2>4. CASE Next /\ ~LoadMissing /\ ~MapRace
    <3>1. Running /\ UNCHANGED crashed
      <4>1. ASSUME NEW t \in Threads, Collect(t) PROVE Running /\ UNCHANGED crashed
        BY <4>1 DEF Collect, ReadyCollect, CancelCollect, ConnectFails,
           RegisterForProbe, NothingToCollect, Connects, StartCollect,
           CancelWithoutBroker, CancelLocks, CancelDestroys
      <4>2. ASSUME NEW r \in Requests, Request(r) \/ Continue(r) \/ Unmap(r)
            PROVE  Running /\ UNCHANGED crashed
        BY <4>2 DEF Request, CreateDevice, DeleteDevice, UpdateDevice,
           DeliverAction, SwitchDeviceStatus, Continue, StoreDelete, StoreUpdate,
           ReplaceDevice, Receive, ReadBroker, Unmap
      <4>3. ASSUME NEW b \in Brokers, Produce(b) \/ Consume(b)
            PROVE  Running /\ UNCHANGED crashed
        BY <4>3 DEF Produce, Consume
      <4>4. CASE Load \/ HeartBeatDetection \/ Stop
        BY <4>4 DEF Load, HeartBeatDetection, Tick, EndRange, Purge, Visit, Stop,
           Shutdown, ShutdownVisits, ShutdownDestroys, ShutdownEnds
      <4>5. QED BY <2>4, <4>1, <4>2, <4>3, <4>4 DEF Next, Listen
    <3>2. QED BY <3>1 DEF Running, CrashNeedsOverlap
  <2>5. QED BY <1>3, <2>1, <2>2, <2>3, <2>4
<1>4. QED BY InitSerial, NextSerial, <1>1, <1>3, PTL DEF Spec
=============================================================================
