---------------------------- MODULE MessengerPool ----------------------------
(***************************************************************************)
(* The connection pool of one broker: Clients in                           *)
(* pkg/protocol/modbus/runtime/clients.go (pkg/protocol/s7/runtime holds   *)
(* the same text).  Its callers are the goroutines that poll() starts, one *)
(* per data frame (Workers), and the HTTP requests inside DeliverAction    *)
(* (Deliveries, one element per request).                                  *)
(*                                                                         *)
(* A critical section under Mux is one step.  A messenger is a number, nil *)
(* is NoMessenger.  A worker that closes a broken connection and dials a   *)
(* new one (retry) does so inside its own messenger, through Reset, so the *)
(* pool sees no change.  The context of every caller is Background, which  *)
(* is never done, so the branches on ctx.Done() are left out.              *)
(***************************************************************************)
EXTENDS Naturals, Sequences, FiniteSets

CONSTANTS
    Workers,      \* goroutines message(), one per data frame of a poll
    Deliveries,   \* HTTP requests that reach DeliverAction
    Size          \* messengers NewClients opens: dataFrameCount/5 + 1

ASSUME PoolAssumption ==
    /\ Size \in Nat \ {0}
    /\ Workers \cap Deliveries = {}

Callers == Workers \cup Deliveries

VARIABLES
    Messengers,     \* Clients.Messengers, the list of idle messengers
    Idle,           \* Clients.Idle, the counter GetMessenger decides by
    ConnRequests,   \* callers whose request channel is in the map and open
    closedRequests, \* callers whose closed channel is still in the map
    granted,        \* the messenger a caller has, or has in its channel
    pc,             \* where each caller is
    made,           \* messengers opened so far: they are 1 .. made
    muxStuck,       \* a panic left Mux locked for ever
    destroyed       \* Destroy has run

vars == <<Messengers, Idle, ConnRequests, closedRequests, granted, pc,
          made, muxStuck, destroyed>>

NoMessenger == 0

Places == {"done", "start", "waiting", "refused", "using"}

Init ==
    /\ Messengers = [i \in 1..Size |-> i]
    /\ Idle = Size
    /\ ConnRequests = {}
    /\ closedRequests = {}
    /\ granted = [c \in Callers |-> NoMessenger]
    /\ pc = [c \in Callers |-> IF c \in Workers THEN "done" ELSE "start"]
    /\ made = Size
    /\ muxStuck = FALSE
    /\ destroyed = FALSE

-----------------------------------------------------------------------------
(* poll(): one goroutine per frame; the next poll waits for all of them. *)

StartPoll ==
    /\ ~destroyed
    /\ Workers # {}
    /\ \A w \in Workers : pc[w] = "done"
    /\ pc' = [c \in Callers |-> IF c \in Workers THEN "start" ELSE pc[c]]
    /\ UNCHANGED <<Messengers, Idle, ConnRequests, closedRequests, granted,
                   made, muxStuck, destroyed>>

-----------------------------------------------------------------------------
(* GetMessenger *)

(* The test GetMessenger decides by; mutations: off by one, either way. *)
NothingIdleLoose == Idle <= 1
NothingIdleNever == Idle < 0
NothingIdle == Idle = 0

(* What Messengers.Remove(front) leaves; mutation: the front stays. *)
FrontKept == Messengers
FrontRemoved == Tail(Messengers)

(* Idle > 0: the front of the list is taken. *)
TakeIdle(c) ==
    /\ pc[c] = "start"
    /\ ~muxStuck
    /\ ~NothingIdle
    /\ Messengers # <<>>
    /\ Idle' = Idle - 1
    /\ Messengers' = FrontRemoved
    /\ granted' = [granted EXCEPT ![c] = Head(Messengers)]
    /\ pc' = [pc EXCEPT ![c] = "using"]
    /\ UNCHANGED <<ConnRequests, closedRequests, made, muxStuck, destroyed>>

(* Idle > 0 but the list is empty: front is nil, front.Value panics, and no
   defer unlocks Mux.  The panic itself is recovered by the HTTP server. *)
TakeFromEmptyList(c) ==
    /\ pc[c] = "start"
    /\ ~muxStuck
    /\ ~NothingIdle
    /\ Messengers = <<>>
    /\ Idle' = Idle - 1
    /\ muxStuck' = TRUE
    /\ pc' = [pc EXCEPT ![c] = "done"]
    /\ UNCHANGED <<Messengers, ConnRequests, closedRequests, granted, made,
                   destroyed>>

(* Idle = 0: a request channel is registered and the caller waits on it. *)
Register(c) ==
    /\ pc[c] = "start"
    /\ ~muxStuck
    /\ NothingIdle
    /\ ConnRequests' = ConnRequests \cup {c}
    /\ pc' = [pc EXCEPT ![c] = "waiting"]
    /\ UNCHANGED <<Messengers, Idle, closedRequests, granted, made, muxStuck,
                   destroyed>>

(* The channel holds the messenger a release handed over. *)
Receive(c) ==
    /\ pc[c] = "waiting"
    /\ granted[c] # NoMessenger
    /\ pc' = [pc EXCEPT ![c] = "using"]
    /\ UNCHANGED <<Messengers, Idle, ConnRequests, closedRequests, granted,
                   made, muxStuck, destroyed>>

(* The channel is neither pending nor filled: it was closed, and the caller
   gets ErrDeviceServerClosed. *)
Refuse(c) ==
    /\ pc[c] = "waiting"
    /\ c \notin ConnRequests
    /\ granted[c] = NoMessenger
    /\ pc' = [pc EXCEPT ![c] = "refused"]
    /\ UNCHANGED <<Messengers, Idle, ConnRequests, closedRequests, granted,
                   made, muxStuck, destroyed>>

-----------------------------------------------------------------------------
(* DeliverAction after an error of GetMessenger: it dials for itself. *)

Connect(c) ==
    /\ pc[c] = "refused"
    /\ made' = made + 1
    /\ granted' = [granted EXCEPT ![c] = made + 1]
    /\ pc' = [pc EXCEPT ![c] = "using"]
    /\ UNCHANGED <<Messengers, Idle, ConnRequests, closedRequests, muxStuck,
                   destroyed>>

ConnectFails(c) ==
    /\ pc[c] = "refused"
    /\ pc' = [pc EXCEPT ![c] = "done"]
    /\ UNCHANGED <<Messengers, Idle, ConnRequests, closedRequests, granted,
                   made, muxStuck, destroyed>>

-----------------------------------------------------------------------------
(* ReleaseMessenger, deferred by message() and DeliverAction *)

(* The test ReleaseMessenger decides by; mutation: the queue is ignored. *)
HandsOverNever == FALSE
HandsOver == Idle = 0 /\ ConnRequests \cup closedRequests # {}

(* mCh <- messenger; mutation: the sender keeps it too. *)
SentAndKept(c, d) == [granted EXCEPT ![d] = granted[c]]
Sent(c, d) == [granted EXCEPT ![c] = NoMessenger, ![d] = granted[c]]

(* Idle after PushBack; mutation: the counter is forgotten. *)
IdleForgotten == Idle
IdleCounted == Idle + 1

(* Somebody waits and nothing is idle: any request of the map is picked. *)
HandOver(c, d) ==
    /\ pc[c] = "using"
    /\ ~muxStuck
    /\ HandsOver
    /\ d \in ConnRequests
    /\ ConnRequests' = ConnRequests \ {d}
    /\ granted' = Sent(c, d)
    /\ pc' = [pc EXCEPT ![c] = "done"]
    /\ UNCHANGED <<Messengers, Idle, closedRequests, made, muxStuck, destroyed>>

(* The request picked is one that Destroy closed and left in the map: the
   send panics, the deferred Unlock runs, and the messenger is dropped. *)
HandToClosed(c, d) ==
    /\ pc[c] = "using"
    /\ ~muxStuck
    /\ HandsOver
    /\ d \in closedRequests
    /\ closedRequests' = closedRequests \ {d}
    /\ granted' = [granted EXCEPT ![c] = NoMessenger]
    /\ pc' = [pc EXCEPT ![c] = "done"]
    /\ UNCHANGED <<Messengers, Idle, ConnRequests, made, muxStuck, destroyed>>

(* Nobody waits, or something is idle anyway: the back of the list. *)
PutBack(c) ==
    /\ pc[c] = "using"
    /\ ~muxStuck
    /\ ~HandsOver
    /\ Messengers' = Append(Messengers, granted[c])
    /\ Idle' = IdleCounted
    /\ granted' = [granted EXCEPT ![c] = NoMessenger]
    /\ pc' = [pc EXCEPT ![c] = "done"]
    /\ UNCHANGED <<ConnRequests, closedRequests, made, muxStuck, destroyed>>

-----------------------------------------------------------------------------
(* Clients.Destroy, called by Broker.Destroy once the collector has taken
   ExitCh, which it does between two polls only.  Idle keeps its value and
   the closed channels stay in the map. *)
Destroy ==
    /\ ~destroyed
    /\ \A w \in Workers : pc[w] = "done"
    /\ Messengers' = <<>>
    /\ ConnRequests' = {}
    /\ closedRequests' = ConnRequests
    /\ destroyed' = TRUE
    /\ UNCHANGED <<Idle, granted, pc, made, muxStuck>>

-----------------------------------------------------------------------------
Get(c) == TakeIdle(c) \/ TakeFromEmptyList(c) \/ Register(c)

Release(c) ==
    \/ PutBack(c)
    \/ \E d \in Callers : HandOver(c, d) \/ HandToClosed(c, d)

Next ==
    \/ StartPoll
    \/ Destroy
    \/ \E c \in Callers :
          \/ Get(c) \/ Receive(c) \/ Refuse(c)
          \/ Connect(c) \/ ConnectFails(c)
          \/ Release(c)

(* A goroutine that can take its next step takes it: the exchange between
   a Get and its Release ends at the read deadline AskAtLeast sets.  Nobody
   has to start a poll or to destroy the broker. *)
Fairness ==
    \A c \in Callers :
        /\ WF_vars(Get(c))
        /\ WF_vars(Receive(c) \/ Refuse(c))
        /\ WF_vars(Connect(c) \/ ConnectFails(c))
        /\ WF_vars(Release(c))

Spec == Init /\ [][Next]_vars
FairSpec == Spec /\ Fairness

-----------------------------------------------------------------------------
TypeOK ==
    /\ Messengers \in Seq(1..made)
    /\ Idle \in Nat
    /\ ConnRequests \subseteq Callers
    /\ closedRequests \subseteq Callers
    /\ granted \in [Callers -> 0..made]
    /\ pc \in [Callers -> Places]
    /\ made \in Nat
    /\ muxStuck \in BOOLEAN
    /\ destroyed \in BOOLEAN

Listed == {Messengers[i] : i \in DOMAIN Messengers}

(* A connection carries one exchange at a time: no messenger is with two
   callers, both idle and with a caller, or twice in the list, whatever
   mix of takes, hand-overs, releases and Destroy came before. *)
ExclusiveMessenger ==
    /\ \A c, d \in Callers :
          c # d /\ granted[c] # NoMessenger => granted[c] # granted[d]
    /\ \A c \in Callers : granted[c] \notin Listed
    /\ \A i, j \in DOMAIN Messengers :
          i # j => Messengers[i] # Messengers[j]

(* Until Destroy the pool is whole: the counter GetMessenger trusts is the
   length of the list it takes from (so Front() is never nil), and each
   connection NewClients opened is in the list, in a request channel or with
   a caller: none leaks, however the callers interleave. *)
LivePoolIsWhole ==
    ~destroyed =>
        /\ Idle = Len(Messengers)
        /\ 1..Size = (Listed \cup {granted[c] : c \in Callers}) \ {NoMessenger}

(* Until Destroy a queued request has somebody to wait for: nothing is idle
   while it is queued and some caller has a messenger to hand over. *)
WaiterHasHolder ==
    ~destroyed /\ ConnRequests # {} =>
        /\ Idle = 0
        /\ \E c \in Callers \ ConnRequests : granted[c] # NoMessenger

(* A poll ends: every message() goroutine it started gets a messenger and
   gives it back, so the collector comes round to ExitCh again.  And an
   action that waits in a live pool is served, or released by Destroy. *)
CallersFinish ==
    /\ \A w \in Workers : pc[w] # "done" ~> pc[w] = "done"
    /\ \A d \in Deliveries :
          pc[d] = "waiting" /\ ~destroyed ~> pc[d] # "waiting"

(* The pool implements the lease: what its callers have and what is idle
   change only as MessengerLease allows. *)
Lease == INSTANCE MessengerLease
            WITH free <- Listed, lease <- granted, closed <- destroyed

ImplementsLease == Lease!Spec
=============================================================================
