--------------------------------- MODULE OpcUa ---------------------------------
(***************************************************************************)
(* Collecting from an OPC UA device: the groups NewBroker reads, the       *)
(* goroutines of a poll, the pool of clients they share, retry() with its  *)
(* uncounted redials, and the manager's copy of the device beside them.    *)
(*                                                                         *)
(* A critical section under Mux is one step.  A messenger is its place     *)
(* among those NewClients made; what replaces its client (Reset, or a new  *)
(* one for an unavailable one) keeps the place.  GetMessenger returns no   *)
(* error here: its context is Background, NewMessenger never returns one,  *)
(* and Destroy finds nobody waiting, as it runs between polls (Broker).    *)
(***************************************************************************)
EXTENDS VariableTable

CONSTANTS
    Setups,      \* the devices: variables, update, the server's nodes, and
                 \* how many polls, updates, faults, changes, restarts
    GroupSize,   \* 1000, the variables of one read request
    PerChannel   \* 5, the requests for which NewClients opens one client

Listed(vs) == vs \in Seq(ToSet(vs))

ASSUME OpcUaAssumption ==
    /\ {GroupSize, PerChannel} \subseteq Nat \ {0}
    /\ \A s \in Setups : Listed(s.variables) /\ Listed(s.update)

VARIABLES
    setup,        \* the device that was chosen
    stored,       \* the manager's table of variables
    wanted,       \* the variables requested when the broker was made (history)
    frames,       \* NamespaceVariableDataFrame
    session,      \* of each messenger: open, stale (the server forgot it,
                  \* the client does not know) or closed (unavailable)
    Messengers, Idle, ConnRequests,   \* the pool
    kept,         \* GetMessenger returned with Mux locked
    pc, granted, tries,   \* of each goroutine message()
    result,       \* what each of them reported, and when
    collecting,   \* there is a broker
    alive,        \* the process runs
    server,       \* the server's values: their version
    spent         \* of each of those, so far

pool == <<Messengers, Idle, ConnRequests, kept>>
workers == <<pc, granted, tries, result>>
around == <<setup, stored, wanted, frames, collecting>>
vars == <<around, session, pool, workers, alive, server, spent>>

-----------------------------------------------------------------------------
(* VariablesInGroupOf: more variables than fit in one group make the groups
   and, before them, as many empty ones (make([][]T, group)) and one more
   (the loop begins with variables[0:0]).  Mutation: the last is dropped. *)
Pieces(vs, group) ==
    [i \in 1..group |-> SubSeq(vs, GroupSize * (i - 1) + 1,
                               IF i = group THEN Len(vs) ELSE GroupSize * i)]
GroupsBut(vs) ==
    IF Len(vs) <= GroupSize THEN <<vs>>
    ELSE LET group == (Len(vs) + GroupSize - 1) \div GroupSize
         IN  [i \in 1..(group + 1) |-> << >>] \o Front(Pieces(vs, group))
VariablesInGroupOf(vs) ==
    IF Len(vs) <= GroupSize THEN <<vs>>
    ELSE LET group == (Len(vs) + GroupSize - 1) \div GroupSize
         IN  [i \in 1..(group + 1) |-> << >>] \o Pieces(vs, group)

(* NodesToRead of a group: a type other than NUMBER and STRING has none.
   Its node is the one NewBroker makes of its address: for a NUMBER with a
   string that is no number, node 0 of its namespace.  The address of a STRING
   is a string: for any other NewBroker panics, which is left out.
   Mutation: the slice is made once, before the loop over the groups. *)
AskedFor(v) == v.type \in {"number", "string"}
Readable(vs) ==
    FoldLeft(LAMBDA nodes, v : IF AskedFor(v) THEN Append(nodes, v) ELSE nodes, << >>, vs)
NodesSoFar(groups, i) == Readable(FlattenSeq(SubSeq(groups, 1, i)))
NodesToRead(groups, i) == Readable(groups[i])

NewFrames(vs) ==
    LET groups == VariablesInGroupOf(vs)
    IN  [i \in DOMAIN groups |->
            [variables |-> groups[i], nodes |-> NodesToRead(groups, i)]]

NoResult == [kind |-> "none", values |-> << >>, at |-> 0, faultless |-> TRUE]

(* NewClients, and the goroutines that have not begun. *)
Collecting(fs) ==
    LET clients == Len(fs) \div PerChannel + 1
    IN  [session |-> [m \in 1..clients |-> "open"],
         Messengers |-> [m \in 1..clients |-> m], Idle |-> clients,
         pc |-> [i \in DOMAIN fs |-> "done"],
         granted |-> [i \in DOMAIN fs |-> 0],
         tries |-> [i \in DOMAIN fs |-> 0],
         result |-> [i \in DOMAIN fs |-> NoResult]]

Init ==
    /\ setup \in Setups
    /\ stored = CreateOpcUaDevice(setup.variables)
    /\ wanted = setup.variables
    /\ frames = NewFrames(stored.list)
    /\ LET c == Collecting(frames)
       IN  /\ session = c.session
           /\ Messengers = c.Messengers /\ Idle = c.Idle
           /\ pc = c.pc /\ granted = c.granted /\ tries = c.tries
           /\ result = c.result
    /\ ConnRequests = {} /\ kept = FALSE
    /\ collecting = TRUE /\ alive = TRUE
    /\ server = 0
    /\ spent = [polls |-> 0, updates |-> 0, faults |-> 0, changes |-> 0, restarts |-> 0]

(* NewBroker, on the device the manager has. *)
Started ==
    /\ wanted' = IF spent.updates = 0 THEN setup.variables ELSE setup.update
    /\ frames' = NewFrames(stored'.list)
    /\ LET c == Collecting(frames')
       IN  /\ session' = c.session
           /\ Messengers' = c.Messengers /\ Idle' = c.Idle
           /\ pc' = c.pc /\ granted' = c.granted /\ tries' = c.tries
           /\ result' = c.result
    /\ ConnRequests' = {} /\ kept' = FALSE
    /\ collecting' = TRUE

Spend(what) == /\ spent[what] < setup.bounds[what]
               /\ spent' = [spent EXCEPT ![what] = @ + 1]

Polling == \E i \in DOMAIN pc : pc[i] # "done"
-----------------------------------------------------------------------------
(* poll(): one goroutine for each frame; the next waits for all of them. *)

StartPoll ==
    /\ alive /\ collecting /\ ~Polling
    /\ Spend("polls")
    /\ pc' = [i \in DOMAIN frames |-> "start"]
    /\ result' = [i \in DOMAIN frames |-> NoResult]
    /\ tries' = [i \in DOMAIN frames |-> 0]
    /\ UNCHANGED <<around, session, pool, granted, alive, server>>

(* What Messengers.Remove(front) leaves; mutation: the front stays. *)
FrontKept == Messengers
FrontRemoved == Tail(Messengers)

(* GetMessenger: the front of the list; where its client is unavailable a
   new one is dialled, which may not connect, and Mux stays locked. *)
TakeIdle(i) ==
    LET m == Head(Messengers)
    IN  /\ alive /\ pc[i] = "start" /\ ~kept
        /\ Idle > 0
        /\ Idle' = Idle - 1
        /\ Messengers' = FrontRemoved
        /\ granted' = [granted EXCEPT ![i] = m]
        /\ pc' = [pc EXCEPT ![i] = "using"]
        /\ kept' = (session[m] = "closed")
        /\ session' \in IF kept' THEN {[session EXCEPT ![m] = s] : s \in {"open", "closed"}}
                                 ELSE {session}
        /\ UNCHANGED <<around, ConnRequests, tries, result, alive, server, spent>>

Register(i) ==
    /\ alive /\ pc[i] = "start" /\ ~kept
    /\ Idle = 0
    /\ ConnRequests' = ConnRequests \cup {i}
    /\ pc' = [pc EXCEPT ![i] = "waiting"]
    /\ UNCHANGED <<around, session, Messengers, Idle, kept, granted, tries,
                   result, alive, server, spent>>

Receive(i) ==
    /\ alive /\ pc[i] = "waiting" /\ granted[i] # 0
    /\ pc' = [pc EXCEPT ![i] = "using"]
    /\ UNCHANGED <<around, session, pool, granted, tries, result, alive, server, spent>>

Reported(i, r) ==
    /\ result' = [result EXCEPT ![i] = r]
    /\ pc' = [pc EXCEPT ![i] = "releasing"]

(* A counted round of retry(); the third ends in ErrManyRetry. *)
TriedInVain(i) ==
    IF tries[i] = 2
    THEN /\ Reported(i, [NoResult EXCEPT !.kind = "error",
                                         !.faultless = spent.faults = 0])
         /\ UNCHANGED tries
    ELSE /\ tries' = [tries EXCEPT ![i] = @ + 1]
         /\ UNCHANGED <<pc, result>>

(* The server's answer has a result for each node, in their order; a bad
   status is left out.  The variables are gone through by their places: one
   past the results panics in a goroutine that nothing recovers. *)
ValuesOf(frame) ==
    FoldLeft(LAMBDA values, k :
                 IF frame.nodes[k].node \in setup.nodes
                 THEN Append(values, [v |-> frame.variables[k],
                                      value |-> <<frame.nodes[k].node, server>>])
                 ELSE values, << >>, [k \in DOMAIN frame.variables |-> k])

Read(i) ==
    LET frame == frames[i]
    IN  /\ alive /\ pc[i] = "using"
        /\ session[granted[i]] = "open"
        /\ frame.nodes # << >>
        /\ IF Len(frame.nodes) < Len(frame.variables)
           THEN /\ alive' = FALSE
                /\ UNCHANGED <<pc, result>>
           ELSE /\ alive' = alive
                /\ Reported(i, [kind |-> "values", at |-> server,
                                faultless |-> spent.faults = 0,
                                values |-> ValuesOf(frame)])
        /\ UNCHANGED <<around, session, pool, granted, tries, server, spent>>

(* No node to read, no connection, or an answer that does not come: the
   error is one that retry() counts. *)
ReadFails(i) ==
    /\ alive /\ pc[i] = "using"
    /\ \/ /\ \/ session[granted[i]] = "closed"
             \/ session[granted[i]] = "open" /\ frames[i].nodes = << >>
          /\ UNCHANGED spent
       \/ /\ session[granted[i]] = "open" /\ frames[i].nodes # << >>
          /\ Spend("faults")
    /\ TriedInVain(i)
    /\ UNCHANGED <<around, session, pool, granted, alive, server>>

(* EOF from a client that calls itself available, or a session the server
   does not know or has not activated: a new client, and the round does
   not count. *)
Redial(i) ==
    /\ alive /\ pc[i] = "using"
    /\ session[granted[i]] = "stale"
    /\ session' \in {[session EXCEPT ![granted[i]] = s] : s \in {"open", "closed"}}
    /\ UNCHANGED <<around, pool, workers, alive, server, spent>>

(* ReleaseMessenger: somebody's request takes it, or the list does.
   Mutation: the comparison is off by one. *)
HandsOverNever == Idle < 0 /\ ConnRequests # {}
HandsOver == Idle = 0 /\ ConnRequests # {}

Release(i) ==
    /\ alive /\ pc[i] = "releasing" /\ ~kept
    /\ pc' = [pc EXCEPT ![i] = "done"]
    /\ \/ /\ HandsOver
          /\ \E w \in ConnRequests :
                /\ ConnRequests' = ConnRequests \ {w}
                /\ granted' = [granted EXCEPT ![w] = granted[i], ![i] = 0]
          /\ UNCHANGED <<Messengers, Idle>>
       \/ /\ ~HandsOver
          /\ Messengers' = Append(Messengers, granted[i])
          /\ Idle' = Idle + 1
          /\ granted' = [granted EXCEPT ![i] = 0]
          /\ UNCHANGED ConnRequests
    /\ UNCHANGED <<around, session, kept, tries, result, alive, server, spent>>

-----------------------------------------------------------------------------
(* The manager: an update leaves the broker as it is; collecting is stopped
   (Destroy needs Mux) and started by requests of their own. *)

UpdateDevice ==
    /\ alive
    /\ Spend("updates")
    /\ stored' = UpdateOpcUaDevice(stored, setup.update)
    /\ UNCHANGED <<setup, wanted, frames, collecting, session, pool, workers,
                   alive, server>>

Destroy ==
    /\ alive /\ collecting /\ ~Polling /\ ~kept
    /\ collecting' = FALSE
    /\ session' = [m \in DOMAIN session |-> "closed"]
    /\ Messengers' = << >>
    /\ UNCHANGED <<setup, stored, wanted, frames, Idle, ConnRequests, kept,
                   workers, alive, server, spent>>

Start ==
    /\ alive /\ ~collecting
    /\ stored' = stored
    /\ Started
    /\ UNCHANGED <<setup, alive, server, spent>>

(* The process comes back; the devices are read from their files. *)
Restart ==
    /\ ~alive
    /\ Spend("restarts")
    /\ alive' = TRUE
    /\ stored' = IndexDevice(stored)
    /\ Started
    /\ UNCHANGED <<setup, server>>

(* The server and the network: a session is forgotten, a connection is
   lost and, by the client's own doing, regained; the values change. *)
Lose(m) ==
    /\ collecting /\ session[m] = "open"
    /\ Spend("faults")
    /\ session' \in {[session EXCEPT ![m] = s] : s \in {"stale", "closed"}}
    /\ UNCHANGED <<around, pool, workers, alive, server>>

Regain(m) ==
    /\ collecting /\ session[m] = "closed"
    /\ session' = [session EXCEPT ![m] = "open"]
    /\ UNCHANGED <<around, pool, workers, alive, server, spent>>

Change ==
    /\ Spend("changes")
    /\ server' = server + 1
    /\ UNCHANGED <<around, session, pool, workers, alive>>

Message(i) == \/ TakeIdle(i) \/ Register(i) \/ Receive(i)
              \/ Read(i) \/ ReadFails(i) \/ Redial(i) \/ Release(i)

Next ==
    \/ StartPoll
    \/ \E i \in DOMAIN frames :
          \/ TakeIdle(i) \/ Register(i) \/ Receive(i)
          \/ Read(i) \/ ReadFails(i) \/ Redial(i) \/ Release(i)
    \/ UpdateDevice \/ Destroy \/ Start \/ Restart
    \/ \E m \in DOMAIN session : Lose(m) \/ Regain(m)
    \/ Change

Spec == Init /\ [][Next]_vars

(* Goroutines are scheduled; Mux and the request channels hold nobody for
   ever but by what the others do. *)
FairSpec == Spec /\ WF_vars(\E i \in DOMAIN frames : Message(i))

-----------------------------------------------------------------------------
Holders == {i \in DOMAIN granted : granted[i] # 0}

(* The types: while there is a broker its counter is the length of its
   list, and every messenger is in the list or with one goroutine. *)
TypeOK ==
    /\ setup \in Setups
    /\ \A m \in DOMAIN session : session[m] \in {"open", "stale", "closed"}
    /\ \A i \in DOMAIN pc :
          /\ pc[i] \in {"done", "start", "waiting", "using", "releasing"}
          /\ tries[i] \in 0..2
    /\ ConnRequests \subseteq {i \in DOMAIN pc : pc[i] = "waiting"}
    /\ collecting =>
          /\ Idle = Len(Messengers)
          /\ Idle + Cardinality(Holders) = Cardinality(DOMAIN session)
          /\ ToSet(Messengers) \cup {granted[i] : i \in Holders} = DOMAIN session

(* What is reported under a variable is the value the server gave its own
   node in that poll, although results are matched by their places, and
   every retry, redial or wait for a client came in between. *)
ReportsTheServer ==
    \A i \in DOMAIN result : \A k \in DOMAIN result[i].values :
        LET r == result[i].values[k]
        IN  r.value = <<r.v.node, result[i].at>>

(* No request names two variables alike, or one with a blank. *)
Unmistakable ==
    /\ Unambiguous(setup.variables) /\ Unambiguous(setup.update)
    /\ \A v \in ToSet(setup.variables) \cup ToSet(setup.update) : TrimSpace(v.name) = v.name

(* A poll of a broker that has met no fault reports each variable that was
   requested before it was made, at creation or by an update, whose type is
   asked for and whose node the server knows, and no other, each once, however
   many groups there are; and where the variables fit one group and any is
   asked for, it reports no error.  (With more of them every poll has errors:
   those of the empty groups.) *)
PollIsComplete ==
    (/\ alive /\ ~Polling /\ Unmistakable
     /\ \A i \in DOMAIN result : result[i].kind # "none" /\ result[i].faultless)
    => LET told == UNION {{<<i, k>> : k \in DOMAIN result[i].values} : i \in DOMAIN result}
           name(p) == result[p[1]].values[p[2]].v.name
       IN  /\ {name(p) : p \in told} =
                  {v.name : v \in {w \in ToSet(wanted) : AskedFor(w) /\ w.node \in setup.nodes}}
           /\ \A p, q \in told : name(p) = name(q) => p = q
           /\ Len(wanted) <= GroupSize /\ (\E v \in ToSet(wanted) : AskedFor(v)) =>
                 \A i \in DOMAIN result : result[i].kind = "values"

(* Every poll ends, however often the server forgets a session or closes a
   connection, unless a goroutine has found its client closed when it took
   it (then Mux is never unlocked), or a panic has ended the process. *)
PollsEnd == Polling ~> (~Polling \/ kept \/ ~alive)
================================================================================
