------------------------------- MODULE Broker -------------------------------
(***************************************************************************)
(* The life of one broker: ModbusBroker in pkg/protocol/modbus/             *)
(* modbusbroker.go; the S7 and OPC UA brokers have the same goroutines.    *)
(*   - the collector (Collect) polls, and looks at ExitCh before and after  *)
(*     each poll;                                                          *)
(*   - poll() starts one goroutine message() per data frame, and one       *)
(*     rollVariable() that gathers what they send;  poll() waits for the   *)
(*     messages and closes their channel, but not for the roll;            *)
(*   - the roll sends the gathered result into VariableCh, which has room  *)
(*     for one;                                                            *)
(*   - the manager's goroutine takes results and publishes them;           *)
(*   - Destroy hands ExitCh to the collector and closes VariableCh.        *)
(* The messengers of a message() are those of MessengerPool.               *)
(* CountsBadConn tells the protocols apart: a broken connection uses up    *)
(* one of the three tries of Modbus, and none of S7's and OPC UA's.        *)
(***************************************************************************)
EXTENDS Naturals, Sequences

CONSTANTS
    Frames,         \* data frames of the broker
    CountsBadConn,  \* whether retry() counts a broken connection
    MaxPolls        \* bound: polls the collector starts

ASSUME BrokerAssumption ==
    /\ Frames # {}
    /\ CountsBadConn \in BOOLEAN
    /\ MaxPolls \in Nat

VARIABLES
    collector,   \* where the collector is
    poll,        \* polls started so far; also the poll in progress
    asking,      \* frames whose message() runs
    broken,      \* those whose connection is closed, to be dialled again
    tries,       \* tries of retry() each frame has used up in this poll
    roll,        \* per poll, its rollVariable(): place and what it gathered
    VariableCh,  \* the results channel: polls whose result it holds
    consumer,    \* the poll whose result the manager handles, or 0
    handled,     \* history: polls in the order their results were handled
    destroyer,   \* where Destroy is
    backlog,     \* history: two rolls were once ready to send at a time
    panicked     \* a roll sent on the closed channel: the process is gone

vars == <<collector, poll, asking, broken, tries, roll, VariableCh, consumer,
          handled, destroyer, backlog, panicked>>

Polls == 1..MaxPolls
Tries == 3
Capacity2 == 2          \* mutation of make(chan, 1)
Capacity == 1

Roll == [at : {"unborn", "gathering", "ready", "sent", "gone"},
         values : SUBSET Frames, errs : SUBSET Frames,
         dropped : SUBSET Frames]

Empty(at) == [at |-> at, values |-> {}, errs |-> {}, dropped |-> {}]

Closed == destroyer = "done"

Init ==
    /\ collector = "before"
    /\ poll = 0
    /\ asking = {}
    /\ broken = {}
    /\ tries = [f \in Frames |-> 0]
    /\ roll = [p \in Polls |-> Empty("unborn")]
    /\ VariableCh = <<>>
    /\ consumer = 0
    /\ handled = <<>>
    /\ destroyer = "none"
    /\ backlog = FALSE
    /\ panicked = FALSE

-----------------------------------------------------------------------------
(* The collector *)

(* A sender waits on ExitCh, so the select does not take its default;
   mutation: another channel is looked at. *)
ExitIgnored == FALSE
ExitOffered == destroyer = "sending"

(* poll(): default branch. *)
StartPoll ==
    /\ ~panicked
    /\ collector = "before"
    /\ ~ExitOffered
    /\ poll < MaxPolls
    /\ collector' = "polling"
    /\ poll' = poll + 1
    /\ asking' = Frames
    /\ roll' = [roll EXCEPT ![poll + 1].at = "gathering"]
    /\ UNCHANGED <<broken, tries, VariableCh, consumer, handled, destroyer,
                   backlog, panicked>>

(* sw.Wait *)
AllDone == asking = {}

Ready == {p \in Polls : roll[p].at = "ready"}

(* close(dfvCh), which makes the roll ready to send. *)
EndPoll ==
    /\ ~panicked
    /\ collector = "polling"
    /\ AllDone
    /\ collector' = "after"
    /\ roll' = [roll EXCEPT ![poll].at = "ready"]
    /\ backlog' = (backlog \/ Ready # {})
    /\ UNCHANGED <<poll, asking, broken, tries, VariableCh, consumer,
                   handled, destroyer, panicked>>

(* The select after the poll takes its default, and the cycle is slept. *)
Pause ==
    /\ ~panicked
    /\ collector = "after"
    /\ ~ExitOffered
    /\ collector' = "before"
    /\ UNCHANGED <<poll, asking, broken, tries, roll, VariableCh, consumer,
                   handled, destroyer, backlog, panicked>>

(* Either select receives from ExitCh, and the collector returns. *)
TakeExit ==
    /\ ~panicked
    /\ collector \in {"before", "after"}
    /\ ExitOffered
    /\ collector' = "exited"
    /\ destroyer' = "clients"
    /\ UNCHANGED <<poll, asking, broken, tries, roll, VariableCh, consumer,
                   handled, backlog, panicked>>

-----------------------------------------------------------------------------
(* message(frame) *)

(* sw.Done; the loop variable of retry() is gone. *)
Done(f) ==
    /\ asking' = asking \ {f}
    /\ tries' = [tries EXCEPT ![f] = 0]

(* The unbuffered send to the roll. *)
SendValues(f) ==
    /\ Done(f)
    /\ roll' = [roll EXCEPT ![poll].values = @ \cup {f}]

(* Mutation: the error is logged only. *)
LogError(f) == Done(f) /\ UNCHANGED roll
SendError(f) ==
    /\ Done(f)
    /\ roll' = [roll EXCEPT ![poll].errs = @ \cup {f}]

Retried(f) == tries' = [tries EXCEPT ![f] = @ + 1]

(* One exchange of retry()'s loop, while a try is left: it is answered, it is
   answered badly, or the connection breaks and is closed. *)
Ask(f) ==
    /\ ~panicked
    /\ f \in asking \ broken
    /\ tries[f] < Tries
    /\ \/ SendValues(f) /\ UNCHANGED broken
       \/ Retried(f) /\ UNCHANGED <<asking, roll, broken>>
       \/ broken' = broken \cup {f} /\ UNCHANGED <<asking, roll, tries>>
    /\ UNCHANGED <<collector, poll, VariableCh, consumer, handled,
                   destroyer, backlog, panicked>>

(* NewMessenger for the broken one: Reset takes the new connection over, or
   the error of dialling is the frame's. *)
Redial(f) ==
    /\ ~panicked
    /\ f \in broken
    /\ broken' = broken \ {f}
    /\ \/ /\ IF CountsBadConn THEN Retried(f) ELSE UNCHANGED tries
          /\ UNCHANGED <<asking, roll>>
       \/ SendError(f)
    /\ UNCHANGED <<collector, poll, VariableCh, consumer, handled,
                   destroyer, backlog, panicked>>

(* ErrManyRetry *)
GiveUp(f) ==
    /\ ~panicked
    /\ f \in asking \ broken
    /\ tries[f] = Tries
    /\ SendError(f)
    /\ UNCHANGED <<collector, poll, broken, VariableCh, consumer,
                   handled, destroyer, backlog, panicked>>

(* ParseVariableValue panics on the answer: message() recovers and sends
   nothing. *)
Drop(f) ==
    /\ ~panicked
    /\ f \in asking \ broken
    /\ tries[f] < Tries
    /\ Done(f)
    /\ roll' = [roll EXCEPT ![poll].dropped = @ \cup {f}]
    /\ UNCHANGED <<collector, poll, broken, VariableCh, consumer,
                   handled, destroyer, backlog, panicked>>

-----------------------------------------------------------------------------
(* rollVariable() of poll p, after close(dfvCh) *)

(* The send into VariableCh goes through; mutation: also on a closed one. *)
HasRoom == Len(VariableCh) < Capacity
MaySendAnyway == HasRoom
MaySend == ~Closed /\ HasRoom

(* The roll returns; mutation: it goes round its loop, where the closed
   channel is received from again. *)
AfterSendAgain == "ready"
AfterSend == "sent"

RollSends(p) ==
    /\ ~panicked
    /\ roll[p].at = "ready"
    /\ MaySend
    /\ VariableCh' = Append(VariableCh, p)
    /\ roll' = [roll EXCEPT ![p].at = AfterSend]
    /\ UNCHANGED <<collector, poll, asking, broken, tries, consumer,
                   handled, destroyer, backlog, panicked>>

(* VariableCh is closed, before or while the roll waits: nothing recovers. *)
RollPanics(p) ==
    /\ ~panicked
    /\ roll[p].at = "ready"
    /\ Closed
    /\ panicked' = TRUE
    /\ UNCHANGED <<collector, poll, asking, broken, tries, roll, VariableCh,
                   consumer, handled, destroyer, backlog>>

-----------------------------------------------------------------------------
(* The manager's goroutine: it takes a result, waits for the MQTT token at
   most mqttTimeout, and takes the next. *)

(* pvr, ok := <-results; mutation: a closed channel is not drained. *)
HasResultIfOpen == VariableCh # <<>> /\ ~Closed
HasResult == VariableCh # <<>>

TakeResult ==
    /\ ~panicked
    /\ consumer = 0
    /\ HasResult
    /\ consumer' = Head(VariableCh)
    /\ VariableCh' = Tail(VariableCh)
    /\ UNCHANGED <<collector, poll, asking, broken, tries, roll, handled,
                   destroyer, backlog, panicked>>

(* The result is published, or, when it has errors, only the status set; it
   is not referred to any more. *)
HandleResult ==
    /\ ~panicked
    /\ consumer # 0
    /\ handled' = Append(handled, consumer)
    /\ roll' = [roll EXCEPT ![consumer] = Empty("gone")]
    /\ consumer' = 0
    /\ UNCHANGED <<collector, poll, asking, broken, tries, VariableCh,
                   destroyer, backlog, panicked>>

-----------------------------------------------------------------------------
(* Destroy *)

(* The send on ExitCh blocks until it is received; mutation: ExitCh has a
   buffer. *)
ExitBuffered == "clients"
ExitBlocks == "sending"

Destroy ==
    /\ ~panicked
    /\ destroyer = "none"
    /\ collector # "exited"
    /\ destroyer' = ExitBlocks
    /\ UNCHANGED <<collector, poll, asking, broken, tries, roll, VariableCh,
                   consumer, handled, backlog, panicked>>

(* Clients.Destroy, then close(VariableCh). *)
CloseVariableCh ==
    /\ ~panicked
    /\ destroyer = "clients"
    /\ destroyer' = "done"
    /\ UNCHANGED <<collector, poll, asking, broken, tries, roll, VariableCh,
                   consumer, handled, backlog, panicked>>

-----------------------------------------------------------------------------
Collect == StartPoll \/ EndPoll \/ Pause \/ TakeExit

Message(f) == Ask(f) \/ Redial(f) \/ GiveUp(f) \/ Drop(f)

RollVariable(p) == RollSends(p) \/ RollPanics(p)

Consume == TakeResult \/ HandleResult

Next ==
    \/ Collect
    \/ \E f \in Frames : Message(f)
    \/ \E p \in Polls : RollVariable(p)
    \/ Consume
    \/ Destroy \/ CloseVariableCh

(* Every goroutine that can go on does: an exchange ends at its read
   deadline, a publication at mqttTimeout.  A message gets its messenger by
   CallersFinish of MessengerPool.  Nobody has to destroy the broker. *)
Fairness ==
    /\ WF_vars(Collect)
    /\ \A f \in Frames : WF_vars(Message(f))
    /\ \A p \in Polls : WF_vars(RollVariable(p))
    /\ WF_vars(Consume)
    /\ WF_vars(CloseVariableCh)

Spec == Init /\ [][Next]_vars
FairSpec == Spec /\ Fairness

-----------------------------------------------------------------------------
TypeOK ==
    /\ collector \in {"before", "polling", "after", "exited"}
    /\ poll \in 0..MaxPolls
    /\ asking \subseteq Frames
    /\ broken \subseteq asking
    /\ tries \in [Frames -> 0..Tries]
    /\ roll \in [Polls -> Roll]
    /\ VariableCh \in Seq(Polls) /\ Len(VariableCh) <= 1
    /\ consumer \in 0..MaxPolls
    /\ handled \in Seq(Polls)
    /\ destroyer \in {"none", "sending", "clients", "done"}
    /\ backlog \in BOOLEAN
    /\ panicked \in BOOLEAN

(* A result that leaves the broker answers for the whole poll: each frame
   gave its values or its error, and no frame both, or its answer could not
   be parsed. *)
ResultsAreWhole ==
    \A p \in Polls :
        roll[p].at \in {"ready", "sent"} =>
            /\ roll[p].values \cup roll[p].errs = Frames \ roll[p].dropped
            /\ roll[p].values \cap roll[p].errs = {}

(* Destroy never pulls the connections from under a poll: once it is past
   ExitCh the collector has returned and no message() runs. *)
DestroyedBetweenPolls ==
    destroyer \in {"clients", "done"} => collector = "exited" /\ asking = {}

(* Results are handled in the order of the polls: each once, and later than
   those of earlier polls, unless two rolls were ready to send at once. *)
ResultsInOrder ==
    ~backlog =>
        \A i, j \in DOMAIN handled : i < j => handled[i] < handled[j]

(* The result of a poll that ended is handled, or the process is gone. *)
PollsHandled ==
    \A p \in Polls :
        roll[p].at = "ready" ~>
            panicked \/ \E i \in DOMAIN handled : handled[i] = p

(* Destroy, which keeps the manager's mu, comes back. *)
DestroyEnds == destroyer = "sending" ~> destroyer = "done" \/ panicked

(* What ErrManyRetry says of a frame: three tries, then it is given up. *)
RetriesEnd == \A f \in Frames : f \in asking ~> f \notin asking \/ panicked

(* The broker implements the stream the manager counts on. *)
Stream == INSTANCE ResultStream WITH
    open <- ~Closed,
    held <- IF VariableCh = <<>> THEN "none"
            ELSE IF roll[Head(VariableCh)].errs = {} THEN "ok" ELSE "err"

ImplementsStream == Stream!Spec
=============================================================================
