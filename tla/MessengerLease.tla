--------------------------- MODULE MessengerLease ---------------------------
(***************************************************************************)
(* What a device's connection pool promises to the goroutines that use it: *)
(* a messenger (one connection) is leased to at most one caller at a time, *)
(* passes from caller to caller only through a return or a hand-over, and  *)
(* is lost only once the pool has been closed.  No queue, no counter and   *)
(* no lock: MessengerPool implements this.                                 *)
(***************************************************************************)
EXTENDS Naturals

CONSTANTS
    Callers,    \* goroutines that ask for a messenger
    Size        \* messengers the pool is created with

VARIABLES
    free,       \* messengers nobody has
    lease,      \* the messenger each caller has, NoMessenger if none
    made,       \* messengers created so far: they are 1 .. made
    closed      \* the pool has been closed

vars == <<free, lease, made, closed>>

NoMessenger == 0

Init ==
    /\ free = 1..Size
    /\ lease = [c \in Callers |-> NoMessenger]
    /\ made = Size
    /\ closed = FALSE

Acquire(c) ==
    /\ lease[c] = NoMessenger
    /\ \E m \in free :
          /\ free' = free \ {m}
          /\ lease' = [lease EXCEPT ![c] = m]
    /\ UNCHANGED <<made, closed>>

Return(c) ==
    /\ lease[c] # NoMessenger
    /\ free' = free \cup {lease[c]}
    /\ lease' = [lease EXCEPT ![c] = NoMessenger]
    /\ UNCHANGED <<made, closed>>

HandOver(c, d) ==
    /\ lease[c] # NoMessenger
    /\ lease[d] = NoMessenger
    /\ lease' = [lease EXCEPT ![c] = NoMessenger, ![d] = lease[c]]
    /\ UNCHANGED <<free, made, closed>>

(* Only a closed pool refuses a caller, who then connects for itself. *)
Connect(c) ==
    /\ closed
    /\ lease[c] = NoMessenger
    /\ made' = made + 1
    /\ lease' = [lease EXCEPT ![c] = made + 1]
    /\ UNCHANGED <<free, closed>>

(* Only a closed pool loses a messenger that is given back to it. *)
Lose(c) ==
    /\ closed
    /\ lease[c] # NoMessenger
    /\ lease' = [lease EXCEPT ![c] = NoMessenger]
    /\ UNCHANGED <<free, made, closed>>

Close ==
    /\ ~closed
    /\ closed' = TRUE
    /\ free' = {}
    /\ UNCHANGED <<lease, made>>

Next ==
    \/ Close
    \/ \E c \in Callers :
          \/ Acquire(c)
          \/ Return(c)
          \/ Connect(c)
          \/ Lose(c)
          \/ \E d \in Callers : HandOver(c, d)

Spec == Init /\ [][Next]_vars
=============================================================================
