---------------------------- MODULE ResultStream ----------------------------
(***************************************************************************)
(* What a broker promises the manager about its results channel: while it  *)
(* is open the results of polls come one at a time, each is taken once,    *)
(* and after it is closed nothing enters it any more, but what it holds    *)
(* can still be taken.                                                     *)
(***************************************************************************)
VARIABLES
    open,   \* the channel accepts results
    held    \* the result in it

vars == <<open, held>>

Init == open = TRUE /\ held = "none"

Produce ==
    /\ open
    /\ held = "none"
    /\ held' \in {"ok", "err"}
    /\ UNCHANGED open

Take ==
    /\ held # "none"
    /\ held' = "none"
    /\ UNCHANGED open

Close ==
    /\ open
    /\ open' = FALSE
    /\ UNCHANGED held

Next == Produce \/ Take \/ Close

Spec == Init /\ [][Next]_vars
=============================================================================
