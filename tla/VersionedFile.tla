---------------------------- MODULE VersionedFile ----------------------------
(***************************************************************************)
(* What the store promises of the file of one device: it is made once,     *)
(* each update replaces the whole object by one made from that very        *)
(* version, and a removed file stays removed.  The object is lost only     *)
(* where the file is being made or replaced: there a crash or a failed     *)
(* write may leave nothing.                                                *)
(* A delete does not promise to compare versions: see FsStore.             *)
(***************************************************************************)
EXTENDS Naturals

CONSTANT Objects      \* records with the fields version and from

VARIABLES
    state,    \* "unmade", "making", "whole", "replacing", "removed" or "lost"
    object    \* the object, while there is one

NoObject == [version |-> 0, from |-> 0, by |-> "nobody"]

Init == state = "unmade" /\ object = NoObject

(* A creation or an update gets hold of the file. *)
Begin ==
    /\ \/ state = "unmade" /\ state' = "making"
       \/ state = "whole" /\ state' = "replacing"
    /\ UNCHANGED object

Create ==
    /\ state = "making"
    /\ state' = "whole"
    /\ object' \in Objects

(* Compare and swap. *)
Replace ==
    /\ state = "replacing"
    /\ state' = "whole"
    /\ object' \in Objects
    /\ object'.from = object.version

Remove ==
    /\ state \in {"whole", "replacing", "lost"}
    /\ state' = "removed"
    /\ object' = NoObject

(* What was begun is broken off. *)
Lose ==
    /\ state \in {"making", "replacing"}
    /\ state' = "lost"
    /\ object' = NoObject

Next == Begin \/ Create \/ Replace \/ Remove \/ Lose

Spec == Init /\ [][Next]_<<state, object>>
=============================================================================
