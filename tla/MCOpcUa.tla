------------------------------- MODULE MCOpcUa -------------------------------
(* Groups of two: three variables make five requests for two clients, and
   one of the variables' nodes is unknown to the server.  Apart has a group
   without a variable that is asked for, Untyped one with one of each. *)
EXTENDS OpcUa

Var(n, type) == [name |-> Name(n), type |-> type, node |-> n]

Device(variables, update, nodes, polls, updates, faults, changes) ==
    [variables |-> variables, update |-> update, nodes |-> nodes,
     bounds |-> [polls |-> polls, updates |-> updates, faults |-> faults,
                 changes |-> changes, restarts |-> 1]]

Three == <<Var("a", "number"), Var("b", "string"), Var("c", "number")>>
Two == <<Var("c", "string"), Var("d", "number")>>
Untyped == <<Var("a", "bool"), Var("b", "number")>>
Apart == <<Var("a", "bool"), Var("b", "bool"), Var("c", "number")>>

MCSetups ==
    {Device(Three, Three, {"a", "b", "c"}, 1, 0, 1, 0),
     Device(Three, Three, {"a", "c"}, 1, 0, 0, 1),
     Device(Two, Three, {"b", "c", "d"}, 2, 1, 0, 0),
     Device(Two, << >>, {"c", "d"}, 2, 1, 3, 1),
     Device(Untyped, Two, {"a", "b", "d"}, 2, 1, 1, 1),
     Device(Two, Untyped, {"b", "c"}, 2, 2, 1, 0),
     Device(Two, Apart, {"a", "b", "c"}, 2, 1, 0, 0)}
==============================================================================
