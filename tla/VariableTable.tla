---------------------------- MODULE VariableTable ----------------------------
(***************************************************************************)
(* The variables of a device as its protocol manager keeps them: the list  *)
(* Variables, which the broker plans its reads from, and VariablesMap,     *)
(* which a command is looked up in.  The map holds pointers into the list: *)
(* here, the place in the list.  A name is its text and whether a blank    *)
(* stands beside it, which is all strings.TrimSpace is about.              *)
(***************************************************************************)
EXTENDS Naturals, Sequences, SequencesExt, FiniteSets

Name(text) == [text |-> text, blank |-> FALSE]
Blank(text) == [text |-> text, blank |-> TRUE]
TrimSpace(name) == [name EXCEPT !.blank = FALSE]

Names(vs) == {vs[i].name : i \in DOMAIN vs}
Places(vs, name) == {i \in DOMAIN vs : vs[i].name = name}
LastPlace(S) == CHOOSE i \in S : \A j \in S : j <= i

(* The list gone through in its order, each variable put under its name. *)
Indexed(vs) == [n \in Names(vs) |-> LastPlace(Places(vs, n))]

(* CreateDevice of pkg/protocol/modbus, s7 and opcua: the OPC UA manager
   never makes the map. *)
CreateModBusDevice(vs) == [list |-> vs, map |-> Indexed(vs)]
CreateS7Device(vs) == [list |-> vs, map |-> Indexed(vs)]
CreateOpcUaDevice(vs) == [list |-> vs, map |-> << >>]

(* IndexDevice, when the devices are read back from the store. *)
IndexDevice(table) == [table EXCEPT !.map = Indexed(table.list)]

(* DeepCopyObject: the copy of a table has a map of its own, made anew. *)
DeepCopy(table) == IndexDevice(table)

GetVariable(table, name) ==
    IF name \in DOMAIN table.map THEN {table.list[table.map[name]]} ELSE {}

(* The names of the device that the request no longer has. *)
OnlySrc(table, vs) == Names(table.list) \ Names(vs)

(* Mutation: the names stay in the map. *)
NothingForgotten(map, gone) == DOMAIN map
Remembered(map, gone) == DOMAIN map \ gone

Without(list, gone) ==
    FoldLeft(LAMBDA rest, v : IF v.name \in gone THEN rest ELSE Append(rest, v),
             << >>, list)

(* What is kept of the list and of the map once those are deleted: only the
   names they have are taken from the map. *)
Kept(table, vs) ==
    LET gone == OnlySrc(table, vs)
        left == {i \in DOMAIN table.list : table.list[i].name \notin gone}
        place(i) == Cardinality({j \in left : j <= i})
    IN  [list |-> Without(table.list, gone),
         map |-> [n \in Remembered(table.map, gone) |-> place(table.map[n])]]

(* The variable of the trimmed name takes the request's values and its
   name; where there is none, one is added under the name as it was sent. *)
Upsert(table, v) ==
    LET trimmed == TrimSpace(v.name)
        end == Len(table.list) + 1
    IN  IF trimmed \in DOMAIN table.map
        THEN [table EXCEPT !.list[table.map[trimmed]] = v]
        ELSE [list |-> Append(table.list, v),
              map |-> [n \in DOMAIN table.map \cup {v.name} |->
                          IF n = v.name THEN end ELSE table.map[n]]]

UpsertAll(table, vs) == FoldLeft(Upsert, table, vs)

(* UpdateDevice on the manager's copy of the device. *)
UpdateModBusDevice(table, vs) == UpsertAll(Kept(DeepCopy(table), vs), vs)
UpdateS7Device(table, vs) == UpsertAll(Kept(DeepCopy(table), vs), vs)
UpdateOpcUaDevice(table, vs) == UpsertAll(Kept(DeepCopy(table), vs), vs)

Unambiguous(vs) == \A i, j \in DOMAIN vs : vs[i].name = vs[j].name => i = j

(* A table without two variables of one name whose map leads from every
   name to the variable that bears it. *)
Faithful(table) ==
    /\ Unambiguous(table.list)
    /\ DOMAIN table.map = Names(table.list)
    /\ \A n \in DOMAIN table.map : table.list[table.map[n]].name = n
==============================================================================
