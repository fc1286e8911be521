----------------------------- MODULE ExchangeProofs -----------------------------
(***************************************************************************)
(* Proofs about Exchange: its types, that the manager's table is what the  *)
(* last request asked for, that no answer leaves anything behind on its    *)
(* connection, that a poll answers for every variable once, that what it   *)
(* reports is what the device held, and that an accepted write is done.    *)
(* What the operators of VariableTable compute is said in                  *)
(* VariableTableProofs.                                                    *)
(***************************************************************************)
EXTENDS Exchange, VariableTableProofs

-----------------------------------------------------------------------------
(* The types. *)

(* TypeOK, and what keeps it: a frame has an id to count on. *)
Framed == \A i \in DOMAIN frames : "id" \in DOMAIN frames[i]

TInv == TypeOK /\ Framed

Kinds == {"none", "error", "dropped", "values"}

LEMMA Ids ==
    ASSUME NEW id \in 0..(IdMod - 1)
    PROVE  NextId(id) \in 0..(IdMod - 1)
<1>1. IdMod \in Nat \ {0}
  BY ExchangeAssumption
<1>2. CASE setup.proto = "tcp"
  <2>1. (id + 1) % IdMod \in 0..(IdMod - 1)
    BY <1>1
  <2>2. NextId(id) = (id + 1) % IdMod
    BY <1>2 DEF NextId
  <2>3. QED BY <2>1, <2>2
<1>3. CASE setup.proto # "tcp"
  <2>1. NextId(id) = id
    BY <1>3 DEF NextId
  <2>2. QED BY <2>1
<1>4. QED BY <1>2, <1>3

LEMMA KindOfResults ==
    /\ NoResult.kind = "none" /\ Error.kind = "error"
    /\ \A c : Dropped(c).kind = "dropped"
    /\ \A plan, v, c : Values(plan, v, c).kind = "values"
BY DEF NoResult, Error, Dropped, Values

(* A frame reports, or has another round. *)
LEMMA Reporting ==
    ASSUME TInv, NEW i \in DOMAIN frames, NEW r, Reported(i, r), r.kind \in Kinds
    PROVE  /\ DOMAIN stage' = DOMAIN frames /\ DOMAIN result' = DOMAIN frames
           /\ \A j \in DOMAIN frames : /\ stage'[j] \in {"done", "waiting"}
                                       /\ result'[j].kind \in Kinds
           /\ turn' = Nobody /\ tries' \in 0..2
<1>1. /\ result' = [result EXCEPT ![i] = r] /\ stage' = [stage EXCEPT ![i] = "done"]
      /\ turn' = Nobody /\ tries' = 0
  BY DEF Reported
<1>2. DOMAIN stage = DOMAIN frames /\ DOMAIN result = DOMAIN frames
  BY DEF TInv, TypeOK
<1>3. \A j \in DOMAIN frames : stage[j] \in {"done", "waiting"} /\ result[j].kind \in Kinds
  BY DEF TInv, TypeOK, Kinds
<1>4. QED BY <1>1, <1>2, <1>3

LEMMA Trying ==
    ASSUME TInv, NEW i \in DOMAIN frames, turn = i, TriedInVain(i)
    PROVE  /\ DOMAIN stage' = DOMAIN frames /\ DOMAIN result' = DOMAIN frames
           /\ \A j \in DOMAIN frames : /\ stage'[j] \in {"done", "waiting"}
                                       /\ result'[j].kind \in Kinds
           /\ turn' \in {Nobody, i} /\ tries' \in 0..2
<1>1. CASE tries = 2
  <2>1. Reported(i, Error) /\ Error.kind \in Kinds
    BY <1>1, KindOfResults DEF TriedInVain, Kinds
  <2>2. QED BY <2>1, Reporting
<1>2. CASE tries # 2
  <2>1. tries \in 0..2
    BY DEF TInv, TypeOK
  <2>2. tries' = tries + 1 /\ UNCHANGED <<result, stage, turn>>
    BY <1>2 DEF TriedInVain
  <2>3. tries' \in 0..2
    BY <1>2, <2>1, <2>2
  <2>4. QED BY <2>2, <2>3 DEF TInv, TypeOK, Kinds
<1>3. QED BY <1>1, <1>2

(* The id of the frame goes on, whatever happens to its buffer. *)
LEMMA CountsOn ==
    ASSUME TInv, NEW i \in DOMAIN frames,
           DOMAIN frames' = DOMAIN frames,
           \A j \in DOMAIN frames : j # i => frames'[j] = frames[j],
           "id" \in DOMAIN frames'[i], frames'[i].id = NextId(frames[i].id)
    PROVE  Framed' /\ \A j \in DOMAIN frames : frames'[j].id \in 0..(IdMod - 1)
<1>1. \A j \in DOMAIN frames : frames[j].id \in 0..(IdMod - 1) /\ "id" \in DOMAIN frames[j]
  BY DEF TInv, TypeOK, Framed
<1>2. NextId(frames[i].id) \in 0..(IdMod - 1)
  BY <1>1, Ids
<1>3. QED BY <1>1, <1>2 DEF Framed

LEMMA TypeInit == Init => TInv
<1> SUFFICES ASSUME Init PROVE TInv
  OBVIOUS
<1>1. IdMod \in Nat \ {0}
  BY ExchangeAssumption
<1>2. PICK plans \in Plans(table) :
        /\ frames = NewFrames(plans)
        /\ stage = [i \in DOMAIN plans |-> "done"]
        /\ result = [i \in DOMAIN plans |-> NoResult]
  BY DEF Init
<1>3. DOMAIN frames = DOMAIN plans /\ \A i \in DOMAIN plans : frames[i].id = 0
      /\ "id" \in DOMAIN frames[i]
  BY <1>2 DEF NewFrames
<1>4. 0 \in 0..(IdMod - 1)
  BY <1>1
<1>5. /\ setup \in Setups /\ turn = Nobody /\ tries = 0
      /\ up = TRUE /\ dirty = FALSE /\ blanks \in BOOLEAN
  BY DEF Init, Blanky
<1>6. Framed
  BY <1>3 DEF Framed
<1>7. DOMAIN stage = DOMAIN frames /\ DOMAIN result = DOMAIN frames
      /\ \A i \in DOMAIN frames : stage[i] = "done" /\ result[i].kind = "none"
  BY <1>2, <1>3, KindOfResults
<1>8. {up, dirty, blanks} \subseteq BOOLEAN
  BY <1>5
<1>9. \A i \in DOMAIN frames : frames[i].id \in 0..(IdMod - 1)
  BY <1>3, <1>4
<1>10. TypeOK
  BY <1>5, <1>7, <1>8, <1>9 DEF TypeOK
<1>11. QED BY <1>6, <1>10 DEF TInv

LEMMA TypeStep == TInv /\ [Next]_vars => TInv'
<1> SUFFICES ASSUME TInv, [Next]_vars PROVE TInv'
  OBVIOUS
<1> DEFINE F == DOMAIN frames
<1>1. /\ setup \in Setups
      /\ DOMAIN stage = F /\ DOMAIN result = F
      /\ \A j \in F : /\ frames[j].id \in 0..(IdMod - 1)
                      /\ stage[j] \in {"done", "waiting"}
                      /\ result[j].kind \in Kinds
      /\ turn \in {Nobody, Command} \cup F
      /\ tries \in 0..2
      /\ {up, dirty, blanks} \subseteq BOOLEAN
      /\ Framed
  BY DEF TInv, TypeOK, Kinds
<1>2. CASE StartPoll
  BY <1>1, <1>2, KindOfResults DEF StartPoll, TInv, TypeOK, Framed, Kinds
<1>3. ASSUME NEW i \in F, TakeTurn(i) PROVE TInv'
  BY <1>1, <1>3 DEF TakeTurn, TInv, TypeOK, Framed, Kinds
<1>4. ASSUME NEW i \in F, Answered(i) PROVE TInv'
  <2>1. PICK r \in Reads(Arrived(i), Capacity(frames[i].plan)) :
          /\ frames' = [frames EXCEPT ![i].id = NextId(@),
                            ![i].buffer = IF S7 THEN @ ELSE Filled(@, r.cells)]
          /\ dirty' = (dirty \/ r.short)
          /\ Understood(i, r.cells, ~dirty')
    BY <1>4 DEF Answered
  <2>2. Framed' /\ DOMAIN frames' = F
        /\ \A j \in F : frames'[j].id \in 0..(IdMod - 1)
    <3>1. DOMAIN frames' = F /\ \A j \in F : j # i => frames'[j] = frames[j]
      BY <2>1
    <3>2. "id" \in DOMAIN frames'[i] /\ frames'[i].id = NextId(frames[i].id)
      BY <1>1, <2>1 DEF Framed
    <3>3. QED BY <3>1, <3>2, CountsOn
  <2>3. turn = i
    BY <1>4 DEF Answered
  <2>4. /\ DOMAIN stage' = F /\ DOMAIN result' = F
        /\ \A j \in F : /\ stage'[j] \in {"done", "waiting"}
                        /\ result'[j].kind \in Kinds
        /\ turn' \in {Nobody, i} /\ tries' \in 0..2
    <3>1. CASE TriedInVain(i)
      BY <2>3, <3>1, Trying
    <3>2. CASE Reported(i, Dropped(~dirty'))
      <4>1. Dropped(~dirty').kind \in Kinds
        BY KindOfResults DEF Kinds
      <4>2. QED BY <3>2, <4>1, Reporting
    <3>3. CASE \E v : Reported(i, Values(frames[i].plan, v, ~dirty'))
      <4>1. PICK v : Reported(i, Values(frames[i].plan, v, ~dirty'))
        BY <3>3
      <4>2. Values(frames[i].plan, v, ~dirty').kind \in Kinds
        BY KindOfResults DEF Kinds
      <4>3. QED BY <4>1, <4>2, Reporting
    <3>4. QED BY <2>1, <3>1, <3>2, <3>3 DEF Understood
  <2>5. UNCHANGED <<setup, blanks, up>> /\ dirty' \in BOOLEAN
    BY <1>4, <2>1 DEF Answered
  <2>6. QED BY <1>1, <2>2, <2>4, <2>5 DEF TInv, TypeOK, Kinds
<1>5. ASSUME NEW i \in F, Unanswered(i) PROVE TInv'
  <2>1. /\ turn = i /\ dirty' = FALSE /\ up' \in BOOLEAN
        /\ frames' = [frames EXCEPT ![i].id = NextId(@)]
        /\ UNCHANGED <<setup, blanks>>
    BY <1>5 DEF Unanswered
  <2>2. Framed' /\ DOMAIN frames' = F
        /\ \A j \in F : frames'[j].id \in 0..(IdMod - 1)
    <3>1. DOMAIN frames' = F /\ \A j \in F : j # i => frames'[j] = frames[j]
      BY <2>1
    <3>2. "id" \in DOMAIN frames'[i] /\ frames'[i].id = NextId(frames[i].id)
      BY <1>1, <2>1 DEF Framed
    <3>3. QED BY <3>1, <3>2, CountsOn
  <2>3. \/ UNCHANGED <<result, stage, turn, tries>>
        \/ TriedInVain(i)
        \/ Reported(i, Error)
    BY <1>5 DEF Unanswered
  <2>4. /\ DOMAIN stage' = F /\ DOMAIN result' = F
        /\ \A j \in F : /\ stage'[j] \in {"done", "waiting"}
                        /\ result'[j].kind \in Kinds
        /\ turn' \in {Nobody, i} /\ tries' \in 0..2
    <3>1. CASE UNCHANGED <<result, stage, turn, tries>>
      BY <1>1, <2>1, <3>1
    <3>2. CASE TriedInVain(i)
      BY <2>1, <3>2, Trying
    <3>3. CASE Reported(i, Error)
      <4>1. Error.kind \in Kinds
        BY KindOfResults DEF Kinds
      <4>2. QED BY <3>3, <4>1, Reporting
    <3>4. QED BY <2>3, <3>1, <3>2, <3>3
  <2>5. QED BY <1>1, <2>1, <2>2, <2>4 DEF TInv, TypeOK, Kinds
<1>6. ASSUME NEW i \in F, Overrun(i) PROVE TInv'
  <2>1. /\ Reported(i, Dropped(~dirty))
        /\ frames' = [frames EXCEPT ![i].id = NextId(@)]
        /\ UNCHANGED <<setup, blanks, up, dirty>>
    BY <1>6 DEF Overrun
  <2>2. Framed' /\ DOMAIN frames' = F
        /\ \A j \in F : frames'[j].id \in 0..(IdMod - 1)
    <3>1. DOMAIN frames' = F /\ \A j \in F : j # i => frames'[j] = frames[j]
      BY <2>1
    <3>2. "id" \in DOMAIN frames'[i] /\ frames'[i].id = NextId(frames[i].id)
      BY <1>1, <2>1 DEF Framed
    <3>3. QED BY <3>1, <3>2, CountsOn
  <2>3. Dropped(~dirty).kind \in Kinds
    BY KindOfResults DEF Kinds
  <2>4. /\ DOMAIN stage' = F /\ DOMAIN result' = F
        /\ \A j \in F : /\ stage'[j] \in {"done", "waiting"}
                        /\ result'[j].kind \in Kinds
        /\ turn' = Nobody /\ tries' \in 0..2
    BY <2>1, <2>3, Reporting
  <2>5. QED BY <1>1, <2>1, <2>2, <2>4 DEF TInv, TypeOK, Kinds
<1>7. ASSUME UNCHANGED <<setup, blanks, frames, stage, result, tries>>,
             up' \in BOOLEAN, dirty' \in BOOLEAN, turn' \in {turn, Nobody, Command}
      PROVE  TInv'
  BY <1>1, <1>7 DEF TInv, TypeOK, Framed, Kinds
<1>8. CASE BeginCommand \/ CommandPanics
  <2>1. /\ UNCHANGED <<setup, blanks, frames, stage, result, tries, up, dirty>>
        /\ turn' \in {turn, Command}
    BY <1>8 DEF BeginCommand, CommandPanics, Begin
  <2>2. QED BY <1>1, <1>7, <2>1
<1>9. CASE CommandAnswered \/ CommandLate \/ CommandUnread \/ CommandBroken
           \/ CommandOverrun
  <2>1. /\ UNCHANGED <<setup, blanks, frames, stage, result, tries>>
        /\ turn' \in {Nobody, Command}
    BY <1>9 DEF CommandAnswered, CommandLate, CommandUnread, CommandBroken,
                CommandOverrun, ThenNext
  <2>2. up' \in BOOLEAN
    BY <1>1, <1>9 DEF CommandAnswered, CommandLate, CommandUnread, CommandBroken,
                CommandOverrun
  <2>3. dirty' \in BOOLEAN
    BY <1>1, <1>9 DEF CommandAnswered, CommandLate, CommandUnread, CommandBroken,
                CommandOverrun
  <2>4. QED BY <1>7, <2>1, <2>2, <2>3
<1>10. CASE UpdateDevice
  <2>1. UNCHANGED <<setup, frames, stage, result, tries, up, dirty, turn>>
        /\ blanks' \in BOOLEAN
    BY <1>10 DEF UpdateDevice
  <2>2. QED BY <1>1, <2>1 DEF TInv, TypeOK, Framed, Kinds
<1>11. CASE Recollect
  <2>1. /\ Collecting(stored) /\ turn = Nobody
        /\ UNCHANGED <<setup, blanks, turn, tries>>
    BY <1>11 DEF Recollect, Ended
  <2>2. /\ up' = TRUE /\ dirty' = FALSE
        /\ \E plans \in Plans(stored) :
              /\ frames' = NewFrames(plans)
              /\ stage' = [i \in DOMAIN plans |-> "done"]
              /\ result' = [i \in DOMAIN plans |-> NoResult]
    BY <2>1 DEF Collecting
  <2>3. PICK plans \in Plans(stored) :
          /\ frames' = NewFrames(plans)
          /\ stage' = [i \in DOMAIN plans |-> "done"]
          /\ result' = [i \in DOMAIN plans |-> NoResult]
    BY <2>2
  <2>4. DOMAIN frames' = DOMAIN plans
        /\ \A i \in DOMAIN plans : frames'[i].id = 0 /\ "id" \in DOMAIN frames'[i]
    BY <2>3 DEF NewFrames
  <2>5. 0 \in 0..(IdMod - 1)
    BY ExchangeAssumption
  <2>6. Framed'
    BY <2>4 DEF Framed
  <2>7. DOMAIN stage' = DOMAIN frames' /\ DOMAIN result' = DOMAIN frames'
        /\ \A i \in DOMAIN frames' : stage'[i] = "done" /\ result'[i].kind = "none"
    BY <2>3, <2>4, KindOfResults
  <2>8. {up', dirty', blanks'} \subseteq BOOLEAN /\ turn' = Nobody /\ tries' \in 0..2
        /\ setup' \in Setups
    BY <1>1, <2>1, <2>2
  <2>9. QED BY <2>4, <2>5, <2>6, <2>7, <2>8 DEF TInv, TypeOK
<1>12. CASE Drift
  BY <1>1, <1>12 DEF Drift, TInv, TypeOK, Framed, Kinds
<1>13. CASE UNCHANGED vars
  BY <1>1, <1>13 DEF vars, TInv, TypeOK, Framed, Kinds
<1>14. QED
  BY <1>2, <1>3, <1>4, <1>5, <1>6, <1>8, <1>9, <1>10, <1>11, <1>12, <1>13 DEF Next

(* Over one connection of a Modbus or S7 device, however many frames take
   turns on it: ids keep within their width, a turn is one somebody has,
   and each frame has one result and at most three rounds of retry(). *)
THEOREM ExchangeTypeOK == Spec => []TypeOK
<1>1. TInv => TypeOK
  BY DEF TInv
<1>2. QED BY TypeInit, TypeStep, <1>1, PTL DEF Spec
-----------------------------------------------------------------------------
(* The manager's table. *)

Unmistakable == /\ ~blanks
                /\ Unambiguous(setup.variables) /\ Unambiguous(setup.update)

Requested == IF spent.updates = 0 THEN setup.variables ELSE setup.update

Requestable == ToSet(setup.variables) \cup ToSet(setup.update)

(* An update starts from a faithful table, and how many there were tells
   which request was the last. *)
TableInv ==
    /\ setup \in Setups
    /\ "updates" \in DOMAIN spent /\ spent.updates \in Nat
    /\ Unmistakable =>
          /\ stored \in Tables(Requestable)
          /\ Faithful(stored)
          /\ ToSet(stored.list) = ToSet(Requested)

LEMMA RequestsAreLists ==
    ASSUME setup \in Setups
    PROVE  /\ setup.variables \in Seq(Requestable)
           /\ setup.update \in Seq(Requestable)
<1>1. /\ setup.variables \in Seq(ToSet(setup.variables))
      /\ setup.update \in Seq(ToSet(setup.update))
  BY ExchangeAssumption DEF Device, Listed
<1>2. /\ ToSet(setup.variables) \subseteq Requestable
      /\ ToSet(setup.update) \subseteq Requestable
  BY DEF Requestable
<1>3. QED BY <1>1, <1>2, InAList

LEMMA TableInit == Init => TableInv
<1> SUFFICES ASSUME Init PROVE TableInv
  OBVIOUS
<1>1. /\ setup \in Setups /\ spent.updates = 0 /\ "updates" \in DOMAIN spent
      /\ stored = Created(setup.variables)
  BY DEF Init
<1>2. stored = [list |-> setup.variables, map |-> Indexed(setup.variables)]
  BY <1>1 DEF Created, CreateS7Device, CreateModBusDevice
<1>3. setup.variables \in Seq(Requestable)
  BY <1>1, RequestsAreLists
<1>4. ASSUME Unmistakable
      PROVE  stored \in Tables(Requestable) /\ Faithful(stored)
  BY <1>2, <1>3, <1>4, CreatedFit DEF Unmistakable
<1>5. ToSet(stored.list) = ToSet(Requested)
  BY <1>1, <1>2 DEF Requested
<1>6. QED BY <1>1, <1>4, <1>5 DEF TableInv

LEMMA TableStep == TableInv /\ [Next]_vars => TableInv'
<1> SUFFICES ASSUME TableInv, [Next]_vars PROVE TableInv'
  OBVIOUS
<1>1. /\ setup \in Setups /\ "updates" \in DOMAIN spent /\ spent.updates \in Nat
      /\ Unmistakable => /\ stored \in Tables(Requestable)
                         /\ Faithful(stored)
                         /\ ToSet(stored.list) = ToSet(Requested)
  BY DEF TableInv
<1>2. ASSUME UNCHANGED <<setup, stored, blanks>>,
             "updates" \in DOMAIN spent', spent'.updates = spent.updates
      PROVE  TableInv'
  BY <1>1, <1>2 DEF TableInv, Unmistakable, Requested, Requestable
<1>3. ASSUME \/ UNCHANGED spent \/ \E n : Faults(n)
             \/ spent' = [spent EXCEPT !.polls = @ + 1]
             \/ spent' = [spent EXCEPT !.commands = @ + 1]
             \/ spent' = [spent EXCEPT !.drifts = @ + 1]
      PROVE  "updates" \in DOMAIN spent' /\ spent'.updates = spent.updates
  BY <1>1, <1>3 DEF Faults
<1>4. CASE UpdateDevice
  <2>1. /\ setup' = setup
        /\ blanks' = (blanks \/ Blanky(setup.update))
        /\ spent' = [spent EXCEPT !.updates = @ + 1]
        /\ stored' = UpsertAll(Kept(DeepCopy(stored), setup.update), setup.update)
    BY <1>4 DEF UpdateDevice, Updated, UpdateS7Device, UpdateModBusDevice
  <2>2. "updates" \in DOMAIN spent' /\ spent'.updates \in Nat /\ spent'.updates # 0
    BY <1>1, <2>1
  <2>3. ASSUME Unmistakable'
        PROVE  /\ stored' \in Tables(Requestable)
               /\ Faithful(stored')
               /\ ToSet(stored'.list) = ToSet(setup.update)
    <3>1. Unmistakable /\ Unambiguous(setup.update) /\ ~Blanky(setup.update)
      BY <2>1, <2>3 DEF Unmistakable
    <3>2. setup.update \in Seq(Requestable)
      BY <1>1, RequestsAreLists
    <3>3. ASSUME NEW i \in DOMAIN setup.update
          PROVE  TrimSpace(setup.update[i].name) = setup.update[i].name
      <4> DEFINE name == setup.update[i].name
      <4>1. name \in {Name(name.text), Blank(name.text)}
        BY <1>1, ExchangeAssumption DEF Device, Listed, ToSet
      <4>2. ~name.blank
        BY <3>1 DEF Blanky
      <4>3. name = Name(name.text)
        BY <4>1, <4>2 DEF Blank
      <4> HIDE DEF name
      <4>4. TrimSpace(name) = name
        BY <4>3 DEF TrimSpace, Name
      <4>5. QED BY <4>4 DEF name
    <3>4. QED BY <1>1, <2>1, <3>1, <3>2, <3>3, UpdateIs
  <2>4. QED BY <1>1, <2>1, <2>2, <2>3 DEF TableInv, Requested, Requestable
<1>5. CASE StartPoll \/ Drift
  BY <1>2, <1>3, <1>5 DEF StartPoll, Drift
<1>6. ASSUME NEW i \in DOMAIN frames,
             TakeTurn(i) \/ Answered(i) \/ Unanswered(i) \/ Overrun(i)
      PROVE  TableInv'
  BY <1>2, <1>3, <1>6 DEF TakeTurn, Answered, Unanswered, Overrun
<1>7. CASE BeginCommand \/ CommandPanics
  BY <1>2, <1>3, <1>7 DEF BeginCommand, CommandPanics, Begin
<1>8. CASE CommandAnswered \/ CommandLate \/ CommandUnread \/ CommandBroken
           \/ CommandOverrun
  BY <1>2, <1>3, <1>8 DEF CommandAnswered, CommandLate, CommandUnread,
                          CommandBroken, CommandOverrun
<1>9. CASE Recollect
  BY <1>2, <1>3, <1>9 DEF Recollect
<1>10. CASE UNCHANGED vars
  BY <1>2, <1>3, <1>10 DEF vars
<1>11. QED BY <1>4, <1>5, <1>6, <1>7, <1>8, <1>9, <1>10 DEF Next

(* The manager's table is the last request's (UpdateDevice of
   pkg/protocol/modbus and s7): nothing of the old device is left, nothing
   is there twice, and every name leads to its variable, whatever polls,
   commands and faults come between. *)
THEOREM ExchangeStoredIsRequested == Spec => []StoredIsRequested
<1>1. TableInv => StoredIsRequested
  BY DEF TableInv, StoredIsRequested, Unmistakable, Requested
<1>2. QED BY TableInit, TableStep, <1>1, PTL DEF Spec

-----------------------------------------------------------------------------
(* Counting what is on the connection. *)

CellKinds == {"head", "byte", "crc"}

Cells(s) == IsList(s) /\ \A k \in DOMAIN s : s[k].kind \in CellKinds

LEMMA HeadBytesIs ==
    ASSUME setup \in Setups
    PROVE  HeadBytes \in Nat \ {0}
<1>1. setup.proto \in {"tcp", "rtu", "rtuovertcp", "s7"}
  BY ExchangeAssumption DEF Device
<1>2. QED BY <1>1 DEF HeadBytes, HasCrc, S7

LEMMA NumberIs ==
    ASSUME NEW s, IsList(s), NEW kind
    PROVE  /\ IsFiniteSet({k \in DOMAIN s : s[k].kind = kind})
           /\ Number(s, kind) \in Nat
<1> DEFINE n == Len(s)
<1>1. n \in Nat /\ DOMAIN s = 1..n
  BY DEF IsList
<1>2. IsFiniteSet(1..n)
  <2> HIDE DEF n
  <2>1. QED BY <1>1, FS_Interval
<1>3. {k \in DOMAIN s : s[k].kind = kind} \subseteq 1..n
  BY <1>1
<1>4. IsFiniteSet({k \in DOMAIN s : s[k].kind = kind})
  BY <1>2, <1>3, FS_Subset
<1>5. QED BY <1>4, FS_CardinalityType DEF Number

(* The first cells of an answer are fewer bytes than the whole. *)
LEMMA BytesGrow ==
    ASSUME setup \in Setups, NEW s, Cells(s), NEW k \in 1..Len(s)
    PROVE  LET p == SubSeq(s, 1, k)
           IN  /\ Bytes(p) \in Nat /\ Bytes(s) \in Nat
               /\ Bytes(p) <= Bytes(s)
               /\ k < Len(s) => Bytes(p) < Bytes(s)
<1> DEFINE p == SubSeq(s, 1, k)
           At(u, kind) == {j \in DOMAIN u : u[j].kind = kind}
<1>1. Len(s) \in Nat /\ DOMAIN s = 1..Len(s) /\ s = [j \in 1..Len(s) |-> s[j]]
  BY DEF Cells, IsList
<1>2. DOMAIN p = 1..k /\ Len(p) = k /\ (\A j \in 1..k : p[j] = s[j]) /\ IsList(p)
  <2>1. s \in Seq({s[j] : j \in 1..Len(s)})
    BY <1>1, ListOf
  <2>2. p \in Seq({s[j] : j \in 1..Len(s)}) /\ Len(p) = k /\ \A j \in 1..k : p[j] = s[j]
    BY <2>1
  <2>3. QED BY <2>2 DEF IsList
<1> HIDE DEF p
<1>3. ASSUME NEW kind
      PROVE  /\ IsFiniteSet(At(s, kind)) /\ Cardinality(At(s, kind)) \in Nat
             /\ Cardinality(At(p, kind)) \in Nat
             /\ Cardinality(At(p, kind)) <= Cardinality(At(s, kind))
             /\ Cardinality(At(p, kind)) = Cardinality(At(s, kind)) => At(p, kind) = At(s, kind)
  <2>1. IsFiniteSet(At(s, kind)) /\ Cardinality(At(s, kind)) \in Nat
        /\ Cardinality(At(p, kind)) \in Nat
    BY <1>2, NumberIs DEF Number, Cells
  <2>2. At(p, kind) \subseteq At(s, kind)
    BY <1>1, <1>2
  <2> HIDE DEF At
  <2>3. QED BY <2>1, <2>2, FS_Subset
<1>4. k < Len(s) => \E kind \in CellKinds : Len(s) \in At(s, kind) /\ Len(s) \notin At(p, kind)
  BY <1>1, <1>2 DEF Cells
<1>5. ASSUME NEW u
      PROVE  Bytes(u) = HeadBytes * Cardinality(At(u, "head")) + Cardinality(At(u, "byte"))
                          + 2 * Cardinality(At(u, "crc"))
  BY DEF Bytes, Number
<1>6. HeadBytes \in Nat \ {0}
  BY HeadBytesIs
<1> DEFINE a(kind) == Cardinality(At(p, kind))
           b(kind) == Cardinality(At(s, kind))
<1>7. \A kind : a(kind) \in Nat /\ b(kind) \in Nat /\ a(kind) <= b(kind)
  BY <1>3
<1>8. k < Len(s) => \E kind \in CellKinds : a(kind) # b(kind)
  BY <1>3, <1>4
<1>9. /\ Bytes(p) = HeadBytes * a("head") + a("byte") + 2 * a("crc")
      /\ Bytes(s) = HeadBytes * b("head") + b("byte") + 2 * b("crc")
  BY <1>5
<1> HIDE DEF a, b, At
<1>10. ASSUME NEW h \in Nat \ {0}, NEW x \in Nat, NEW y \in Nat, x <= y
       PROVE  /\ h * x \in Nat /\ h * y \in Nat /\ h * x <= h * y
              /\ x # y => h * x < h * y
  <2>1. PICK z \in Nat : y = x + z
    <3>1. y - x \in Nat /\ y = x + (y - x)
      BY <1>10
    <3>2. QED BY <3>1
  <2>2. h * y = h * x + h * z /\ h * z \in Nat /\ (z # 0 => h * z > 0)
    BY <2>1
  <2>3. QED BY <2>1, <2>2
<1>11. /\ HeadBytes * a("head") \in Nat /\ HeadBytes * b("head") \in Nat
       /\ HeadBytes * a("head") <= HeadBytes * b("head")
       /\ a("head") # b("head") => HeadBytes * a("head") < HeadBytes * b("head")
  BY <1>6, <1>7, <1>10
<1> DEFINE ha == HeadBytes * a("head")
           hb == HeadBytes * b("head")
<1>12. /\ ha \in Nat /\ hb \in Nat /\ ha <= hb
       /\ a("head") # b("head") => ha < hb
       /\ Bytes(p) = ha + a("byte") + 2 * a("crc")
       /\ Bytes(s) = hb + b("byte") + 2 * b("crc")
  BY <1>9, <1>11
<1>13. /\ a("byte") \in Nat /\ b("byte") \in Nat /\ a("byte") <= b("byte")
       /\ a("crc") \in Nat /\ b("crc") \in Nat /\ a("crc") <= b("crc")
  BY <1>7
<1> HIDE DEF ha, hb
<1>14. /\ Bytes(p) \in Nat /\ Bytes(s) \in Nat
       /\ Bytes(p) <= Bytes(s)
  BY <1>12, <1>13
<1>15. k < Len(s) => Bytes(p) < Bytes(s)
  <2> SUFFICES ASSUME k < Len(s) PROVE Bytes(p) < Bytes(s)
    OBVIOUS
  <2>1. a("head") # b("head") \/ a("byte") # b("byte") \/ a("crc") # b("crc")
    BY <1>8 DEF CellKinds
  <2>2. QED BY <1>12, <1>13, <2>1
<1>16. QED BY <1>14, <1>15 DEF p

(* What is read of an answer that fits its buffer, if it is not cut short,
   is all of it. *)
LEMMA ReadsAll ==
    ASSUME setup \in Setups, NEW s, Cells(s), NEW capacity \in Nat, Bytes(s) <= capacity,
           NEW r \in Reads(s, capacity), ~r.short
    PROVE  r.rest = << >> /\ r.cells = s
<1> DEFINE first(k) == SubSeq(s, 1, k)
           fits == {k \in 1..Len(s) : Bytes(first(k)) \in Least..capacity}
           due == IF Serial THEN {k \in fits : Bytes(first(k)) = capacity} ELSE fits
<1>1. PICK k \in due : r = [cells |-> first(k), rest |-> SubSeq(s, k + 1, Len(s)),
                            short |-> k # LastPlace(due)]
  BY DEF Reads
<1>2. Len(s) \in Nat /\ k \in 1..Len(s) /\ k = LastPlace(due)
  BY <1>1 DEF Cells, IsList
<1>3. first(Len(s)) = s
  <2>1. s \in Seq({s[j] : j \in 1..Len(s)})
    BY ListOf DEF Cells, IsList
  <2>2. QED BY <1>2, <2>1
<1>4. Least \in Nat
  BY DEF Least
<1>5. /\ Bytes(first(k)) \in Nat /\ Bytes(s) \in Nat
      /\ Bytes(first(k)) <= Bytes(s)
      /\ k < Len(s) => Bytes(first(k)) < Bytes(s)
  BY <1>2, BytesGrow
<1>6. k = Len(s)
  <2>1. CASE Serial
    <3>1. Bytes(first(k)) = capacity
      BY <1>1, <2>1
    <3>2. QED BY <1>2, <1>5, <3>1
  <2>2. CASE ~Serial
    <3>1. Bytes(first(k)) \in Least..capacity
      BY <1>1, <2>2
    <3>2. Bytes(s) \in Least..capacity /\ Len(s) \in 1..Len(s)
      BY <1>2, <1>4, <1>5, <3>1
    <3>3. Bytes(first(Len(s))) = Bytes(s)
      BY <1>3
    <3>4. Len(s) \in due
      BY <2>2, <3>2, <3>3
    <3>5. \A x \in due : x \in Nat /\ x <= Len(s)
      BY <1>2
    <3> HIDE DEF due
    <3>6. \E x \in due : \A y \in due : y <= x
      BY <3>4, <3>5
    <3>7. LastPlace(due) \in due /\ \A y \in due : y <= LastPlace(due)
      BY <3>6 DEF LastPlace
    <3>8. QED BY <1>2, <3>4, <3>5, <3>7
  <2>3. QED BY <2>1, <2>2
<1>7. SubSeq(s, k + 1, Len(s)) = << >>
  <2>1. s \in Seq({s[j] : j \in 1..Len(s)})
    BY ListOf DEF Cells, IsList
  <2>2. Len(s) + 1 > Len(s)
    BY <1>2
  <2>3. SubSeq(s, Len(s) + 1, Len(s)) = << >>
    BY <1>2, <2>1, <2>2
  <2>4. QED BY <1>6, <2>3
<1>8. QED BY <1>1, <1>3, <1>6, <1>7

LEMMA ReadsSome ==
    ASSUME NEW s, Cells(s), NEW capacity, NEW r \in Reads(s, capacity)
    PROVE  Len(r.cells) \in Nat \ {0} /\ r.cells[1] = s[1]
<1> DEFINE first(k) == SubSeq(s, 1, k)
           fits == {k \in 1..Len(s) : Bytes(first(k)) \in Least..capacity}
           due == IF Serial THEN {k \in fits : Bytes(first(k)) = capacity} ELSE fits
<1>5. PICK k \in due : r = [cells |-> first(k), rest |-> SubSeq(s, k + 1, Len(s)),
                            short |-> k # LastPlace(due)]
  BY DEF Reads
<1>1. k \in 1..Len(s) /\ r.cells = SubSeq(s, 1, k)
  BY <1>5
<1>2. s \in Seq({s[j] : j \in 1..Len(s)}) /\ Len(s) \in Nat
  BY ListOf DEF Cells, IsList
<1>3. Len(SubSeq(s, 1, k)) = k /\ SubSeq(s, 1, k)[1] = s[1]
  BY <1>2
<1>4. QED BY <1>1, <1>2, <1>3

(* A head, n bytes and at most one CRC. *)
LEMMA Shaped ==
    ASSUME setup \in Setups, NEW m, IsList(m), NEW n \in Nat, NEW c \in {0, 1},
           Len(m) = 1 + n + c, m[1].kind = "head",
           \A i \in 2..(n + 1) : m[i].kind = "byte",
           c = 1 => m[n + 2].kind = "crc"
    PROVE  Cells(m) /\ Bytes(m) = HeadBytes + n + 2 * c
<1>1. DOMAIN m = 1..(1 + n + c)
  BY DEF IsList
<1>2. \A i \in 1..(1 + n + c) : i = 1 \/ i \in 2..(n + 1) \/ (i = n + 2 /\ c = 1)
  OBVIOUS
<1>3. Cells(m)
  BY <1>1, <1>2 DEF Cells, CellKinds
<1>4. {i \in DOMAIN m : m[i].kind = "head"} = {1}
  BY <1>1, <1>2
<1>5. {i \in DOMAIN m : m[i].kind = "byte"} = 2..(n + 1)
  BY <1>1, <1>2
<1>6. {i \in DOMAIN m : m[i].kind = "crc"} = IF c = 1 THEN {n + 2} ELSE {}
  BY <1>1, <1>2
<1>7. Number(m, "head") = 1
  BY <1>4, FS_Singleton DEF Number
<1>8. Number(m, "byte") = n
  <2>1. Cardinality(2..(n + 1)) = n
    BY FS_Interval
  <2>2. QED BY <1>5, <2>1 DEF Number
<1>9. Number(m, "crc") = c
  <2>1. CASE c = 1
    BY <1>6, <2>1, FS_Singleton DEF Number
  <2>2. CASE c = 0
    <3>1. {i \in DOMAIN m : m[i].kind = "crc"} = {}
      BY <1>6, <2>2
    <3>2. QED BY <2>2, <3>1, FS_EmptySet DEF Number
  <2>3. QED BY <2>1, <2>2
<1>10. HeadBytes \in Nat
  BY HeadBytesIs
<1>11. QED BY <1>3, <1>7, <1>8, <1>9, <1>10 DEF Bytes

CrcBytes == IF HasCrc(setup.proto) THEN 2 ELSE 0

LEMMA OneCell == \A c : IsList(<<c>>) /\ Len(<<c>>) = 1 /\ <<c>>[1] = c
BY DEF IsList

(* Nothing but data. *)
Bare(b) == \A i \in 1..Len(b) : b[i].kind = "byte"

LEMMA DataCells ==
    ASSUME NEW data, IsList(data)
    PROVE  LET b == [i \in DOMAIN data |-> Cell("byte", data[i])]
           IN  IsList(b) /\ Len(b) = Len(data) /\ Bare(b)
<1> DEFINE n == Len(data)
           b == [i \in 1..n |-> Cell("byte", data[i])]
<1>1. n \in Nat /\ DOMAIN data = 1..n
  BY DEF IsList
<1> HIDE DEF n
<1>2. Len(b) = n /\ b = [i \in 1..n |-> b[i]]
  BY <1>1, ListOf
<1>3. \A i \in 1..n : b[i].kind = "byte"
  BY DEF Cell
<1>4. b = [i \in DOMAIN data |-> Cell("byte", data[i])]
  BY <1>1
<1> HIDE DEF b
<1>5. IsList(b) /\ Len(b) = n /\ Bare(b)
  BY <1>1, <1>2, <1>3 DEF IsList, Bare
<1>6. QED BY <1>4, <1>5 DEF n

(* A head and data behind it. *)
LEMMA HeadedIs ==
    ASSUME NEW a, IsList(a), Len(a) = 1, a[1].kind = "head",
           NEW b, IsList(b), Bare(b)
    PROVE  LET m == Join(a, b)
           IN  /\ IsList(m) /\ Len(m) = 1 + Len(b) /\ m[1].kind = "head" /\ m[1] = a[1]
               /\ \A i \in 2..(Len(b) + 1) : m[i].kind = "byte"
<1> DEFINE m == Join(a, b)
<1>1. /\ IsList(m) /\ Len(m) = 1 + Len(b) /\ m[1] = a[1]
      /\ \A i \in 1..Len(b) : m[1 + i] = b[i]
  <2>1. /\ IsList(m) /\ Len(m) = Len(a) + Len(b)
        /\ \A i \in 1..(Len(a) + Len(b)) : m[i] = IF i <= Len(a) THEN a[i] ELSE b[i - Len(a)]
    BY ListsJoined
  <2> HIDE DEF m
  <2>2. Len(b) \in Nat
    BY DEF IsList
  <2>3. QED BY <2>1, <2>2
<1> HIDE DEF m
<1>2. ASSUME NEW i \in 2..(Len(b) + 1) PROVE m[i].kind = "byte"
  <2>1. i - 1 \in 1..Len(b) /\ 1 + (i - 1) = i
    BY DEF IsList
  <2>2. QED BY <1>1, <2>1 DEF Bare
<1>3. QED BY <1>1, <1>2 DEF m

LEMMA MessageIs ==
    ASSUME setup \in Setups, NEW head, NEW data, IsList(data)
    PROVE  LET m == Message(setup.proto, head, data)
           IN  /\ Cells(m) /\ Bytes(m) = HeadBytes + Len(data) + CrcBytes
               /\ m[1].content = head
<1> DEFINE n == Len(data)
           a == <<Cell("head", head)>>
           b == [i \in DOMAIN data |-> Cell("byte", data[i])]
           h == Join(a, b)
           e == <<Cell("crc", Crc(head, data))>>
<1>1. n \in Nat /\ HeadBytes \in Nat
  BY HeadBytesIs DEF IsList
<1>2. IsList(a) /\ Len(a) = 1 /\ a[1].kind = "head" /\ a[1].content = head
  BY OneCell DEF Cell
<1>3. IsList(b) /\ Len(b) = n /\ Bare(b)
  BY DataCells
<1>4. IsList(e) /\ Len(e) = 1 /\ e[1].kind = "crc"
  BY OneCell DEF Cell
<1> HIDE DEF a, b, e, n
<1>5. /\ IsList(h) /\ Len(h) = 1 + n /\ h[1].content = head
      /\ h[1].kind = "head" /\ \A i \in 2..(n + 1) : h[i].kind = "byte"
  BY <1>2, <1>3, HeadedIs
<1>9. IsList(h) /\ Len(h) = 1 + n
  BY <1>5
<1> HIDE DEF h
<1>6. CASE HasCrc(setup.proto)
  <2> DEFINE m == Join(h, e)
  <2>1. Message(setup.proto, head, data) = m
    BY <1>6 DEF Message, a, b, e, h, Join
  <2>2. /\ IsList(m) /\ Len(m) = 1 + n + 1
        /\ \A i \in 1..(1 + n) : m[i] = h[i]
        /\ m[(1 + n) + 1] = e[1]
    <3>1. /\ IsList(m) /\ Len(m) = Len(h) + Len(e)
          /\ \A i \in 1..(Len(h) + Len(e)) : m[i] = IF i <= Len(h) THEN h[i] ELSE e[i - Len(h)]
      BY <1>4, <1>9, ListsJoined
    <3> HIDE DEF m
    <3>2. QED BY <1>1, <1>4, <1>9, <3>1
  <2> HIDE DEF m
  <2>3. /\ m[1].kind = "head" /\ m[1].content = head /\ m[n + 2].kind = "crc"
        /\ \A i \in 2..(n + 1) : m[i].kind = "byte"
    BY <1>1, <1>4, <1>5, <2>2
  <2>4. Cells(m) /\ Bytes(m) = HeadBytes + n + 2 * 1
    BY <1>1, <2>2, <2>3, Shaped
  <2>5. CrcBytes = 2
    BY <1>6 DEF CrcBytes
  <2>6. QED BY <1>1, <2>1, <2>3, <2>4, <2>5 DEF n
<1>7. CASE ~HasCrc(setup.proto)
  <2>1. Message(setup.proto, head, data) = h
    <3>1. h \in Seq({h[i] : i \in 1..Len(h)})
      BY <1>5, ListOf DEF IsList
    <3>2. h \o << >> = h
      BY <3>1
    <3>3. QED BY <1>7, <3>2 DEF Message, a, b, h, Join
  <2>2. Cells(h) /\ Bytes(h) = HeadBytes + n + 2 * 0
    BY <1>1, <1>5, Shaped
  <2>3. CrcBytes = 0
    BY <1>7 DEF CrcBytes
  <2>4. QED BY <1>1, <1>5, <2>1, <2>2, <2>3 DEF n
<1>8. QED BY <1>6, <1>7

(* An S7 message that says how long its data is. *)
S7Reply(data) == S7Message(Len(data), FALSE, data)

LEMMA S7MessageIs ==
    ASSUME setup \in Setups, NEW data, IsList(data)
    PROVE  LET m == S7Reply(data)
           IN  /\ Cells(m) /\ Bytes(m) = HeadBytes + Len(data)
               /\ Len(m) = 1 + Len(data) /\ m[1].content.length = Len(data)
<1> DEFINE n == Len(data)
           content == [length |-> n, error |-> FALSE]
           a == <<Cell("head", content)>>
           b == [i \in DOMAIN data |-> Cell("byte", data[i])]
           h == Join(a, b)
<1>1. n \in Nat /\ HeadBytes \in Nat
  BY HeadBytesIs DEF IsList
<1>2. IsList(a) /\ Len(a) = 1 /\ a[1].kind = "head" /\ a[1].content = content
  BY OneCell DEF Cell
<1>3. IsList(b) /\ Len(b) = n /\ Bare(b)
  BY DataCells
<1>4. content.length = n
  OBVIOUS
<1> HIDE DEF a, b, n, content
<1>5. /\ IsList(h) /\ Len(h) = 1 + n /\ h[1].kind = "head" /\ h[1] = a[1]
      /\ \A i \in 2..(n + 1) : h[i].kind = "byte"
  BY <1>2, <1>3, HeadedIs
<1> HIDE DEF h
<1>6. S7Reply(data) = h
  BY DEF S7Reply, S7Message, a, b, h, n, content, Join
<1>7. Cells(h) /\ Bytes(h) = HeadBytes + n + 2 * 0
  BY <1>1, <1>5, Shaped
<1>8. h[1].content.length = n
  BY <1>2, <1>4, <1>5
<1>9. QED BY <1>1, <1>5, <1>6, <1>7, <1>8 DEF n

-----------------------------------------------------------------------------
(* What a Modbus device answers fits the buffer its frame reads it into. *)

Binary(s) == \A i \in DOMAIN s : s[i] \in {0, 1}

Memory(m) == /\ \A a \in DOMAIN m : IsList(m[a])
             /\ ~S7 => /\ Areas \subseteq DOMAIN m
                       /\ Binary(m["coils"]) /\ Binary(m["inputs"])

Codes == Coils \cup Registers

FramesOf(E) ==
    [code : Codes, start : Nat, size : Nat, parses : Seq([v : E, at : Nat])]

(* The higher number has the higher quotient. *)
LEMMA Quotients ==
    ASSUME NEW a \in Nat, NEW b \in Nat, a <= b, NEW d \in Nat \ {0}
    PROVE  a \div d \in Nat /\ b \div d \in Nat /\ a \div d <= b \div d
<1> DEFINE p == a \div d
           q == b \div d
<1>1. p \in Nat /\ q \in Nat
  BY Quotient
<1>2. PICK r \in 0..(d - 1) : a = d * p + r
  BY Division
<1>3. PICK t \in 0..(d - 1) : b = d * q + t
  BY Division
<1> HIDE DEF p, q
<1>4. ASSUME p > q PROVE FALSE
  <2>1. PICK x \in Nat : p = q + 1 + x
    <3>1. p - (q + 1) \in Nat /\ p = q + 1 + (p - (q + 1))
      BY <1>1, <1>4
    <3>2. QED BY <3>1
  <2>2. d * p = d * q + d + d * x
    BY <1>1, <2>1
  <2>3. d * x \in Nat /\ d * q \in Nat
    BY <1>1, <2>1
  <2>4. QED BY <1>2, <1>3, <2>2, <2>3
<1>5. p <= q
  BY <1>1, <1>4
<1>6. QED BY <1>1, <1>5 DEF p, q

LEMMA DataBytesAre ==
    ASSUME NEW plan, plan.size \in Nat
    PROVE  DataBytes(plan) \in Nat
<1>1. BitsPerByte \in Nat \ {0}
  BY ModbusAssumption
<1>2. plan.size + BitsPerByte - 1 \in Nat
  BY <1>1
<1>3. (plan.size + BitsPerByte - 1) \div BitsPerByte \in Nat
  BY <1>1, <1>2, Quotient
<1>4. QED BY <1>3 DEF DataBytes

LEMMA ModbusFits ==
    ASSUME setup \in Setups, ~S7, Memory(memory),
           NEW plan, plan.code \in Codes, plan.start \in Nat, plan.size \in Nat, NEW id
    PROVE  LET m == ModbusAnswer(setup.proto, memory, id, ReadRequest(plan))
           IN  /\ Cells(m) /\ Capacity(plan) \in Nat
               /\ Bytes(m) <= Capacity(plan)
               /\ m[1].content.code \in {plan.code, plan.code + 128}
<1> DEFINE request == ReadRequest(plan)
           area == memory[AreaOf(plan.code)]
           k == Unit(plan.code)
           start == plan.start % WireMod
           size == plan.size % WireMod
           cells == SubSeq(area, k * start + 1, k * (start + size))
           data == IF k = 1 THEN ShrinkBool(cells, BitsPerByte) ELSE cells
           head == MessageHead(id, plan.code, Len(data))
           no == MessageHead(id, plan.code + 128, 0)
<1>1. request = [code |-> plan.code, start |-> start, size |-> size]
  BY DEF ReadRequest
<1>2. start \in Nat /\ size \in Nat /\ size <= plan.size
  BY Remainder, ModbusAssumption
<1>3. BitsPerByte \in Nat \ {0}
  BY ModbusAssumption
<1>4. IsList(area)
  <2>1. AreaOf(plan.code) \in Areas
    BY DEF AreaOf, Areas, Codes, Coils, Registers
  <2>2. QED BY <2>1 DEF Memory
<1>5. k = (IF plan.code \in Coils THEN 1 ELSE 2)
  BY DEF Unit
<1>6. CrcBytes \in {0, 2} /\ HeadBytes \in Nat
  BY HeadBytesIs DEF CrcBytes
<1>7. /\ DataBytes(plan) \in Nat
      /\ Capacity(plan) = HeadBytes + DataBytes(plan) + CrcBytes
  <2>1. DataBytes(plan) \in Nat
    BY DataBytesAre
  <2>2. QED BY <2>1, <1>6 DEF Capacity, CrcBytes
<1> HIDE DEF start, size, area, k
<1>8. ASSUME Holds(memory, request)
      PROVE  IsList(data) /\ Len(data) \in Nat /\ Len(data) <= DataBytes(plan)
  <2>1. k * (start + size) <= Len(area)
    BY <1>1, <1>8 DEF Holds, area, k
  <2>2. k * start \in Nat /\ k * size \in Nat /\ k * (start + size) = k * start + k * size
    BY <1>2, <1>5
  <2>3. IsList(cells) /\ Len(cells) = k * size
    <3> DEFINE a == k * start
               n == k * size
    <3>1. a \in Nat /\ n \in Nat /\ a + n <= Len(area) /\ cells = SubSeq(area, a + 1, a + n)
      BY <2>1, <2>2
    <3> HIDE DEF a, n, cells
    <3>2. QED BY <1>4, <3>1, Slice DEF n
  <2> HIDE DEF cells
  <2>4. CASE plan.code \in Coils
    <3> DEFINE n == (size + BitsPerByte - 1) \div BitsPerByte
               room == (plan.size + BitsPerByte - 1) \div BitsPerByte
               f == [b \in 1..n |-> ShrinkBool(cells, BitsPerByte)[b]]
    <3>1. k = 1 /\ Len(cells) = size
      BY <1>2, <1>5, <2>3, <2>4
    <3>2. n \in Nat /\ room \in Nat /\ n <= room
      <4>1. /\ size + BitsPerByte - 1 \in Nat /\ plan.size + BitsPerByte - 1 \in Nat
            /\ size + BitsPerByte - 1 <= plan.size + BitsPerByte - 1
        BY <1>2, <1>3
      <4>2. QED BY <1>3, <4>1, Quotients
    <3> HIDE DEF n, room
    <3>3. ShrinkBool(cells, BitsPerByte) = f
      BY <3>1 DEF ShrinkBool, n
    <3>4. data = f
      BY <3>1, <3>3
    <3> HIDE DEF f
    <3>5. f = [b \in 1..n |-> f[b]]
      BY <3>3 DEF f
    <3>6. Len(f) = n
      BY <3>2, <3>5, ListOf
    <3>7. DataBytes(plan) = room
      BY <2>4 DEF DataBytes, room
    <3>8. QED BY <3>2, <3>4, <3>5, <3>6, <3>7 DEF IsList
  <2>5. CASE plan.code \notin Coils
    <3>1. k = 2 /\ data = cells
      BY <1>5, <2>5
    <3>2. DataBytes(plan) = plan.size * 2
      BY <2>5 DEF DataBytes
    <3>3. QED BY <1>2, <2>3, <3>1, <3>2
  <2>6. QED BY <2>4, <2>5
<1>9. ModbusAnswer(setup.proto, memory, id, request)
        = IF Holds(memory, request) THEN Message(setup.proto, head, data)
                                    ELSE Message(setup.proto, no, << >>)
  <2>1. request.code = plan.code /\ request.start = start /\ request.size = size
    BY <1>1
  <2> HIDE DEF request
  <2>2. QED BY <2>1 DEF ModbusAnswer, area, k
<1>10. head.code = plan.code /\ no.code = plan.code + 128
  BY DEF MessageHead
<1> HIDE DEF data, head, no, request
<1>11. CASE Holds(memory, request)
  <2>1. /\ Cells(Message(setup.proto, head, data))
        /\ Bytes(Message(setup.proto, head, data)) = HeadBytes + Len(data) + CrcBytes
        /\ Message(setup.proto, head, data)[1].content = head
    BY <1>8, <1>11, MessageIs
  <2>2. QED BY <1>6, <1>7, <1>8, <1>9, <1>11, <1>10, <2>1 DEF request
<1>12. CASE ~Holds(memory, request)
  <2>1. IsList(<< >>) /\ Len(<< >>) = 0
    BY DEF IsList
  <2>2. /\ Cells(Message(setup.proto, no, << >>))
        /\ Bytes(Message(setup.proto, no, << >>)) = HeadBytes + Len(<< >>) + CrcBytes
        /\ Message(setup.proto, no, << >>)[1].content = no
    BY <2>1, MessageIs
  <2>3. QED BY <1>6, <1>7, <1>9, <1>12, <1>10, <2>1, <2>2 DEF request
<1>13. QED BY <1>11, <1>12

(* What it answers to a write fits the buffer of the write. *)
ProperWrite(w) == /\ w.code \in {0, 5, 6, 16} /\ Len(w.data) \in Nat
                  /\ w.code = 5 => w.data \in {<<0>>, <<1>>}

LEMMA OrdersAre ==
    ASSUME NEW n \in {2, 4, 8}, NEW layout \in {"ABCD", "BADC", "CDAB", "DCBA"}
    PROVE  DOMAIN OrderOf(layout, n) = 1..n
BY DEF OrderOf, BigEndian, LittleEndian, ByteSwap

LEMMA WritesAreProper ==
    ASSUME NEW v, v.type \in DataTypes,
           NEW layout \in {"ABCD", "BADC", "CDAB", "DCBA"}, NEW value
    PROVE  ProperWrite(WriteOf(v, layout, value))
<1> DEFINE n == 2 * DataTypeWord(v.type)
           order == OrderOf(layout, n)
           number == BytesOf(RawOf(v, value), n)
           data == ToBytes(order, number)
           w == WriteOf(v, layout, value)
<1>1. n \in {2, 4, 8}
  BY DEF DataTypeWord, DataTypes
<1> HIDE DEF n
<1>2. DOMAIN order = 1..n
  BY <1>1, OrdersAre
<1> HIDE DEF order, number
<1>3. data = [i \in 1..n |-> data[i]]
  BY <1>2 DEF ToBytes
<1> HIDE DEF data
<1>4. Len(data) = n
  BY <1>1, <1>3, ListOf
<1>5. CASE v.code \in Coils
  <2> DEFINE bit == IF value > 0 THEN <<1>> ELSE <<0>>
  <2>1. w = [code |-> 5, at |-> v.address % WireMod, data |-> bit]
    BY <1>5 DEF WriteOf, Coils, Registers
  <2>2. bit = <<1>> \/ bit = <<0>>
    OBVIOUS
  <2> HIDE DEF bit, w
  <2>3. Len(bit) = 1
    BY <2>2
  <2>4. QED BY <2>1, <2>2, <2>3 DEF ProperWrite, w
<1>6. CASE v.code \notin Coils /\ v.code \in Registers /\ v.type = "BOOL"
  <2>1. w.code = 0 /\ w.data = << >>
    BY <1>6 DEF WriteOf
  <2>2. QED BY <2>1 DEF ProperWrite
<1>7. CASE v.code \notin Coils /\ ~(v.code \in Registers /\ v.type = "BOOL")
  <2>1. w.code \in {6, 16} /\ w.data = data
    BY <1>7 DEF WriteOf, data, order, number, n
  <2>2. QED BY <1>1, <1>4, <2>1 DEF ProperWrite
<1>8. QED BY <1>5, <1>6, <1>7

LEMMA ModbusWriteFits ==
    ASSUME setup \in Setups, ~S7, ProperWrite(ThisWrite), NEW id
    PROVE  LET m == WriteAnswer(setup.proto, memory, id, ThisWrite)
           IN  /\ Cells(m) /\ CommandRoom \in Nat
               /\ Bytes(m) <= CommandRoom
<1> DEFINE n == Len(ThisWrite.data)
           head == MessageHead(id, ThisWrite.code, 0)
           no == MessageHead(id, ThisWrite.code + 128, 0)
           yes == Writable(memory, ThisWrite)
<1>1. ThisWrite.code \in {0, 5, 6, 16} /\ n \in Nat
  BY DEF ProperWrite
<1>2. setup.proto \in {"tcp", "rtu", "rtuovertcp"}
  BY ExchangeAssumption DEF Device, S7
<1>3. /\ HeadBytes + CrcBytes \in Nat
      /\ CommandRoom \in Nat
      /\ HeadBytes + CrcBytes <= CommandRoom
      /\ ThisWrite.code # 0 => HeadBytes + 3 + CrcBytes <= CommandRoom
      /\ HeadBytes \in Nat /\ CrcBytes \in Nat
  <2>1. /\ HeadBytes = IF HasCrc(setup.proto) THEN 3 ELSE 9
        /\ CrcBytes = IF HasCrc(setup.proto) THEN 2 ELSE 0
    BY <1>2 DEF HeadBytes, CrcBytes, HasCrc
  <2> DEFINE pdu == CASE ThisWrite.code = 0 -> 3
                      [] ThisWrite.code \in {5, 6} -> 5
                      [] ThisWrite.code = 16 -> 6 + n
  <2>2. pdu \in Nat /\ pdu >= 3 /\ (ThisWrite.code # 0 => pdu >= 5)
    BY <1>1
  <2>3. CommandRoom = pdu + 1 + (IF HasCrc(setup.proto) THEN 2 ELSE 6)
    BY DEF CommandRoom
  <2> HIDE DEF pdu
  <2>4. QED BY <2>1, <2>2, <2>3
<1>4. ASSUME yes PROVE ThisWrite.code # 0
  BY <1>4 DEF Writable
<1>5. WriteAnswer(setup.proto, memory, id, ThisWrite)
        = IF yes THEN Message(setup.proto, head, <<0, 0, 0>>)
                 ELSE Message(setup.proto, no, << >>)
  BY DEF WriteAnswer
<1> HIDE DEF head, no, yes
<1>6. /\ IsList(<< >>) /\ Len(<< >>) = 0
      /\ IsList(<<0, 0, 0>>) /\ Len(<<0, 0, 0>>) = 3
  BY DEF IsList
<1>7. CASE yes
  <2>1. /\ Cells(Message(setup.proto, head, <<0, 0, 0>>))
        /\ Bytes(Message(setup.proto, head, <<0, 0, 0>>)) = HeadBytes + 3 + CrcBytes
    BY <1>6, MessageIs
  <2>2. QED BY <1>3, <1>4, <1>5, <1>7, <2>1
<1>8. CASE ~yes
  <2>1. /\ Cells(Message(setup.proto, no, << >>))
        /\ Bytes(Message(setup.proto, no, << >>)) = HeadBytes + 0 + CrcBytes
    BY <1>6, MessageIs
  <2>2. QED BY <1>3, <1>5, <1>8, <2>1
<1>9. QED BY <1>7, <1>8

LEMMA WrittenIs ==
    ASSUME Memory(memory), ~S7 => ProperWrite(ThisWrite)
    PROVE  Memory(Done(memory))
<1>1. ASSUME NEW m, NEW a, NEW f,
             m = [memory EXCEPT ![a] = [i \in DOMAIN memory[a] |-> f[i]]],
             ~S7 /\ a \in {"coils", "inputs"} =>
                \A i \in DOMAIN memory[a] : f[i] \in {0, 1}
      PROVE  Memory(m)
  <2>1. DOMAIN m = DOMAIN memory
    BY <1>1
  <2>2. ASSUME NEW b \in DOMAIN m PROVE IsList(m[b])
    <3>1. IsList(memory[b])
      BY <2>1 DEF Memory
    <3>2. CASE a # b
      BY <1>1, <2>1, <3>1, <3>2
    <3>3. CASE a = b
      <4> DEFINE n == Len(memory[b])
                 g == [i \in 1..n |-> f[i]]
      <4>1. n \in Nat /\ DOMAIN memory[b] = 1..n
        BY <3>1 DEF IsList
      <4>2. m[b] = g
        BY <1>1, <2>1, <3>3, <4>1
      <4> HIDE DEF n
      <4>3. g = [i \in 1..n |-> g[i]]
        OBVIOUS
      <4> HIDE DEF g
      <4>4. Len(g) = n
        BY <4>1, <4>3, ListOf
      <4>5. QED BY <4>1, <4>2, <4>3, <4>4 DEF IsList
    <3>4. QED BY <3>2, <3>3
  <2>3. ASSUME ~S7, NEW b \in {"coils", "inputs"} PROVE Binary(m[b])
    <3>1. b \in DOMAIN memory /\ Binary(memory[b])
      BY <2>3 DEF Memory, Areas
    <3>2. CASE a # b
      BY <1>1, <3>1, <3>2
    <3>3. CASE a = b
      <4>1. m[b] = [i \in DOMAIN memory[b] |-> f[i]]
        BY <1>1, <3>1, <3>3
      <4>2. QED BY <1>1, <2>3, <3>3, <4>1 DEF Binary
    <3>4. QED BY <3>2, <3>3
  <2>4. QED BY <2>1, <2>2, <2>3 DEF Memory
<1>2. CASE Done(memory) = memory
  BY <1>2
<1>3. CASE ~S7 /\ Done(memory) = Written(memory, ThisWrite)
  <2> DEFINE w == ThisWrite
             a == AreaOf(w.code)
             first == (IF w.code = 5 THEN 1 ELSE 2) * w.at
             f == [i \in DOMAIN memory[a] |->
                     IF i - first \in DOMAIN w.data THEN w.data[i - first] ELSE memory[a][i]]
  <2>1. Written(memory, w) = [memory EXCEPT ![a] = [i \in DOMAIN memory[a] |-> f[i]]]
    BY DEF Written
  <2>2. w.code \in {5, 6, 16} \/ Done(memory) = memory
    BY <1>3 DEF ProperWrite, Done, Writable
  <2>3. ASSUME a \in {"coils", "inputs"}, w.code \in {5, 6, 16}, NEW i \in DOMAIN memory[a]
        PROVE  f[i] \in {0, 1}
    <3>1. w.code = 5 /\ a = "coils"
      BY <2>3 DEF AreaOf
    <3> DEFINE data == w.data
    <3>2. data \in {<<0>>, <<1>>}
      BY <1>3, <3>1 DEF ProperWrite
    <3> HIDE DEF data, w, a, first
    <3>3. \A j \in DOMAIN data : data[j] \in {0, 1}
      <4>1. \A c \in {0, 1} : DOMAIN <<c>> = {1} /\ <<c>>[1] = c
        OBVIOUS
      <4>2. QED BY <3>2, <4>1
    <3>4. memory[a][i] \in {0, 1}
      BY <1>3, <2>3, <3>1 DEF Memory, Binary
    <3>5. QED BY <2>3, <3>3, <3>4 DEF data
  <2> HIDE DEF a, f, w
  <2>4. CASE w.code \in {5, 6, 16}
    <3>1. a \in {"coils", "inputs"} => \A i \in DOMAIN memory[a] : f[i] \in {0, 1}
      BY <2>3, <2>4
    <3> DEFINE m == Written(memory, w)
    <3>2. m = [memory EXCEPT ![a] = [i \in DOMAIN memory[a] |-> f[i]]]
      BY <2>1
    <3> HIDE DEF m
    <3>3. Memory(m)
      BY <1>1, <3>1, <3>2
    <3>4. QED BY <1>3, <3>3 DEF m, w
  <2>5. QED BY <1>2, <2>2, <2>4
<1>4. CASE S7 /\ Done(memory) = S7Written(memory, ThisWrite)
  <2> DEFINE w == ThisWrite
             a == PlaceOf(w.item)
             at == w.item.address
             bit == w.item.bit
             byte == memory[a][at + 1]
             set == IF ValueOf(w.data) = 0 THEN 0 ELSE 1
             bitByte == byte + (set - Bit(byte, bit)) * 2 ^ bit
             new == IF w.item.transport = 1 THEN <<bitByte>> ELSE w.data
             f == [i \in DOMAIN memory[a] |->
                     IF i - at \in DOMAIN new THEN new[i - at] ELSE memory[a][i]]
  <2>1. S7Written(memory, w) = [memory EXCEPT ![a] = [i \in DOMAIN memory[a] |-> f[i]]]
    <3> HIDE DEF w, byte, set
    <3>1. QED BY Zenon DEF S7Written, byte, set
  <2> HIDE DEF a, f, w
  <2>2. QED BY <1>1, <1>4, <2>1 DEF w
<1>5. QED BY <1>2, <1>3, <1>4 DEF Done

-----------------------------------------------------------------------------
(* The frames of a poll are of the kind they are filled as. *)

Variables(E) == \A v \in E : v.address \in Nat /\ v.type \in DataTypes /\ v.code \in Codes

LEMMA PutIs ==
    ASSUME NEW E, Variables(E), NEW f \in FramesOf(E), NEW v \in E
    PROVE  Put(f, v) \in FramesOf(E)
<1> DEFINE offset == (v.address - f.start) % UintMod
           coil == f.code \in Coils
           words == DataTypeWord(v.type)
           parse == [v |-> v, at |-> IF coil THEN offset ELSE offset * 2]
           size == offset + (IF coil THEN 1 ELSE words)
           parses == Append(f.parses, parse)
<1>1. /\ f = [code |-> f.code, start |-> f.start, size |-> f.size, parses |-> f.parses]
      /\ f.code \in Codes /\ f.start \in Nat /\ f.parses \in Seq([v : E, at : Nat])
  BY DEF FramesOf
<1>2. UintMod \in Nat \ {0} /\ v.address \in Nat /\ v.type \in DataTypes
  BY ModbusAssumption DEF Variables
<1>3. offset \in Nat
  BY <1>1, <1>2
<1>4. words \in Nat
  BY <1>2 DEF DataTypeWord, DataTypes
<1> HIDE DEF offset, words
<1>5. size \in Nat
  BY <1>3, <1>4
<1>6. parse \in [v : E, at : Nat]
  BY <1>3
<1> HIDE DEF parse
<1>7. parses \in Seq([v : E, at : Nat])
  BY <1>1, <1>6
<1>8. Put(f, v) = [f EXCEPT !.size = size, !.parses = parses]
  BY DEF Put, offset, words, parse
<1> HIDE DEF size, parses
<1>9. \A C, S, P : f \in [code : C, start : S, size : S, parses : P] /\ size \in S /\ parses \in P
        => [f EXCEPT !.size = size, !.parses = parses]
             \in [code : C, start : S, size : S, parses : P]
  OBVIOUS
<1>10. QED BY <1>5, <1>7, <1>8, <1>9 DEF FramesOf

LEMMA NoFrameIs ==
    ASSUME NEW E, NEW code \in Codes, NEW start \in Nat
    PROVE  NoFrame(code, start) \in FramesOf(E)
<1>1. << >> \in Seq([v : E, at : Nat])
  OBVIOUS
<1>2. QED BY <1>1 DEF NoFrame, FramesOf

PlanFold(it, code, first, s) ==
    it = [T \in SUBSET DOMAIN s |->
            IF T = {} THEN [done |-> << >>, open |-> first]
            ELSE LET acc == it[T \ {Max(T)}]
                     v == s[Max(T)]
                 IN  IF Reach(code, v) <= Limit(acc.open)
                     THEN [acc EXCEPT !.open = Put(@, v)]
                     ELSE [done |-> Append(acc.done, acc.open),
                           open |-> Put(NoFrame(code, v.address), v)]]

(* The planning as the sequence of its states. *)
PlanRun(run, E, code, s, position) ==
    /\ run[0] = [done |-> << >>,
                 open |-> NoFrame(code, (s[1].address - position) % UintMod)]
    /\ \A k \in 0..Len(s) : run[k] \in [done : Seq(FramesOf(E)), open : FramesOf(E)]
    /\ \A k \in 1..Len(s) :
          run[k] = IF Reach(code, s[k]) <= Limit(run[k - 1].open)
                   THEN [run[k - 1] EXCEPT !.open = Put(@, s[k])]
                   ELSE [done |-> Append(run[k - 1].done, run[k - 1].open),
                         open |-> Put(NoFrame(code, s[k].address), s[k])]
    /\ Plan(code, s, position) = Append(run[Len(s)].done, run[Len(s)].open)

LEMMA PlanRuns ==
    ASSUME NEW E, Variables(E), NEW s \in Seq(E), s # << >>,
           NEW code \in Codes, NEW position \in Nat
    PROVE  \E run : PlanRun(run, E, code, s, position)
<1> DEFINE n == Len(s)
           first == NoFrame(code, (s[1].address - position) % UintMod)
           base == [done |-> << >>, open |-> first]
           V == [done : Seq(FramesOf(E)), open : FramesOf(E)]
           Next1(i, acc) == IF Reach(code, s[i]) <= Limit(acc.open)
                            THEN [acc EXCEPT !.open = Put(@, s[i])]
                            ELSE [done |-> Append(acc.done, acc.open),
                                  open |-> Put(NoFrame(code, s[i].address), s[i])]
           step == [i \in 1..n |-> [u \in V |-> Next1(i, u)]]
<1>1. n \in Nat /\ n # 0 /\ DOMAIN s = 1..n /\ \A i \in 1..n : s[i] \in E
  OBVIOUS
<1> HIDE DEF n
<1>2. first \in FramesOf(E)
  <2>1. s[1].address \in Nat /\ UintMod \in Nat \ {0}
    BY <1>1, ModbusAssumption DEF Variables
  <2>2. (s[1].address - position) % UintMod \in Nat
    BY <2>1
  <2>3. QED BY <2>2, NoFrameIs
<1> HIDE DEF first
<1>3. base \in V
  BY <1>2
<1>4. ASSUME NEW i \in 1..n, NEW u \in V PROVE Next1(i, u) \in V
  <2>1. s[i] \in E /\ s[i].address \in Nat
    BY <1>1 DEF Variables
  <2>2. u = [done |-> u.done, open |-> u.open] /\ u.done \in Seq(FramesOf(E))
        /\ u.open \in FramesOf(E)
    OBVIOUS
  <2>3. Put(u.open, s[i]) \in FramesOf(E)
    BY <2>1, <2>2, PutIs
  <2>4. Put(NoFrame(code, s[i].address), s[i]) \in FramesOf(E)
    BY <2>1, NoFrameIs, PutIs
  <2>5. Append(u.done, u.open) \in Seq(FramesOf(E))
    BY <2>2
  <2>6. [u EXCEPT !.open = Put(@, s[i])] = [done |-> u.done, open |-> Put(u.open, s[i])]
    BY <2>2
  <2>7. QED BY <2>2, <2>3, <2>4, <2>5, <2>6
<1> HIDE DEF V, Next1
<1>5. \A T \in SUBSET (1..n) : T # {} => Max(T) \in T
  BY <1>1, HighestIn
<1>6. \E it : PlanFold(it, code, first, s)
  <2>1. \A i \in 1..n, u \in V : step[i][u] = Next1(i, u) /\ step[i][u] \in V
    BY <1>4
  <2> HIDE DEF step
  <2>2. PICK it \in [SUBSET (1..n) -> V] : Iterates(it, n, base, step)
    <3> HIDE DEF base
    <3>1. QED BY <1>1, <1>3, <2>1, IterationExists
  <2>3. \A T \in SUBSET (1..n) :
          it[T] = IF T = {} THEN base ELSE step[Max(T)][it[T \ {Max(T)}]]
    BY <2>2 DEF Iterates
  <2> HIDE DEF base
  <2>4. \A T \in SUBSET (1..n) :
          it[T] = IF T = {} THEN base ELSE Next1(Max(T), it[T \ {Max(T)}])
    <3> SUFFICES ASSUME NEW T \in SUBSET (1..n), T # {}
                 PROVE  it[T] = Next1(Max(T), it[T \ {Max(T)}])
      BY <2>3
    <3>1. Max(T) \in 1..n /\ T \ {Max(T)} \in SUBSET (1..n)
      BY <1>5
    <3>2. it[T \ {Max(T)}] \in V
      BY <2>2, <3>1
    <3>3. it[T] = step[Max(T)][it[T \ {Max(T)}]]
      BY <2>3
    <3>4. QED BY <2>1, <3>1, <3>2, <3>3
  <2>5. it = [T \in SUBSET (1..n) |->
                IF T = {} THEN base ELSE Next1(Max(T), it[T \ {Max(T)}])]
    BY <2>2, <2>4
  <2>6. QED BY <1>1, <2>5 DEF PlanFold, Next1, base
<1> DEFINE it == CHOOSE it : PlanFold(it, code, first, s)
           end == it[DOMAIN s]
<1>7. PlanFold(it, code, first, s)
  BY <1>6
<1>8. Plan(code, s, position) = Append(end.done, end.open)
  BY DEF Plan, Flushed, FoldLeft, MapThenFoldSet, PlanFold, first
<1> HIDE DEF it, base
<1>9. \A T \in SUBSET (1..n) :
        it[T] = IF T = {} THEN base ELSE Next1(Max(T), it[T \ {Max(T)}])
  BY <1>1, <1>7 DEF PlanFold, Next1, base
<1> DEFINE run == [k \in 0..n |-> it[1..k]]
<1>10. /\ run[0] = base
       /\ \A k \in 1..n : run[k] = Next1(k, run[k - 1])
       /\ run[n] = end
  <2>1. 1..0 = {} /\ 0 \in 0..n /\ n \in 0..n
    BY <1>1
  <2>2. ASSUME NEW k \in 1..n PROVE run[k] = Next1(k, run[k - 1])
    <3>1. /\ 1..k \in SUBSET (1..n) /\ 1..k # {} /\ (1..k) \ {k} = 1..(k - 1)
          /\ k \in 0..n /\ k - 1 \in 0..n /\ Max(1..k) = k
      BY <1>1, Beginning
    <3>2. it[1..k] = Next1(Max(1..k), it[(1..k) \ {Max(1..k)}])
      BY <1>9, <3>1
    <3>3. QED BY <3>1, <3>2
  <2>3. run[0] = base
    BY <1>9, <2>1
  <2>4. run[n] = end
    BY <1>1, <2>1
  <2>5. QED BY <2>2, <2>3, <2>4
<1> HIDE DEF run, end
<1>11. \A k \in 0..n : run[k] \in V
  <2> DEFINE K == {k \in 0..n : run[k] \in V}
  <2>1. 0 \in K
    BY <1>1, <1>3, <1>10
  <2>2. \A k \in 1..n : k - 1 \in K => k \in K
    BY <1>1, <1>4, <1>10
  <2> HIDE DEF K
  <2>3. \A k \in 0..n : k \in K
    BY <1>1, <2>1, <2>2, Counting
  <2>4. QED BY <2>3 DEF K
<1>12. PlanRun(run, E, code, s, position)
  <2>1. run[0] = [done |-> << >>,
                  open |-> NoFrame(code, (s[1].address - position) % UintMod)]
    BY <1>10 DEF base, first
  <2>2. QED BY <1>8, <1>10, <1>11, <2>1 DEF PlanRun, V, Next1, n
<1>13. QED BY <1>12

LEMMA PlanIs ==
    ASSUME NEW E, Variables(E), NEW s \in Seq(E), s # << >>,
           NEW code \in Codes, NEW position \in Nat
    PROVE  Plan(code, s, position) \in Seq(FramesOf(E))
<1> DEFINE n == Len(s)
<1>1. PICK run : PlanRun(run, E, code, s, position)
  BY PlanRuns
<1>2. n \in 0..n
  OBVIOUS
<1> HIDE DEF n
<1>3. run[n].done \in Seq(FramesOf(E)) /\ run[n].open \in FramesOf(E)
  BY <1>1, <1>2 DEF PlanRun, n
<1>4. Plan(code, s, position) = Append(run[n].done, run[n].open)
  BY <1>1 DEF PlanRun, n
<1>5. QED BY <1>3, <1>4

LEMMA OrdersOf ==
    ASSUME NEW E, NEW vs \in Seq(E), NEW places \in SUBSET DOMAIN vs,
           NEW s \in Orders(vs, places)
    PROVE  /\ s \in Seq(E)
           /\ places # {} => s # << >>
           /\ \A i \in DOMAIN s : \E j \in places : s[i] = vs[j]
<1> DEFINE last == Len(vs)
           n == Cardinality(places)
<1>1. last \in Nat /\ DOMAIN vs = 1..last /\ \A i \in 1..last : vs[i] \in E
  OBVIOUS
<1>2. IsFiniteSet(1..last)
  <2> HIDE DEF last
  <2>1. QED BY <1>1, FS_Interval
<1>3. IsFiniteSet(places) /\ n \in Nat
  BY <1>1, <1>2, FS_Subset, FS_CardinalityType
<1>4. places # {} => n # 0
  BY <1>3, FS_EmptySet
<1>5. PICK p \in SetToSeqs(places) : s = [i \in 1..n |-> vs[p[i]]]
  BY DEF Orders
<1>6. p \in [1..n -> places]
  BY <1>5 DEF SetToSeqs
<1> HIDE DEF n, last
<1>7. s \in [1..n -> E]
  BY <1>1, <1>5, <1>6
<1>8. s \in Seq(E) /\ Len(s) = n /\ DOMAIN s = 1..n
  BY <1>3, <1>7
<1>9. \A i \in DOMAIN s : p[i] \in places /\ s[i] = vs[p[i]]
  BY <1>5, <1>6
<1>10. places # {} => s # << >>
  BY <1>4, <1>8
<1>11. QED BY <1>8, <1>9, <1>10

LEMMA TwoJoined ==
    ASSUME NEW F, NEW a \in Seq(F), NEW b \in Seq(F)
    PROVE  a \o b \in Seq(F) /\ Len(a \o b) = Len(a) + Len(b)
OBVIOUS

LEMMA FourJoined ==
    ASSUME NEW F, NEW a \in Seq(F), NEW b \in Seq(F), NEW c \in Seq(F), NEW d \in Seq(F)
    PROVE  a \o b \o c \o d \in Seq(F)
OBVIOUS

LEMMA ModbusPlansAre ==
    ASSUME NEW E, Variables(E), NEW vs \in Seq(E), NEW position \in Nat,
           NEW plans \in ModbusPlans(vs, position)
    PROVE  plans \in Seq(FramesOf(E))
<1> DEFINE Of(code) == {i \in DOMAIN vs : vs[i].code = code}
           PlansOf(code) == IF Of(code) = {} THEN {<< >>}
                            ELSE {Plan(code, s, position) : s \in ByAddress(vs, Of(code))}
<1>1. ASSUME NEW code \in Codes, NEW x \in PlansOf(code)
      PROVE  x \in Seq(FramesOf(E))
  <2>1. CASE Of(code) = {}
    <3>1. x = << >>
      BY <1>1, <2>1
    <3>2. QED BY <3>1
  <2>2. CASE Of(code) # {}
    <3>1. PICK s \in ByAddress(vs, Of(code)) : x = Plan(code, s, position)
      BY <1>1, <2>2
    <3>2. s \in Orders(vs, Of(code))
      BY <3>1 DEF ByAddress
    <3>3. s \in Seq(E) /\ s # << >>
      BY <2>2, <3>2, OrdersOf
    <3>4. QED BY <3>1, <3>3, PlanIs
  <2>3. QED BY <2>1, <2>2
<1>2. 1 \in Codes /\ 2 \in Codes /\ 3 \in Codes /\ 4 \in Codes
  BY DEF Codes, Coils, Registers
<1>3. ModbusPlans(vs, position)
        = {a \o b \o c \o d : a \in PlansOf(1), b \in PlansOf(2),
                              c \in PlansOf(3), d \in PlansOf(4)}
  BY DEF ModbusPlans
<1> HIDE DEF PlansOf
<1>4. PICK a \in PlansOf(1), b \in PlansOf(2), c \in PlansOf(3), d \in PlansOf(4) :
        plans = a \o b \o c \o d
  BY <1>3
<1>5. /\ a \in Seq(FramesOf(E)) /\ b \in Seq(FramesOf(E))
      /\ c \in Seq(FramesOf(E)) /\ d \in Seq(FramesOf(E))
  BY <1>1, <1>2
<1>6. QED BY <1>4, <1>5, FourJoined

-----------------------------------------------------------------------------
(* The same of S7: no frame has more items than one message may ask for. *)

Placed(E) == \A v \in E : v.where.number \in Nat /\ v.type \in DataTypes
                         /\ v.where.zone \in Zones

Items(E) == {ItemOf(v, zone) : v \in E, zone \in Zones}

S7FramesOf(E) ==
    [zone : Zones, items : Seq(Items(E)), starts : Seq(Nat),
     parses : Seq([v : E, at : Nat]), length : Nat]

Filled7(E) == {f \in S7FramesOf(E) : Len(f.starts) = Len(f.items)}
AtMost(E, n) == {f \in Filled7(E) : Len(f.items) <= n}
Open(E, n) == {f \in Filled7(E) : Len(f.items) < n}

LEMMA TakeIs ==
    ASSUME NEW E, Placed(E), NEW f \in Filled7(E), NEW v \in E
    PROVE  /\ Take(f, v) \in Filled7(E)
           /\ Len(Take(f, v).items) \in {Len(f.items), Len(f.items) + 1}
<1> DEFINE shared == {i \in DOMAIN f.items : SamePlace(f.items[i], v)}
           i == CHOOSE j \in shared : TRUE
           more == 4 + DataResponseLength(v.type, f.zone)
           P == [v : E, at : Nat]
<1>1. /\ f.zone \in Zones /\ f.items \in Seq(Items(E)) /\ f.starts \in Seq(Nat)
      /\ f.parses \in Seq(P) /\ f.length \in Nat /\ Len(f.starts) = Len(f.items)
  BY DEF Filled7, S7FramesOf
<1>2. \A x : x \in P => Append(f.parses, x) \in Seq(P)
  BY <1>1
<1>3. more \in Nat
  <2>1. v.type \in DataTypes
    BY DEF Placed
  <2>2. DataResponseLength(v.type, f.zone) \in Nat
    BY <2>1 DEF DataResponseLength, S7Bytes, DataTypes
  <2>3. QED BY <2>2
<1>4. CASE shared # {}
  <2> DEFINE parses == Append(f.parses, [v |-> v, at |-> f.starts[i]])
             t == [f EXCEPT !.parses = parses]
  <2>1. i \in shared
    BY <1>4
  <2>2. f.starts[i] \in Nat
    BY <1>1, <2>1
  <2>3. parses \in Seq(P)
    BY <1>2, <2>2
  <2>4. Take(f, v) = t
    BY <1>4 DEF Take
  <2> HIDE DEF parses
  <2>5. t \in S7FramesOf(E) /\ t.items = f.items /\ t.starts = f.starts
    BY <2>3 DEF S7FramesOf, Filled7
  <2>6. QED BY <1>1, <2>4, <2>5 DEF Filled7
<1>5. CASE shared = {}
  <2> DEFINE items == Append(f.items, ItemOf(v, f.zone))
             starts == Append(f.starts, f.length)
             parses == Append(f.parses, [v |-> v, at |-> f.length])
             length == f.length + more
             t == [f EXCEPT !.items = items, !.starts = starts, !.parses = parses,
                            !.length = length]
  <2>1. ItemOf(v, f.zone) \in Items(E)
    BY <1>1 DEF Items
  <2>2. items \in Seq(Items(E)) /\ Len(items) = Len(f.items) + 1
    BY <1>1, <2>1
  <2>3. starts \in Seq(Nat) /\ Len(starts) = Len(f.starts) + 1
    BY <1>1
  <2>4. parses \in Seq(P)
    BY <1>1, <1>2
  <2>5. length \in Nat
    BY <1>1, <1>3
  <2>6. Take(f, v) = t
    BY <1>5 DEF Take
  <2> HIDE DEF items, starts, parses, length, P
  <2>7. \A Z, I, S, Q : f \in [zone : Z, items : I, starts : S, parses : Q, length : Nat]
                        /\ items \in I /\ starts \in S /\ parses \in Q
          => /\ t \in [zone : Z, items : I, starts : S, parses : Q, length : Nat]
             /\ t.items = items /\ t.starts = starts
    BY <2>5
  <2> HIDE DEF t
  <2>8. f \in [zone : Zones, items : Seq(Items(E)), starts : Seq(Nat), parses : Seq(P),
               length : Nat]
    BY DEF Filled7, S7FramesOf, P
  <2>9. /\ t \in [zone : Zones, items : Seq(Items(E)), starts : Seq(Nat), parses : Seq(P),
                  length : Nat]
        /\ t.items = items /\ t.starts = starts
    BY <2>2, <2>3, <2>4, <2>7, <2>8
  <2>10. QED BY <1>1, <2>2, <2>3, <2>6, <2>9 DEF Filled7, S7FramesOf, P
<1>6. QED BY <1>4, <1>5

LEMMA EmptyFrameIs ==
    ASSUME NEW E, NEW zone \in Zones, NEW n \in Nat \ {0}
    PROVE  EmptyFrame(zone) \in Open(E, n)
<1>1. \A S : << >> \in Seq(S)
  OBVIOUS
<1>2. EmptyFrame(zone) \in S7FramesOf(E)
  BY <1>1 DEF EmptyFrame, S7FramesOf
<1>3. Len(EmptyFrame(zone).items) = 0 /\ Len(EmptyFrame(zone).starts) = 0
  BY DEF EmptyFrame
<1>4. QED BY <1>2, <1>3 DEF Open, Filled7

S7PlanFold(it, zone, s, n) ==
    it = [T \in SUBSET DOMAIN s |->
            IF T = {} THEN [done |-> << >>, open |-> EmptyFrame(zone)]
            ELSE LET acc == it[T \ {Max(T)}]
                     filled == Take(acc.open, s[Max(T)])
                 IN  IF Len(filled.items) = n
                     THEN [done |-> Append(acc.done, filled), open |-> EmptyFrame(zone)]
                     ELSE [acc EXCEPT !.open = filled]]

S7PlanRun(run, E, zone, s, pdu) ==
    LET max == MaxItemPerDataFrame(pdu)
    IN  /\ run[0] = [done |-> << >>, open |-> EmptyFrame(zone)]
        /\ \A k \in 0..Len(s) : run[k] \in [done : Seq(AtMost(E, max)), open : Open(E, max)]
        /\ \A k \in 1..Len(s) :
              run[k] = IF Len(Take(run[k - 1].open, s[k]).items) = max
                       THEN [done |-> Append(run[k - 1].done, Take(run[k - 1].open, s[k])),
                             open |-> EmptyFrame(zone)]
                       ELSE [run[k - 1] EXCEPT !.open = Take(@, s[k])]
        /\ S7Plan(zone, s, pdu) = IF run[Len(s)].open.items = << >> THEN run[Len(s)].done
                                  ELSE Append(run[Len(s)].done, run[Len(s)].open)

LEMMA S7PlanRuns ==
    ASSUME NEW E, Placed(E), NEW s \in Seq(E), NEW zone \in Zones, NEW pdu,
           MaxItemPerDataFrame(pdu) \in Nat \ {0}
    PROVE  \E run : S7PlanRun(run, E, zone, s, pdu)
<1> DEFINE n == Len(s)
           max == MaxItemPerDataFrame(pdu)
           first == EmptyFrame(zone)
           base == [done |-> << >>, open |-> first]
           V == [done : Seq(AtMost(E, max)), open : Open(E, max)]
           Next1(i, acc) == IF Len(Take(acc.open, s[i]).items) = max
                            THEN [done |-> Append(acc.done, Take(acc.open, s[i])),
                                  open |-> first]
                            ELSE [acc EXCEPT !.open = Take(acc.open, s[i])]
           step == [i \in 1..n |-> [u \in V |-> Next1(i, u)]]
<1>1. n \in Nat /\ DOMAIN s = 1..n /\ \A i \in 1..n : s[i] \in E
  OBVIOUS
<1> HIDE DEF n, max
<1>2. max \in Nat \ {0}
  BY DEF max
<1>3. first \in Open(E, max)
  BY <1>2, EmptyFrameIs
<1> HIDE DEF first
<1>4. base \in V
  BY <1>3
<1>5. ASSUME NEW i \in 1..n, NEW u \in V PROVE Next1(i, u) \in V
  <2> DEFINE filled == Take(u.open, s[i])
  <2>1. u = [done |-> u.done, open |-> u.open] /\ u.done \in Seq(AtMost(E, max))
        /\ u.open \in Open(E, max)
    OBVIOUS
  <2>2. u.open \in Filled7(E) /\ Len(u.open.items) < max
    BY <2>1 DEF Open
  <2>3. Len(u.open.items) \in Nat
    BY <2>2 DEF Filled7, S7FramesOf
  <2>4. filled \in Filled7(E) /\ Len(filled.items) \in {Len(u.open.items), Len(u.open.items) + 1}
    BY <1>1, <2>2, TakeIs
  <2> HIDE DEF filled
  <2>5. CASE Len(filled.items) = max
    <3>1. filled \in AtMost(E, max)
      BY <1>2, <2>4, <2>5 DEF AtMost
    <3>2. Append(u.done, filled) \in Seq(AtMost(E, max))
      BY <2>1, <3>1
    <3>3. Next1(i, u) = [done |-> Append(u.done, filled), open |-> first]
      BY <2>5 DEF filled
    <3>4. QED BY <1>3, <3>2, <3>3
  <2>6. CASE Len(filled.items) # max
    <3>1. filled \in Open(E, max)
      BY <1>2, <2>2, <2>3, <2>4, <2>6 DEF Open
    <3>2. Next1(i, u) = [u EXCEPT !.open = filled]
      BY <2>6 DEF filled
    <3>3. [u EXCEPT !.open = filled] = [done |-> u.done, open |-> filled]
      BY <2>1
    <3>4. QED BY <2>1, <3>1, <3>2, <3>3
  <2>7. QED BY <2>5, <2>6
<1> HIDE DEF V, Next1
<1>6. \A T \in SUBSET (1..n) : T # {} => Max(T) \in T
  BY <1>1, HighestIn
<1>7. \E it : S7PlanFold(it, zone, s, max)
  <2>1. \A i \in 1..n, u \in V : step[i][u] = Next1(i, u) /\ step[i][u] \in V
    BY <1>5
  <2> HIDE DEF step
  <2>2. PICK it \in [SUBSET (1..n) -> V] : Iterates(it, n, base, step)
    <3> HIDE DEF base
    <3>1. QED BY <1>1, <1>4, <2>1, IterationExists
  <2>3. \A T \in SUBSET (1..n) :
          it[T] = IF T = {} THEN base ELSE step[Max(T)][it[T \ {Max(T)}]]
    BY <2>2 DEF Iterates
  <2> HIDE DEF base
  <2>4. \A T \in SUBSET (1..n) :
          it[T] = IF T = {} THEN base ELSE Next1(Max(T), it[T \ {Max(T)}])
    <3> SUFFICES ASSUME NEW T \in SUBSET (1..n), T # {}
                 PROVE  it[T] = Next1(Max(T), it[T \ {Max(T)}])
      BY <2>3
    <3>1. Max(T) \in 1..n /\ T \ {Max(T)} \in SUBSET (1..n)
      BY <1>6
    <3>2. it[T \ {Max(T)}] \in V
      BY <2>2, <3>1
    <3>3. it[T] = step[Max(T)][it[T \ {Max(T)}]]
      BY <2>3
    <3>4. QED BY <2>1, <3>1, <3>2, <3>3
  <2>5. it = [T \in SUBSET (1..n) |->
                IF T = {} THEN base ELSE Next1(Max(T), it[T \ {Max(T)}])]
    BY <2>2, <2>4
  <2>6. QED BY <1>1, <2>5 DEF S7PlanFold, Next1, base, first
<1> DEFINE it == CHOOSE it : S7PlanFold(it, zone, s, max)
           end == it[DOMAIN s]
<1>8. S7PlanFold(it, zone, s, max)
  BY <1>7
<1>9. S7Plan(zone, s, pdu)
        = IF end.open.items = << >> THEN end.done ELSE Append(end.done, end.open)
  BY DEF S7Plan, FoldLeft, MapThenFoldSet, S7PlanFold, max
<1> HIDE DEF it, base
<1>10. \A T \in SUBSET (1..n) :
        it[T] = IF T = {} THEN base ELSE Next1(Max(T), it[T \ {Max(T)}])
  BY <1>1, <1>8 DEF S7PlanFold, Next1, base, first
<1> DEFINE run == [k \in 0..n |-> it[1..k]]
<1>11. /\ run[0] = base
       /\ \A k \in 1..n : run[k] = Next1(k, run[k - 1])
       /\ run[n] = end
  <2>1. 1..0 = {} /\ 0 \in 0..n /\ n \in 0..n
    BY <1>1
  <2>2. ASSUME NEW k \in 1..n PROVE run[k] = Next1(k, run[k - 1])
    <3>1. /\ 1..k \in SUBSET (1..n) /\ 1..k # {} /\ (1..k) \ {k} = 1..(k - 1)
          /\ k \in 0..n /\ k - 1 \in 0..n /\ Max(1..k) = k
      BY <1>1, Beginning
    <3>2. it[1..k] = Next1(Max(1..k), it[(1..k) \ {Max(1..k)}])
      BY <1>10, <3>1
    <3>3. QED BY <3>1, <3>2
  <2>3. run[0] = base
    BY <1>10, <2>1
  <2>4. run[n] = end
    BY <1>1, <2>1
  <2>5. QED BY <2>2, <2>3, <2>4
<1> HIDE DEF run, end
<1>12. \A k \in 0..n : run[k] \in V
  <2> DEFINE K == {k \in 0..n : run[k] \in V}
  <2>1. 0 \in K
    BY <1>1, <1>4, <1>11
  <2>2. \A k \in 1..n : k - 1 \in K => k \in K
    BY <1>1, <1>5, <1>11
  <2> HIDE DEF K
  <2>3. \A k \in 0..n : k \in K
    BY <1>1, <2>1, <2>2, Counting
  <2>4. QED BY <2>3 DEF K
<1>13. S7PlanRun(run, E, zone, s, pdu)
  <2>1. run[0] = [done |-> << >>, open |-> EmptyFrame(zone)]
    BY <1>11 DEF base, first
  <2>2. QED BY <1>9, <1>11, <1>12, <2>1 DEF S7PlanRun, V, Next1, n, max, first
<1>14. QED BY <1>13

LEMMA S7PlanIs ==
    ASSUME NEW E, Placed(E), NEW s \in Seq(E), NEW zone \in Zones, NEW pdu,
           MaxItemPerDataFrame(pdu) \in Nat \ {0}
    PROVE  S7Plan(zone, s, pdu) \in Seq(AtMost(E, MaxItemPerDataFrame(pdu)))
<1> DEFINE n == Len(s)
           max == MaxItemPerDataFrame(pdu)
<1>1. PICK run : S7PlanRun(run, E, zone, s, pdu)
  BY S7PlanRuns
<1>2. n \in 0..n /\ max \in Nat
  OBVIOUS
<1> HIDE DEF n, max
<1>3. run[n].done \in Seq(AtMost(E, max)) /\ run[n].open \in Open(E, max)
  BY <1>1, <1>2 DEF S7PlanRun, n, max
<1>4. S7Plan(zone, s, pdu) = IF run[n].open.items = << >> THEN run[n].done
                             ELSE Append(run[n].done, run[n].open)
  BY <1>1 DEF S7PlanRun, n
<1>5. run[n].open \in AtMost(E, max)
  <2>1. run[n].open \in Filled7(E) /\ Len(run[n].open.items) < max
    BY <1>3 DEF Open
  <2>2. Len(run[n].open.items) \in Nat
    BY <2>1 DEF Filled7, S7FramesOf
  <2>3. QED BY <1>2, <2>1, <2>2 DEF AtMost
<1>6. Append(run[n].done, run[n].open) \in Seq(AtMost(E, max))
  BY <1>3, <1>5
<1>7. QED BY <1>3, <1>4, <1>6 DEF max

LEMMA S7PlansAre ==
    ASSUME NEW E, Placed(E), NEW vs \in Seq(E), NEW pdu,
           MaxItemPerDataFrame(pdu) \in Nat \ {0}, NEW plans \in S7Plans(vs, pdu)
    PROVE  plans \in Seq(AtMost(E, MaxItemPerDataFrame(pdu)))
<1> DEFINE In(zone) == {i \in DOMAIN vs : vs[i].where.zone = zone}
           PlansIn(zone) == {S7Plan(zone, s, pdu) : s \in Sorted(vs, In(zone))}
           F == AtMost(E, MaxItemPerDataFrame(pdu))
<1>1. ASSUME NEW zone \in Zones, NEW x \in PlansIn(zone) PROVE x \in Seq(F)
  <2>1. PICK s \in Sorted(vs, In(zone)) : x = S7Plan(zone, s, pdu)
    BY <1>1
  <2>2. s \in Orders(vs, In(zone))
    BY <2>1 DEF Sorted
  <2>3. s \in Seq(E)
    BY <2>2, OrdersOf
  <2>4. QED BY <2>1, <2>3, S7PlanIs
<1>2. "I" \in Zones /\ "Q" \in Zones /\ "M" \in Zones /\ "DB" \in Zones
  BY DEF Zones
<1> DEFINE all == {a \o b \o c \o d : a \in PlansIn("I"), b \in PlansIn("Q"),
                                       c \in PlansIn("M"), d \in PlansIn("DB")}
<1>3. S7Plans(vs, pdu) = all
  BY DEF S7Plans
<1> HIDE DEF all, PlansIn, F
<1>4. plans \in all
  BY <1>3
<1>5. PICK a \in PlansIn("I"), b \in PlansIn("Q"), c \in PlansIn("M"), d \in PlansIn("DB") :
        plans = a \o b \o c \o d
  BY <1>4 DEF all
<1>6. a \in Seq(F) /\ b \in Seq(F) /\ c \in Seq(F) /\ d \in Seq(F)
  BY <1>1, <1>2
<1>7. QED BY <1>5, <1>6, FourJoined DEF F

(* An item is answered with four bytes and eight at most. *)
Held(m) == {0} \cup UNION {{m[a][i] : i \in DOMAIN m[a]} : a \in DOMAIN m}

LEMMA ItemIs ==
    ASSUME NEW E, Placed(E), NEW item \in Items(E)
    PROVE  item.address \in Nat /\ ItemBytes(item) \in Nat /\ ItemBytes(item) <= 8
<1>1. PICK v \in E, zone \in Zones : item = ItemOf(v, zone)
  BY DEF Items
<1>2. v.where.number \in Nat /\ v.type \in DataTypes
  BY DEF Placed
<1>3. /\ item.address = ParseVariableAddress(v.where)
      /\ item.transport = StoreAreaTransportSize(zone)
      /\ item.length = DataRequestLength(v.type, zone)
  BY <1>1 DEF ItemOf
<1>4. item.address \in Nat
  BY <1>2, <1>3 DEF ParseVariableAddress
<1>5. S7Bytes(v.type) \in {1, 2, 4, 8} /\ (v.type # "BOOL" => S7Bytes(v.type) # 1)
  BY <1>2 DEF S7Bytes, DataTypes
<1>6. /\ zone = "DB" => item.transport = 4 /\ item.length \in {1, 2, 4}
      /\ zone # "DB" => item.transport = 2 /\ item.length \in {1, 2, 4, 8}
  <2>1. CASE zone = "DB"
    <3>1. \A b \in {2, 4, 8} : b \div 2 \in {1, 2, 4}
      OBVIOUS
    <3>2. item.length = IF v.type = "BOOL" THEN S7Bytes(v.type) ELSE S7Bytes(v.type) \div 2
      BY <1>3, <2>1 DEF DataRequestLength
    <3>3. v.type = "BOOL" => S7Bytes(v.type) = 1
      BY DEF S7Bytes
    <3>4. QED BY <1>3, <1>5, <2>1, <3>1, <3>2, <3>3 DEF StoreAreaTransportSize
  <2>2. CASE zone # "DB"
    BY <1>3, <1>5, <2>2 DEF StoreAreaTransportSize, DataRequestLength
  <2>3. QED BY <2>1, <2>2
<1>7. ItemBytes(item) = IF zone = "DB" THEN 2 * item.length ELSE item.length
  BY <1>6 DEF ItemBytes
<1>8. QED BY <1>4, <1>6, <1>7

LEMMA ItemAnswerIs ==
    ASSUME NEW E, Placed(E), NEW item \in Items(E), NEW m, \A a \in DOMAIN m : IsList(m[a])
    PROVE  ItemAnswer(m, item) \in Seq(Held(m)) /\ Len(ItemAnswer(m, item)) <= 12
<1> DEFINE area == m[PlaceOf(item)]
           n == ItemBytes(item)
           bytes == SubSeq(area, item.address + 1, item.address + n)
           answer == IF HasItem(m, item) THEN bytes ELSE << >>
           X == Held(m)
<1>1. item.address \in Nat /\ n \in Nat /\ n <= 8
  BY ItemIs
<1> HIDE DEF n
<1>2. ASSUME HasItem(m, item)
      PROVE  bytes \in Seq(X) /\ Len(bytes) = n
  <2>1. PlaceOf(item) \in DOMAIN m /\ item.address + n <= Len(area)
    BY <1>2 DEF HasItem, n
  <2>2. IsList(area)
    BY <2>1
  <2>3. {area[i] : i \in 1..Len(area)} \subseteq X
    <3>1. DOMAIN area = 1..Len(area)
      BY <2>2 DEF IsList
    <3>2. QED BY <2>1, <3>1 DEF Held
  <2> HIDE DEF area, X
  <2>4. area \in Seq({area[i] : i \in 1..Len(area)}) /\ Len(area) \in Nat
    BY <2>2, ListOf DEF IsList
  <2>5. area \in Seq(X)
    BY <2>3, <2>4, InAList
  <2>6. QED BY <1>1, <2>1, <2>4, <2>5
<1>3. answer \in Seq(X) /\ Len(answer) <= 8 /\ Len(answer) \in Nat
  <2> HIDE DEF bytes, X
  <2>1. CASE HasItem(m, item)
    BY <1>1, <1>2, <2>1
  <2>2. CASE ~HasItem(m, item)
    <3>1. answer = << >>
      BY <2>2
    <3> HIDE DEF answer
    <3>2. << >> \in Seq(X) /\ Len(<< >>) = 0
      OBVIOUS
    <3>3. QED BY <3>1, <3>2
  <2>3. QED BY <2>1, <2>2
<1>4. <<0, 0, 0, 0>> \in Seq(X) /\ Len(<<0, 0, 0, 0>>) = 4
  BY DEF Held
<1>5. ItemAnswer(m, item) = <<0, 0, 0, 0>> \o answer
  BY DEF ItemAnswer, n
<1> HIDE DEF answer, X
<1> DEFINE z == <<0, 0, 0, 0>>
<1>6. z \in Seq(X) /\ Len(z) = 4 /\ ItemAnswer(m, item) = z \o answer
  BY <1>4, <1>5
<1> HIDE DEF z
<1>7. z \o answer \in Seq(X) /\ Len(z \o answer) = Len(z) + Len(answer)
  BY <1>3, <1>6, TwoJoined
<1>8. Len(z) + Len(answer) <= 12
  BY <1>3, <1>6
<1>9. QED BY <1>6, <1>7, <1>8 DEF X

AnswerFold(it, m, s) ==
    it = [T \in SUBSET DOMAIN s |->
            IF T = {} THEN << >> ELSE it[T \ {Max(T)}] \o ItemAnswer(m, s[Max(T)])]

S7Content(m, s) ==
    FoldLeft(LAMBDA acc, item : acc \o ItemAnswer(m, item), << >>, s)

(* The content of an answer, as the sequence of its beginnings. *)
ContentRun(run, m, s) ==
    /\ run[0] = << >>
    /\ \A k \in 1..Len(s) : run[k] = Join(run[k - 1], ItemAnswer(m, s[k]))
    /\ \A k \in 0..Len(s) : IsList(run[k])
    /\ run[Len(s)] = S7Content(m, s)

LEMMA ContentRuns ==
    ASSUME NEW E, Placed(E), NEW s \in Seq(Items(E)), NEW m, \A a \in DOMAIN m : IsList(m[a])
    PROVE  \E run : ContentRun(run, m, s)
<1> DEFINE n == Len(s)
           V == Seq(Held(m))
           Next1(i, u) == u \o ItemAnswer(m, s[i])
           step == [i \in 1..n |-> [u \in V |-> Next1(i, u)]]
<1>1. n \in Nat /\ DOMAIN s = 1..n /\ \A i \in 1..n : s[i] \in Items(E)
  OBVIOUS
<1>2. \A i \in 1..n : ItemAnswer(m, s[i]) \in V /\ Len(ItemAnswer(m, s[i])) <= 12
  BY <1>1, ItemAnswerIs
<1> HIDE DEF n
<1>3. ASSUME NEW i \in 1..n, NEW u \in V
      PROVE  Next1(i, u) \in V
  <2> DEFINE x == ItemAnswer(m, s[i])
  <2>1. x \in V
    BY <1>2
  <2> HIDE DEF x
  <2>2. u \o x \in V
    BY <2>1, TwoJoined
  <2>3. Next1(i, u) = u \o x
    BY DEF x
  <2> HIDE DEF V, Next1
  <2>4. QED BY <2>2, <2>3
<1>4. << >> \in V /\ Len(<< >>) = 0 /\ \A u \in V : Len(u) \in Nat /\ IsList(u)
  <2>1. ASSUME NEW u \in V PROVE Len(u) \in Nat /\ IsList(u)
    BY DEF IsList
  <2>2. QED BY <2>1
<1> HIDE DEF V, Next1
<1>5. \A T \in SUBSET (1..n) : T # {} => Max(T) \in T
  BY <1>1, HighestIn
<1>6. \E it : AnswerFold(it, m, s)
  <2>1. \A i \in 1..n, u \in V : step[i][u] = Next1(i, u) /\ step[i][u] \in V
    BY <1>3
  <2> HIDE DEF step
  <2>2. PICK it \in [SUBSET (1..n) -> V] : Iterates(it, n, << >>, step)
    BY <1>1, <1>4, <2>1, IterationExists
  <2>3. \A T \in SUBSET (1..n) :
          it[T] = IF T = {} THEN << >> ELSE step[Max(T)][it[T \ {Max(T)}]]
    BY <2>2 DEF Iterates
  <2>4. \A T \in SUBSET (1..n) :
          it[T] = IF T = {} THEN << >> ELSE Next1(Max(T), it[T \ {Max(T)}])
    <3> SUFFICES ASSUME NEW T \in SUBSET (1..n), T # {}
                 PROVE  it[T] = Next1(Max(T), it[T \ {Max(T)}])
      BY <2>3
    <3>1. Max(T) \in 1..n /\ T \ {Max(T)} \in SUBSET (1..n)
      BY <1>5
    <3>2. it[T \ {Max(T)}] \in V
      BY <2>2, <3>1
    <3>3. it[T] = step[Max(T)][it[T \ {Max(T)}]]
      BY <2>3
    <3>4. QED BY <2>1, <3>1, <3>2, <3>3
  <2>5. it = [T \in SUBSET (1..n) |->
                IF T = {} THEN << >> ELSE Next1(Max(T), it[T \ {Max(T)}])]
    BY <2>2, <2>4
  <2>6. QED BY <1>1, <2>5 DEF AnswerFold, Next1
<1> DEFINE it == CHOOSE it : AnswerFold(it, m, s)
<1>7. AnswerFold(it, m, s)
  BY <1>6
<1>8. S7Content(m, s) = it[DOMAIN s]
  BY DEF S7Content, FoldLeft, MapThenFoldSet, AnswerFold
<1> HIDE DEF it
<1>9. \A T \in SUBSET (1..n) :
        it[T] = IF T = {} THEN << >> ELSE Next1(Max(T), it[T \ {Max(T)}])
  BY <1>1, <1>7 DEF AnswerFold, Next1
<1> DEFINE run == [k \in 0..n |-> it[1..k]]
           K == {k \in 0..n : IsList(run[k])}
<1>10. ASSUME NEW k \in 1..n PROVE run[k] = Join(run[k - 1], ItemAnswer(m, s[k]))
  <2>1. /\ 1..k \in SUBSET (1..n) /\ 1..k # {} /\ (1..k) \ {k} = 1..(k - 1)
        /\ k \in 0..n /\ k - 1 \in 0..n /\ Max(1..k) = k
    BY <1>1, Beginning
  <2>2. it[1..k] = Next1(Max(1..k), it[(1..k) \ {Max(1..k)}])
    BY <1>9, <2>1
  <2>3. it[1..k] = Next1(k, it[1..(k - 1)])
    BY <2>1, <2>2
  <2>4. QED BY <2>1, <2>3 DEF Next1, Join
<1>11. run[0] = << >>
  <2>1. 1..0 = {} /\ 0 \in 0..n
    BY <1>1
  <2>2. QED BY <1>9, <2>1
<1>12. run[n] = S7Content(m, s)
  <2>1. n \in 0..n
    BY <1>1
  <2>2. QED BY <1>1, <1>8, <2>1
<1> HIDE DEF run
<1>13. 0 \in K
  BY <1>1, <1>4, <1>11
<1>14. ASSUME NEW k \in 1..n, k - 1 \in K PROVE k \in K
  <2> DEFINE x == ItemAnswer(m, s[k])
  <2>1. IsList(x)
    BY <1>2, <1>4
  <2> HIDE DEF x
  <2>2. IsList(run[k - 1]) /\ k \in 0..n
    BY <1>1, <1>14
  <2>3. run[k] = Join(run[k - 1], x)
    BY <1>10 DEF x
  <2>4. QED BY <2>1, <2>2, <2>3, ListsJoined
<1> HIDE DEF K
<1>15. \A k \in 0..n : k \in K
  BY <1>1, <1>13, <1>14, Counting
<1>16. \A k \in 0..n : IsList(run[k])
  BY <1>15 DEF K
<1>17. ContentRun(run, m, s)
  BY <1>10, <1>11, <1>12, <1>16 DEF ContentRun, n
<1>18. QED BY <1>17

LEMMA S7ContentIs ==
    ASSUME NEW E, Placed(E), NEW s \in Seq(Items(E)), NEW m, \A a \in DOMAIN m : IsList(m[a])
    PROVE  IsList(S7Content(m, s)) /\ Len(S7Content(m, s)) <= 12 * Len(s)
<1> DEFINE n == Len(s)
<1>1. PICK run : ContentRun(run, m, s)
  BY ContentRuns
<1> DEFINE K == {k \in 0..n : Len(run[k]) \in Nat /\ Len(run[k]) <= 12 * k}
<1>2. n \in Nat /\ 0 \in 0..n /\ n \in 0..n
  OBVIOUS
<1>3. 0 \in K
  BY <1>1 DEF ContentRun
<1>4. ASSUME NEW k \in 1..n, k - 1 \in K PROVE k \in K
  <2> DEFINE x == ItemAnswer(m, s[k])
             old == run[k - 1]
  <2>1. s[k] \in Items(E)
    OBVIOUS
  <2>2. IsList(x) /\ Len(x) \in Nat /\ Len(x) <= 12
    <3>1. x \in Seq(Held(m)) /\ Len(x) <= 12
      BY <2>1, ItemAnswerIs
    <3> HIDE DEF x
    <3>2. QED BY <3>1 DEF IsList
  <2>3. k - 1 \in 0..n /\ k \in 0..n
    OBVIOUS
  <2>4. IsList(old) /\ run[k] = Join(old, x)
    BY <1>1, <2>3 DEF ContentRun
  <2>5. Len(old) \in Nat /\ Len(old) <= 12 * (k - 1)
    BY <1>4
  <2> HIDE DEF x, old, n
  <2>6. Len(run[k]) = Len(old) + Len(x)
    BY <2>2, <2>4, ListsJoined
  <2>7. QED BY <2>2, <2>3, <2>5, <2>6
<1> HIDE DEF K
<1>5. n \in K
  BY <1>2, <1>3, <1>4, Counting
<1>6. QED BY <1>1, <1>2, <1>5 DEF K, ContentRun

LEMMA S7Fits ==
    ASSUME setup \in Setups, S7, Roomy, Memory(memory), NEW E, Placed(E),
           NEW plan \in AtMost(E, MaxItemPerDataFrame(setup.pdu))
    PROVE  LET m == S7Answer(memory, S7Request(plan))
           IN  /\ Cells(m) /\ Capacity(plan) \in Nat
               /\ Bytes(m) <= Capacity(plan)
               /\ m = << >> \/ Len(m) = 1 + m[1].content.length
<1> DEFINE max == MaxItemPerDataFrame(setup.pdu)
           data == S7Content(memory, plan.items)
           length == RequestLength(plan.items)
           request == S7Request(plan)
           m == S7Reply(data)
<1>1. Capacity(plan) = setup.pdu /\ setup.pdu \in Nat
  BY ExchangeAssumption DEF Capacity, Device
<1>2. plan.items \in Seq(Items(E)) /\ Len(plan.items) <= max
  BY DEF AtMost, Filled7, S7FramesOf
<1>3. IsList(data) /\ Len(data) <= 12 * Len(plan.items)
  BY <1>2, S7ContentIs DEF Memory
<1>4. HeadBytes = 21 /\ max > 0 /\ 21 + 12 * max <= setup.pdu
  <2>1. HeadBytes = 21
    BY DEF HeadBytes, S7, HasCrc
  <2>2. QED BY <2>1 DEF Roomy
<1>5. max \in Int
  BY <1>1 DEF MaxItemPerDataFrame
<1> HIDE DEF data, max
<1>6. Cells(m) /\ Bytes(m) = 21 + Len(data) /\ Len(m) = 1 + m[1].content.length
  BY <1>3, <1>4, S7MessageIs
<1>7. 21 + Len(data) \in Nat /\ 21 + Len(data) <= setup.pdu
  <2>1. Len(plan.items) \in Nat /\ Len(data) \in Nat
    BY <1>2, <1>3 DEF IsList
  <2>2. QED BY <1>1, <1>2, <1>3, <1>4, <1>5, <2>1
<1>8. request.items = plan.items /\ request.length = length % LengthMod
  BY DEF S7Request
<1> HIDE DEF request
<1>9. S7Answer(memory, request)
        = IF request.length # RequestLength(request.items) THEN << >> ELSE m
  BY <1>8 DEF S7Answer, S7Reply, S7Content, data
<1> HIDE DEF m
<1>10. Cells(<< >>) /\ Bytes(<< >>) = 0
  <2>1. IsList(<< >>) /\ \A kind : {k \in DOMAIN << >> : << >>[k].kind = kind} = {}
    BY DEF IsList
  <2>2. \A kind : Number(<< >>, kind) = 0
    BY <2>1, FS_EmptySet DEF Number
  <2>3. Bytes(<< >>) = 0
    BY <1>4, <2>2 DEF Bytes
  <2>4. Cells(<< >>)
    BY <2>1 DEF Cells
  <2>5. QED BY <2>3, <2>4
<1>11. QED BY <1>1, <1>6, <1>7, <1>9, <1>10 DEF request

LEMMA S7WriteFits ==
    ASSUME setup \in Setups, S7
    PROVE  LET m == S7WriteAnswer(memory, ThisWrite, setup.strict)
           IN  /\ Cells(m) /\ CommandRoom \in Nat
               /\ Bytes(m) <= CommandRoom
<1> DEFINE answer == IF S7Writable(memory, ThisWrite, setup.strict) THEN 255 ELSE 10
           data == <<answer>>
           m == S7Reply(data)
<1>1. S7WriteAnswer(memory, ThisWrite, setup.strict) = m
  BY DEF S7WriteAnswer, S7Reply
<1> HIDE DEF answer
<1>2. IsList(data) /\ Len(data) = 1
  BY OneCell
<1> HIDE DEF data
<1>3. HeadBytes = 21
  BY DEF HeadBytes, S7, HasCrc
<1>4. Cells(m) /\ Bytes(m) = 22
  <2>1. IsList(data)
    BY <1>2
  <2>2. Cells(m) /\ Bytes(m) = HeadBytes + Len(data)
    BY <2>1, S7MessageIs
  <2> HIDE DEF m
  <2>3. QED BY <1>2, <1>3, <2>2
<1>5. CommandRoom = 22
  BY DEF CommandRoom
<1> HIDE DEF m
<1>6. /\ Cells(S7WriteAnswer(memory, ThisWrite, setup.strict))
      /\ Bytes(S7WriteAnswer(memory, ThisWrite, setup.strict)) = 22
  BY <1>1, <1>4
<1>7. QED BY <1>5, <1>6

-----------------------------------------------------------------------------
(* Between two turns nothing waits to be read. *)

Fitting == S7 => Roomy

ProperPlan(plan) ==
    IF S7 THEN plan \in AtMost(Requestable, MaxItemPerDataFrame(setup.pdu))
          ELSE plan \in FramesOf(Requestable)

(* What the answers depend on: the tables lead to variables of the requests,
   frames and writes are of the kinds they are made as. *)
Tabled == Rooted(stored, Requestable) /\ Rooted(table, Requestable)

Planned == Fitting => \A i \in DOMAIN frames :
                          /\ i \in Nat \ {0}
                          /\ "plan" \in DOMAIN frames[i] /\ ProperPlan(frames[i].plan)

Commanded ==
    /\ {"at", "writes"} \subseteq DOMAIN command
    /\ command.at \in Nat \ {0}
    /\ ~S7 => /\ Len(command.writes) \in Nat
              /\ \A k \in Nat \ {0} : k <= Len(command.writes)
                                         => ProperWrite(command.writes[k])
              /\ turn = Command => command.at <= Len(command.writes)

Clean == Fitting /\ ~dirty => stream = << >>

CleanInv == setup \in Setups /\ Tabled /\ Memory(memory) /\ Planned /\ Commanded /\ Clean

LEMMA TypedRequests ==
    ASSUME setup \in Setups
    PROVE  /\ \A v \in Requestable : v.type \in DataTypes
           /\ S7 => Placed(Requestable)
           /\ ~S7 => Variables(Requestable)
BY ExchangeAssumption DEF Device, Requestable, Placed, Variables, S7, Codes

LEMMA RoomyItems ==
    ASSUME setup \in Setups, Roomy
    PROVE  MaxItemPerDataFrame(setup.pdu) \in Nat \ {0}
<1>1. setup.pdu \in Nat
  BY ExchangeAssumption DEF Device
<1>2. MaxItemPerDataFrame(setup.pdu) \in Int
  BY <1>1 DEF MaxItemPerDataFrame
<1>3. QED BY <1>2 DEF Roomy

(* What the answer to a frame's own request begins with. *)
Own(plan, m) == IF S7 THEN m = << >> \/ Len(m) = 1 + m[1].content.length
                ELSE m[1].content.code \in {plan.code, plan.code + 128}

LEMMA AnswerFits ==
    ASSUME setup \in Setups, Memory(memory), Fitting, NEW plan, ProperPlan(plan), NEW id
    PROVE  /\ Cells(Answer(plan, id)) /\ Capacity(plan) \in Nat
           /\ Bytes(Answer(plan, id)) <= Capacity(plan)
           /\ Own(plan, Answer(plan, id))
<1>1. CASE S7
  <2>1. plan \in AtMost(Requestable, MaxItemPerDataFrame(setup.pdu)) /\ Roomy
        /\ Placed(Requestable)
    BY <1>1, TypedRequests DEF ProperPlan, Fitting
  <2>2. Answer(plan, id) = S7Answer(memory, S7Request(plan))
    BY <1>1 DEF Answer
  <2>3. QED BY <1>1, <2>1, <2>2, S7Fits DEF Own
<1>2. CASE ~S7
  <2>1. plan \in FramesOf(Requestable)
    BY <1>2 DEF ProperPlan
  <2>2. plan.code \in Codes /\ plan.start \in Nat /\ plan.size \in Nat
    BY <2>1 DEF FramesOf
  <2>3. Answer(plan, id) = ModbusAnswer(setup.proto, memory, id, ReadRequest(plan))
    BY <1>2 DEF Answer
  <2>4. QED BY <1>2, <2>2, <2>3, ModbusFits DEF Own
<1>3. QED BY <1>1, <1>2

LEMMA WriteFits ==
    ASSUME CleanInv, turn = Command
    PROVE  LET m == IF S7 THEN S7WriteAnswer(memory, ThisWrite, setup.strict)
                    ELSE WriteAnswer(setup.proto, memory, command.at - 1, ThisWrite)
           IN  /\ Cells(m) /\ CommandRoom \in Nat
               /\ Bytes(m) <= CommandRoom
<1>1. CASE S7
  BY <1>1, S7WriteFits DEF CleanInv
<1>2. CASE ~S7
  <2>1. ProperWrite(ThisWrite)
    BY <1>2 DEF CleanInv, Commanded, ThisWrite
  <2>2. QED BY <1>2, <2>1, ModbusWriteFits DEF CleanInv
<1>3. QED BY <1>1, <1>2

(* Behind nothing, an answer is all there is. *)
LEMMA Alone ==
    ASSUME NEW m, Cells(m)
    PROVE  << >> \o m = m
<1>1. m \in Seq({m[j] : j \in 1..Len(m)})
  BY ListOf DEF Cells, IsList
<1>2. QED BY <1>1

LEMMA PlansAreProper ==
    ASSUME setup \in Setups, Fitting, NEW t, t.list \in Seq(Requestable),
           NEW plans \in Plans(t), NEW i \in DOMAIN plans
    PROVE  i \in Nat \ {0} /\ ProperPlan(plans[i])
<1>1. CASE S7
  <2> DEFINE F == AtMost(Requestable, MaxItemPerDataFrame(setup.pdu))
  <2>1. plans \in S7Plans(t.list, setup.pdu)
    BY <1>1 DEF Plans
  <2>2. MaxItemPerDataFrame(setup.pdu) \in Nat \ {0} /\ Placed(Requestable)
    BY <1>1, RoomyItems, TypedRequests DEF Fitting
  <2>3. plans \in Seq(F)
    BY <2>1, <2>2, S7PlansAre
  <2> HIDE DEF F
  <2>4. plans[i] \in F /\ i \in Nat \ {0}
    BY <2>3
  <2>5. QED BY <1>1, <2>4 DEF ProperPlan, F
<1>2. CASE ~S7
  <2>1. plans \in ModbusPlans(t.list, setup.position)
    BY <1>2 DEF Plans
  <2>2. setup.position \in Nat /\ Variables(Requestable)
    BY <1>2, ExchangeAssumption, TypedRequests DEF Device
  <2>3. plans \in Seq(FramesOf(Requestable))
    BY <2>1, <2>2, ModbusPlansAre
  <2>4. plans[i] \in FramesOf(Requestable) /\ i \in Nat \ {0}
    BY <2>3
  <2>5. QED BY <1>2, <2>4 DEF ProperPlan
<1>3. QED BY <1>1, <1>2

LEMMA NewFramesAre ==
    ASSUME setup \in Setups, Fitting, NEW t, Rooted(t, Requestable),
           NEW plans \in Plans(t), NEW i \in DOMAIN NewFrames(plans)
    PROVE  /\ i \in Nat \ {0}
           /\ "plan" \in DOMAIN NewFrames(plans)[i]
           /\ ProperPlan(NewFrames(plans)[i].plan)
<1>1. i \in DOMAIN plans /\ NewFrames(plans)[i].plan = plans[i]
      /\ "plan" \in DOMAIN NewFrames(plans)[i]
  BY DEF NewFrames
<1>2. t.list \in Seq(Requestable)
  BY DEF Rooted, Tables
<1>3. QED BY <1>1, <1>2, PlansAreProper

LEMMA PlantIs ==
    ASSUME setup \in Setups
    PROVE  Memory(setup.memory) /\ Memory(setup.later)
<1>1. Plant(setup.proto, setup.memory) /\ Plant(setup.proto, setup.later)
  BY ExchangeAssumption DEF Device
<1>2. ASSUME NEW m, Plant(setup.proto, m) PROVE Memory(m)
  <2>1. \A a \in DOMAIN m : IsList(m[a])
    BY <1>2 DEF Plant, IsList
  <2>2. \A s \in Seq({0, 1}) : Binary(s)
    BY DEF Binary
  <2>3. QED BY <1>2, <2>1, <2>2 DEF Plant, Memory, S7
<1>3. QED BY <1>1, <1>2

LEMMA CleanInit == Init => CleanInv
<1> SUFFICES ASSUME Init PROVE CleanInv
  OBVIOUS
<1>1. setup \in Setups /\ memory = setup.memory /\ stream = << >>
      /\ stored = Created(setup.variables) /\ table = stored
      /\ command = NoCommand /\ turn = Nobody
  BY DEF Init
<1>2. Tabled
  <2>1. setup.variables \in Seq(Requestable)
    BY <1>1, RequestsAreLists
  <2>2. stored = [list |-> setup.variables, map |-> Indexed(setup.variables)]
    BY <1>1 DEF Created, CreateS7Device, CreateModBusDevice
  <2>3. QED BY <1>1, <2>1, <2>2, CreatedRooted DEF Tabled
<1>3. Memory(memory)
  BY <1>1, PlantIs
<1>4. Planned
  <2>1. PICK plans \in Plans(table) : frames = NewFrames(plans)
    BY DEF Init
  <2>2. Rooted(table, Requestable)
    BY <1>2 DEF Tabled
  <2>3. QED BY <1>1, <2>1, <2>2, NewFramesAre DEF Planned
<1>5. Commanded
  <2>1. command.at = 1 /\ command.writes = << >> /\ {"at", "writes"} \subseteq DOMAIN command
    BY <1>1 DEF NoCommand
  <2>2. Len(<< >>) \in Nat /\ \A k \in Nat \ {0} : ~(k <= Len(<< >>))
    OBVIOUS
  <2>3. turn # Command
    BY <1>1 DEF Nobody, Command
  <2>4. QED BY <2>1, <2>2, <2>3 DEF Commanded
<1>6. QED BY <1>1, <1>2, <1>3, <1>4, <1>5 DEF CleanInv, Clean

LEMMA TabledStep == CleanInv /\ [Next]_vars => Tabled' /\ setup' = setup
<1> SUFFICES ASSUME CleanInv, [Next]_vars PROVE Tabled' /\ setup' = setup
  OBVIOUS
<1>1. setup \in Setups /\ Rooted(stored, Requestable) /\ Rooted(table, Requestable)
  BY DEF CleanInv, Tabled
<1>2. ASSUME UNCHANGED <<setup, stored, table>> PROVE Tabled' /\ setup' = setup
  BY <1>1, <1>2 DEF Tabled, Requestable
<1>3. CASE UpdateDevice
  <2>1. /\ setup' = setup /\ table' = table
        /\ stored' = UpsertAll(Kept(DeepCopy(stored), setup.update), setup.update)
    BY <1>3 DEF UpdateDevice, Updated, UpdateS7Device, UpdateModBusDevice
  <2>2. Rooted(stored', Requestable)
    BY <1>1, <2>1, RequestsAreLists, UpdateRooted
  <2>3. QED BY <1>1, <2>1, <2>2 DEF Tabled, Requestable
<1>4. CASE Recollect
  <2>1. setup' = setup /\ stored' = stored /\ table' = stored
    BY <1>4 DEF Recollect, Collecting
  <2>2. QED BY <1>1, <2>1 DEF Tabled, Requestable
<1>5. CASE StartPoll \/ Drift \/ UNCHANGED vars
  BY <1>2, <1>5 DEF StartPoll, Drift, vars
<1>6. ASSUME NEW i \in DOMAIN frames,
             TakeTurn(i) \/ Answered(i) \/ Unanswered(i) \/ Overrun(i)
      PROVE  Tabled' /\ setup' = setup
  BY <1>2, <1>6 DEF TakeTurn, Answered, Unanswered, Overrun
<1>7. CASE BeginCommand \/ CommandPanics
  BY <1>2, <1>7 DEF BeginCommand, CommandPanics, Begin
<1>8. CASE CommandAnswered \/ CommandLate \/ CommandUnread \/ CommandBroken
           \/ CommandOverrun
  BY <1>2, <1>8 DEF CommandAnswered, CommandLate, CommandUnread, CommandBroken,
                    CommandOverrun
<1>9. QED BY <1>3, <1>4, <1>5, <1>6, <1>7, <1>8 DEF Next

LEMMA MemoryStep == CleanInv /\ [Next]_vars => Memory(memory)'
<1> SUFFICES ASSUME CleanInv, [Next]_vars PROVE Memory(memory)'
  OBVIOUS
<1>1. setup \in Setups /\ setup' = setup /\ Memory(memory)
  BY TabledStep DEF CleanInv
<1>2. ASSUME NEW m, Memory(m), memory' = m PROVE Memory(memory)'
  BY <1>1, <1>2 DEF Memory, S7
<1>3. CASE memory' = memory
  BY <1>1, <1>2, <1>3
<1>4. ASSUME memory' = Done(memory), turn = Command
      PROVE  Memory(memory)'
  <2>1. ~S7 => ProperWrite(ThisWrite)
    BY <1>4 DEF CleanInv, Commanded, ThisWrite
  <2>2. QED BY <1>1, <1>2, <1>4, <2>1, WrittenIs
<1>5. CASE Drift
  BY <1>1, <1>2, <1>5, PlantIs DEF Drift
<1>6. CASE StartPoll \/ UpdateDevice \/ Recollect \/ UNCHANGED vars
  BY <1>3, <1>6 DEF StartPoll, UpdateDevice, Recollect, vars
<1>7. ASSUME NEW i \in DOMAIN frames,
             TakeTurn(i) \/ Answered(i) \/ Unanswered(i) \/ Overrun(i)
      PROVE  Memory(memory)'
  BY <1>3, <1>7 DEF TakeTurn, Answered, Unanswered, Overrun
<1>8. CASE BeginCommand \/ CommandPanics \/ CommandBroken
  BY <1>3, <1>8 DEF BeginCommand, CommandPanics, Begin, CommandBroken
<1>9. CASE CommandAnswered \/ CommandLate \/ CommandUnread \/ CommandOverrun
  BY <1>4, <1>9 DEF CommandAnswered, CommandLate, CommandUnread, CommandOverrun
<1>10. QED BY <1>5, <1>6, <1>7, <1>8, <1>9 DEF Next

LEMMA PlannedStep == CleanInv /\ [Next]_vars => Planned'
<1> SUFFICES ASSUME CleanInv, [Next]_vars PROVE Planned'
  OBVIOUS
<1>1. setup \in Setups /\ setup' = setup /\ Planned /\ Rooted(stored, Requestable)
  BY TabledStep DEF CleanInv, Tabled
<1>2. (Fitting' <=> Fitting) /\ \A plan : ProperPlan(plan)' <=> ProperPlan(plan)
  <2>1. (S7' <=> S7) /\ (Roomy' <=> Roomy) /\ Requestable' = Requestable
    BY <1>1 DEF S7, Roomy, Requestable, HeadBytes
  <2>2. QED BY <1>1, <2>1 DEF Fitting, ProperPlan
<1>3. ASSUME DOMAIN frames' = DOMAIN frames,
             \A i \in DOMAIN frames :
                "plan" \in DOMAIN frames[i]
                  => "plan" \in DOMAIN frames'[i] /\ frames'[i].plan = frames[i].plan
      PROVE  Planned'
  <2> SUFFICES ASSUME Fitting, NEW i \in DOMAIN frames
               PROVE  i \in Nat \ {0} /\ "plan" \in DOMAIN frames'[i] /\ ProperPlan(frames'[i].plan)
    BY <1>2, <1>3 DEF Planned, ProperPlan
  <2>1. i \in Nat \ {0} /\ "plan" \in DOMAIN frames[i] /\ ProperPlan(frames[i].plan)
    BY <1>1 DEF Planned
  <2>2. QED BY <1>3, <2>1
<1>4. CASE UNCHANGED frames
  BY <1>3, <1>4
<1>5. ASSUME NEW i \in DOMAIN frames, Answered(i) PROVE Planned'
  <2>1. PICK r : frames' = [frames EXCEPT ![i].id = NextId(@),
                            ![i].buffer = IF S7 THEN @ ELSE Filled(@, r.cells)]
    BY <1>5 DEF Answered
  <2>2. QED BY <1>3, <2>1
<1>6. ASSUME NEW i \in DOMAIN frames, Unanswered(i) \/ Overrun(i) PROVE Planned'
  <2>1. frames' = [frames EXCEPT ![i].id = NextId(@)]
    BY <1>6 DEF Unanswered, Overrun
  <2>2. QED BY <1>3, <2>1
<1>7. CASE Recollect
  <2>1. PICK plans \in Plans(stored) : frames' = NewFrames(plans)
    BY <1>7 DEF Recollect, Collecting
  <2>2. Fitting => \A i \in DOMAIN NewFrames(plans) :
                     /\ i \in Nat \ {0}
                     /\ "plan" \in DOMAIN NewFrames(plans)[i]
                     /\ ProperPlan(NewFrames(plans)[i].plan)
    BY <1>1, NewFramesAre
  <2>3. Fitting => \A i \in DOMAIN frames' :
                     /\ i \in Nat \ {0}
                     /\ "plan" \in DOMAIN frames'[i] /\ ProperPlan(frames'[i].plan)
    BY <2>1, <2>2
  <2>4. QED BY <1>1, <1>2, <2>3 DEF Planned, ProperPlan
<1>8. ASSUME NEW i \in DOMAIN frames, TakeTurn(i) PROVE Planned'
  BY <1>4, <1>8 DEF TakeTurn
<1>9. CASE StartPoll \/ UpdateDevice \/ Drift \/ BeginCommand \/ CommandPanics
           \/ UNCHANGED vars
  BY <1>4, <1>9 DEF StartPoll, UpdateDevice, Drift, BeginCommand, CommandPanics, Begin, vars
<1>10. CASE CommandAnswered \/ CommandLate \/ CommandUnread \/ CommandBroken
            \/ CommandOverrun
  BY <1>4, <1>10 DEF CommandAnswered, CommandLate, CommandUnread, CommandBroken,
                     CommandOverrun
<1>11. QED BY <1>5, <1>6, <1>7, <1>8, <1>9, <1>10 DEF Next

(* An item of a command is a variable of a request. *)
LEMMA ItemsAreRequestable ==
    ASSUME setup \in Setups, Rooted(table, Requestable),
           NEW request, Deliverable(request), NEW k \in DOMAIN request
    PROVE  ItemsOf(request)[k].v \in Requestable
<1> DEFINE n == request[k].name
           place == table.map[n]
<1>1. n \in DOMAIN table.map
  BY DEF Deliverable
<1>2. place \in DOMAIN table.list /\ table.list \in Seq(Requestable)
  BY <1>1 DEF Rooted, Tables
<1>3. GetVariable(table, n) = {table.list[place]}
  BY <1>1 DEF GetVariable
<1>4. ItemsOf(request)[k].v = CHOOSE v \in GetVariable(table, n) : TRUE
  BY DEF ItemsOf
<1> HIDE DEF place
<1>5. ItemsOf(request)[k].v = table.list[place]
  BY <1>3, <1>4
<1>6. QED BY <1>2, <1>5

LEMMA CommandBegun ==
    ASSUME CleanInv, BeginCommand
    PROVE  Commanded'
<1>1. /\ setup \in Setups /\ setup' = setup /\ (S7' <=> S7)
      /\ Rooted(table, Requestable)
  BY DEF CleanInv, Tabled, BeginCommand, Begin, S7
<1> DEFINE MessagesOf(items) ==
             [k \in DOMAIN items |-> WriteOf(items[k].v, setup.layout, items[k].value)]
<1>2. PICK request \in setup.commands :
          /\ Deliverable(request)
          /\ command' = [items |-> ItemsOf(request), at |-> 1, errs |-> 0,
                         writes |-> IF S7 THEN S7Writes(ItemsOf(request))
                                    ELSE MessagesOf(ItemsOf(request))]
  BY DEF BeginCommand
<1> DEFINE items == ItemsOf(request)
           writes == MessagesOf(items)
           n == Len(request)
<1>3. /\ {"at", "writes"} \subseteq DOMAIN command' /\ command'.at = 1
      /\ ~S7 => command'.writes = writes
  BY <1>2
<1>4. ASSUME ~S7
      PROVE  /\ Len(writes) \in Nat \ {0}
             /\ \A k \in Nat \ {0} : k <= Len(writes) => ProperWrite(writes[k])
  <2>1. request \in Seq(ToSet(request)) \ {<< >>}
    BY <1>1, ExchangeAssumption DEF Device
  <2>2. n \in Nat \ {0} /\ DOMAIN request = 1..n
    BY <2>1
  <2> HIDE DEF n
  <2>3. DOMAIN items = 1..n
    BY <2>2 DEF ItemsOf
  <2>4. \A k \in 1..n : writes[k] = WriteOf(items[k].v, setup.layout, items[k].value)
    BY <2>3
  <2>5. writes = [k \in 1..n |-> writes[k]]
    BY <2>3
  <2>6. \A k \in 1..n : items[k].v \in Requestable
    BY <1>1, <1>2, <2>2, ItemsAreRequestable
  <2> HIDE DEF items
  <2>7. ASSUME NEW k \in 1..n PROVE ProperWrite(writes[k])
    <3>1. items[k].v.type \in DataTypes
      BY <1>1, <2>6, TypedRequests
    <3>2. setup.layout \in {"ABCD", "BADC", "CDAB", "DCBA"}
      BY <1>1, <1>4, ExchangeAssumption DEF Device, S7
    <3>3. ProperWrite(WriteOf(items[k].v, setup.layout, items[k].value))
      BY <3>1, <3>2, WritesAreProper
    <3>4. QED BY <2>4, <3>3
  <2> HIDE DEF writes
  <2>8. Len(writes) = n
    BY <2>2, <2>5, ListOf
  <2>9. QED BY <2>2, <2>7, <2>8
<1> HIDE DEF writes
<1>5. ~S7 => 1 <= Len(writes)
  BY <1>4
<1>6. QED BY <1>1, <1>3, <1>4, <1>5 DEF Commanded

(* The next message of a command is one of its messages, or it has ended. *)
LEMMA CommandGoesOn ==
    ASSUME Commanded, setup' = setup, NEW errs, ThenNext(errs)
    PROVE  Commanded'
<1>1. /\ {"at", "writes"} \subseteq DOMAIN command /\ command.at \in Nat \ {0}
      /\ command' = [command EXCEPT !.at = @ + 1, !.errs = @ + errs]
      /\ turn' = IF CommandEnded' THEN Nobody ELSE Command
  BY DEF Commanded, ThenNext
<1>2. /\ {"at", "writes"} \subseteq DOMAIN command'
      /\ command'.at = command.at + 1 /\ command'.writes = command.writes
  BY <1>1
<1>3. ASSUME ~S7, turn' = Command PROVE command'.at <= Len(command'.writes)
  <2>1. ~(command'.at > Len(command'.writes))
    BY <1>1, <1>3 DEF CommandEnded, Nobody, Command
  <2>2. command'.at \in Nat /\ Len(command'.writes) \in Nat
    BY <1>1, <1>2, <1>3 DEF Commanded
  <2>3. QED BY <2>1, <2>2
<1>4. (S7' <=> S7) /\ command'.at \in Nat \ {0}
  BY <1>1, <1>2 DEF S7
<1>5. QED BY <1>2, <1>3, <1>4 DEF Commanded

LEMMA CommandedStep == CleanInv /\ [Next]_vars => Commanded'
<1> SUFFICES ASSUME CleanInv, [Next]_vars PROVE Commanded'
  OBVIOUS
<1>1. setup \in Setups /\ setup' = setup /\ Commanded /\ Planned /\ (S7' <=> S7)
  BY TabledStep DEF CleanInv, S7
<1>2. ASSUME UNCHANGED command, ~S7 /\ turn' = Command => turn = Command
      PROVE  Commanded'
  BY <1>1, <1>2 DEF Commanded
<1>3. CASE UNCHANGED <<command, turn>>
  BY <1>2, <1>3
<1>4. ASSUME NEW i \in DOMAIN frames, TakeTurn(i) PROVE Commanded'
  <2>1. ~S7 => i \in Nat
    BY <1>1 DEF Planned, Fitting
  <2>2. ~S7 => turn' # Command
    BY <1>4, <2>1 DEF TakeTurn, Command
  <2>3. QED BY <1>2, <1>4, <2>2 DEF TakeTurn
<1>5. ASSUME turn' = turn \/ turn' = Nobody, UNCHANGED command PROVE Commanded'
  BY <1>2, <1>5 DEF Nobody, Command
<1>6. \A i, r : Reported(i, r) => turn' = Nobody
  BY DEF Reported
<1>7. \A i : TriedInVain(i) => turn' = turn \/ turn' = Nobody
  BY <1>6 DEF TriedInVain
<1>8. ASSUME NEW i \in DOMAIN frames, Answered(i) PROVE Commanded'
  <2>1. PICK r : Understood(i, r.cells, ~dirty')
    BY <1>8 DEF Answered
  <2>2. turn' = turn \/ turn' = Nobody
    BY <1>6, <1>7, <2>1 DEF Understood
  <2>3. QED BY <1>5, <1>8, <2>2 DEF Answered
<1>9. ASSUME NEW i \in DOMAIN frames, Unanswered(i) \/ Overrun(i) PROVE Commanded'
  BY <1>5, <1>6, <1>7, <1>9 DEF Unanswered, Overrun
<1>10. CASE BeginCommand
  BY <1>10, CommandBegun
<1>11. CASE CommandAnswered \/ CommandLate \/ CommandUnread \/ CommandBroken
  <2>1. \E errs : ThenNext(errs)
    BY <1>11 DEF CommandAnswered, CommandLate, CommandUnread, CommandBroken
  <2>2. QED BY <1>1, <2>1, CommandGoesOn
<1>12. CASE CommandOverrun
  <2>1. /\ ~S7 /\ turn' = Nobody
        /\ command' = [command EXCEPT !.at = Len(command.writes) + 1, !.errs = @ + 1]
    BY <1>12 DEF CommandOverrun, Serial, S7
  <2>2. /\ {"at", "writes"} \subseteq DOMAIN command'
        /\ command'.at = Len(command.writes) + 1 /\ command'.writes = command.writes
    BY <1>1, <2>1 DEF Commanded
  <2>3. Len(command.writes) \in Nat
    BY <1>1, <2>1 DEF Commanded
  <2>4. turn' # Command
    BY <2>1 DEF Nobody, Command
  <2>5. QED BY <1>1, <2>2, <2>3, <2>4 DEF Commanded
<1>13. CASE StartPoll \/ UpdateDevice \/ Recollect \/ Drift \/ CommandPanics
            \/ UNCHANGED vars
  BY <1>3, <1>13 DEF StartPoll, UpdateDevice, Recollect, Drift, CommandPanics, Begin, vars
<1>14. QED BY <1>4, <1>8, <1>9, <1>10, <1>11, <1>12, <1>13 DEF Next

(* A turn that found the stream empty and read its answer whole leaves it
   empty. *)
LEMMA ReadWhole ==
    ASSUME setup \in Setups, Fitting, ~dirty => stream = << >>, ~dirty,
           NEW m, Cells(m), NEW capacity \in Nat, Bytes(m) <= capacity,
           NEW r \in Reads(stream \o m, capacity), ~r.short
    PROVE  r.rest = << >> /\ r.cells = m
<1>1. stream \o m = m
  BY Alone
<1>2. QED BY <1>1, ReadsAll

LEMMA CleanStep == TInv /\ CleanInv /\ [Next]_vars => Clean'
<1> SUFFICES ASSUME TInv, CleanInv, [Next]_vars PROVE Clean'
  OBVIOUS
<1>1. /\ setup \in Setups /\ setup' = setup /\ Memory(memory) /\ Planned
      /\ Fitting => (~dirty => stream = << >>)
      /\ (Fitting' <=> Fitting) /\ dirty \in BOOLEAN
  <2>1. setup' = setup
    BY TabledStep
  <2>2. Fitting' <=> Fitting
    BY <2>1 DEF Fitting, S7, Roomy, HeadBytes
  <2>3. QED BY <2>1, <2>2 DEF CleanInv, Clean, TInv, TypeOK
<1>2. CASE stream' = << >>
  BY <1>2 DEF Clean
<1>3. CASE UNCHANGED <<stream, dirty>>
  BY <1>1, <1>3 DEF Clean
<1>4. ASSUME NEW i \in DOMAIN frames, Answered(i) PROVE Clean'
  <2> SUFFICES ASSUME Fitting, ~dirty' PROVE stream' = << >>
    BY <1>1 DEF Clean
  <2> DEFINE plan == frames[i].plan
             m == Answer(plan, NextId(frames[i].id))
  <2>1. PICK r \in Reads(Arrived(i), Capacity(plan)) :
            stream' = r.rest /\ dirty' = (dirty \/ r.short)
    BY <1>4 DEF Answered
  <2>2. ~dirty /\ ~r.short
    BY <2>1
  <2>3. ProperPlan(plan)
    BY <1>1 DEF Planned
  <2>4. Arrived(i) = stream \o m
    BY DEF Arrived
  <2> HIDE DEF plan
  <2>5. Cells(m) /\ Capacity(plan) \in Nat /\ Bytes(m) <= Capacity(plan)
    BY <1>1, <2>3, AnswerFits
  <2> HIDE DEF m
  <2>6. r \in Reads(stream \o m, Capacity(plan))
    BY <2>1, <2>4
  <2>7. r.rest = << >>
    BY <1>1, <2>2, <2>5, <2>6, ReadWhole
  <2>8. QED BY <2>1, <2>7
<1>5. CASE CommandAnswered
  <2> SUFFICES ASSUME Fitting, ~dirty' PROVE stream' = << >>
    BY <1>1 DEF Clean
  <2> DEFINE m == IF S7 THEN S7WriteAnswer(memory, ThisWrite, setup.strict)
                  ELSE WriteAnswer(setup.proto, memory, command.at - 1, ThisWrite)
  <2>1. PICK r \in Reads(CommandArrived, CommandRoom) :
            stream' = r.rest /\ dirty' = (dirty \/ r.short)
    BY <1>5 DEF CommandAnswered
  <2>2. ~dirty /\ ~r.short
    BY <2>1
  <2>3. CommandArrived = stream \o m
    BY DEF CommandArrived
  <2>4. Cells(m) /\ CommandRoom \in Nat /\ Bytes(m) <= CommandRoom
    BY <1>5, WriteFits DEF CommandAnswered
  <2> HIDE DEF m
  <2>5. r \in Reads(stream \o m, CommandRoom)
    BY <2>1, <2>3
  <2>6. r.rest = << >>
    BY <1>1, <2>2, <2>4, <2>5, ReadWhole
  <2>7. QED BY <2>1, <2>6
<1>6. CASE CommandLate
  <2>1. dirty' = TRUE
    BY <1>6 DEF CommandLate
  <2>2. QED BY <2>1 DEF Clean
<1>7. ASSUME NEW i \in DOMAIN frames, Unanswered(i) \/ Overrun(i) PROVE Clean'
  BY <1>2, <1>7 DEF Unanswered, FreshStream, Overrun
<1>8. CASE CommandUnread \/ CommandBroken \/ CommandOverrun \/ Recollect
  BY <1>2, <1>8 DEF CommandUnread, CommandBroken, CommandOverrun, Recollect, Collecting
<1>9. ASSUME NEW i \in DOMAIN frames, TakeTurn(i) PROVE Clean'
  BY <1>3, <1>9 DEF TakeTurn
<1>10. CASE StartPoll \/ UpdateDevice \/ Drift \/ BeginCommand \/ CommandPanics
            \/ UNCHANGED vars
  BY <1>3, <1>10 DEF StartPoll, UpdateDevice, Drift, BeginCommand, CommandPanics, Begin, vars
<1>11. QED BY <1>4, <1>5, <1>6, <1>7, <1>8, <1>9, <1>10 DEF Next

LEMMA CleanInvStep == TInv /\ CleanInv /\ [Next]_vars => CleanInv'
<1> SUFFICES ASSUME TInv, CleanInv, [Next]_vars PROVE CleanInv'
  OBVIOUS
<1>1. setup' = setup /\ Tabled'
  BY TabledStep
<1>2. Memory(memory)' /\ Planned' /\ Commanded' /\ Clean'
  BY MemoryStep, PlannedStep, CommandedStep, CleanStep
<1>3. setup' \in Setups
  BY <1>1 DEF CleanInv
<1>4. QED BY <1>1, <1>2, <1>3 DEF CleanInv

(* Between two turns of the broker's messenger nothing waits to be read on a
   connection no late or partial answer has touched since retry() dialled it:
   every answer to a request the modelers and the S7 broker build is as long
   as its response buffer or shorter, and so is the one to every write of
   DeliverAction, for every device, memory and planning of its frames. *)
THEOREM ExchangeCleanWhenFree == Spec => []CleanWhenFree
<1>1. TInv /\ CleanInv => CleanWhenFree
  BY DEF CleanInv, Clean, Fitting, CleanWhenFree
<1>2. Init => TInv /\ CleanInv
  BY TypeInit, CleanInit
<1>3. TInv /\ CleanInv /\ [Next]_vars => (TInv /\ CleanInv)'
  BY TypeStep, CleanInvStep
<1>4. QED BY <1>1, <1>2, <1>3, PTL DEF Spec

-----------------------------------------------------------------------------
(* Every variable of the table is planned once. *)

(* The variables of a set of places, each parsed in one frame, and nothing
   else parsed: f says in which frame, g at which place of it. *)
Each(f, g, plans, vs, P) ==
    /\ \A i \in P : /\ f[i] \in DOMAIN plans
                    /\ g[i] \in DOMAIN plans[f[i]].parses
                    /\ plans[f[i]].parses[g[i]].v = vs[i]
    /\ \A i, j \in P : f[i] = f[j] /\ g[i] = g[j] => i = j
    /\ \A a \in DOMAIN plans : \A b \in DOMAIN plans[a].parses :
          \E i \in P : f[i] = a /\ g[i] = b

Whole(plans, vs, P) == \E f, g : Each(f, g, plans, vs, P)

LEMMA NothingIsWhole ==
    ASSUME NEW plans, NEW vs, \A a \in DOMAIN plans : DOMAIN plans[a].parses = {}
    PROVE  Whole(plans, vs, {})
BY DEF Whole, Each

(* A frame without variables may come or go. *)
LEMMA SameWhole ==
    ASSUME NEW plans, NEW other, NEW vs, NEW P, Whole(plans, vs, P),
           \A a \in DOMAIN plans : \A b \in DOMAIN plans[a].parses :
              /\ a \in DOMAIN other /\ b \in DOMAIN other[a].parses
              /\ other[a].parses[b].v = plans[a].parses[b].v,
           \A a \in DOMAIN other : \A b \in DOMAIN other[a].parses :
              a \in DOMAIN plans /\ b \in DOMAIN plans[a].parses
    PROVE  Whole(other, vs, P)
<1>1. PICK f, g : Each(f, g, plans, vs, P)
  BY DEF Whole
<1>2. Each(f, g, other, vs, P)
  <2>1. \A i \in P : /\ f[i] \in DOMAIN other
                     /\ g[i] \in DOMAIN other[f[i]].parses
                     /\ other[f[i]].parses[g[i]].v = vs[i]
    BY <1>1 DEF Each
  <2>2. \A i, j \in P : f[i] = f[j] /\ g[i] = g[j] => i = j
    BY <1>1 DEF Each
  <2>3. \A a \in DOMAIN other : \A b \in DOMAIN other[a].parses :
          \E i \in P : f[i] = a /\ g[i] = b
    BY <1>1 DEF Each
  <2>4. QED BY <2>1, <2>2, <2>3 DEF Each
<1>3. QED BY <1>2 DEF Whole

(* One more variable at one more place. *)
LEMMA OneMore ==
    ASSUME NEW plans, NEW other, NEW vs, NEW P, Whole(plans, vs, P), NEW i, i \notin P,
           NEW a, NEW b, a \in DOMAIN other, b \in DOMAIN other[a].parses,
           other[a].parses[b].v = vs[i],
           ~(a \in DOMAIN plans /\ b \in DOMAIN plans[a].parses),
           \A c \in DOMAIN plans : \A d \in DOMAIN plans[c].parses :
              /\ c \in DOMAIN other /\ d \in DOMAIN other[c].parses
              /\ other[c].parses[d].v = plans[c].parses[d].v,
           \A c \in DOMAIN other : \A d \in DOMAIN other[c].parses :
              \/ c = a /\ d = b
              \/ c \in DOMAIN plans /\ d \in DOMAIN plans[c].parses
    PROVE  Whole(other, vs, P \cup {i})
<1>1. PICK f, g : Each(f, g, plans, vs, P)
  BY DEF Whole
<1> DEFINE f2 == [j \in P \cup {i} |-> IF j = i THEN a ELSE f[j]]
           g2 == [j \in P \cup {i} |-> IF j = i THEN b ELSE g[j]]
<1>2. f2[i] = a /\ g2[i] = b /\ \A j \in P : f2[j] = f[j] /\ g2[j] = g[j]
  OBVIOUS
<1> HIDE DEF f2, g2
<1>3. \A j \in P \cup {i} : /\ f2[j] \in DOMAIN other
                            /\ g2[j] \in DOMAIN other[f2[j]].parses
                            /\ other[f2[j]].parses[g2[j]].v = vs[j]
  <2>1. \A j \in P : /\ f[j] \in DOMAIN other
                     /\ g[j] \in DOMAIN other[f[j]].parses
                     /\ other[f[j]].parses[g[j]].v = vs[j]
    BY <1>1 DEF Each
  <2>2. QED BY <1>2, <2>1
<1>4. \A j, k \in P \cup {i} : f2[j] = f2[k] /\ g2[j] = g2[k] => j = k
  <2>1. \A j, k \in P : f[j] = f[k] /\ g[j] = g[k] => j = k
    BY <1>1 DEF Each
  <2>2. \A j \in P : ~(f[j] = a /\ g[j] = b)
    BY <1>1 DEF Each
  <2>3. QED BY <1>2, <2>1, <2>2
<1>5. \A c \in DOMAIN other : \A d \in DOMAIN other[c].parses :
        \E j \in P \cup {i} : f2[j] = c /\ g2[j] = d
  <2> SUFFICES ASSUME NEW c \in DOMAIN other, NEW d \in DOMAIN other[c].parses
               PROVE  \E j \in P \cup {i} : f2[j] = c /\ g2[j] = d
    OBVIOUS
  <2>1. CASE c = a /\ d = b
    BY <1>2, <2>1
  <2>2. CASE c \in DOMAIN plans /\ d \in DOMAIN plans[c].parses
    <3>1. PICK j \in P : f[j] = c /\ g[j] = d
      BY <1>1, <2>2 DEF Each
    <3>2. QED BY <1>2, <3>1
  <2>3. QED BY <2>1, <2>2
<1>6. Each(f2, g2, other, vs, P \cup {i})
  BY <1>3, <1>4, <1>5 DEF Each
<1>7. QED BY <1>6 DEF Whole

(* The variables under other places. *)
LEMMA Reordered ==
    ASSUME NEW plans, NEW s, NEW vs, NEW n, NEW P, NEW p, p \in [n -> P],
           Whole(plans, s, n),
           \A i \in n : s[i] = vs[p[i]],
           \A i, j \in n : p[i] = p[j] => i = j,
           \A j \in P : \E i \in n : p[i] = j
    PROVE  Whole(plans, vs, P)
<1>1. PICK f, g : Each(f, g, plans, s, n)
  BY DEF Whole
<1> DEFINE q == [j \in P |-> CHOOSE i \in n : p[i] = j]
<1>2. \A j \in P : q[j] \in n /\ p[q[j]] = j
  OBVIOUS
<1> HIDE DEF q
<1>3. \A i \in n : q[p[i]] = i
  BY <1>2
<1> DEFINE f2 == [j \in P |-> f[q[j]]]
           g2 == [j \in P |-> g[q[j]]]
<1>4. \A j \in P : f2[j] = f[q[j]] /\ g2[j] = g[q[j]]
  OBVIOUS
<1> HIDE DEF f2, g2
<1>5. \A j \in P : /\ f2[j] \in DOMAIN plans
                   /\ g2[j] \in DOMAIN plans[f2[j]].parses
                   /\ plans[f2[j]].parses[g2[j]].v = vs[j]
  <2> SUFFICES ASSUME NEW j \in P
               PROVE  /\ f[q[j]] \in DOMAIN plans
                      /\ g[q[j]] \in DOMAIN plans[f[q[j]]].parses
                      /\ plans[f[q[j]]].parses[g[q[j]]].v = vs[j]
    BY <1>4
  <2>1. q[j] \in n /\ s[q[j]] = vs[j]
    BY <1>2
  <2>2. QED BY <1>1, <2>1 DEF Each
<1>6. \A j, k \in P : f2[j] = f2[k] /\ g2[j] = g2[k] => j = k
  <2> SUFFICES ASSUME NEW j \in P, NEW k \in P, f2[j] = f2[k], g2[j] = g2[k]
               PROVE  j = k
    OBVIOUS
  <2>1. f[q[j]] = f[q[k]] /\ g[q[j]] = g[q[k]] /\ q[j] \in n /\ q[k] \in n
    BY <1>2, <1>4
  <2>2. q[j] = q[k]
    BY <1>1, <2>1 DEF Each
  <2>3. QED BY <1>2, <2>2
<1>7. \A a \in DOMAIN plans : \A b \in DOMAIN plans[a].parses :
        \E j \in P : f2[j] = a /\ g2[j] = b
  <2> SUFFICES ASSUME NEW a \in DOMAIN plans, NEW b \in DOMAIN plans[a].parses
               PROVE  \E j \in P : f2[j] = a /\ g2[j] = b
    OBVIOUS
  <2>1. PICK i \in n : f[i] = a /\ g[i] = b
    BY <1>1 DEF Each
  <2>2. p[i] \in P /\ f2[p[i]] = a /\ g2[p[i]] = b
    BY <1>3, <1>4, <2>1
  <2>3. QED BY <2>2
<1>8. Each(f2, g2, plans, vs, P)
  BY <1>5, <1>6, <1>7 DEF Each
<1>9. QED BY <1>8 DEF Whole

(* The frames of some places, and behind them those of others. *)
LEMMA WholeJoined ==
    ASSUME NEW a, NEW b, IsList(a), IsList(b), NEW vs, NEW P, NEW Q, P \cap Q = {},
           Whole(a, vs, P), Whole(b, vs, Q)
    PROVE  Whole(Join(a, b), vs, P \cup Q)
<1> DEFINE c == Join(a, b)
           n == Len(a)
           m == Len(b)
<1>1. /\ IsList(c) /\ Len(c) = n + m /\ n \in Nat /\ m \in Nat
      /\ \A i \in 1..(n + m) : c[i] = IF i <= n THEN a[i] ELSE b[i - n]
  BY ListsJoined DEF IsList
<1>2. DOMAIN a = 1..n /\ DOMAIN b = 1..m /\ DOMAIN c = 1..(n + m)
  BY <1>1 DEF IsList
<1> HIDE DEF c, n, m
<1>3. PICK f, g : Each(f, g, a, vs, P)
  BY DEF Whole
<1>4. PICK h, k : Each(h, k, b, vs, Q)
  BY DEF Whole
<1> DEFINE R == P \cup Q
           f2 == [i \in R |-> IF i \in P THEN f[i] ELSE n + h[i]]
           g2 == [i \in R |-> IF i \in P THEN g[i] ELSE k[i]]
<1>5. /\ \A i \in P : i \in R /\ f2[i] = f[i] /\ g2[i] = g[i]
      /\ \A i \in Q : i \in R /\ f2[i] = n + h[i] /\ g2[i] = k[i]
      /\ \A i \in R : i \in P \/ i \in Q
  OBVIOUS
<1> HIDE DEF f2, g2, R
<1>6. \A i \in P : f[i] \in 1..n /\ c[f[i]] = a[f[i]]
  BY <1>1, <1>2, <1>3 DEF Each
<1>7. \A i \in Q : h[i] \in 1..m /\ n + h[i] \in (n + 1)..(n + m) /\ c[n + h[i]] = b[h[i]]
  <2> SUFFICES ASSUME NEW i \in Q
               PROVE  h[i] \in 1..m /\ n + h[i] \in (n + 1)..(n + m) /\ c[n + h[i]] = b[h[i]]
    OBVIOUS
  <2>1. h[i] \in 1..m
    BY <1>2, <1>4 DEF Each
  <2>2. n + h[i] \in 1..(n + m) /\ ~(n + h[i] <= n) /\ (n + h[i]) - n = h[i]
        /\ n + h[i] \in (n + 1)..(n + m)
    BY <1>1, <2>1
  <2>3. QED BY <1>1, <2>1, <2>2
<1>8. \A i \in R : /\ f2[i] \in DOMAIN c /\ g2[i] \in DOMAIN c[f2[i]].parses
                   /\ c[f2[i]].parses[g2[i]].v = vs[i]
  <2> SUFFICES ASSUME NEW i \in R
               PROVE  /\ f2[i] \in DOMAIN c /\ g2[i] \in DOMAIN c[f2[i]].parses
                      /\ c[f2[i]].parses[g2[i]].v = vs[i]
    OBVIOUS
  <2>1. CASE i \in P
    <3>1. f2[i] = f[i] /\ g2[i] = g[i] /\ c[f[i]] = a[f[i]] /\ f[i] \in 1..(n + m)
      BY <1>1, <1>5, <1>6, <2>1
    <3>2. g[i] \in DOMAIN a[f[i]].parses /\ a[f[i]].parses[g[i]].v = vs[i]
      BY <1>3, <2>1 DEF Each
    <3>3. QED BY <1>2, <3>1, <3>2
  <2>2. CASE i \in Q
    <3>1. /\ f2[i] = n + h[i] /\ g2[i] = k[i] /\ c[n + h[i]] = b[h[i]]
          /\ n + h[i] \in 1..(n + m)
      BY <1>1, <1>5, <1>7, <2>2
    <3>2. k[i] \in DOMAIN b[h[i]].parses /\ b[h[i]].parses[k[i]].v = vs[i]
      BY <1>4, <2>2 DEF Each
    <3>3. QED BY <1>2, <3>1, <3>2
  <2>3. QED BY <1>5, <2>1, <2>2
<1>9. \A i, j \in R : f2[i] = f2[j] /\ g2[i] = g2[j] => i = j
  <2> SUFFICES ASSUME NEW i \in R, NEW j \in R, f2[i] = f2[j], g2[i] = g2[j]
               PROVE  i = j
    OBVIOUS
  <2>1. CASE i \in P /\ j \in P
    BY <1>3, <1>5, <2>1 DEF Each
  <2>2. CASE i \in Q /\ j \in Q
    <3>1. n + h[i] = n + h[j] /\ k[i] = k[j] /\ h[i] \in 1..m /\ h[j] \in 1..m
      BY <1>5, <1>7, <2>2
    <3>2. h[i] = h[j]
      BY <1>1, <3>1
    <3>3. QED BY <1>4, <2>2, <3>1, <3>2 DEF Each
  <2>3. ~(i \in P /\ j \in Q) /\ ~(i \in Q /\ j \in P)
    BY <1>1, <1>5, <1>6, <1>7
  <2>4. QED BY <1>5, <2>1, <2>2, <2>3
<1>10. \A x \in DOMAIN c : \A y \in DOMAIN c[x].parses :
         \E i \in R : f2[i] = x /\ g2[i] = y
  <2> SUFFICES ASSUME NEW x \in 1..(n + m), NEW y \in DOMAIN c[x].parses
               PROVE  \E i \in R : f2[i] = x /\ g2[i] = y
    BY <1>2
  <2>1. CASE x <= n
    <3>1. x \in DOMAIN a /\ c[x] = a[x]
      BY <1>1, <1>2, <2>1
    <3>2. PICK i \in P : f[i] = x /\ g[i] = y
      BY <1>3, <3>1 DEF Each
    <3>3. QED BY <1>5, <3>2
  <2>2. CASE ~(x <= n)
    <3>1. x - n \in DOMAIN b /\ c[x] = b[x - n] /\ n + (x - n) = x
      BY <1>1, <1>2, <2>2
    <3>2. PICK i \in Q : h[i] = x - n /\ k[i] = y
      BY <1>4, <3>1 DEF Each
    <3>3. QED BY <1>5, <3>1, <3>2
  <2>3. QED BY <2>1, <2>2
<1>11. Each(f2, g2, c, vs, R)
  BY <1>8, <1>9, <1>10 DEF Each
<1>12. QED BY <1>11 DEF Whole, c, R

LEMMA Appended ==
    ASSUME NEW s, IsList(s), NEW x
    PROVE  /\ IsList(Append(s, x)) /\ Len(Append(s, x)) = Len(s) + 1
           /\ DOMAIN s = 1..Len(s) /\ DOMAIN Append(s, x) = 1..(Len(s) + 1)
           /\ \A i \in 1..Len(s) : Append(s, x)[i] = s[i]
           /\ Append(s, x)[Len(s) + 1] = x
<1> DEFINE S == {s[i] : i \in 1..Len(s)}
           B == S \cup {x}
           t == Append(s, x)
<1>1. Len(s) \in Nat /\ s \in Seq(S) /\ DOMAIN s = 1..Len(s)
  BY ListOf DEF IsList
<1>2. S \subseteq B /\ x \in B
  OBVIOUS
<1> HIDE DEF S, B
<1>3. s \in Seq(B)
  BY <1>1, <1>2, InAList
<1>4. /\ t \in Seq(B) /\ Len(t) = Len(s) + 1 /\ DOMAIN t = 1..(Len(s) + 1)
      /\ \A i \in 1..Len(s) : t[i] = s[i]
      /\ t[Len(s) + 1] = x
  BY <1>2, <1>3
<1> HIDE DEF t
<1>5. IsList(t)
  BY <1>1, <1>4 DEF IsList
<1>6. QED BY <1>1, <1>4, <1>5 DEF t

(* A variable joins the last frame. *)
LEMMA Grown ==
    ASSUME NEW done, IsList(done), NEW open, NEW bigger, NEW parse, NEW vs, NEW P, NEW i,
           i \notin P, Whole(Append(done, open), vs, P),
           IsList(open.parses), bigger.parses = Append(open.parses, parse), parse.v = vs[i]
    PROVE  Whole(Append(done, bigger), vs, P \cup {i})
<1> DEFINE plans == Append(done, open)
           other == Append(done, bigger)
           n == Len(done)
           a == n + 1
           b == Len(open.parses) + 1
<1>1. /\ n \in Nat /\ DOMAIN plans = 1..a /\ DOMAIN other = 1..a
      /\ \A c \in 1..n : plans[c] = done[c] /\ other[c] = done[c]
      /\ plans[a] = open /\ other[a] = bigger
  BY Appended DEF IsList
<1>2. /\ b \in Nat /\ DOMAIN open.parses = 1..(b - 1) /\ DOMAIN bigger.parses = 1..b
      /\ \A d \in 1..(b - 1) : bigger.parses[d] = open.parses[d]
      /\ bigger.parses[b] = parse
  <2>1. Len(open.parses) \in Nat /\ (Len(open.parses) + 1) - 1 = Len(open.parses)
    BY DEF IsList
  <2>2. QED BY <2>1, Appended
<1> HIDE DEF plans, other, b
<1>3. a \in DOMAIN other /\ b \in DOMAIN other[a].parses /\ other[a].parses[b].v = vs[i]
  BY <1>1, <1>2
<1>4. ~(a \in DOMAIN plans /\ b \in DOMAIN plans[a].parses)
  BY <1>1, <1>2
<1>5. \A c \in DOMAIN plans : c \in 1..n \/ c = a
  BY <1>1
<1> HIDE DEF a
<1>6. \A c \in DOMAIN plans : \A d \in DOMAIN plans[c].parses :
         /\ c \in DOMAIN other /\ d \in DOMAIN other[c].parses
         /\ other[c].parses[d].v = plans[c].parses[d].v
  <2> SUFFICES ASSUME NEW c \in DOMAIN plans, NEW d \in DOMAIN plans[c].parses
               PROVE  d \in DOMAIN other[c].parses
                      /\ other[c].parses[d] = plans[c].parses[d]
    BY <1>1
  <2>1. CASE c \in 1..n
    BY <1>1, <2>1
  <2>2. CASE c = a
    BY <1>1, <1>2, <2>2
  <2>3. QED BY <1>5, <2>1, <2>2
<1>7. \A c \in DOMAIN other : \A d \in DOMAIN other[c].parses :
         \/ c = a /\ d = b
         \/ c \in DOMAIN plans /\ d \in DOMAIN plans[c].parses
  <2> SUFFICES ASSUME NEW c \in DOMAIN other, NEW d \in DOMAIN other[c].parses,
                      ~(c = a /\ d = b)
               PROVE  c \in DOMAIN plans /\ d \in DOMAIN plans[c].parses
    OBVIOUS
  <2>1. CASE c \in 1..n
    BY <1>1, <2>1
  <2>2. CASE c = a
    BY <1>1, <1>2, <2>2
  <2>3. QED BY <1>1, <1>5, <2>1, <2>2
<1>8. Whole(plans, vs, P)
  BY DEF plans
<1>9. Whole(other, vs, P \cup {i})
  BY <1>3, <1>4, <1>6, <1>7, <1>8, OneMore
<1>10. QED BY <1>9 DEF other

(* An empty frame comes behind the others, or goes. *)
LEMMA EmptyBehind ==
    ASSUME NEW done, IsList(done), NEW open, NEW vs, NEW P, DOMAIN open.parses = {}
    PROVE  Whole(Append(done, open), vs, P) <=> Whole(done, vs, P)
<1> DEFINE plans == Append(done, open)
           n == Len(done)
<1>1. /\ n \in Nat /\ DOMAIN done = 1..n /\ DOMAIN plans = 1..(n + 1)
      /\ \A c \in 1..n : plans[c] = done[c]
      /\ plans[n + 1] = open
  BY Appended DEF IsList
<1> HIDE DEF plans, n
<1>2. \A c \in DOMAIN plans : c \in DOMAIN done \/ c = n + 1
  BY <1>1
<1>3. \A c \in DOMAIN done : c \in DOMAIN plans /\ plans[c] = done[c]
  BY <1>1
<1>4. \A c \in DOMAIN plans : \A d \in DOMAIN plans[c].parses :
         c \in DOMAIN done /\ plans[c] = done[c]
  BY <1>1, <1>2, <1>3
<1>5. Whole(plans, vs, P) => Whole(done, vs, P)
  BY <1>3, <1>4, SameWhole
<1>6. Whole(done, vs, P) => Whole(plans, vs, P)
  BY <1>3, <1>4, SameWhole
<1>7. QED BY <1>5, <1>6 DEF plans

LEMMA PutParses ==
    ASSUME NEW E, NEW f \in FramesOf(E), NEW v
    PROVE  /\ IsList(f.parses)
           /\ \E parse : Put(f, v).parses = Append(f.parses, parse) /\ parse.v = v
<1> DEFINE offset == (v.address - f.start) % UintMod
           coil == f.code \in Coils
           parse == [v |-> v, at |-> IF coil THEN offset ELSE offset * 2]
           size == offset + (IF coil THEN 1 ELSE DataTypeWord(v.type))
           parses == Append(f.parses, parse)
<1>1. f = [code |-> f.code, start |-> f.start, size |-> f.size, parses |-> f.parses]
      /\ f.parses \in Seq([v : E, at : Nat])
  BY DEF FramesOf
<1>2. parse.v = v
  OBVIOUS
<1> HIDE DEF parse
<1>3. Put(f, v) = [f EXCEPT !.size = size, !.parses = parses]
  BY DEF Put, parse
<1> HIDE DEF size, parses
<1>4. Put(f, v).parses = parses
  BY <1>1, <1>3
<1>5. IsList(f.parses)
  BY <1>1 DEF IsList
<1>6. QED BY <1>2, <1>4, <1>5 DEF parses

LEMMA FramesList ==
    ASSUME NEW F, NEW s \in Seq(F)
    PROVE  IsList(s)
BY DEF IsList

LEMMA EmptyIsWhole ==
    ASSUME NEW vs
    PROVE  Whole(<< >>, vs, {}) /\ IsList(<< >>)
BY NothingIsWhole DEF IsList

LEMMA Next1Is == \A n \in Nat : \A k \in 1..n : 1..k = (1..(k - 1)) \cup {k} /\ k \notin 1..(k - 1)
                                              /\ k \in 0..n /\ k - 1 \in 0..n
OBVIOUS

(* A plan has each variable of its list in one frame. *)
LEMMA PlanIsWhole ==
    ASSUME NEW E, Variables(E), NEW s \in Seq(E), s # << >>,
           NEW code \in Codes, NEW position \in Nat
    PROVE  Whole(Plan(code, s, position), s, 1..Len(s))
<1> DEFINE n == Len(s)
           V == [done : Seq(FramesOf(E)), open : FramesOf(E)]
<1>1. PICK run : PlanRun(run, E, code, s, position)
  BY PlanRuns
<1> DEFINE K == {k \in 0..n : Whole(Append(run[k].done, run[k].open), s, 1..k)}
<1>2. n \in Nat /\ n \in 0..n /\ 0 \in 0..n /\ 1..0 = {}
  OBVIOUS
<1>3. \A k \in 0..n : run[k] \in V
  BY <1>1 DEF PlanRun
<1>4. ASSUME NEW k \in 0..n
      PROVE  /\ run[k].done \in Seq(FramesOf(E)) /\ IsList(run[k].done)
             /\ run[k].open \in FramesOf(E)
             /\ run[k] = [done |-> run[k].done, open |-> run[k].open]
  <2>1. /\ run[k].done \in Seq(FramesOf(E)) /\ run[k].open \in FramesOf(E)
        /\ run[k] = [done |-> run[k].done, open |-> run[k].open]
    BY <1>3
  <2>2. QED BY <2>1, FramesList
<1>5. \A c, start : DOMAIN NoFrame(c, start).parses = {} /\ NoFrame(c, start).parses = << >>
  BY DEF NoFrame
<1> HIDE DEF n
<1>6. 0 \in K
  <2>1. run[0] = [done |-> << >>,
                  open |-> NoFrame(code, (s[1].address - position) % UintMod)]
    BY <1>1 DEF PlanRun
  <2>2. DOMAIN run[0].open.parses = {} /\ run[0].done = << >>
    BY <1>5, <2>1
  <2>3. Whole(<< >>, s, {})
    BY EmptyIsWhole
  <2>4. Whole(Append(run[0].done, run[0].open), s, {})
    BY <1>2, <1>4, <2>2, <2>3, EmptyBehind
  <2>5. QED BY <1>2, <2>4
<1>7. ASSUME NEW k \in 1..n, k - 1 \in K PROVE k \in K
  <2> DEFINE old == run[k - 1]
             frames1 == Append(old.done, old.open)
             fresh == NoFrame(code, s[k].address)
  <2>1. 1..k = (1..(k - 1)) \cup {k} /\ k \notin 1..(k - 1) /\ k \in 0..n /\ k - 1 \in 0..n
    BY <1>2, Next1Is
  <2>2. Whole(frames1, s, 1..(k - 1))
    BY <1>7
  <2>3. /\ old.done \in Seq(FramesOf(E)) /\ IsList(old.done) /\ old.open \in FramesOf(E)
        /\ old = [done |-> old.done, open |-> old.open]
    BY <1>4, <2>1
  <2>4. run[k] = IF Reach(code, s[k]) <= Limit(old.open)
                 THEN [old EXCEPT !.open = Put(@, s[k])]
                 ELSE [done |-> frames1, open |-> Put(fresh, s[k])]
    BY <1>1 DEF PlanRun, n
  <2>5. s[k] \in E /\ s[k].address \in Nat
    BY DEF n, Variables
  <2>6. fresh \in FramesOf(E) /\ DOMAIN fresh.parses = {}
    BY <1>5, <2>5, NoFrameIs
  <2> HIDE DEF old, fresh
  <2>7. CASE Reach(code, s[k]) <= Limit(old.open)
    <3>1. run[k].done = old.done /\ run[k].open = Put(old.open, s[k])
      BY <2>3, <2>4, <2>7
    <3>2. PICK parse : Put(old.open, s[k]).parses = Append(old.open.parses, parse)
                       /\ parse.v = s[k]
      BY <2>3, PutParses
    <3>3. IsList(old.open.parses)
      BY <2>3, PutParses
    <3>4. Whole(Append(old.done, Put(old.open, s[k])), s, (1..(k - 1)) \cup {k})
      BY <2>1, <2>2, <2>3, <3>2, <3>3, Grown
    <3>5. QED BY <2>1, <3>1, <3>4
  <2>8. CASE ~(Reach(code, s[k]) <= Limit(old.open))
    <3>1. run[k].done = frames1 /\ run[k].open = Put(fresh, s[k])
      BY <2>4, <2>8
    <3>2. frames1 \in Seq(FramesOf(E))
      BY <2>3
    <3>3. IsList(frames1)
      BY <3>2, FramesList
    <3> HIDE DEF frames1
    <3>4. Whole(Append(frames1, fresh), s, 1..(k - 1))
      BY <2>2, <2>6, <3>3, EmptyBehind
    <3>5. PICK parse : Put(fresh, s[k]).parses = Append(fresh.parses, parse)
                       /\ parse.v = s[k]
      BY <2>6, PutParses
    <3>6. IsList(fresh.parses)
      BY <2>6, PutParses
    <3>7. Whole(Append(frames1, Put(fresh, s[k])), s, (1..(k - 1)) \cup {k})
      BY <2>1, <3>3, <3>4, <3>5, <3>6, Grown
    <3>8. QED BY <2>1, <3>1, <3>7
  <2>9. QED BY <2>7, <2>8
<1> HIDE DEF K
<1>8. n \in K
  BY <1>2, <1>6, <1>7, Counting
<1>9. Plan(code, s, position) = Append(run[n].done, run[n].open)
  BY <1>1 DEF PlanRun, n
<1>10. QED BY <1>8, <1>9 DEF K, n

LEMMA TakeParses ==
    ASSUME NEW E, NEW f \in Filled7(E), NEW v
    PROVE  /\ IsList(f.parses)
           /\ (\E parse : Take(f, v).parses = Append(f.parses, parse) /\ parse.v = v)
           /\ Take(f, v).items # << >>
<1> DEFINE shared == {i \in DOMAIN f.items : SamePlace(f.items[i], v)}
           i == CHOOSE j \in shared : TRUE
           more == 4 + DataResponseLength(v.type, f.zone)
<1>1. /\ f = [zone |-> f.zone, items |-> f.items, starts |-> f.starts,
              parses |-> f.parses, length |-> f.length]
      /\ f.parses \in Seq([v : E, at : Nat]) /\ f.items \in Seq(Items(E))
  BY DEF Filled7, S7FramesOf
<1>2. IsList(f.parses)
  BY <1>1 DEF IsList
<1>3. CASE shared # {}
  <2> DEFINE parse == [v |-> v, at |-> f.starts[i]]
             parses == Append(f.parses, parse)
  <2>1. parse.v = v
    OBVIOUS
  <2>2. Take(f, v) = [f EXCEPT !.parses = parses]
    BY <1>3 DEF Take
  <2> HIDE DEF parse, parses
  <2>3. Take(f, v).parses = parses /\ Take(f, v).items = f.items
    BY <1>1, <2>2
  <2>4. f.items # << >>
    BY <1>3
  <2>5. QED BY <1>2, <2>1, <2>3, <2>4 DEF parses
<1>4. CASE shared = {}
  <2> DEFINE parse == [v |-> v, at |-> f.length]
             parses == Append(f.parses, parse)
             items == Append(f.items, ItemOf(v, f.zone))
             starts == Append(f.starts, f.length)
             length == f.length + more
  <2>1. parse.v = v
    OBVIOUS
  <2>2. Take(f, v) = [f EXCEPT !.items = items, !.starts = starts, !.parses = parses,
                               !.length = length]
    BY <1>4 DEF Take
  <2>3. items # << >>
    BY <1>1
  <2> HIDE DEF parse, parses, items, starts, length
  <2>4. Take(f, v).parses = parses /\ Take(f, v).items = items
    BY <1>1, <2>2
  <2>5. QED BY <1>2, <2>1, <2>3, <2>4 DEF parses
<1>5. QED BY <1>3, <1>4

LEMMA S7PlanIsWhole ==
    ASSUME NEW E, Placed(E), NEW s \in Seq(E), NEW zone \in Zones, NEW pdu,
           MaxItemPerDataFrame(pdu) \in Nat \ {0}
    PROVE  Whole(S7Plan(zone, s, pdu), s, 1..Len(s))
<1> DEFINE n == Len(s)
           max == MaxItemPerDataFrame(pdu)
           V == [done : Seq(AtMost(E, max)), open : Open(E, max)]
           first == EmptyFrame(zone)
<1>1. PICK run : S7PlanRun(run, E, zone, s, pdu)
  BY S7PlanRuns
<1> DEFINE Good(k) == /\ Whole(Append(run[k].done, run[k].open), s, 1..k)
                      /\ run[k].open.items = << >> => run[k].open.parses = << >>
           K == {k \in 0..n : Good(k)}
<1>2. n \in Nat /\ n \in 0..n /\ 0 \in 0..n /\ 1..0 = {}
  OBVIOUS
<1> HIDE DEF max
<1>3. \A k \in 0..n : run[k] \in V
  BY <1>1 DEF S7PlanRun, max
<1>4. ASSUME NEW k \in 0..n
      PROVE  /\ run[k].done \in Seq(AtMost(E, max)) /\ IsList(run[k].done)
             /\ run[k].open \in Filled7(E)
             /\ run[k] = [done |-> run[k].done, open |-> run[k].open]
  <2>1. /\ run[k].done \in Seq(AtMost(E, max)) /\ run[k].open \in Open(E, max)
        /\ run[k] = [done |-> run[k].done, open |-> run[k].open]
    BY <1>3
  <2>2. QED BY <2>1, FramesList DEF Open
<1>5. DOMAIN first.parses = {} /\ first.parses = << >> /\ first.items = << >>
  BY DEF EmptyFrame
<1> HIDE DEF n, first
<1>6. 0 \in K
  <2>1. run[0] = [done |-> << >>, open |-> first]
    BY <1>1 DEF S7PlanRun, first
  <2>2. DOMAIN run[0].open.parses = {} /\ run[0].done = << >> /\ run[0].open = first
    BY <1>5, <2>1
  <2>3. Whole(<< >>, s, {})
    BY EmptyIsWhole
  <2>4. Whole(Append(run[0].done, run[0].open), s, {})
    BY <1>2, <1>4, <2>2, <2>3, EmptyBehind
  <2>5. QED BY <1>2, <1>5, <2>2, <2>4
<1>7. ASSUME NEW k \in 1..n, k - 1 \in K PROVE k \in K
  <2> DEFINE old == run[k - 1]
             filled == Take(old.open, s[k])
             frames1 == Append(old.done, filled)
  <2>1. 1..k = (1..(k - 1)) \cup {k} /\ k \notin 1..(k - 1) /\ k \in 0..n /\ k - 1 \in 0..n
    BY <1>2, Next1Is
  <2>2. Whole(Append(old.done, old.open), s, 1..(k - 1))
    BY <1>7
  <2>3. /\ old.done \in Seq(AtMost(E, max)) /\ IsList(old.done) /\ old.open \in Filled7(E)
        /\ old = [done |-> old.done, open |-> old.open]
    BY <1>4, <2>1
  <2>4. run[k] = IF Len(filled.items) = max
                 THEN [done |-> frames1, open |-> first]
                 ELSE [old EXCEPT !.open = filled]
    BY <1>1 DEF S7PlanRun, n, max, first
  <2> HIDE DEF old
  <2>5. PICK parse : Take(old.open, s[k]).parses = Append(old.open.parses, parse)
                     /\ parse.v = s[k]
    BY <2>3, TakeParses
  <2>6. IsList(old.open.parses) /\ filled.items # << >>
        /\ filled.parses = Append(old.open.parses, parse)
    BY <2>3, <2>5, TakeParses
  <2> HIDE DEF filled
  <2>7. Whole(frames1, s, (1..(k - 1)) \cup {k})
    BY <2>1, <2>2, <2>3, <2>5, <2>6, Grown
  <2>8. IsList(frames1)
    BY <2>3, Appended
  <2> HIDE DEF frames1
  <2>9. CASE Len(filled.items) = max
    <3>1. run[k].done = frames1 /\ run[k].open = first
      BY <2>4, <2>9
    <3>2. Whole(Append(frames1, first), s, (1..(k - 1)) \cup {k})
      BY <1>5, <2>7, <2>8, EmptyBehind
    <3>3. QED BY <1>5, <2>1, <3>1, <3>2
  <2>10. CASE Len(filled.items) # max
    <3>1. run[k].done = old.done /\ run[k].open = filled
      BY <2>3, <2>4, <2>10
    <3>2. QED BY <2>1, <2>6, <2>7, <3>1 DEF frames1
  <2>11. QED BY <2>9, <2>10
<1> HIDE DEF K
<1>8. n \in K
  BY <1>2, <1>6, <1>7, Counting
<1>9. /\ Whole(Append(run[n].done, run[n].open), s, 1..n)
      /\ run[n].open.items = << >> => run[n].open.parses = << >>
  BY <1>8 DEF K
<1>10. S7Plan(zone, s, pdu) = IF run[n].open.items = << >> THEN run[n].done
                              ELSE Append(run[n].done, run[n].open)
  BY <1>1 DEF S7PlanRun, n
<1>11. CASE run[n].open.items = << >>
  <2>0. DOMAIN << >> = {}
    OBVIOUS
  <2>1. run[n].open.parses = << >> /\ IsList(run[n].done)
    BY <1>2, <1>4, <1>9, <1>11
  <2>2. Whole(run[n].done, s, 1..n)
    BY <1>9, <2>0, <2>1, EmptyBehind
  <2>3. QED BY <1>10, <1>11, <2>2 DEF n
<1>12. QED BY <1>9, <1>10, <1>11 DEF n

(* The variables of some places in an order: each of them once. *)
LEMMA OrdersOnce ==
    ASSUME NEW E, NEW vs \in Seq(E), NEW places \in SUBSET DOMAIN vs,
           NEW s \in Orders(vs, places), NEW plans, Whole(plans, s, 1..Len(s))
    PROVE  Whole(plans, vs, places)
<1> DEFINE last == Len(vs)
           n == Cardinality(places)
<1>1. IsFiniteSet(places) /\ n \in Nat
  <2>1. last \in Nat /\ DOMAIN vs = 1..last
    OBVIOUS
  <2> HIDE DEF last
  <2>2. IsFiniteSet(1..last)
    BY <2>1, FS_Interval
  <2>3. QED BY <2>1, <2>2, FS_Subset, FS_CardinalityType
<1>2. PICK p \in SetToSeqs(places) : s = [i \in 1..n |-> vs[p[i]]]
  BY DEF Orders
<1>3. p \in [1..n -> places] /\ \A i, j \in 1..n : i # j => p[i] # p[j]
  BY <1>2 DEF SetToSeqs
<1> HIDE DEF n, last
<1>4. Len(s) = n /\ \A i \in 1..n : s[i] = vs[p[i]]
  <2>1. s \in [1..n -> {vs[p[i]] : i \in 1..n}]
    BY <1>2
  <2>2. Len(s) = n
    BY <1>1, <2>1
  <2>3. QED BY <1>2, <2>2
<1>5. p \in Injection(1..n, places)
  BY <1>3 DEF Injection, IsInjective
<1>6. IsFiniteSet(1..n) /\ Cardinality(1..n) = n
  BY <1>1, FS_Interval
<1>7. p \in Surjection(1..n, places)
  BY <1>1, <1>5, <1>6, FS_Injection DEF n
<1>8. \A j \in places : \E i \in 1..n : p[i] = j
  BY <1>7 DEF Surjection
<1>9. QED BY <1>3, <1>4, <1>8, Reordered

LEMMA FourWhole ==
    ASSUME NEW a, NEW b, NEW c, NEW d,
           IsList(a), IsList(b), IsList(c), IsList(d),
           NEW vs, NEW P, NEW Q, NEW R, NEW S,
           P \cap Q = {}, P \cap R = {}, P \cap S = {}, Q \cap R = {}, Q \cap S = {}, R \cap S = {},
           Whole(a, vs, P), Whole(b, vs, Q), Whole(c, vs, R), Whole(d, vs, S)
    PROVE  Whole(a \o b \o c \o d, vs, P \cup Q \cup R \cup S)
<1>1. IsList(Join(a, b)) /\ Whole(Join(a, b), vs, P \cup Q)
  BY ListsJoined, WholeJoined
<1>2. (P \cup Q) \cap R = {} /\ ((P \cup Q) \cup R) \cap S = {}
  OBVIOUS
<1>3. IsList(Join(Join(a, b), c)) /\ Whole(Join(Join(a, b), c), vs, (P \cup Q) \cup R)
  BY <1>1, <1>2, ListsJoined, WholeJoined
<1>4. Whole(Join(Join(Join(a, b), c), d), vs, ((P \cup Q) \cup R) \cup S)
  BY <1>2, <1>3, WholeJoined
<1>5. QED BY <1>4 DEF Join

LEMMA ModbusPlansAreWhole ==
    ASSUME NEW E, Variables(E), NEW vs \in Seq(E), NEW position \in Nat,
           NEW plans \in ModbusPlans(vs, position)
    PROVE  Whole(plans, vs, DOMAIN vs)
<1> DEFINE Of(code) == {i \in DOMAIN vs : vs[i].code = code}
           PlansOf(code) == IF Of(code) = {} THEN {<< >>}
                            ELSE {Plan(code, s, position) : s \in ByAddress(vs, Of(code))}
<1>1. ASSUME NEW code \in Codes, NEW x \in PlansOf(code)
      PROVE  IsList(x) /\ Whole(x, vs, Of(code))
  <2>1. CASE Of(code) = {}
    <3>1. x = << >>
      BY <1>1, <2>1
    <3>2. IsList(x)
      BY <3>1, EmptyIsWhole DEF IsList
    <3>3. Whole(x, vs, {})
      BY <3>1, EmptyIsWhole
    <3>4. QED BY <2>1, <3>2, <3>3
  <2>2. CASE Of(code) # {}
    <3>1. PICK s \in ByAddress(vs, Of(code)) : x = Plan(code, s, position)
      BY <1>1, <2>2
    <3>2. s \in Orders(vs, Of(code))
      BY <3>1 DEF ByAddress
    <3> HIDE DEF PlansOf
    <3>3. s \in Seq(E) /\ s # << >>
      BY <2>2, <3>2, OrdersOf
    <3>4. Whole(x, s, 1..Len(s)) /\ x \in Seq(FramesOf(E))
      BY <3>1, <3>3, PlanIs, PlanIsWhole
    <3>5. IsList(x)
      BY <3>4, FramesList
    <3>6. Of(code) \in SUBSET DOMAIN vs
      OBVIOUS
    <3> HIDE DEF Of
    <3>7. Whole(x, vs, Of(code))
      BY <3>2, <3>4, <3>6, OrdersOnce
    <3>8. QED BY <3>5, <3>7
  <2>3. QED BY <2>1, <2>2
<1>2. 1 \in Codes /\ 2 \in Codes /\ 3 \in Codes /\ 4 \in Codes
      /\ \A code \in Codes : code \in {1, 2, 3, 4}
  BY DEF Codes, Coils, Registers
<1> DEFINE all == {a \o b \o c \o d : a \in PlansOf(1), b \in PlansOf(2),
                                       c \in PlansOf(3), d \in PlansOf(4)}
<1>3. ModbusPlans(vs, position) = all
  BY DEF ModbusPlans
<1> HIDE DEF PlansOf
<1>4. PICK a \in PlansOf(1), b \in PlansOf(2), c \in PlansOf(3), d \in PlansOf(4) :
        plans = a \o b \o c \o d
  BY <1>3
<1>5. /\ IsList(a) /\ IsList(b) /\ IsList(c) /\ IsList(d)
      /\ Whole(a, vs, Of(1)) /\ Whole(b, vs, Of(2)) /\ Whole(c, vs, Of(3)) /\ Whole(d, vs, Of(4))
  BY <1>1, <1>2
<1>6. /\ Of(1) \cap Of(2) = {} /\ Of(1) \cap Of(3) = {} /\ Of(1) \cap Of(4) = {}
      /\ Of(2) \cap Of(3) = {} /\ Of(2) \cap Of(4) = {} /\ Of(3) \cap Of(4) = {}
  OBVIOUS
<1>7. DOMAIN vs = Of(1) \cup Of(2) \cup Of(3) \cup Of(4)
  <2>1. \A i \in DOMAIN vs : vs[i].code \in {1, 2, 3, 4}
    BY <1>2 DEF Variables
  <2>2. QED BY <2>1
<1> HIDE DEF Of, all
<1>8. Whole(a \o b \o c \o d, vs, Of(1) \cup Of(2) \cup Of(3) \cup Of(4))
  BY <1>5, <1>6, FourWhole
<1>9. QED BY <1>4, <1>7, <1>8

LEMMA S7PlansAreWhole ==
    ASSUME NEW E, Placed(E), NEW vs \in Seq(E), NEW pdu,
           MaxItemPerDataFrame(pdu) \in Nat \ {0}, NEW plans \in S7Plans(vs, pdu)
    PROVE  Whole(plans, vs, DOMAIN vs)
<1> DEFINE In(zone) == {i \in DOMAIN vs : vs[i].where.zone = zone}
           PlansIn(zone) == {S7Plan(zone, s, pdu) : s \in Sorted(vs, In(zone))}
<1>1. ASSUME NEW zone \in Zones, NEW x \in PlansIn(zone)
      PROVE  IsList(x) /\ Whole(x, vs, In(zone))
  <2>1. PICK s \in Sorted(vs, In(zone)) : x = S7Plan(zone, s, pdu)
    BY <1>1
  <2>2. s \in Orders(vs, In(zone))
    BY <2>1 DEF Sorted
  <2> HIDE DEF PlansIn
  <2>3. s \in Seq(E)
    BY <2>2, OrdersOf
  <2>4. Whole(x, s, 1..Len(s)) /\ x \in Seq(AtMost(E, MaxItemPerDataFrame(pdu)))
    BY <2>1, <2>3, S7PlanIs, S7PlanIsWhole
  <2>5. IsList(x)
    BY <2>4, FramesList
  <2>6. In(zone) \in SUBSET DOMAIN vs
    OBVIOUS
  <2> HIDE DEF In
  <2>7. Whole(x, vs, In(zone))
    BY <2>2, <2>4, <2>6, OrdersOnce
  <2>8. QED BY <2>5, <2>7
<1>2. "I" \in Zones /\ "Q" \in Zones /\ "M" \in Zones /\ "DB" \in Zones
      /\ \A zone \in Zones : zone \in {"I", "Q", "M", "DB"}
  BY DEF Zones
<1> DEFINE all == {a \o b \o c \o d : a \in PlansIn("I"), b \in PlansIn("Q"),
                                       c \in PlansIn("M"), d \in PlansIn("DB")}
<1>3. S7Plans(vs, pdu) = all
  BY DEF S7Plans
<1> HIDE DEF all, PlansIn
<1>4. plans \in all
  BY <1>3
<1>5. PICK a \in PlansIn("I"), b \in PlansIn("Q"), c \in PlansIn("M"), d \in PlansIn("DB") :
        plans = a \o b \o c \o d
  BY <1>4 DEF all
<1>6. /\ IsList(a) /\ IsList(b) /\ IsList(c) /\ IsList(d)
      /\ Whole(a, vs, In("I")) /\ Whole(b, vs, In("Q"))
      /\ Whole(c, vs, In("M")) /\ Whole(d, vs, In("DB"))
  BY <1>1, <1>2
<1>7. /\ In("I") \cap In("Q") = {} /\ In("I") \cap In("M") = {} /\ In("I") \cap In("DB") = {}
      /\ In("Q") \cap In("M") = {} /\ In("Q") \cap In("DB") = {} /\ In("M") \cap In("DB") = {}
  OBVIOUS
<1>8. DOMAIN vs = In("I") \cup In("Q") \cup In("M") \cup In("DB")
  <2>1. \A i \in DOMAIN vs : vs[i].where.zone \in {"I", "Q", "M", "DB"}
    BY <1>2 DEF Placed
  <2>2. QED BY <2>1
<1> HIDE DEF In
<1>9. Whole(a \o b \o c \o d, vs, In("I") \cup In("Q") \cup In("M") \cup In("DB"))
  BY <1>6, <1>7, FourWhole
<1>10. QED BY <1>5, <1>8, <1>9

LEMMA PlansAreWhole ==
    ASSUME setup \in Setups, Fitting, NEW t, t.list \in Seq(Requestable),
           NEW plans \in Plans(t)
    PROVE  Whole(plans, t.list, DOMAIN t.list)
<1>1. CASE S7
  <2>1. plans \in S7Plans(t.list, setup.pdu)
    BY <1>1 DEF Plans
  <2>2. MaxItemPerDataFrame(setup.pdu) \in Nat \ {0} /\ Placed(Requestable)
    BY <1>1, RoomyItems, TypedRequests DEF Fitting
  <2>3. QED BY <2>1, <2>2, S7PlansAreWhole
<1>2. CASE ~S7
  <2>1. plans \in ModbusPlans(t.list, setup.position)
    BY <1>2 DEF Plans
  <2>2. setup.position \in Nat /\ Variables(Requestable)
    BY <1>2, ExchangeAssumption, TypedRequests DEF Device
  <2>3. QED BY <2>1, <2>2, ModbusPlansAreWhole
<1>3. QED BY <1>1, <1>2

-----------------------------------------------------------------------------
(* A Modbus frame is long enough for each of its variables, if the device is
   one that its broker reads right. *)

LEMMA SmallRemainder ==
    ASSUME NEW a \in Nat, NEW d \in Nat, a < d
    PROVE  a % d = a
<1>1. d \in Nat \ {0}
  OBVIOUS
<1> DEFINE q == a \div d
<1>2. q \in Nat /\ a % d \in 0..(d - 1)
  BY <1>1, Quotient
<1>3. a = d * q + (a % d)
  BY <1>1
<1> HIDE DEF q
<1>4. CASE q = 0
  <2>1. d * q = 0
    BY <1>4
  <2>2. QED BY <1>2, <1>3, <2>1
<1>5. CASE q # 0
  <2>1. PICK x \in Nat : q = x + 1
    <3>1. q - 1 \in Nat /\ q = (q - 1) + 1
      BY <1>2, <1>5
    <3>2. QED BY <3>1
  <2>2. d * q = d * x + d /\ d * x \in Nat
    BY <2>1
  <2>3. QED BY <1>2, <1>3, <2>2
<1>6. QED BY <1>4, <1>5

(* The address behind a variable. *)
Behind(code, v) == v.address + (IF code \in Coils THEN 1 ELSE DataTypeWord(v.type))

(* In the order of their addresses the variables also end. *)
Even(code, s, position) ==
    /\ \A i, j \in DOMAIN s : i <= j => /\ s[i].address <= s[j].address
                                        /\ Behind(code, s[i]) <= Behind(code, s[j])
    /\ \A i \in DOMAIN s : /\ s[i].code = code
                           /\ position <= s[i].address /\ s[i].address < UintMod

(* A frame that was filled with some of the first k variables. *)
Filling(f, code, s, k) ==
    /\ f.code = code
    /\ \A j \in DOMAIN s : k < j => f.start <= s[j].address
    /\ f.parses # << >> => /\ k \in DOMAIN s /\ f.size = Behind(code, s[k]) - f.start
                           /\ \E b \in DOMAIN f.parses : f.parses[b].v = s[k]
    /\ \A b \in DOMAIN f.parses : \E j \in DOMAIN s :
          /\ j <= k /\ f.parses[b].v = s[j] /\ f.start <= s[j].address
          /\ f.parses[b].at = (IF code \in Coils THEN s[j].address - f.start
                                                 ELSE (s[j].address - f.start) * 2)

Spacious(f) ==
    \A b \in DOMAIN f.parses :
        Needs(f, f.parses[b]) <= (IF f.code \in Coils THEN f.size ELSE f.size * 2)

(* A frame notes where its answer has each of its variables, and ends with
   one of them. *)
Sited(f) ==
    /\ \A b \in DOMAIN f.parses :
          LET v == f.parses[b].v
              far == v.address - f.start
          IN  /\ v.code = f.code /\ f.start <= v.address
              /\ f.parses[b].at = (IF f.code \in Coils THEN far ELSE far * 2)
    /\ f.parses # << >> =>
          \E b \in DOMAIN f.parses : f.start + f.size = Behind(f.code, f.parses[b].v)

Apt(f) == Spacious(f) /\ Sited(f)

LEMMA PutFills ==
    ASSUME NEW E, Variables(E), NEW s \in Seq(E), NEW code \in Codes, NEW position \in Nat,
           Even(code, s, position), NEW k \in DOMAIN s, NEW f \in FramesOf(E),
           Filling(f, code, s, k - 1)
    PROVE  Filling(Put(f, s[k]), code, s, k)
<1> DEFINE v == s[k]
           offset == (v.address - f.start) % UintMod
           coil == f.code \in Coils
           parse == [v |-> v, at |-> IF coil THEN offset ELSE offset * 2]
           width == IF coil THEN 1 ELSE DataTypeWord(v.type)
           size == offset + width
           parses == Append(f.parses, parse)
           g == Put(f, v)
<1>1. f = [code |-> f.code, start |-> f.start, size |-> f.size, parses |-> f.parses]
      /\ f.parses \in Seq([v : E, at : Nat]) /\ f.start \in Nat
  BY DEF FramesOf
<1>2. DOMAIN s = 1..Len(s) /\ Len(s) \in Nat /\ k \in Nat /\ v \in E
  OBVIOUS
<1>3. v.address \in Nat /\ v.address < UintMod /\ f.start <= v.address /\ f.code = code
  BY <1>2 DEF Even, Filling, Variables
<1>4. DataTypeWord(v.type) \in Nat
  BY <1>2 DEF Variables, DataTypes, DataTypeWord
<1> HIDE DEF v
<1>5. offset = v.address - f.start
  <2>1. v.address - f.start \in Nat /\ v.address - f.start < UintMod /\ UintMod \in Nat
    BY <1>1, <1>3, ModbusAssumption
  <2>2. QED BY <2>1, SmallRemainder
<1>6. size = Behind(code, v) - f.start
  <2>1. width \in Nat /\ Behind(code, v) = v.address + width
    BY <1>3, <1>4 DEF Behind
  <2> HIDE DEF width, offset
  <2>2. QED BY <1>1, <1>3, <1>5, <2>1
<1>7. parse.v = v /\ parse.at = (IF code \in Coils THEN v.address - f.start
                                                   ELSE (v.address - f.start) * 2)
  BY <1>3, <1>5
<1> HIDE DEF offset, parse
<1>8. g = [f EXCEPT !.size = size, !.parses = parses]
  BY DEF Put, offset, parse
<1> HIDE DEF size, parses
<1>9. g.code = code /\ g.start = f.start /\ g.size = size /\ g.parses = parses
  BY <1>1, <1>3, <1>8
<1> HIDE DEF g
<1>10. /\ DOMAIN f.parses = 1..Len(f.parses) /\ Len(f.parses) \in Nat
       /\ DOMAIN parses = 1..(Len(f.parses) + 1)
       /\ \A b \in 1..Len(f.parses) : parses[b] = f.parses[b]
       /\ parses[Len(f.parses) + 1] = parse
  <2>1. IsList(f.parses)
    BY <1>1, FramesList
  <2>2. QED BY <2>1, Appended DEF parses, IsList
<1>11. ASSUME NEW b \in DOMAIN parses
       PROVE  \E j \in DOMAIN s :
                /\ j <= k /\ parses[b].v = s[j] /\ f.start <= s[j].address
                /\ parses[b].at = (IF code \in Coils THEN s[j].address - f.start
                                                     ELSE (s[j].address - f.start) * 2)
  <2>1. CASE b \in 1..Len(f.parses)
    <3>1. parses[b] = f.parses[b] /\ b \in DOMAIN f.parses
      BY <1>10, <2>1
    <3>2. PICK j \in DOMAIN s :
            /\ j <= k - 1 /\ f.parses[b].v = s[j] /\ f.start <= s[j].address
            /\ f.parses[b].at = (IF code \in Coils THEN s[j].address - f.start
                                                   ELSE (s[j].address - f.start) * 2)
      BY <3>1 DEF Filling
    <3>3. j <= k
      BY <1>2, <3>2
    <3>4. QED BY <3>1, <3>2, <3>3
  <2>2. CASE b = Len(f.parses) + 1
    <3>1. parses[b] = parse
      BY <1>10, <2>2
    <3>2. k \in DOMAIN s /\ k <= k /\ parse.v = s[k] /\ f.start <= s[k].address
          /\ parse.at = (IF code \in Coils THEN s[k].address - f.start
                                           ELSE (s[k].address - f.start) * 2)
      BY <1>2, <1>3, <1>7 DEF v
    <3>3. QED BY <3>1, <3>2
  <2>3. QED BY <1>10, <2>1, <2>2
<1>12. \A j \in DOMAIN s : k < j => f.start <= s[j].address
  BY <1>2 DEF Filling
<1>13. Filling(g, code, s, k)
  <2>1. k \in DOMAIN s /\ g.size = Behind(code, s[k]) - g.start
    BY <1>6, <1>9 DEF v
  <2>2. \E b \in DOMAIN g.parses : g.parses[b].v = s[k]
    <3>1. Len(f.parses) + 1 \in DOMAIN parses
      BY <1>10
    <3>2. QED BY <1>7, <1>9, <1>10, <3>1 DEF v
  <2>3. QED BY <1>3, <1>9, <1>11, <1>12, <2>1, <2>2 DEF Filling
<1>14. QED BY <1>13 DEF g, v

LEMMA FilledIsSpacious ==
    ASSUME NEW E, Variables(E), NEW s \in Seq(E), NEW code \in Codes, NEW position \in Nat,
           Even(code, s, position), NEW k \in Nat, NEW f \in FramesOf(E),
           Filling(f, code, s, k)
    PROVE  Spacious(f)
<1> SUFFICES ASSUME NEW b \in DOMAIN f.parses
             PROVE  Needs(f, f.parses[b]) <= (IF f.code \in Coils THEN f.size ELSE f.size * 2)
  BY DEF Spacious
<1>1. f.parses # << >> /\ f.start \in Nat /\ f.code = code
  BY DEF FramesOf, Filling
<1>2. PICK j \in DOMAIN s :
        /\ j <= k /\ f.parses[b].v = s[j] /\ f.start <= s[j].address
        /\ f.parses[b].at = (IF code \in Coils THEN s[j].address - f.start
                                               ELSE (s[j].address - f.start) * 2)
  BY DEF Filling
<1>3. k \in DOMAIN s /\ f.size = Behind(code, s[k]) - f.start
  BY <1>1 DEF Filling
<1>4. Behind(code, s[j]) <= Behind(code, s[k])
  BY <1>2, <1>3 DEF Even
<1>5. /\ s[j].address \in Nat /\ s[k].address \in Nat
      /\ DataTypeWord(s[j].type) \in Nat /\ DataTypeWord(s[k].type) \in Nat
  <2>1. s[j] \in E /\ s[k] \in E
    BY <1>2, <1>3
  <2>2. QED BY <2>1 DEF Variables, DataTypes, DataTypeWord
<1>6. CASE code \in Coils
  <2>1. Needs(f, f.parses[b]) = (s[j].address - f.start) + 1
    BY <1>1, <1>2, <1>6 DEF Needs
  <2>2. Behind(code, s[j]) = s[j].address + 1 /\ Behind(code, s[k]) = s[k].address + 1
    BY <1>6 DEF Behind
  <2>3. s[j].address + 1 <= s[k].address + 1 /\ f.size = (s[k].address + 1) - f.start
    BY <1>3, <1>4, <2>2
  <2>4. \A x, y, z \in Nat : x + 1 <= y + 1 => (x - z) + 1 <= (y + 1) - z
    OBVIOUS
  <2>5. (s[j].address - f.start) + 1 <= (s[k].address + 1) - f.start
    BY <1>1, <1>5, <2>3, <2>4
  <2>6. f.code \in Coils
    BY <1>1, <1>6
  <2>7. QED BY <2>1, <2>3, <2>5, <2>6
<1>7. CASE code \notin Coils
  <2> DEFINE m == DataTypeWord(s[j].type)
             n == DataTypeWord(s[k].type)
  <2>1. Needs(f, f.parses[b]) = (s[j].address - f.start) * 2 + 2 * m
    BY <1>1, <1>2, <1>7 DEF Needs
  <2>2. Behind(code, s[j]) = s[j].address + m /\ Behind(code, s[k]) = s[k].address + n
    BY <1>7 DEF Behind
  <2>3. m \in Nat /\ n \in Nat
    BY <1>5
  <2> HIDE DEF m, n
  <2>4. s[j].address + m <= s[k].address + n /\ f.size = (s[k].address + n) - f.start
    BY <1>3, <1>4, <2>2
  <2>5. \A x, y, z \in Nat : x + m <= y + n => (x - z) * 2 + 2 * m <= ((y + n) - z) * 2
    BY <2>3
  <2>6. (s[j].address - f.start) * 2 + 2 * m <= ((s[k].address + n) - f.start) * 2
    BY <1>1, <1>5, <2>4, <2>5
  <2>7. f.code \notin Coils
    BY <1>1, <1>7
  <2>8. QED BY <2>1, <2>4, <2>6, <2>7
<1>8. QED BY <1>6, <1>7

LEMMA FilledIsApt ==
    ASSUME NEW E, Variables(E), NEW s \in Seq(E), NEW code \in Codes, NEW position \in Nat,
           Even(code, s, position), NEW k \in Nat, NEW f \in FramesOf(E),
           Filling(f, code, s, k)
    PROVE  Apt(f)
<1>1. f.start \in Nat /\ f.code = code
  BY DEF FramesOf, Filling
<1>2. ASSUME NEW b \in DOMAIN f.parses
      PROVE  /\ f.parses[b].v.code = f.code /\ f.start <= f.parses[b].v.address
             /\ f.parses[b].at = (IF f.code \in Coils THEN f.parses[b].v.address - f.start
                                  ELSE (f.parses[b].v.address - f.start) * 2)
  <2>1. PICK j \in DOMAIN s :
          /\ j <= k /\ f.parses[b].v = s[j] /\ f.start <= s[j].address
          /\ f.parses[b].at = (IF code \in Coils THEN s[j].address - f.start
                                                 ELSE (s[j].address - f.start) * 2)
    BY DEF Filling
  <2>2. s[j].code = code
    BY DEF Even
  <2>3. QED BY <1>1, <2>1, <2>2
<1>3. ASSUME f.parses # << >>
      PROVE  \E b \in DOMAIN f.parses : f.start + f.size = Behind(f.code, f.parses[b].v)
  <2>1. /\ k \in DOMAIN s /\ f.size = Behind(code, s[k]) - f.start
        /\ \E b \in DOMAIN f.parses : f.parses[b].v = s[k]
    BY <1>3 DEF Filling
  <2>2. PICK b \in DOMAIN f.parses : f.parses[b].v = s[k]
    BY <2>1
  <2>3. s[k] \in E
    BY <2>1
  <2>4. s[k].address \in Nat /\ DataTypeWord(s[k].type) \in Nat
    BY <2>3 DEF Variables, DataTypes, DataTypeWord
  <2>5. Behind(code, s[k]) \in Nat
    BY <2>4 DEF Behind
  <2> DEFINE e == Behind(code, s[k])
  <2> HIDE DEF e
  <2>6. f.size = e - f.start /\ e \in Nat
    BY <2>1, <2>5 DEF e
  <2>7. f.start + f.size = e
    BY <1>1, <2>6
  <2>8. QED BY <1>1, <2>2, <2>7 DEF e
<1>4. QED BY <1>2, <1>3, FilledIsSpacious DEF Apt, Sited

LEMMA PlanIsApt ==
    ASSUME NEW E, Variables(E), NEW s \in Seq(E), s # << >>,
           NEW code \in Codes, NEW position \in Nat, Even(code, s, position),
           NEW a \in DOMAIN Plan(code, s, position)
    PROVE  Apt(Plan(code, s, position)[a])
<1> DEFINE n == Len(s)
<1>1. PICK run : PlanRun(run, E, code, s, position)
  BY PlanRuns
<1> DEFINE K == {k \in 0..n : /\ \A c \in DOMAIN run[k].done : Apt(run[k].done[c])
                              /\ Filling(run[k].open, code, s, k)}
<1>2. n \in Nat /\ n \in 0..n /\ 0 \in 0..n /\ DOMAIN s = 1..n /\ 1 \in DOMAIN s
  OBVIOUS
<1>3. \A k \in 0..n : run[k] \in [done : Seq(FramesOf(E)), open : FramesOf(E)]
  BY <1>1 DEF PlanRun
<1>4. ASSUME NEW k \in 0..n
      PROVE  /\ run[k].done \in Seq(FramesOf(E)) /\ IsList(run[k].done)
             /\ run[k].open \in FramesOf(E)
             /\ run[k] = [done |-> run[k].done, open |-> run[k].open]
  <2>1. /\ run[k].done \in Seq(FramesOf(E)) /\ run[k].open \in FramesOf(E)
        /\ run[k] = [done |-> run[k].done, open |-> run[k].open]
    BY <1>3
  <2>2. QED BY <2>1, FramesList
<1>5. \A c, start : /\ NoFrame(c, start).parses = << >> /\ NoFrame(c, start).code = c
                    /\ NoFrame(c, start).start = start
  BY DEF NoFrame
<1>6. DOMAIN << >> = {}
  OBVIOUS
<1> HIDE DEF n
<1>7. 0 \in K
  <2> DEFINE start == (s[1].address - position) % UintMod
  <2>1. run[0] = [done |-> << >>, open |-> NoFrame(code, start)]
    BY <1>1 DEF PlanRun
  <2>2. \A j \in DOMAIN s : start <= s[j].address
    <3>1. s[1].address \in Nat /\ position <= s[1].address /\ s[1].address < UintMod
      BY <1>2 DEF Even, Variables
    <3>2. s[1].address - position \in Nat /\ s[1].address - position < UintMod
          /\ UintMod \in Nat
      BY <3>1, ModbusAssumption
    <3>3. start = s[1].address - position
      BY <3>2, SmallRemainder
    <3> HIDE DEF start
    <3> SUFFICES ASSUME NEW j \in DOMAIN s PROVE start <= s[j].address
      OBVIOUS
    <3>4. 1 <= j
      BY <1>2
    <3>5. s[1].address <= s[j].address /\ s[j].address \in Nat
      BY <1>2, <3>4 DEF Even, Variables
    <3>6. QED BY <3>1, <3>3, <3>5
  <2> HIDE DEF start
  <2>3. Filling(NoFrame(code, start), code, s, 0)
    BY <1>5, <1>6, <2>2 DEF Filling
  <2>4. QED BY <1>2, <1>6, <2>1, <2>3
<1>8. ASSUME NEW k \in 1..n, k - 1 \in K PROVE k \in K
  <2> DEFINE old == run[k - 1]
             frames1 == Append(old.done, old.open)
             fresh == NoFrame(code, s[k].address)
  <2>1. k \in 0..n /\ k - 1 \in 0..n /\ k \in DOMAIN s
    BY <1>2
  <2>2. (\A c \in DOMAIN old.done : Apt(old.done[c])) /\ Filling(old.open, code, s, k - 1)
    BY <1>8
  <2>3. /\ old.done \in Seq(FramesOf(E)) /\ IsList(old.done) /\ old.open \in FramesOf(E)
        /\ old = [done |-> old.done, open |-> old.open]
    BY <1>4, <2>1
  <2>4. run[k] = IF Reach(code, s[k]) <= Limit(old.open)
                 THEN [old EXCEPT !.open = Put(@, s[k])]
                 ELSE [done |-> frames1, open |-> Put(fresh, s[k])]
    BY <1>1 DEF PlanRun, n
  <2>5. s[k] \in E /\ s[k].address \in Nat
    BY <2>1 DEF Variables
  <2>6. fresh \in FramesOf(E)
    BY <2>5, NoFrameIs
  <2>7. Filling(fresh, code, s, k - 1)
    <3>1. \A j \in DOMAIN s : k - 1 < j => s[k].address <= s[j].address
      <4>1. \A j \in DOMAIN s : k - 1 < j => k <= j
        BY <1>2
      <4>2. QED BY <2>1, <4>1 DEF Even
    <3>2. QED BY <1>5, <1>6, <3>1 DEF Filling
  <2> HIDE DEF old, fresh
  <2>8. CASE Reach(code, s[k]) <= Limit(old.open)
    <3>1. run[k].done = old.done /\ run[k].open = Put(old.open, s[k])
      BY <2>3, <2>4, <2>8
    <3>2. Filling(Put(old.open, s[k]), code, s, k)
      BY <2>1, <2>2, <2>3, PutFills
    <3>3. QED BY <2>1, <2>2, <3>1, <3>2
  <2>9. CASE ~(Reach(code, s[k]) <= Limit(old.open))
    <3>1. run[k].done = frames1 /\ run[k].open = Put(fresh, s[k])
      BY <2>4, <2>9
    <3>2. Filling(Put(fresh, s[k]), code, s, k)
      BY <2>1, <2>6, <2>7, PutFills
    <3>3. Apt(old.open)
      <4>1. k - 1 \in Nat
        BY <2>1
      <4>2. QED BY <2>2, <2>3, <4>1, FilledIsApt
    <3>4. /\ DOMAIN old.done = 1..Len(old.done) /\ Len(old.done) \in Nat
          /\ DOMAIN frames1 = 1..(Len(old.done) + 1)
          /\ \A c \in 1..Len(old.done) : frames1[c] = old.done[c]
          /\ frames1[Len(old.done) + 1] = old.open
      BY <2>3, Appended DEF IsList
    <3> HIDE DEF frames1
    <3>5. \A c \in DOMAIN frames1 : Apt(frames1[c])
      <4>1. \A c \in DOMAIN frames1 : c \in 1..Len(old.done) \/ c = Len(old.done) + 1
        BY <3>4
      <4>2. QED BY <2>2, <3>3, <3>4, <4>1
    <3>6. QED BY <2>1, <3>1, <3>2, <3>5
  <2>10. QED BY <2>8, <2>9
<1> HIDE DEF K
<1>9. n \in K
  BY <1>2, <1>7, <1>8, Counting
<1> DEFINE done == run[n].done
           open == run[n].open
<1>10. (\A c \in DOMAIN done : Apt(done[c])) /\ Filling(open, code, s, n)
  BY <1>9 DEF K
<1>11. Apt(open)
  BY <1>2, <1>4, <1>10, FilledIsApt
<1>12. Plan(code, s, position) = Append(done, open) /\ IsList(done)
  BY <1>1, <1>2, <1>4 DEF PlanRun, n
<1> HIDE DEF done, open
<1>13. /\ DOMAIN done = 1..Len(done) /\ Len(done) \in Nat
       /\ a \in 1..(Len(done) + 1)
       /\ \A c \in 1..Len(done) : Append(done, open)[c] = done[c]
       /\ Append(done, open)[Len(done) + 1] = open
  BY <1>12, Appended DEF IsList
<1>14. QED BY <1>10, <1>11, <1>12, <1>13

LEMMA RegularIsEven ==
    ASSUME setup \in Setups, ~S7, NEW E, Variables(E), NEW vs \in Seq(E), RegularModBus(vs),
           NEW code \in Codes,
           NEW s \in ByAddress(vs, {i \in DOMAIN vs : vs[i].code = code})
    PROVE  Even(code, s, setup.position)
<1> DEFINE places == {i \in DOMAIN vs : vs[i].code = code}
           most == IF code \in Coils THEN PerRequestMaxCoil ELSE PerRequestMaxRegister
           extra == IF code \in Coils THEN 1 ELSE 0
<1>1. s \in Orders(vs, places) /\ places \in SUBSET DOMAIN vs
      /\ \A i, j \in DOMAIN s : i < j => s[i].address <= s[j].address
  BY DEF ByAddress
<1>2. s \in Seq(E) /\ \A i \in DOMAIN s : \E j \in places : s[i] = vs[j]
  BY <1>1, OrdersOf
<1>3. most \in Nat /\ UintMod \in Nat \ {0} /\ setup.position \in Nat
  BY ModbusAssumption, ExchangeAssumption DEF Device
<1>4. \A i \in places : i \in DOMAIN vs /\ vs[i].code = code
  OBVIOUS
<1> HIDE DEF places
<1>5. ASSUME NEW v \in E, v.code = code
      PROVE  /\ v.address \in Nat /\ DataTypeWord(v.type) \in Nat
             /\ Ends(v) = v.address + (IF code \in Coils THEN 0 ELSE DataTypeWord(v.type))
             /\ Behind(code, v) = Ends(v) + extra
             /\ Limit(NoFrame(v.code, v.address)) = (v.address + most) % UintMod
  <2>1. v.address \in Nat /\ DataTypeWord(v.type) \in Nat
    BY DEF Variables, DataTypes, DataTypeWord
  <2>2. Ends(v) = v.address + (IF code \in Coils THEN 0 ELSE DataTypeWord(v.type))
    BY <1>5, <2>1 DEF Ends, Reach
  <2>3. Behind(code, v) = Ends(v) + extra
    BY <2>1, <2>2 DEF Behind
  <2>4. Limit(NoFrame(v.code, v.address)) = (v.address + most) % UintMod
    BY <1>5 DEF Limit, NoFrame
  <2>5. QED BY <2>1, <2>2, <2>3, <2>4
<1>6. \A i \in DOMAIN s : s[i] \in E /\ s[i].code = code
  <2>1. \A i \in DOMAIN s : s[i] \in E
    BY <1>2
  <2>2. QED BY <1>2, <1>4, <2>1
<1>7. ASSUME NEW i \in DOMAIN s, NEW j \in DOMAIN s, i <= j
      PROVE  s[i].address <= s[j].address /\ Behind(code, s[i]) <= Behind(code, s[j])
  <2>1. /\ s[i].address \in Nat /\ s[j].address \in Nat
        /\ Behind(code, s[i]) = Ends(s[i]) + extra /\ Behind(code, s[j]) = Ends(s[j]) + extra
        /\ Ends(s[i]) \in Nat /\ Ends(s[j]) \in Nat
    BY <1>5, <1>6
  <2>2. s[i].address <= s[j].address
    <3>1. i \in Nat /\ j \in Nat
      BY <1>2
    <3>2. i < j \/ i = j
      BY <1>7, <3>1
    <3>3. QED BY <1>1, <2>1, <3>2
  <2>3. PICK a \in places, b \in places : s[i] = vs[a] /\ s[j] = vs[b]
    BY <1>2
  <2>4. a \in DOMAIN vs /\ b \in DOMAIN vs /\ vs[a].code = vs[b].code
    BY <1>4, <2>3
  <2>5. Ends(vs[a]) <= Ends(vs[b])
    BY <2>2, <2>3, <2>4 DEF RegularModBus
  <2>6. Ends(s[i]) <= Ends(s[j])
    BY <2>3, <2>5
  <2> HIDE DEF extra
  <2>7. extra \in Nat
    BY DEF extra
  <2>8. QED BY <2>1, <2>2, <2>6, <2>7
<1>8. ASSUME NEW i \in DOMAIN s
      PROVE  s[i].code = code /\ setup.position <= s[i].address /\ s[i].address < UintMod
  <2>1. PICK a \in places : s[i] = vs[a]
    BY <1>2
  <2>2. a \in DOMAIN vs
    BY <1>4, <2>1
  <2> DEFINE v == vs[a]
  <2>3. /\ setup.position <= v.address
        /\ v.address + setup.position + (Ends(v) - v.address) <= Limit(NoFrame(v.code, v.address))
    BY <2>2 DEF RegularModBus
  <2>4. v \in E /\ v.code = code
    BY <1>6, <2>1
  <2> HIDE DEF v
  <2>5. /\ v.address \in Nat /\ Ends(v) \in Nat /\ v.address <= Ends(v)
        /\ Limit(NoFrame(v.code, v.address)) = (v.address + most) % UintMod
    <3>1. /\ v.address \in Nat /\ DataTypeWord(v.type) \in Nat
          /\ Ends(v) = v.address + (IF code \in Coils THEN 0 ELSE DataTypeWord(v.type))
          /\ Limit(NoFrame(v.code, v.address)) = (v.address + most) % UintMod
      BY <1>5, <2>4
    <3>2. QED BY <3>1
  <2> HIDE DEF most
  <2>6. (v.address + most) % UintMod \in Nat /\ (v.address + most) % UintMod < UintMod
    <3>1. v.address + most \in Nat
      BY <1>3, <2>5
    <3>2. QED BY <1>3, <3>1, Remainder
  <2>7. v.address + setup.position + (Ends(v) - v.address) < UintMod
    BY <1>3, <2>3, <2>5, <2>6
  <2>8. v.address < UintMod
    BY <1>3, <2>5, <2>7
  <2>9. s[i] = v
    BY <2>1 DEF v
  <2>10. QED BY <1>6, <2>3, <2>8, <2>9
<1>9. QED BY <1>7, <1>8 DEF Even

(* What all frames of a list are, they are in a set. *)
LEMMA AllOf ==
    ASSUME NEW F, NEW s \in Seq(F), NEW G, \A i \in DOMAIN s : s[i] \in G
    PROVE  s \in Seq(G)
<1>1. Len(s) \in Nat /\ DOMAIN s = 1..Len(s) /\ s = [i \in 1..Len(s) |-> s[i]]
  OBVIOUS
<1>2. s \in [1..Len(s) -> G]
  BY <1>1
<1>3. QED BY <1>1, <1>2

LEMMA ModbusPlansAreApt ==
    ASSUME setup \in Setups, ~S7, NEW E, Variables(E), NEW vs \in Seq(E), RegularModBus(vs),
           NEW plans \in ModbusPlans(vs, setup.position), NEW i \in DOMAIN plans
    PROVE  Apt(plans[i])
<1> DEFINE position == setup.position
           Of(code) == {j \in DOMAIN vs : vs[j].code = code}
           PlansOf(code) == IF Of(code) = {} THEN {<< >>}
                            ELSE {Plan(code, s, position) : s \in ByAddress(vs, Of(code))}
           G == {f \in FramesOf(E) : Apt(f)}
<1>1. ASSUME NEW code \in Codes, NEW x \in PlansOf(code)
      PROVE  x \in Seq(G)
  <2>1. CASE Of(code) = {}
    <3>1. x = << >>
      BY <1>1, <2>1
    <3>2. QED BY <3>1
  <2>2. CASE Of(code) # {}
    <3>1. PICK s \in ByAddress(vs, Of(code)) : x = Plan(code, s, position)
      BY <1>1, <2>2
    <3>2. s \in Orders(vs, Of(code))
      BY <3>1 DEF ByAddress
    <3>3. Even(code, s, position)
      BY <3>1, RegularIsEven
    <3> HIDE DEF PlansOf
    <3>4. s \in Seq(E) /\ s # << >>
      BY <2>2, <3>2, OrdersOf
    <3>5. position \in Nat
      BY ExchangeAssumption DEF Device
    <3> HIDE DEF position
    <3>6. x \in Seq(FramesOf(E)) /\ \A a \in DOMAIN x : Apt(x[a])
      BY <3>1, <3>3, <3>4, <3>5, PlanIs, PlanIsApt
    <3>7. \A a \in DOMAIN x : x[a] \in G
      BY <3>6
    <3> HIDE DEF G
    <3>8. QED BY <3>6, <3>7, AllOf
  <2>3. QED BY <2>1, <2>2
<1>2. 1 \in Codes /\ 2 \in Codes /\ 3 \in Codes /\ 4 \in Codes
  BY DEF Codes, Coils, Registers
<1>3. ModbusPlans(vs, position)
        = {a \o b \o c \o d : a \in PlansOf(1), b \in PlansOf(2),
                              c \in PlansOf(3), d \in PlansOf(4)}
  BY DEF ModbusPlans
<1> HIDE DEF PlansOf, G
<1>4. PICK a \in PlansOf(1), b \in PlansOf(2), c \in PlansOf(3), d \in PlansOf(4) :
        plans = a \o b \o c \o d
  BY <1>3
<1>5. a \in Seq(G) /\ b \in Seq(G) /\ c \in Seq(G) /\ d \in Seq(G)
  BY <1>1, <1>2
<1>6. plans \in Seq(G)
  BY <1>4, <1>5, FourJoined
<1>7. plans[i] \in G
  BY <1>6
<1>8. QED BY <1>7 DEF G

(* The same of S7: an answer of the length that a frame expects has the
   bytes of each of its variables. *)

S7Spacious(f) ==
    \A b \in DOMAIN f.parses : f.parses[b].at + 4 + S7Bytes(f.parses[b].v.type) <= f.length

(* A frame notes where its answer begins with the item that holds a
   variable: each behind the answers to the items before it. *)
S7Sited(f) ==
    /\ \A b \in DOMAIN f.parses : \E c \in DOMAIN f.items :
          /\ f.parses[b].at = f.starts[c] /\ SamePlace(f.items[c], f.parses[b].v)
          /\ f.items[c].zone = f.parses[b].v.where.zone
          /\ S7Bytes(f.parses[b].v.type) <= ItemBytes(f.items[c])
    /\ f.items = << >> => f.length = 0
    /\ \A c \in DOMAIN f.items :
          /\ c = 1 => f.starts[c] = 0
          /\ f.starts[c] + 4 + ItemBytes(f.items[c])
               = (IF c + 1 \in DOMAIN f.items THEN f.starts[c + 1] ELSE f.length)

S7Apt(f) == S7Spacious(f) /\ S7Sited(f)

(* Variables of one place have one length. *)
Alike(zone, s) ==
    /\ \A i, j \in DOMAIN s :
          SamePlace(ItemOf(s[i], zone), s[j]) => S7Bytes(s[i].type) = S7Bytes(s[j].type)
    /\ \A i \in DOMAIN s : s[i].where.zone = zone

S7Filling(f, zone, s) ==
    /\ f.zone = zone
    /\ \A i \in DOMAIN f.items : \E j \in DOMAIN s :
          /\ f.items[i] = ItemOf(s[j], zone)
          /\ f.starts[i] + 4 + S7Bytes(s[j].type) <= f.length
    /\ S7Spacious(f)

S7Full(f, zone, s) == S7Filling(f, zone, s) /\ S7Sited(f)

LEMMA Elements ==
    ASSUME NEW P, NEW s \in Seq(P), NEW b \in DOMAIN s
    PROVE  s[b] \in P
OBVIOUS

LEMMA LengthsAre ==
    ASSUME NEW type \in DataTypes, NEW zone
    PROVE  /\ S7Bytes(type) \in Nat /\ DataResponseLength(type, zone) \in Nat
           /\ S7Bytes(type) <= DataResponseLength(type, zone)
BY DEF DataTypes, DataResponseLength, S7Bytes

LEMMA TakeFills ==
    ASSUME NEW E, Placed(E), NEW s \in Seq(E), NEW zone, Alike(zone, s), NEW k \in DOMAIN s,
           NEW f \in Filled7(E), S7Filling(f, zone, s)
    PROVE  S7Filling(Take(f, s[k]), zone, s)
<1> DEFINE v == s[k]
           shared == {i \in DOMAIN f.items : SamePlace(f.items[i], v)}
           i == CHOOSE j \in shared : TRUE
           more == 4 + DataResponseLength(v.type, f.zone)
           g == Take(f, v)
<1>1. /\ f = [zone |-> f.zone, items |-> f.items, starts |-> f.starts,
              parses |-> f.parses, length |-> f.length]
      /\ f.items \in Seq(Items(E)) /\ f.starts \in Seq(Nat) /\ Len(f.starts) = Len(f.items)
      /\ f.parses \in Seq([v : E, at : Nat]) /\ f.length \in Nat /\ f.zone = zone
  BY DEF Filled7, S7FramesOf, S7Filling
<1>2. v \in E /\ v.type \in DataTypes
  BY DEF Placed
<1>3. S7Bytes(v.type) \in Nat /\ more \in Nat /\ 4 + S7Bytes(v.type) <= more
  <2>1. /\ S7Bytes(v.type) \in Nat /\ DataResponseLength(v.type, f.zone) \in Nat
        /\ S7Bytes(v.type) <= DataResponseLength(v.type, f.zone)
    BY <1>2, LengthsAre
  <2>2. QED BY <2>1
<1> HIDE DEF v
<1>4. \A b \in DOMAIN f.parses : f.parses[b].at + 4 + S7Bytes(f.parses[b].v.type) <= f.length
  BY DEF S7Filling, S7Spacious
<1>5. ASSUME NEW parse, parse.v = v, NEW length \in Nat, f.length <= length,
             parse.at + 4 + S7Bytes(v.type) <= length,
             NEW h, h.parses = Append(f.parses, parse), h.length = length
      PROVE  S7Spacious(h)
  <2> SUFFICES ASSUME NEW b \in DOMAIN h.parses
               PROVE  h.parses[b].at + 4 + S7Bytes(h.parses[b].v.type) <= h.length
    BY DEF S7Spacious
  <2>1. IsList(f.parses)
    BY <1>1, FramesList
  <2>2. /\ DOMAIN f.parses = 1..Len(f.parses) /\ Len(f.parses) \in Nat
        /\ b \in 1..(Len(f.parses) + 1)
        /\ \A c \in 1..Len(f.parses) : h.parses[c] = f.parses[c]
        /\ h.parses[Len(f.parses) + 1] = parse
    BY <1>5, <2>1, Appended DEF IsList
  <2>3. CASE b \in 1..Len(f.parses)
    <3>1. h.parses[b] = f.parses[b] /\ b \in DOMAIN f.parses
      BY <2>2, <2>3
    <3>2. f.parses[b].at \in Nat /\ f.parses[b].v \in E
      <4>1. f.parses[b] \in [v : E, at : Nat]
        BY <1>1, <3>1, Elements
      <4>2. QED BY <4>1
    <3>3. S7Bytes(f.parses[b].v.type) \in Nat
      BY <3>2, LengthsAre DEF Placed
    <3>4. f.parses[b].at + 4 + S7Bytes(f.parses[b].v.type) <= f.length
      BY <1>4, <3>1
    <3>5. QED BY <1>1, <1>5, <3>1, <3>2, <3>3, <3>4
  <2>4. CASE b = Len(f.parses) + 1
    <3>1. h.parses[b] = parse
      BY <2>2, <2>4
    <3>2. QED BY <1>5, <3>1
  <2>5. QED BY <2>2, <2>3, <2>4
<1>6. CASE shared # {}
  <2> DEFINE parse == [v |-> v, at |-> f.starts[i]]
             parses == Append(f.parses, parse)
  <2>1. i \in DOMAIN f.items /\ SamePlace(f.items[i], v)
    BY <1>6
  <2>2. g = [f EXCEPT !.parses = parses]
    BY <1>6 DEF Take
  <2> HIDE DEF i, g, shared
  <2>3. parse.v = v /\ parse.at = f.starts[i]
    OBVIOUS
  <2> HIDE DEF parse
  <2>4. /\ g.parses = parses /\ g.length = f.length /\ g.zone = f.zone
        /\ g.items = f.items /\ g.starts = f.starts
    BY <1>1, <2>2
  <2>5. PICK j \in DOMAIN s : /\ f.items[i] = ItemOf(s[j], zone)
                              /\ f.starts[i] + 4 + S7Bytes(s[j].type) <= f.length
    BY <2>1 DEF S7Filling
  <2>6. S7Bytes(s[j].type) = S7Bytes(v.type)
    BY <2>1, <2>5 DEF Alike, v
  <2>7. f.length <= f.length
    BY <1>1
  <2>8. S7Spacious(g)
    BY <1>1, <1>5, <2>3, <2>4, <2>5, <2>6, <2>7
  <2>9. QED BY <2>4, <2>8 DEF S7Filling, g, v
<1>7. CASE shared = {}
  <2> DEFINE parse == [v |-> v, at |-> f.length]
             parses == Append(f.parses, parse)
             items == Append(f.items, ItemOf(v, f.zone))
             starts == Append(f.starts, f.length)
             length == f.length + more
  <2>1. g = [f EXCEPT !.items = items, !.starts = starts, !.parses = parses,
                      !.length = length]
    BY <1>7 DEF Take
  <2>2. parse.v = v /\ parse.at = f.length
    OBVIOUS
  <2>3. length \in Nat /\ f.length <= length /\ f.length + 4 + S7Bytes(v.type) <= length
    <3> HIDE DEF more
    <3>1. QED BY <1>1, <1>3
  <2>4. /\ DOMAIN f.items = 1..Len(f.items) /\ Len(f.items) \in Nat
        /\ DOMAIN items = 1..(Len(f.items) + 1)
        /\ \A c \in 1..Len(f.items) : items[c] = f.items[c] /\ starts[c] = f.starts[c]
        /\ items[Len(f.items) + 1] = ItemOf(v, zone) /\ starts[Len(f.items) + 1] = f.length
    <3>1. IsList(f.items) /\ IsList(f.starts) /\ Len(f.items) \in Nat
      BY <1>1, FramesList DEF IsList
    <3>2. /\ DOMAIN f.items = 1..Len(f.items) /\ DOMAIN items = 1..(Len(f.items) + 1)
          /\ \A c \in 1..Len(f.items) : items[c] = f.items[c]
          /\ items[Len(f.items) + 1] = ItemOf(v, f.zone)
      BY <3>1, Appended
    <3>3. /\ \A c \in 1..Len(f.starts) : starts[c] = f.starts[c]
          /\ starts[Len(f.starts) + 1] = f.length
      BY <3>1, Appended
    <3> HIDE DEF items, starts
    <3>4. QED BY <1>1, <3>1, <3>2, <3>3
  <2> HIDE DEF parse, parses, items, starts, length, g
  <2>5. /\ g.parses = parses /\ g.length = length /\ g.zone = f.zone
        /\ g.items = items /\ g.starts = starts
    BY <1>1, <2>1
  <2>6. S7Spacious(g)
    BY <1>5, <2>2, <2>3, <2>5 DEF parses
  <2>7. ASSUME NEW c \in DOMAIN g.items
        PROVE  \E j \in DOMAIN s : /\ g.items[c] = ItemOf(s[j], zone)
                                   /\ g.starts[c] + 4 + S7Bytes(s[j].type) <= g.length
    <3>1. CASE c \in 1..Len(f.items)
      <4>1. /\ g.items[c] = f.items[c] /\ g.starts[c] = f.starts[c] /\ c \in DOMAIN f.items
            /\ f.starts[c] \in Nat
        BY <1>1, <2>4, <2>5, <3>1
      <4>2. PICK j \in DOMAIN s : /\ f.items[c] = ItemOf(s[j], zone)
                                  /\ f.starts[c] + 4 + S7Bytes(s[j].type) <= f.length
        BY <4>1 DEF S7Filling
      <4>3. s[j] \in E
        OBVIOUS
      <4>4. S7Bytes(s[j].type) \in Nat
        BY <4>3, LengthsAre DEF Placed
      <4>5. \A w, x, y, z \in Nat : w + 4 + x <= y /\ y <= z => w + 4 + x <= z
        OBVIOUS
      <4>6. f.starts[c] + 4 + S7Bytes(s[j].type) <= length
        BY <1>1, <2>3, <4>1, <4>2, <4>4, <4>5
      <4>7. QED BY <2>5, <4>1, <4>2, <4>6
    <3>2. CASE c = Len(f.items) + 1
      <4>1. g.items[c] = ItemOf(s[k], zone) /\ g.starts[c] = f.length
        BY <2>4, <2>5, <3>2 DEF v
      <4>2. f.length + 4 + S7Bytes(s[k].type) <= length
        BY <2>3 DEF v
      <4>3. QED BY <2>5, <4>1, <4>2
    <3>3. QED BY <2>4, <2>5, <3>1, <3>2
  <2>8. S7Filling(g, zone, s)
    BY <1>1, <2>5, <2>6, <2>7 DEF S7Filling
  <2>9. QED BY <2>8 DEF g, v
<1>8. QED BY <1>6, <1>7

LEMMA ItemHas ==
    ASSUME NEW v, v.type \in DataTypes, NEW zone
    PROVE  ItemBytes(ItemOf(v, zone)) = DataResponseLength(v.type, zone)
<1> DEFINE item == ItemOf(v, zone)
<1>1. item.transport = StoreAreaTransportSize(zone) /\ item.length = DataRequestLength(v.type, zone)
  BY DEF ItemOf
<1>2. S7Bytes(v.type) \in {1, 2, 4, 8} /\ (v.type # "BOOL" => S7Bytes(v.type) # 1)
  BY DEF S7Bytes, DataTypes
<1> HIDE DEF item
<1>3. CASE zone = "DB" /\ v.type # "BOOL"
  <2>1. \A b \in {2, 4, 8} : 2 * (b \div 2) = b
    OBVIOUS
  <2>2. item.transport = 4 /\ item.length = S7Bytes(v.type) \div 2
    BY <1>1, <1>3 DEF StoreAreaTransportSize, DataRequestLength
  <2>3. ItemBytes(item) = S7Bytes(v.type)
    BY <1>2, <1>3, <2>1, <2>2 DEF ItemBytes
  <2>4. QED BY <1>3, <2>3 DEF DataResponseLength, item
<1>4. CASE zone = "DB" /\ v.type = "BOOL"
  <2>1. item.transport = 4 /\ item.length = 1
    BY <1>1, <1>4 DEF StoreAreaTransportSize, DataRequestLength, S7Bytes
  <2>2. ItemBytes(item) = 2
    BY <2>1 DEF ItemBytes
  <2>3. QED BY <1>4, <2>2 DEF DataResponseLength, item
<1>5. CASE zone # "DB"
  <2>1. item.transport = 2 /\ item.length = S7Bytes(v.type)
    BY <1>1, <1>5 DEF StoreAreaTransportSize, DataRequestLength
  <2>2. ItemBytes(item) = S7Bytes(v.type)
    BY <2>1 DEF ItemBytes
  <2>3. QED BY <1>5, <2>2 DEF DataResponseLength, item
<1>6. QED BY <1>3, <1>4, <1>5

LEMMA TakeIsFull ==
    ASSUME NEW E, Placed(E), NEW s \in Seq(E), NEW zone, Alike(zone, s), NEW k \in DOMAIN s,
           NEW f \in Filled7(E), S7Full(f, zone, s)
    PROVE  S7Full(Take(f, s[k]), zone, s)
<1> DEFINE v == s[k]
           shared == {i \in DOMAIN f.items : SamePlace(f.items[i], v)}
           i == CHOOSE j \in shared : TRUE
           more == 4 + DataResponseLength(v.type, f.zone)
           g == Take(f, v)
           Held7(h, b) == \E c \in DOMAIN h.items :
                /\ h.parses[b].at = h.starts[c] /\ SamePlace(h.items[c], h.parses[b].v)
                /\ h.items[c].zone = h.parses[b].v.where.zone
                /\ S7Bytes(h.parses[b].v.type) <= ItemBytes(h.items[c])
<1>1. /\ f = [zone |-> f.zone, items |-> f.items, starts |-> f.starts,
              parses |-> f.parses, length |-> f.length]
      /\ f.items \in Seq(Items(E)) /\ f.starts \in Seq(Nat) /\ Len(f.starts) = Len(f.items)
      /\ f.parses \in Seq([v : E, at : Nat]) /\ f.length \in Nat /\ f.zone = zone
  BY DEF Filled7, S7FramesOf, S7Full, S7Filling
<1>2. v \in E /\ v.type \in DataTypes /\ v.where.zone = zone
  BY DEF Placed, Alike
<1>3. \A b \in DOMAIN f.parses : Held7(f, b)
  BY DEF S7Full, S7Sited
<1>4. /\ S7Filling(f, zone, s) /\ S7Filling(g, zone, s)
  BY TakeFills DEF S7Full
<1>5. \A type \in DataTypes :
        DataResponseLength(type, zone) \in Nat /\ S7Bytes(type) <= DataResponseLength(type, zone)
  BY LengthsAre
<1>6. IsList(f.parses) /\ IsList(f.items) /\ IsList(f.starts)
  BY <1>1, FramesList
<1> HIDE DEF v
<1>7. ASSUME NEW parse, NEW parses, parses = Append(f.parses, parse), NEW b \in DOMAIN parses
      PROVE  \/ b \in DOMAIN f.parses /\ parses[b] = f.parses[b]
             \/ parses[b] = parse
  <2>1. /\ DOMAIN f.parses = 1..Len(f.parses) /\ Len(f.parses) \in Nat
        /\ b \in 1..(Len(f.parses) + 1)
        /\ \A c \in 1..Len(f.parses) : parses[c] = f.parses[c]
        /\ parses[Len(f.parses) + 1] = parse
    BY <1>6, <1>7, Appended DEF IsList
  <2>2. QED BY <2>1
<1>8. CASE shared # {}
  <2> DEFINE parse == [v |-> v, at |-> f.starts[i]]
             parses == Append(f.parses, parse)
  <2>1. i \in DOMAIN f.items /\ SamePlace(f.items[i], v)
    BY <1>8
  <2>2. g = [f EXCEPT !.parses = parses]
    BY <1>8 DEF Take
  <2> HIDE DEF i, g, shared
  <2>3. parse.v = v /\ parse.at = f.starts[i]
    OBVIOUS
  <2> HIDE DEF parse
  <2>4. /\ g.parses = parses /\ g.length = f.length
        /\ g.items = f.items /\ g.starts = f.starts
    BY <1>1, <2>2
  <2>5. PICK j \in DOMAIN s : f.items[i] = ItemOf(s[j], zone)
    BY <1>4, <2>1 DEF S7Filling
  <2>6. S7Bytes(s[j].type) = S7Bytes(v.type)
    BY <2>1, <2>5 DEF Alike, v
  <2>7. S7Bytes(v.type) <= ItemBytes(f.items[i]) /\ f.items[i].zone = v.where.zone
    <3>1. s[j].type \in DataTypes
      BY DEF Placed
    <3>2. ItemBytes(f.items[i]) = DataResponseLength(s[j].type, zone)
      BY <2>5, <3>1, ItemHas
    <3>3. f.items[i].zone = zone
      BY <2>5 DEF ItemOf
    <3>4. QED BY <1>2, <1>5, <2>6, <3>1, <3>2, <3>3
  <2>8. ASSUME NEW b \in DOMAIN parses PROVE Held7(g, b)
    <3>1. CASE b \in DOMAIN f.parses /\ parses[b] = f.parses[b]
      BY <1>3, <2>4, <3>1
    <3>2. CASE parses[b] = parse
      BY <2>1, <2>3, <2>4, <2>7, <3>2
    <3>3. QED BY <1>7, <3>1, <3>2
  <2>9. S7Sited(g)
    BY <2>4, <2>8 DEF S7Full, S7Sited
  <2>10. QED BY <1>4, <2>9 DEF S7Full, g, v
<1>9. CASE shared = {}
  <2> DEFINE parse == [v |-> v, at |-> f.length]
             parses == Append(f.parses, parse)
             item == ItemOf(v, f.zone)
             items == Append(f.items, item)
             starts == Append(f.starts, f.length)
             length == f.length + more
             n == Len(f.items)
  <2>1. g = [f EXCEPT !.items = items, !.starts = starts, !.parses = parses,
                      !.length = length]
    BY <1>9 DEF Take
  <2>2. parse.v = v /\ parse.at = f.length
    OBVIOUS
  <2>3. /\ item.zone = zone /\ SamePlace(item, v)
        /\ ItemBytes(item) = DataResponseLength(v.type, zone)
    <3>1. ItemBytes(item) = DataResponseLength(v.type, zone)
      BY <1>1, <1>2, ItemHas
    <3>2. item.zone = zone /\ SamePlace(item, v)
      BY <1>1 DEF ItemOf, SamePlace
    <3>3. QED BY <3>1, <3>2
  <2>4. length = f.length + 4 + ItemBytes(item) /\ S7Bytes(v.type) <= ItemBytes(item)
    <3>1. DataResponseLength(v.type, zone) \in Nat
          /\ S7Bytes(v.type) <= DataResponseLength(v.type, zone)
      BY <1>2, <1>5
    <3>2. QED BY <1>1, <2>3, <3>1
  <2> HIDE DEF item, n
  <2>5. /\ DOMAIN f.items = 1..n /\ n \in Nat
        /\ DOMAIN items = 1..(n + 1)
        /\ \A c \in 1..n : items[c] = f.items[c] /\ starts[c] = f.starts[c]
        /\ items[n + 1] = item /\ starts[n + 1] = f.length
    <3>1. /\ DOMAIN f.items = 1..n /\ DOMAIN items = 1..(n + 1) /\ n \in Nat
          /\ \A c \in 1..n : items[c] = f.items[c]
          /\ items[n + 1] = item
      BY <1>6, Appended DEF n, IsList
    <3>2. /\ \A c \in 1..Len(f.starts) : starts[c] = f.starts[c]
          /\ starts[Len(f.starts) + 1] = f.length
      BY <1>6, Appended
    <3> HIDE DEF items, starts
    <3>3. Len(f.starts) = n
      BY <1>1 DEF n
    <3>4. QED BY <3>1, <3>2, <3>3
  <2> HIDE DEF parse, parses, items, starts, length, g
  <2>6. /\ g.parses = parses /\ g.length = length
        /\ g.items = items /\ g.starts = starts
    BY <1>1, <2>1
  <2>7. ASSUME NEW b \in DOMAIN parses PROVE Held7(g, b)
    <3>1. CASE b \in DOMAIN f.parses /\ parses[b] = f.parses[b]
      <4>1. PICK c \in DOMAIN f.items :
              /\ f.parses[b].at = f.starts[c] /\ SamePlace(f.items[c], f.parses[b].v)
              /\ f.items[c].zone = f.parses[b].v.where.zone
              /\ S7Bytes(f.parses[b].v.type) <= ItemBytes(f.items[c])
        BY <1>3, <3>1
      <4>2. c \in DOMAIN items /\ items[c] = f.items[c] /\ starts[c] = f.starts[c]
        BY <2>5
      <4>3. QED BY <2>6, <3>1, <4>1, <4>2
    <3>2. CASE parses[b] = parse
      <4>1. n + 1 \in DOMAIN items
        BY <2>5
      <4>2. QED BY <1>2, <2>2, <2>3, <2>4, <2>5, <2>6, <3>2, <4>1
    <3>3. QED BY <1>7, <3>1, <3>2 DEF parses
  <2>8. ASSUME NEW c \in DOMAIN items
        PROVE  /\ c = 1 => starts[c] = 0
               /\ starts[c] + 4 + ItemBytes(items[c])
                    = (IF c + 1 \in DOMAIN items THEN starts[c + 1] ELSE length)
    <3>1. CASE c \in 1..n
      <4>1. /\ c = 1 => f.starts[c] = 0
            /\ f.starts[c] + 4 + ItemBytes(f.items[c])
                 = (IF c + 1 \in DOMAIN f.items THEN f.starts[c + 1] ELSE f.length)
        BY <2>5, <3>1 DEF S7Full, S7Sited
      <4>2. c + 1 \in DOMAIN items /\ starts[c] = f.starts[c] /\ items[c] = f.items[c]
        BY <2>5, <3>1
      <4>3. starts[c + 1] = (IF c + 1 \in DOMAIN f.items THEN f.starts[c + 1] ELSE f.length)
        <5>1. c + 1 \in 1..n \/ (c + 1 = n + 1 /\ c + 1 \notin 1..n)
          BY <2>5, <3>1
        <5>2. QED BY <2>5, <5>1
      <4>4. QED BY <4>1, <4>2, <4>3
    <3>2. CASE c = n + 1
      <4>1. c + 1 \notin DOMAIN items /\ starts[c] = f.length /\ items[c] = item
        BY <2>5, <3>2
      <4>2. c = 1 => f.length = 0
        <5>1. ASSUME c = 1 PROVE f.items = << >>
          <6>1. n = 0
            BY <2>5, <3>2, <5>1
          <6>2. QED BY <1>1, <6>1 DEF n
        <5>2. QED BY <5>1 DEF S7Full, S7Sited
      <4>3. QED BY <2>4, <4>1, <4>2
    <3>3. QED BY <2>5, <3>1, <3>2
  <2>9. items # << >>
    <3>1. n + 1 \in DOMAIN items /\ DOMAIN << >> = {}
      BY <2>5
    <3>2. QED BY <3>1
  <2>10. S7Sited(g)
    BY <2>6, <2>7, <2>8, <2>9 DEF S7Sited
  <2>11. QED BY <1>4, <2>10 DEF S7Full, g, v
<1>10. QED BY <1>8, <1>9

LEMMA S7PlanIsApt ==
    ASSUME NEW E, Placed(E), NEW s \in Seq(E), NEW zone \in Zones, NEW pdu,
           MaxItemPerDataFrame(pdu) \in Nat \ {0}, Alike(zone, s),
           NEW a \in DOMAIN S7Plan(zone, s, pdu)
    PROVE  S7Apt(S7Plan(zone, s, pdu)[a])
<1> DEFINE n == Len(s)
           max == MaxItemPerDataFrame(pdu)
           V == [done : Seq(AtMost(E, max)), open : Open(E, max)]
           first == EmptyFrame(zone)
<1>1. PICK run : S7PlanRun(run, E, zone, s, pdu)
  BY S7PlanRuns
<1> DEFINE K == {k \in 0..n : /\ \A c \in DOMAIN run[k].done : S7Apt(run[k].done[c])
                              /\ S7Full(run[k].open, zone, s)}
<1>2. n \in Nat /\ n \in 0..n /\ 0 \in 0..n /\ DOMAIN s = 1..n
  OBVIOUS
<1> HIDE DEF max
<1>3. \A k \in 0..n : run[k] \in V
  BY <1>1 DEF S7PlanRun, max
<1>4. ASSUME NEW k \in 0..n
      PROVE  /\ run[k].done \in Seq(AtMost(E, max)) /\ IsList(run[k].done)
             /\ run[k].open \in Filled7(E)
             /\ run[k] = [done |-> run[k].done, open |-> run[k].open]
  <2>1. /\ run[k].done \in Seq(AtMost(E, max)) /\ run[k].open \in Open(E, max)
        /\ run[k] = [done |-> run[k].done, open |-> run[k].open]
    BY <1>3
  <2>2. QED BY <2>1, FramesList DEF Open
<1>5. S7Full(first, zone, s)
  <2>1. DOMAIN << >> = {}
    OBVIOUS
  <2>2. QED BY <2>1 DEF S7Full, S7Filling, S7Apt, S7Spacious, S7Sited, EmptyFrame
<1> HIDE DEF n, first
<1>6. 0 \in K
  <2>1. run[0] = [done |-> << >>, open |-> first] /\ DOMAIN << >> = {}
    BY <1>1 DEF S7PlanRun, first
  <2>2. QED BY <1>2, <1>5, <2>1
<1>7. ASSUME NEW k \in 1..n, k - 1 \in K PROVE k \in K
  <2> DEFINE old == run[k - 1]
             filled == Take(old.open, s[k])
             frames1 == Append(old.done, filled)
  <2>1. k \in 0..n /\ k - 1 \in 0..n /\ k \in DOMAIN s
    BY <1>2
  <2>2. (\A c \in DOMAIN old.done : S7Apt(old.done[c])) /\ S7Full(old.open, zone, s)
    BY <1>7
  <2>3. /\ IsList(old.done) /\ old.open \in Filled7(E)
        /\ old = [done |-> old.done, open |-> old.open]
    BY <1>4, <2>1
  <2>4. run[k] = IF Len(filled.items) = max
                 THEN [done |-> frames1, open |-> first]
                 ELSE [old EXCEPT !.open = filled]
    BY <1>1 DEF S7PlanRun, n, max, first
  <2> HIDE DEF old
  <2>5. S7Full(filled, zone, s)
    BY <2>1, <2>2, <2>3, TakeIsFull
  <2> HIDE DEF filled
  <2>6. S7Apt(filled)
    BY <2>5 DEF S7Full, S7Filling, S7Apt
  <2>7. \A c \in DOMAIN frames1 : S7Apt(frames1[c])
    <3>1. /\ DOMAIN old.done = 1..Len(old.done) /\ Len(old.done) \in Nat
          /\ DOMAIN frames1 = 1..(Len(old.done) + 1)
          /\ \A c \in 1..Len(old.done) : frames1[c] = old.done[c]
          /\ frames1[Len(old.done) + 1] = filled
      BY <2>3, Appended DEF IsList
    <3> HIDE DEF frames1
    <3>2. \A c \in DOMAIN frames1 : c \in 1..Len(old.done) \/ c = Len(old.done) + 1
      BY <3>1
    <3>3. QED BY <2>2, <2>6, <3>1, <3>2
  <2> HIDE DEF frames1
  <2>8. CASE Len(filled.items) = max
    BY <1>5, <2>1, <2>4, <2>7, <2>8
  <2>9. CASE Len(filled.items) # max
    <3>1. run[k].done = old.done /\ run[k].open = filled
      BY <2>3, <2>4, <2>9
    <3>2. QED BY <2>1, <2>2, <2>5, <3>1
  <2>10. QED BY <2>8, <2>9
<1> HIDE DEF K
<1>8. n \in K
  BY <1>2, <1>6, <1>7, Counting
<1> DEFINE done == run[n].done
           open == run[n].open
<1>9. (\A c \in DOMAIN done : S7Apt(done[c])) /\ S7Apt(open)
  BY <1>8 DEF K, S7Full, S7Filling, S7Apt
<1>10. IsList(done) /\ S7Plan(zone, s, pdu) = IF open.items = << >> THEN done
                                              ELSE Append(done, open)
  BY <1>1, <1>2, <1>4 DEF S7PlanRun, n
<1> HIDE DEF done, open
<1>11. CASE open.items = << >>
  BY <1>9, <1>10, <1>11
<1>12. CASE open.items # << >>
  <2>1. S7Plan(zone, s, pdu) = Append(done, open)
    BY <1>10, <1>12
  <2>2. /\ DOMAIN done = 1..Len(done) /\ Len(done) \in Nat
        /\ a \in 1..(Len(done) + 1)
        /\ \A c \in 1..Len(done) : Append(done, open)[c] = done[c]
        /\ Append(done, open)[Len(done) + 1] = open
    BY <1>10, <2>1, Appended DEF IsList
  <2>3. QED BY <1>9, <2>1, <2>2
<1>13. QED BY <1>11, <1>12

LEMMA S7PlansAreApt ==
    ASSUME setup \in Setups, S7, NEW E, Placed(E), NEW vs \in Seq(E), RegularS7(vs),
           NEW plans \in S7Plans(vs, setup.pdu), NEW i \in DOMAIN plans
    PROVE  S7Apt(plans[i])
<1> DEFINE pdu == setup.pdu
           In(zone) == {j \in DOMAIN vs : vs[j].where.zone = zone}
           PlansIn(zone) == {S7Plan(zone, s, pdu) : s \in Sorted(vs, In(zone))}
           F == AtMost(E, MaxItemPerDataFrame(pdu))
           G == {f \in F : S7Apt(f)}
<1>1. ASSUME NEW zone \in Zones, NEW x \in PlansIn(zone) PROVE x \in Seq(G)
  <2>1. PICK s \in Sorted(vs, In(zone)) : x = S7Plan(zone, s, pdu)
    BY <1>1
  <2>2. s \in Orders(vs, In(zone)) /\ In(zone) \in SUBSET DOMAIN vs
    BY <2>1 DEF Sorted
  <2> HIDE DEF PlansIn
  <2>3. s \in Seq(E) /\ \A a \in DOMAIN s : \E j \in In(zone) : s[a] = vs[j]
    BY <2>2, OrdersOf
  <2>4. Alike(zone, s)
    <3> SUFFICES ASSUME NEW a \in DOMAIN s, NEW b \in DOMAIN s
                 PROVE  /\ SamePlace(ItemOf(s[a], zone), s[b])
                             => S7Bytes(s[a].type) = S7Bytes(s[b].type)
                        /\ s[a].where.zone = zone
      BY DEF Alike
    <3>1. PICK c \in In(zone), d \in In(zone) : s[a] = vs[c] /\ s[b] = vs[d]
      BY <2>3
    <3>2. /\ c \in DOMAIN vs /\ d \in DOMAIN vs
          /\ vs[c].where.zone = zone /\ vs[d].where.zone = zone
      OBVIOUS
    <3>3. ASSUME SamePlace(ItemOf(s[a], zone), s[b])
          PROVE  S7Bytes(vs[c].type) = S7Bytes(vs[d].type)
      <4>1. SamePlace(ItemOf(vs[c], vs[c].where.zone), vs[d])
        BY <3>1, <3>2, <3>3
      <4>2. QED BY <3>2, <4>1 DEF RegularS7
    <3>4. QED BY <3>1, <3>2, <3>3
  <2>5. MaxItemPerDataFrame(pdu) \in Nat \ {0}
    BY RoomyItems DEF RegularS7
  <2> HIDE DEF In, pdu
  <2>6. x \in Seq(F) /\ \A a \in DOMAIN x : S7Apt(x[a])
    BY <2>1, <2>3, <2>4, <2>5, S7PlanIs, S7PlanIsApt
  <2> HIDE DEF F
  <2>7. \A a \in DOMAIN x : x[a] \in G
    BY <2>6
  <2> HIDE DEF G
  <2>8. QED BY <2>6, <2>7, AllOf
<1>2. "I" \in Zones /\ "Q" \in Zones /\ "M" \in Zones /\ "DB" \in Zones
  BY DEF Zones
<1> DEFINE all == {a \o b \o c \o d : a \in PlansIn("I"), b \in PlansIn("Q"),
                                       c \in PlansIn("M"), d \in PlansIn("DB")}
<1>3. S7Plans(vs, pdu) = all
  BY DEF S7Plans
<1> HIDE DEF all, PlansIn, F, G
<1>4. plans \in all
  BY <1>3
<1>5. PICK a \in PlansIn("I"), b \in PlansIn("Q"), c \in PlansIn("M"), d \in PlansIn("DB") :
        plans = a \o b \o c \o d
  BY <1>4 DEF all
<1>6. a \in Seq(G) /\ b \in Seq(G) /\ c \in Seq(G) /\ d \in Seq(G)
  BY <1>1, <1>2
<1>7. plans \in Seq(G)
  BY <1>5, <1>6, FourJoined
<1>8. plans[i] \in G
  BY <1>7
<1>9. QED BY <1>8 DEF G

-----------------------------------------------------------------------------
(* What a frame makes of its own answer: a value for each of its variables,
   or nothing that could be read as data. *)

LEMMA ModbusParses ==
    ASSUME NEW E, Variables(E), NEW plan \in FramesOf(E), Spacious(plan), NEW proto, NEW layout,
           NEW buffer, buffer[1].content.code \in {plan.code, plan.code + 128}, NEW id,
           NEW d \in ValidateAndExtractMessage(proto, buffer, id, DataBytes(plan))
    PROVE  ParseVariableValue(plan, layout, d) # {}
<1> DEFINE n == DataBytes(plan)
           head == buffer[1].content
           bytes == [i \in 1..n |-> buffer[i + 1].content]
           room == IF plan.code \in Coils THEN plan.size ELSE plan.size * 2
<1>1. plan.code \in Codes /\ plan.size \in Nat /\ plan.code \in {1, 2, 3, 4}
  BY DEF FramesOf, Codes, Coils, Registers
<1>2. n \in Nat
  BY <1>1, DataBytesAre
<1>3. BitsPerByte \in Nat \ {0}
  BY ModbusAssumption
<1>4. /\ head.code < 128
      /\ d = IF head.code \in Coils THEN ExpandBool(bytes, n, BitsPerByte)
             ELSE IF head.code \in Registers THEN bytes ELSE << >>
  BY DEF ValidateAndExtractMessage
<1>5. head.code = plan.code
  <2>1. plan.code + 128 \in Nat /\ ~(plan.code + 128 < 128)
    BY <1>1
  <2> HIDE DEF head
  <2>2. head.code \in {plan.code, plan.code + 128}
    BY DEF head
  <2>3. QED BY <1>4, <2>1, <2>2
<1> HIDE DEF n, head
<1>6. Len(bytes) = n
  <2>1. bytes = [i \in 1..n |-> bytes[i]]
    OBVIOUS
  <2> HIDE DEF bytes
  <2>2. QED BY <1>2, <2>1, ListOf
<1> HIDE DEF bytes
<1>7. Len(d) \in Nat /\ room <= Len(d) /\ room \in Nat
  <2>1. CASE plan.code \in Coils
    <3> DEFINE most == IF n > Len(bytes) THEN Len(bytes) ELSE n
               f == [i \in 1..(most * BitsPerByte) |->
                       (bytes[((i - 1) \div BitsPerByte) + 1]
                          \div 2 ^ ((i - 1) % BitsPerByte)) % 2]
    <3>1. d = f
      BY <1>4, <1>5, <2>1 DEF ExpandBool
    <3>2. most = n
      BY <1>6
    <3> HIDE DEF most
    <3>3. f = [i \in 1..(most * BitsPerByte) |-> f[i]] /\ most * BitsPerByte \in Nat
      BY <1>2, <1>3, <3>2
    <3> HIDE DEF f
    <3>4. Len(d) = n * BitsPerByte
      BY <3>1, <3>2, <3>3, ListOf
    <3>5. plan.size <= n * BitsPerByte
      <4> DEFINE a == plan.size + BitsPerByte - 1
      <4>1. a \in Nat /\ n = a \div BitsPerByte
        BY <1>1, <1>3, <2>1 DEF n, DataBytes
      <4>2. PICK r \in 0..(BitsPerByte - 1) : a = BitsPerByte * n + r
        BY <1>3, <4>1, Division
      <4>3. BitsPerByte * n \in Nat /\ BitsPerByte * n = n * BitsPerByte
        BY <1>2, <1>3
      <4>4. QED BY <1>1, <1>3, <4>2, <4>3
    <3>6. n * BitsPerByte \in Nat
      BY <1>2, <1>3
    <3>7. QED BY <1>1, <2>1, <3>4, <3>5, <3>6
  <2>2. CASE plan.code \notin Coils
    <3>1. plan.code \in Registers
      BY <1>1, <2>2 DEF Codes
    <3>2. Len(d) = n
      BY <1>4, <1>5, <1>6, <2>2, <3>1
    <3>3. n = plan.size * 2
      BY <2>2 DEF n, DataBytes
    <3>4. QED BY <1>1, <1>2, <2>2, <3>2, <3>3
  <2>3. QED BY <2>1, <2>2
<1>8. ASSUME NEW b \in DOMAIN plan.parses
      PROVE  ~(Needs(plan, plan.parses[b]) > Len(d))
  <2>1. Needs(plan, plan.parses[b]) <= room
    BY DEF Spacious
  <2>2. Needs(plan, plan.parses[b]) \in Int
    <3>1. plan.parses \in Seq([v : E, at : Nat])
      BY DEF FramesOf
    <3>2. plan.parses[b] \in [v : E, at : Nat]
      BY <3>1, Elements
    <3>3. plan.parses[b].at \in Nat /\ plan.parses[b].v \in E
      BY <3>2
    <3>4. plan.parses[b].v.type \in DataTypes
      BY <3>3 DEF Variables
    <3>5. DataTypeWord(plan.parses[b].v.type) \in Nat
      BY <3>4 DEF DataTypeWord, DataTypes
    <3>6. QED BY <3>3, <3>5 DEF Needs
  <2> HIDE DEF room
  <2>3. QED BY <1>7, <2>1, <2>2
<1>9. QED BY <1>8 DEF ParseVariableValue

LEMMA S7Parses ==
    ASSUME NEW E, Placed(E), NEW plan \in Filled7(E), S7Spacious(plan),
           \A b \in DOMAIN plan.parses : ~S7WritePanics(plan.parses[b].v),
           NEW m, Len(m) = 1 + m[1].content.length,
           NEW d \in ValidateMessage(plan, m)
    PROVE  S7ParseVariableValue(plan, d) # {}
<1>1. plan.length \in Nat /\ plan.parses \in Seq([v : E, at : Nat])
  BY DEF Filled7, S7FramesOf
<1>2. /\ m[1].content.length = plan.length
      /\ d = [i \in 1..(Len(m) - 1) |-> m[i + 1].content]
  BY DEF ValidateMessage
<1>3. Len(m) - 1 = plan.length
  BY <1>1, <1>2
<1>4. Len(d) = plan.length
  <2>1. d = [i \in 1..plan.length |-> d[i]]
    BY <1>2, <1>3
  <2>2. QED BY <1>1, <2>1, ListOf
<1>5. ASSUME NEW b \in DOMAIN plan.parses
      PROVE  ~S7ParsePanics(plan.parses[b], d)
  <2>1. plan.parses[b] \in [v : E, at : Nat]
    BY <1>1, Elements
  <2>2. plan.parses[b].at \in Nat /\ plan.parses[b].v \in E
    BY <2>1
  <2>3. S7Bytes(plan.parses[b].v.type) \in Nat
    BY <2>2, LengthsAre DEF Placed
  <2>4. plan.parses[b].at + 4 + S7Bytes(plan.parses[b].v.type) <= plan.length
    BY DEF S7Spacious
  <2>5. QED BY <1>1, <1>4, <2>2, <2>3, <2>4 DEF S7ParsePanics, S7WritePanics
<1>6. QED BY <1>5 DEF S7ParseVariableValue

(* A result gives the variables of a plan, each a value under its name. *)
Named(values, plan) ==
    /\ Len(values) = Len(plan.parses) /\ DOMAIN values = DOMAIN plan.parses
    /\ \A k \in DOMAIN plan.parses : values[k].name = plan.parses[k].v.name

LEMMA ParsedAreNamed ==
    ASSUME NEW plan, IsList(plan.parses), NEW d, NEW values \in ParsedValues(plan, d)
    PROVE  Named(values, plan)
<1> DEFINE n == Len(plan.parses)
<1>1. n \in Nat /\ DOMAIN plan.parses = 1..n
  BY DEF IsList
<1>2. ASSUME NEW h, values = [k \in DOMAIN plan.parses |-> h[k]],
             \A k \in DOMAIN plan.parses : h[k].name = plan.parses[k].v.name
      PROVE  Named(values, plan)
  <2>1. values = [k \in 1..n |-> values[k]]
    BY <1>1, <1>2
  <2> HIDE DEF n
  <2>2. Len(values) = n
    BY <1>1, <2>1, ListOf
  <2>3. QED BY <1>2, <2>2 DEF Named, n
<1>3. CASE S7
  <2> DEFINE h == [i \in DOMAIN plan.parses |->
                      LET p == plan.parses[i]
                      IN  [name |-> p.v.name,
                           value |-> S7ParseValue(p.v, SubSeq(d, p.at + 5, Len(d)))]]
  <2>1. values = h
    BY <1>3 DEF ParsedValues, S7ParseVariableValue
  <2>2. h = [k \in DOMAIN plan.parses |-> h[k]]
        /\ \A k \in DOMAIN plan.parses : h[k].name = plan.parses[k].v.name
    OBVIOUS
  <2> HIDE DEF h
  <2>3. QED BY <1>2, <2>1, <2>2
<1>4. CASE ~S7
  <2> DEFINE h == [i \in DOMAIN plan.parses |->
                      LET p == plan.parses[i]
                      IN  [name |-> p.v.name,
                           value |-> IF plan.code \in Coils THEN d[p.at + 1]
                                     ELSE ParseRegisters(p.v, setup.layout,
                                              SubSeq(d, p.at + 1, Len(d)))]]
  <2>1. values = h
    BY <1>4 DEF ParsedValues, ParseVariableValue
  <2>2. h = [k \in DOMAIN plan.parses |-> h[k]]
        /\ \A k \in DOMAIN plan.parses : h[k].name = plan.parses[k].v.name
    OBVIOUS
  <2> HIDE DEF h
  <2>3. QED BY <1>2, <2>1, <2>2
<1>5. QED BY <1>3, <1>4

-----------------------------------------------------------------------------
(* The frames of a collection, and the results of its polls. *)

RegularOf(t) == IF S7 THEN RegularS7(t.list) ELSE RegularModBus(t.list)

PlansOf(fs) == [i \in DOMAIN fs |-> fs[i].plan]

WellFramed(f) ==
    /\ "plan" \in DOMAIN f
    /\ IF S7 THEN S7Apt(f.plan)
             ELSE /\ Apt(f.plan) /\ "buffer" \in DOMAIN f
                  /\ DOMAIN f.buffer = 1..(DataBytes(f.plan) + 2)

WellPlanned(fs, list) ==
    /\ \E n \in Nat : DOMAIN fs = 1..n
    /\ Whole(PlansOf(fs), list, DOMAIN list)
    /\ \A i \in DOMAIN fs : WellFramed(fs[i])

(* An answer that was alone on the connection is not dropped, and values are
   those of the frame's variables. *)
Sound(r, plan) ==
    /\ r.kind = "dropped" => ~r.clean
    /\ r.kind = "values" => Named(r.values, plan)

Ordered == Regular => WellPlanned(frames, table.list)

Answers == Regular => \A i \in DOMAIN frames : Sound(result[i], frames[i].plan)

LEMMA RegularFits ==
    ASSUME NEW t, RegularOf(t)
    PROVE  Fitting
BY DEF RegularOf, RegularS7, Fitting

LEMMA RegularNow == Regular <=> RegularOf(table)
BY DEF Regular, RegularOf

LEMMA RegularThen ==
    ASSUME setup' = setup
    PROVE  Regular' <=> RegularOf(table')
<1>1. (S7' <=> S7) /\ (Roomy' <=> Roomy)
  BY DEF S7, Roomy, HeadBytes
<1>2. RegularModBus(table.list)' <=> RegularModBus(table'.list)
  BY DEF RegularModBus
<1>3. RegularS7(table.list)' <=> RegularS7(table'.list)
  BY <1>1 DEF RegularS7
<1>4. QED BY <1>1, <1>2, <1>3 DEF Regular, RegularOf

LEMMA WellPlannedThen ==
    ASSUME setup' = setup
    PROVE  WellPlanned(frames, table.list)' <=> WellPlanned(frames', table'.list)
<1>1. S7' <=> S7
  BY DEF S7
<1>2. QED BY <1>1 DEF WellPlanned, WellFramed, PlansOf

LEMMA PlansAreNumbered ==
    ASSUME setup \in Setups, Fitting, NEW t, t.list \in Seq(Requestable),
           NEW plans \in Plans(t)
    PROVE  \E n \in Nat : DOMAIN plans = 1..n
<1>1. CASE S7
  <2>1. plans \in S7Plans(t.list, setup.pdu)
    BY <1>1 DEF Plans
  <2>2. MaxItemPerDataFrame(setup.pdu) \in Nat \ {0} /\ Placed(Requestable)
    BY <1>1, RoomyItems, TypedRequests DEF Fitting
  <2>3. plans \in Seq(AtMost(Requestable, MaxItemPerDataFrame(setup.pdu)))
    BY <2>1, <2>2, S7PlansAre
  <2>4. Len(plans) \in Nat /\ DOMAIN plans = 1..Len(plans)
    BY <2>3
  <2>5. QED BY <2>4
<1>2. CASE ~S7
  <2>1. plans \in ModbusPlans(t.list, setup.position)
    BY <1>2 DEF Plans
  <2>2. setup.position \in Nat /\ Variables(Requestable)
    BY <1>2, ExchangeAssumption, TypedRequests DEF Device
  <2>3. plans \in Seq(FramesOf(Requestable))
    BY <2>1, <2>2, ModbusPlansAre
  <2>4. Len(plans) \in Nat /\ DOMAIN plans = 1..Len(plans)
    BY <2>3
  <2>5. QED BY <2>4
<1>3. QED BY <1>1, <1>2

LEMMA NewFramesAreWell ==
    ASSUME setup \in Setups, NEW t, Rooted(t, Requestable), RegularOf(t),
           NEW plans \in Plans(t)
    PROVE  WellPlanned(NewFrames(plans), t.list)
<1> DEFINE fs == NewFrames(plans)
<1>1. Fitting /\ t.list \in Seq(Requestable)
  BY RegularFits DEF Rooted, Tables
<1>2. DOMAIN fs = DOMAIN plans
      /\ \A i \in DOMAIN plans : /\ {"plan", "buffer"} \subseteq DOMAIN fs[i]
                                 /\ fs[i].plan = plans[i]
                                 /\ fs[i].buffer = Blanked(plans[i])
  BY DEF NewFrames
<1> HIDE DEF fs
<1>3. \E n \in Nat : DOMAIN fs = 1..n
  BY <1>1, <1>2, PlansAreNumbered
<1>4. Whole(PlansOf(fs), t.list, DOMAIN t.list)
  <2>1. Whole(plans, t.list, DOMAIN t.list)
    BY <1>1, PlansAreWhole
  <2>2. /\ DOMAIN PlansOf(fs) = DOMAIN plans
        /\ \A i \in DOMAIN plans : PlansOf(fs)[i] = plans[i]
    BY <1>2 DEF PlansOf
  <2>3. QED BY <2>1, <2>2, SameWhole
<1>5. ASSUME NEW i \in DOMAIN fs PROVE WellFramed(fs[i])
  <2>1. CASE S7
    <3>1. plans \in S7Plans(t.list, setup.pdu) /\ RegularS7(t.list)
          /\ Placed(Requestable)
      BY <2>1, TypedRequests DEF Plans, RegularOf
    <3>2. S7Apt(plans[i])
      BY <1>1, <1>2, <1>5, <2>1, <3>1, S7PlansAreApt
    <3>3. QED BY <1>2, <1>5, <2>1, <3>2 DEF WellFramed
  <2>2. CASE ~S7
    <3>1. plans \in ModbusPlans(t.list, setup.position) /\ RegularModBus(t.list)
          /\ Variables(Requestable) /\ setup.position \in Nat
      BY <2>2, TypedRequests, ExchangeAssumption DEF Plans, RegularOf, Device
    <3>2. Apt(plans[i])
      BY <1>1, <1>2, <1>5, <2>2, <3>1, ModbusPlansAreApt
    <3>3. DOMAIN fs[i].buffer = 1..(DataBytes(plans[i]) + 2)
      BY <1>2, <1>5, <2>2 DEF Blanked
    <3>4. QED BY <1>2, <1>5, <2>2, <3>2, <3>3 DEF WellFramed
  <2>3. QED BY <2>1, <2>2
<1>6. QED BY <1>3, <1>4, <1>5 DEF WellPlanned, fs

(* Frames that keep their plans, and the shape of their buffers, are as well
   planned as they were. *)
LEMMA StaysWell ==
    ASSUME NEW fs, NEW other, NEW list, WellPlanned(fs, list), DOMAIN other = DOMAIN fs,
           \A i \in DOMAIN fs : {"plan", "buffer"} \cap DOMAIN fs[i] \subseteq DOMAIN other[i],
           \A i \in DOMAIN fs : "plan" \in DOMAIN fs[i] => other[i].plan = fs[i].plan,
           \A i \in DOMAIN fs : "buffer" \in DOMAIN fs[i] =>
              DOMAIN other[i].buffer = DOMAIN fs[i].buffer
    PROVE  WellPlanned(other, list)
<1>1. PlansOf(other) = PlansOf(fs)
  BY DEF PlansOf, WellPlanned, WellFramed
<1>2. \A i \in DOMAIN fs : WellFramed(other[i])
  BY DEF WellPlanned, WellFramed
<1>3. QED BY <1>1, <1>2 DEF WellPlanned

LEMMA AskedAgain ==
    ASSUME NEW i \in DOMAIN frames, NEW cells,
           \/ Unanswered(i) \/ Overrun(i)
           \/ frames' = [frames EXCEPT ![i].id = NextId(@),
                            ![i].buffer = IF S7 THEN @ ELSE Filled(@, cells)],
           NEW list, WellPlanned(frames, list)
    PROVE  /\ WellPlanned(frames', list) /\ DOMAIN frames' = DOMAIN frames
           /\ \A j \in DOMAIN frames : frames'[j].plan = frames[j].plan
<1>1. CASE Unanswered(i) \/ Overrun(i)
  <2>1. frames' = [frames EXCEPT ![i].id = NextId(@)]
    BY <1>1 DEF Unanswered, Overrun
  <2>2. /\ DOMAIN frames' = DOMAIN frames
        /\ \A j \in DOMAIN frames : DOMAIN frames'[j] = DOMAIN frames[j]
        /\ \A j \in DOMAIN frames : "plan" \in DOMAIN frames[j] => frames'[j].plan = frames[j].plan
        /\ \A j \in DOMAIN frames : "buffer" \in DOMAIN frames[j] => frames'[j].buffer = frames[j].buffer
    BY <2>1
  <2>3. WellPlanned(frames', list)
    BY <2>2, StaysWell
  <2>4. QED BY <2>2, <2>3 DEF WellPlanned, WellFramed
<1>2. CASE frames' = [frames EXCEPT ![i].id = NextId(@),
                            ![i].buffer = IF S7 THEN @ ELSE Filled(@, cells)]
  <2>1. \A b : DOMAIN Filled(b, cells) = DOMAIN b
    BY DEF Filled
  <2>2. /\ DOMAIN frames' = DOMAIN frames
        /\ \A j \in DOMAIN frames : DOMAIN frames'[j] = DOMAIN frames[j]
        /\ \A j \in DOMAIN frames : "plan" \in DOMAIN frames[j] => frames'[j].plan = frames[j].plan
        /\ \A j \in DOMAIN frames : "buffer" \in DOMAIN frames[j] =>
              DOMAIN frames'[j].buffer = DOMAIN frames[j].buffer
    BY <1>2, <2>1
  <2>3. WellPlanned(frames', list)
    BY <2>2, StaysWell
  <2>4. QED BY <2>2, <2>3 DEF WellPlanned, WellFramed
<1>3. QED BY <1>1, <1>2

LEMMA OrderedStep == CleanInv /\ Ordered /\ [Next]_vars => Ordered'
<1> SUFFICES ASSUME CleanInv, Ordered, [Next]_vars, Regular'
             PROVE  WellPlanned(frames', table'.list)
  BY TabledStep, WellPlannedThen DEF Ordered
<1>1. setup \in Setups /\ setup' = setup /\ RegularOf(table') /\ Rooted(stored, Requestable)
  BY TabledStep, RegularThen DEF CleanInv, Tabled
<1>2. ASSUME UNCHANGED table
      PROVE  Regular /\ WellPlanned(frames, table'.list)
  BY <1>1, <1>2, RegularNow DEF Ordered
<1>3. CASE UNCHANGED <<table, frames>>
  BY <1>2, <1>3
<1>4. ASSUME NEW i \in DOMAIN frames, Answered(i) \/ Unanswered(i) \/ Overrun(i)
      PROVE  WellPlanned(frames', table'.list)
  <2>1. UNCHANGED table
    BY <1>4 DEF Answered, Unanswered, Overrun
  <2>2. \/ Unanswered(i) \/ Overrun(i)
        \/ \E cells : frames' = [frames EXCEPT ![i].id = NextId(@),
                            ![i].buffer = IF S7 THEN @ ELSE Filled(@, cells)]
    BY <1>4 DEF Answered
  <2>3. QED BY <1>2, <2>1, <2>2, AskedAgain
<1>5. CASE Recollect
  <2>1. PICK plans \in Plans(stored) : frames' = NewFrames(plans) /\ table' = stored
    BY <1>5 DEF Recollect, Collecting
  <2>2. QED BY <1>1, <2>1, NewFramesAreWell
<1>6. ASSUME NEW i \in DOMAIN frames, TakeTurn(i)
      PROVE  WellPlanned(frames', table'.list)
  BY <1>3, <1>6 DEF TakeTurn
<1>7. CASE StartPoll \/ UpdateDevice \/ Drift \/ BeginCommand \/ CommandPanics
           \/ UNCHANGED vars
  BY <1>3, <1>7 DEF StartPoll, UpdateDevice, Drift, BeginCommand, CommandPanics, Begin, vars
<1>8. CASE CommandAnswered \/ CommandLate \/ CommandUnread \/ CommandBroken
           \/ CommandOverrun
  BY <1>3, <1>8 DEF CommandAnswered, CommandLate, CommandUnread, CommandBroken,
                    CommandOverrun
<1>9. QED BY <1>4, <1>5, <1>6, <1>7, <1>8 DEF Next

(* What is read whole, of an answer that was alone on the connection, is the
   frame's own. *)
LEMMA OwnCells ==
    ASSUME CleanInv, Regular, NEW i \in DOMAIN frames,
           ~dirty, NEW r \in Reads(Arrived(i), Capacity(frames[i].plan)), ~r.short
    PROVE  /\ r.cells = Answer(frames[i].plan, NextId(frames[i].id))
           /\ Len(r.cells) \in Nat \ {0} /\ Own(frames[i].plan, r.cells)
<1> DEFINE plan == frames[i].plan
           m == Answer(plan, NextId(frames[i].id))
<1>1. setup \in Setups /\ Memory(memory) /\ Fitting /\ stream = << >> /\ ProperPlan(plan)
  BY RegularFits, RegularNow DEF CleanInv, Clean, Planned
<1>2. Arrived(i) = stream \o m
  BY DEF Arrived
<1>3. r \in Reads(Arrived(i), Capacity(plan))
  OBVIOUS
<1> HIDE DEF plan
<1>4. Cells(m) /\ Capacity(plan) \in Nat /\ Bytes(m) <= Capacity(plan) /\ Own(plan, m)
  BY <1>1, AnswerFits
<1> HIDE DEF m
<1>5. r \in Reads(stream \o m, Capacity(plan)) /\ stream \o m = m
  BY <1>1, <1>2, <1>3, <1>4, Alone
<1>6. r.cells = m
  BY <1>1, <1>4, <1>5, ReadWhole
<1>7. Len(m) \in Nat \ {0}
  BY <1>4, <1>5, <1>6, ReadsSome
<1>8. QED BY <1>4, <1>6, <1>7 DEF m, plan

(* A frame's variables are variables of the table. *)
LEMMA OfTheTable ==
    ASSUME NEW list, WellPlanned(frames, list), NEW i \in DOMAIN frames,
           NEW b \in DOMAIN frames[i].plan.parses
    PROVE  \E k \in DOMAIN list : frames[i].plan.parses[b].v = list[k]
<1>1. Whole(PlansOf(frames), list, DOMAIN list) /\ PlansOf(frames)[i] = frames[i].plan
  BY DEF WellPlanned, PlansOf
<1>2. PICK f, g : Each(f, g, PlansOf(frames), list, DOMAIN list)
  BY <1>1 DEF Whole
<1>3. i \in DOMAIN PlansOf(frames) /\ b \in DOMAIN PlansOf(frames)[i].parses
  BY <1>1 DEF PlansOf
<1>4. PICK k \in DOMAIN list : f[k] = i /\ g[k] = b
  BY <1>2, <1>3 DEF Each
<1>5. frames[i].plan.parses[b].v = list[k]
  BY <1>1, <1>2, <1>4 DEF Each
<1>6. QED BY <1>5

(* What a frame makes of an answer that was alone on the connection is
   data, or the answer is none. *)
LEMMA DataIsParsed ==
    ASSUME CleanInv, Regular, Ordered, NEW i \in DOMAIN frames,
           ~dirty, NEW r \in Reads(Arrived(i), Capacity(frames[i].plan)), ~r.short,
           NEW buffer, ~S7 => buffer = Filled(frames[i].buffer, r.cells),
           NEW id,
           NEW d \in (IF S7 THEN ValidateMessage(frames[i].plan, r.cells)
                      ELSE ValidateAndExtractMessage(setup.proto, buffer, id,
                                                     DataBytes(frames[i].plan)))
    PROVE  ParsedValues(frames[i].plan, d) # {}
<1> DEFINE plan == frames[i].plan
           m == r.cells
<1>1. /\ setup \in Setups /\ WellPlanned(frames, table.list) /\ WellFramed(frames[i])
      /\ ProperPlan(plan)
  BY RegularFits, RegularNow DEF CleanInv, Planned, Ordered, WellPlanned
<1>2. Len(m) \in Nat \ {0} /\ Own(plan, m)
  BY OwnCells
<1>3. IF S7 THEN S7Spacious(plan) ELSE Spacious(plan)
  BY <1>1 DEF WellFramed, Apt, S7Apt
<1>4. CASE S7
  <2>1. d \in ValidateMessage(plan, m) /\ plan \in Filled7(Requestable) /\ Placed(Requestable)
    BY <1>1, <1>4, TypedRequests DEF ProperPlan, AtMost
  <2>2. Len(m) = 1 + m[1].content.length
    <3>1. Len(<< >>) = 0
      OBVIOUS
    <3>2. QED BY <1>2, <1>4, <3>1 DEF Own
  <2>3. ASSUME NEW b \in DOMAIN plan.parses PROVE ~S7WritePanics(plan.parses[b].v)
    <3>1. PICK k \in DOMAIN table.list : plan.parses[b].v = table.list[k]
      BY <1>1, OfTheTable
    <3>2. RegularS7(table.list)
      BY <1>4 DEF Regular
    <3>3. QED BY <3>1, <3>2 DEF RegularS7
  <2> HIDE DEF plan, m
  <2>4. S7ParseVariableValue(plan, d) # {}
    BY <1>3, <1>4, <2>1, <2>2, <2>3, S7Parses
  <2>5. QED BY <1>4, <2>4 DEF ParsedValues, plan
<1>5. CASE ~S7
  <2>1. plan \in FramesOf(Requestable) /\ Variables(Requestable)
    BY <1>1, <1>5, TypedRequests DEF ProperPlan
  <2>2. 1 \in DOMAIN frames[i].buffer
    <3>1. DataBytes(plan) \in Nat
      BY <2>1, DataBytesAre DEF FramesOf
    <3>2. QED BY <1>1, <1>5, <3>1 DEF WellFramed
  <2>3. buffer[1] = m[1]
    BY <1>2, <1>5, <2>2 DEF Filled
  <2>4. buffer[1].content.code \in {plan.code, plan.code + 128}
    BY <1>2, <1>5, <2>3 DEF Own
  <2>5. d \in ValidateAndExtractMessage(setup.proto, buffer, id, DataBytes(plan))
    BY <1>5
  <2> HIDE DEF plan, m
  <2>6. ParseVariableValue(plan, setup.layout, d) # {}
    BY <1>3, <1>5, <2>1, <2>4, <2>5, ModbusParses
  <2>7. QED BY <1>5, <2>6 DEF ParsedValues, plan
<1>6. QED BY <1>4, <1>5

LEMMA QuietResults ==
    \A plan : Sound(NoResult, plan) /\ Sound(Error, plan)
BY DEF Sound, NoResult, Error

LEMMA Told ==
    ASSUME TInv, NEW i \in DOMAIN frames, NEW plan, Sound(result[i], plan),
           \/ TriedInVain(i)
           \/ \E r : Reported(i, r) /\ Sound(r, plan)
    PROVE  /\ Sound(result'[i], plan)
           /\ \A j \in DOMAIN frames : j # i => result'[j] = result[j]
<1>1. DOMAIN result = DOMAIN frames
  BY DEF TInv, TypeOK
<1>2. ASSUME NEW r, Reported(i, r), Sound(r, plan)
      PROVE  /\ Sound(result'[i], plan)
             /\ \A j \in DOMAIN frames : j # i => result'[j] = result[j]
  BY <1>1, <1>2 DEF Reported
<1>3. CASE TriedInVain(i)
  <2>1. CASE tries = 2
    BY <1>2, <1>3, <2>1, QuietResults DEF TriedInVain
  <2>2. CASE tries # 2
    BY <1>3, <2>2 DEF TriedInVain
  <2>3. QED BY <2>1, <2>2
<1>4. QED BY <1>2, <1>3

LEMMA AnswerIsSound ==
    ASSUME TInv, CleanInv, Regular, Ordered, Answers,
           NEW i \in DOMAIN frames, Answered(i) \/ Unanswered(i) \/ Overrun(i)
    PROVE  /\ Sound(result'[i], frames[i].plan)
           /\ \A j \in DOMAIN frames : j # i => result'[j] = result[j]
<1> DEFINE plan == frames[i].plan
<1>1. Sound(result[i], plan)
  BY DEF Answers
<1>2. ProperPlan(plan) /\ Fitting /\ setup \in Setups /\ Memory(memory)
  BY RegularFits, RegularNow DEF CleanInv, Planned
<1>3. CASE Unanswered(i)
  <2>1. TriedInVain(i) \/ Reported(i, Error) \/ UNCHANGED result
    BY <1>3 DEF Unanswered
  <2>2. CASE UNCHANGED result
    BY <1>1, <2>2
  <2>3. CASE TriedInVain(i) \/ Reported(i, Error)
    BY <1>1, <2>3, QuietResults, Told
  <2>4. QED BY <2>1, <2>2, <2>3
<1>4. CASE Overrun(i)
  <2>1. Reported(i, Dropped(~dirty)) /\ Bytes(Arrived(i)) > Capacity(plan)
    BY <1>4 DEF Overrun
  <2>2. ASSUME ~dirty PROVE FALSE
    <3> DEFINE m == Answer(plan, NextId(frames[i].id))
    <3>1. stream = << >> /\ Arrived(i) = stream \o m
      BY <1>2, <2>2 DEF CleanInv, Clean, Arrived
    <3> HIDE DEF plan
    <3>2. Cells(m) /\ Capacity(plan) \in Nat /\ Bytes(m) <= Capacity(plan)
      BY <1>2, AnswerFits
    <3> HIDE DEF m
    <3>3. Bytes(m) > Capacity(plan)
      BY <2>1, <3>1, <3>2, Alone DEF plan
    <3>4. Bytes(m) \in Nat
      <4>1. IsList(m) /\ HeadBytes \in Nat
        BY <1>2, <3>2, HeadBytesIs DEF Cells
      <4>2. \A kind : Number(m, kind) \in Nat
        BY <4>1, NumberIs
      <4>3. QED BY <4>1, <4>2 DEF Bytes
    <3>5. QED BY <3>2, <3>3, <3>4
  <2>3. Sound(Dropped(~dirty), plan)
    BY <2>2 DEF Sound, Dropped, NoResult
  <2>4. QED BY <1>1, <2>1, <2>3, Told
<1>5. CASE Answered(i)
  <2>1. PICK r \in Reads(Arrived(i), Capacity(plan)) :
           /\ frames' = [frames EXCEPT ![i].id = NextId(@),
                            ![i].buffer = IF S7 THEN @ ELSE Filled(@, r.cells)]
           /\ dirty' = (dirty \/ r.short)
           /\ Understood(i, r.cells, ~dirty')
    BY <1>5 DEF Answered
  <2> DEFINE data == IF S7 THEN ValidateMessage(plan, r.cells)
                     ELSE ValidateAndExtractMessage(setup.proto, frames'[i].buffer,
                                                    frames'[i].id, DataBytes(plan))
             values == UNION {ParsedValues(plan, d) : d \in data}
  <2>2. \/ data = {} /\ TriedInVain(i)
        \/ data # {} /\ values = {} /\ Reported(i, Dropped(~dirty'))
        \/ \E v \in values : Reported(i, Values(plan, v, ~dirty'))
    BY <2>1 DEF Understood
  <2>3. CASE data = {} /\ TriedInVain(i)
    BY <1>1, <2>3, Told
  <2>4. CASE data # {} /\ values = {} /\ Reported(i, Dropped(~dirty'))
    <3>1. ASSUME ~dirty' PROVE FALSE
      <4>1. ~dirty /\ ~r.short
        BY <2>1, <3>1
      <4>2. WellFramed(frames[i])
        BY RegularNow DEF Ordered, WellPlanned
      <4>3. ~S7 => frames'[i].buffer = Filled(frames[i].buffer, r.cells)
        BY <2>1, <4>2 DEF WellFramed
      <4>4. PICK d \in data : TRUE
        BY <2>4
      <4>5. ParsedValues(plan, d) # {}
        BY <2>1, <4>1, <4>3, <4>4, DataIsParsed
      <4>6. QED BY <2>4, <4>4, <4>5
    <3>2. Sound(Dropped(~dirty'), plan)
      BY <3>1 DEF Sound, Dropped, NoResult
    <3>3. QED BY <1>1, <2>4, <3>2, Told
  <2>5. ASSUME NEW v \in values, Reported(i, Values(plan, v, ~dirty'))
        PROVE  /\ Sound(result'[i], frames[i].plan)
               /\ \A j \in DOMAIN frames : j # i => result'[j] = result[j]
    <3>1. PICK d \in data : v \in ParsedValues(plan, d)
      BY <2>5
    <3>2. IsList(plan.parses)
      <4>1. PICK P : plan.parses \in Seq(P)
        BY <1>2 DEF ProperPlan, AtMost, Filled7, S7FramesOf, FramesOf
      <4> HIDE DEF plan
      <4>2. QED BY <4>1 DEF IsList
    <3>3. Named(v, plan)
      BY <3>1, <3>2, ParsedAreNamed
    <3>4. Sound(Values(plan, v, ~dirty'), plan)
      BY <3>3 DEF Sound, Values
    <3>5. QED BY <1>1, <2>5, <3>4, Told
  <2>6. QED BY <2>2, <2>3, <2>4, <2>5
<1>6. QED BY <1>3, <1>4, <1>5

LEMMA AnswersStep == TInv /\ CleanInv /\ Ordered /\ Answers /\ [Next]_vars => Answers'
<1> SUFFICES ASSUME TInv, CleanInv, Ordered, Answers, [Next]_vars, Regular',
                    NEW i \in DOMAIN frames'
             PROVE  Sound(result'[i], frames'[i].plan)
  BY DEF Answers, Sound, Named
<1>1. setup \in Setups /\ setup' = setup /\ RegularOf(table') /\ Fitting
  BY TabledStep, RegularThen, RegularFits DEF CleanInv
<1>2. ASSUME UNCHANGED table
      PROVE  Regular /\ WellPlanned(frames, table.list)
             /\ \A j \in DOMAIN frames : Sound(result[j], frames[j].plan)
  BY <1>1, <1>2, RegularNow DEF Ordered, Answers
<1>3. CASE UNCHANGED <<table, frames, result>>
  BY <1>2, <1>3
<1>4. ASSUME NEW k \in DOMAIN frames, Answered(k) \/ Unanswered(k) \/ Overrun(k)
      PROVE  Sound(result'[i], frames'[i].plan)
  <2>1. UNCHANGED table
    BY <1>4 DEF Answered, Unanswered, Overrun
  <2>2. \/ Unanswered(k) \/ Overrun(k)
        \/ \E cells : frames' = [frames EXCEPT ![k].id = NextId(@),
                            ![k].buffer = IF S7 THEN @ ELSE Filled(@, cells)]
    BY <1>4 DEF Answered
  <2>3. DOMAIN frames' = DOMAIN frames /\ frames'[i].plan = frames[i].plan
    BY <1>2, <2>1, <2>2, AskedAgain
  <2>4. /\ Sound(result'[k], frames[k].plan)
        /\ \A j \in DOMAIN frames : j # k => result'[j] = result[j]
    BY <1>2, <1>4, <2>1, AnswerIsSound
  <2>5. CASE i = k
    BY <2>3, <2>4, <2>5
  <2>6. CASE i # k
    BY <1>2, <2>1, <2>3, <2>4, <2>6
  <2>7. QED BY <2>5, <2>6
<1>5. CASE Recollect
  <2>1. PICK plans \in Plans(stored) : /\ frames' = NewFrames(plans)
                                       /\ result' = [j \in DOMAIN plans |-> NoResult]
    BY <1>5 DEF Recollect, Collecting
  <2>2. result'[i] = NoResult
    BY <2>1 DEF NewFrames
  <2>3. QED BY <2>2, QuietResults
<1>6. CASE StartPoll
  <2>1. frames' = frames /\ result' = [j \in DOMAIN frames |-> NoResult]
    BY <1>6 DEF StartPoll
  <2>2. QED BY <2>1, QuietResults
<1>7. ASSUME NEW k \in DOMAIN frames, TakeTurn(k)
      PROVE  Sound(result'[i], frames'[i].plan)
  BY <1>3, <1>7 DEF TakeTurn
<1>8. CASE UpdateDevice \/ Drift \/ BeginCommand \/ CommandPanics \/ UNCHANGED vars
  BY <1>3, <1>8 DEF UpdateDevice, Drift, BeginCommand, CommandPanics, Begin, vars
<1>9. CASE CommandAnswered \/ CommandLate \/ CommandUnread \/ CommandBroken
           \/ CommandOverrun
  BY <1>3, <1>9 DEF CommandAnswered, CommandLate, CommandUnread, CommandBroken,
                    CommandOverrun
<1>10. QED BY <1>4, <1>5, <1>6, <1>7, <1>8, <1>9 DEF Next

LEMMA AnswersInit == Init => Ordered /\ Answers
<1> SUFFICES ASSUME Init PROVE Ordered /\ Answers
  OBVIOUS
<1>1. CleanInv
  BY CleanInit
<1>2. PICK plans \in Plans(table) : /\ frames = NewFrames(plans)
                                    /\ result = [j \in DOMAIN plans |-> NoResult]
  BY DEF Init
<1>3. Ordered
  BY <1>1, <1>2, NewFramesAreWell, RegularNow DEF Ordered, CleanInv, Tabled
<1>4. \A i \in DOMAIN frames : result[i] = NoResult
  BY <1>2 DEF NewFrames
<1>5. QED BY <1>3, <1>4, QuietResults DEF Answers

-----------------------------------------------------------------------------
(* How many values the results of a poll have. *)

TotalFold(it, rs) ==
    it = [T \in SUBSET DOMAIN rs |->
            IF T = {} THEN 0
            ELSE it[T \ {Max(T)}] + Len(rs[Max(T)].values)]

(* The sum, as the sequence of its beginnings. *)
LEMMA TotalRuns ==
    ASSUME NEW n \in Nat, NEW rs, DOMAIN rs = 1..n, \A i \in 1..n : Len(rs[i].values) \in Nat
    PROVE  \E run : /\ run[0] = 0
                    /\ \A k \in 1..n : run[k] = run[k - 1] + Len(rs[k].values)
                    /\ FoldLeft(LAMBDA m, r : m + Len(r.values), 0, rs) = run[n]
<1> DEFINE step == [i \in 1..n |-> [u \in Nat |-> u + Len(rs[i].values)]]
<1>1. \A T \in SUBSET (1..n) : T # {} => Max(T) \in T
  BY HighestIn
<1>2. \E it : TotalFold(it, rs)
  <2>1. \A i \in 1..n, u \in Nat : step[i][u] = u + Len(rs[i].values) /\ step[i][u] \in Nat
    OBVIOUS
  <2> HIDE DEF step
  <2>2. PICK it \in [SUBSET (1..n) -> Nat] : Iterates(it, n, 0, step)
    BY <2>1, IterationExists
  <2>3. \A T \in SUBSET (1..n) :
          it[T] = IF T = {} THEN 0 ELSE step[Max(T)][it[T \ {Max(T)}]]
    BY <2>2 DEF Iterates
  <2>4. \A T \in SUBSET (1..n) :
          it[T] = IF T = {} THEN 0 ELSE it[T \ {Max(T)}] + Len(rs[Max(T)].values)
    <3> SUFFICES ASSUME NEW T \in SUBSET (1..n), T # {}
                 PROVE  it[T] = it[T \ {Max(T)}] + Len(rs[Max(T)].values)
      BY <2>3
    <3>1. Max(T) \in 1..n /\ T \ {Max(T)} \in SUBSET (1..n)
      BY <1>1
    <3>2. it[T \ {Max(T)}] \in Nat
      BY <2>2, <3>1
    <3>3. it[T] = step[Max(T)][it[T \ {Max(T)}]]
      BY <2>3
    <3>4. QED BY <2>1, <3>1, <3>2, <3>3
  <2>5. it = [T \in SUBSET (1..n) |->
                IF T = {} THEN 0 ELSE it[T \ {Max(T)}] + Len(rs[Max(T)].values)]
    BY <2>2, <2>4
  <2>6. QED BY <2>5 DEF TotalFold
<1> DEFINE it == CHOOSE it : TotalFold(it, rs)
<1>3. TotalFold(it, rs)
  BY <1>2
<1>4. FoldLeft(LAMBDA m, r : m + Len(r.values), 0, rs) = it[DOMAIN rs]
  BY DEF FoldLeft, MapThenFoldSet, TotalFold
<1> HIDE DEF it
<1>5. \A T \in SUBSET (1..n) :
        it[T] = IF T = {} THEN 0 ELSE it[T \ {Max(T)}] + Len(rs[Max(T)].values)
  BY <1>3 DEF TotalFold
<1> DEFINE run == [k \in 0..n |-> it[1..k]]
<1>6. ASSUME NEW k \in 1..n PROVE run[k] = run[k - 1] + Len(rs[k].values)
  <2>1. /\ 1..k \in SUBSET (1..n) /\ 1..k # {} /\ (1..k) \ {k} = 1..(k - 1)
        /\ k \in 0..n /\ k - 1 \in 0..n /\ Max(1..k) = k
    BY Beginning
  <2>2. it[1..k] = it[(1..k) \ {Max(1..k)}] + Len(rs[Max(1..k)].values)
    BY <1>5, <2>1
  <2>3. QED BY <2>1, <2>2
<1>7. run[0] = 0
  <2>1. 1..0 = {} /\ 0 \in 0..n
    OBVIOUS
  <2>2. QED BY <1>5, <2>1
<1>8. run[n] = it[DOMAIN rs]
  <2>1. n \in 0..n
    OBVIOUS
  <2>2. QED BY <2>1
<1> HIDE DEF run
<1>9. QED BY <1>4, <1>6, <1>7, <1>8

(* The places of a list, counted frame by frame. *)
LEMMA PlacesAreCounted ==
    ASSUME NEW n \in Nat, NEW m \in Nat, NEW plans, DOMAIN plans = 1..n,
           \A a \in 1..n : IsList(plans[a].parses),
           NEW vs, NEW P, P = 1..m, NEW f, NEW g, Each(f, g, plans, vs, P),
           NEW run, run[0] = 0,
           \A k \in 1..n : run[k] = run[k - 1] + Len(plans[k].parses)
    PROVE  run[n] = m
<1> DEFINE In(k) == {i \in 1..m : f[i] \in 1..k}
           At(k) == {i \in 1..m : f[i] = k}
           K == {k \in 0..n : run[k] = Cardinality(In(k))}
<1>0. \A a \in DOMAIN plans : \A b \in DOMAIN plans[a].parses :
        \E i \in 1..m : f[i] = a /\ g[i] = b
  BY DEF Each
<1>1. IsFiniteSet(1..m) /\ Cardinality(1..m) = m
  BY UpTo
<1>2. \A k : IsFiniteSet(In(k)) /\ IsFiniteSet(At(k))
  <2>1. \A k : In(k) \in SUBSET (1..m) /\ At(k) \in SUBSET (1..m)
    OBVIOUS
  <2> HIDE DEF In, At
  <2>2. QED BY <1>1, <2>1, FS_Subset
<1>3. ASSUME NEW k \in 1..n PROVE Cardinality(At(k)) = Len(plans[k].parses)
  <2> DEFINE L == Len(plans[k].parses)
             h == [i \in At(k) |-> g[i]]
  <2>1. L \in Nat /\ DOMAIN plans[k].parses = 1..L
    BY DEF IsList
  <2> HIDE DEF L
  <2>2. \A i \in At(k) : g[i] \in 1..L
    BY <2>1 DEF Each
  <2>3. \A i, j \in At(k) : g[i] = g[j] => i = j
    BY DEF Each
  <2>4. \A b \in 1..L : \E i \in At(k) : g[i] = b
    <3> SUFFICES ASSUME NEW b \in 1..L PROVE \E i \in At(k) : g[i] = b
      OBVIOUS
    <3>1. k \in DOMAIN plans /\ b \in DOMAIN plans[k].parses
      BY <2>1
    <3>2. PICK i \in 1..m : f[i] = k /\ g[i] = b
      BY <1>0, <3>1
    <3>3. QED BY <3>2
  <2> HIDE DEF At
  <2>5. h \in Injection(At(k), 1..L) /\ h \in Surjection(At(k), 1..L)
    BY <2>2, <2>3, <2>4 DEF Injection, Surjection, IsInjective
  <2>6. IsFiniteSet(1..L) /\ Cardinality(1..L) = L
    <3>1. L \in Nat
      BY <2>1
    <3>2. QED BY ONLY <3>1, UpTo
  <2> HIDE DEF h
  <2>7. Cardinality(At(k)) = Cardinality(1..L)
    BY <2>5, <2>6, FS_Injection
  <2>8. QED BY <2>6, <2>7 DEF L
<1>4. ASSUME NEW k \in 1..n, k - 1 \in K PROVE k \in K
  <2>1. k \in 0..n /\ 1..k = (1..(k - 1)) \cup {k} /\ k \notin 1..(k - 1)
    BY Next1Is
  <2>2. In(k) = In(k - 1) \cup At(k) /\ In(k - 1) \cap At(k) = {}
    BY <2>1
  <2>3. run[k - 1] = Cardinality(In(k - 1)) /\ run[k] = run[k - 1] + Cardinality(At(k))
    BY <1>3, <1>4
  <2> HIDE DEF In, At
  <2>4. /\ Cardinality(In(k - 1)) \in Nat /\ Cardinality(At(k)) \in Nat
        /\ Cardinality(In(k)) = Cardinality(In(k - 1)) + Cardinality(At(k))
                                  - Cardinality(In(k - 1) \cap At(k))
    BY <1>2, <2>2, FS_Union, FS_CardinalityType
  <2>5. Cardinality(In(k - 1) \cap At(k)) = 0
    BY <2>2, FS_EmptySet
  <2>6. run[k] = Cardinality(In(k))
    BY <2>3, <2>4, <2>5
  <2>7. QED BY <2>1, <2>6
<1>5. 0 \in K
  <2>1. In(0) = {}
    OBVIOUS
  <2>2. QED BY <2>1, FS_EmptySet
<1>6. In(n) = 1..m
  BY DEF Each
<1> HIDE DEF In
<1>7. n \in K
  <2> HIDE DEF K
  <2>1. \A k \in 0..n : k \in K
    BY <1>4, <1>5, Counting
  <2>2. QED BY <2>1
<1>8. QED BY <1>1, <1>6, <1>7

AnswerInv == TInv /\ CleanInv /\ Ordered /\ Answers

LEMMA AllAreAnswered == AnswerInv => EveryVariableAnswered
<1> SUFFICES ASSUME AnswerInv, Regular,
                    \A i \in DOMAIN result : result[i].kind # "none" /\ result[i].clean
             PROVE  /\ \A i \in DOMAIN result : result[i].kind \in {"values", "error"}
                    /\ (\A i \in DOMAIN result : result[i].kind = "values") =>
                         /\ \A v \in Names(table.list) : \E i \in DOMAIN result :
                               \E k \in Reports(i) : result[i].values[k].name = v
                         /\ FoldLeft(LAMBDA m, r : m + Len(r.values), 0, result)
                              = Len(table.list)
  BY DEF EveryVariableAnswered
<1>1. DOMAIN result = DOMAIN frames /\ \A i \in DOMAIN frames : result[i].kind \in Kinds
  BY DEF AnswerInv, TInv, TypeOK, Kinds
<1>2. \A i \in DOMAIN frames : Sound(result[i], frames[i].plan)
  BY DEF AnswerInv, Answers
<1>3. ASSUME NEW i \in DOMAIN result PROVE result[i].kind \in {"values", "error"}
  BY <1>1, <1>2, <1>3 DEF Sound, Kinds
<1>4. ASSUME \A i \in DOMAIN result : result[i].kind = "values"
      PROVE  /\ \A v \in Names(table.list) : \E i \in DOMAIN result :
                   \E k \in Reports(i) : result[i].values[k].name = v
             /\ FoldLeft(LAMBDA m, r : m + Len(r.values), 0, result) = Len(table.list)
  <2> DEFINE plans == PlansOf(frames)
             list == table.list
             m == Len(list)
  <2>1. /\ DOMAIN plans = DOMAIN frames /\ \A i \in DOMAIN frames : plans[i] = frames[i].plan
    BY DEF PlansOf
  <2>2. \A i \in DOMAIN frames : Named(result[i].values, plans[i])
    BY <1>1, <1>2, <1>4, <2>1 DEF Sound
  <2>3. WellPlanned(frames, list)
    BY DEF AnswerInv, Ordered
  <2>4. PICK n \in Nat : DOMAIN frames = 1..n
    BY <2>3 DEF WellPlanned
  <2>5. m \in Nat /\ DOMAIN list = 1..m
    <3>1. list \in Seq(Requestable)
      BY DEF AnswerInv, CleanInv, Tabled, Rooted, Tables
    <3>2. QED BY <3>1
  <2>6. ASSUME NEW i \in DOMAIN frames PROVE IsList(plans[i].parses)
    <3>1. ProperPlan(frames[i].plan)
      BY RegularNow, RegularFits DEF AnswerInv, CleanInv, Planned
    <3> DEFINE parses == frames[i].plan.parses
    <3>2. PICK P : parses \in Seq(P)
      BY <3>1 DEF ProperPlan, AtMost, Filled7, S7FramesOf, FramesOf
    <3> HIDE DEF parses
    <3>3. IsList(parses)
      BY <3>2 DEF IsList
    <3>4. QED BY <2>1, <3>3 DEF parses
  <2>7. PICK f, g : Each(f, g, plans, list, DOMAIN list)
    BY <2>3 DEF WellPlanned, Whole
  <2> HIDE DEF plans, list, m
  <2>8. ASSUME NEW v \in Names(list)
        PROVE  \E i \in DOMAIN result : \E k \in Reports(i) : result[i].values[k].name = v
    <3>1. PICK j \in DOMAIN list : list[j].name = v
      BY DEF Names
    <3>2. /\ f[j] \in DOMAIN frames /\ g[j] \in DOMAIN plans[f[j]].parses
          /\ plans[f[j]].parses[g[j]].v = list[j]
      BY <2>1, <2>7, <3>1 DEF Each
    <3>3. g[j] \in Reports(f[j]) /\ result[f[j]].values[g[j]].name = v
      BY <2>2, <3>1, <3>2 DEF Named, Reports
    <3>4. QED BY <1>1, <3>2, <3>3
  <2>9. FoldLeft(LAMBDA o, r : o + Len(r.values), 0, result) = m
    <3>1. \A k \in 1..n : Len(result[k].values) = Len(plans[k].parses)
                          /\ Len(result[k].values) \in Nat
      BY <2>2, <2>4, <2>6 DEF Named, IsList
    <3>2. PICK run : /\ run[0] = 0
                     /\ \A k \in 1..n : run[k] = run[k - 1] + Len(result[k].values)
                     /\ FoldLeft(LAMBDA o, r : o + Len(r.values), 0, result) = run[n]
      <4>1. DOMAIN result = 1..n
        BY <1>1, <2>4
      <4>2. QED BY <3>1, <4>1, TotalRuns
    <3>3. \A k \in 1..n : run[k] = run[k - 1] + Len(plans[k].parses)
      BY <3>1, <3>2
    <3>4. run[n] = m
      <4>1. DOMAIN plans = 1..n /\ \A a \in 1..n : IsList(plans[a].parses)
        BY <2>1, <2>4, <2>6
      <4>2. Each(f, g, plans, list, DOMAIN list) /\ DOMAIN list = 1..m /\ m \in Nat
        BY <2>5, <2>7
      <4>3. run[0] = 0
        BY <3>2
      <4>4. QED BY ONLY n \in Nat, <3>3, <4>1, <4>2, <4>3, PlacesAreCounted
    <3>5. QED BY <3>2, <3>4
  <2>10. QED BY <2>8, <2>9 DEF list, m
<1>5. QED BY <1>3, <1>4

(* A poll of a regular device whose answers came alone on the connection
   gives each variable of the broker's table one value, or an error for a
   frame: NewBroker plans no variable twice and forgets none, the frames it
   sizes hold the places it notes in them, ParseVariableValue finds all it
   looks for in an answer that passed its check, and poll's message() has
   nothing to recover from.  For any device, memory and number of
   variables. *)
THEOREM ExchangeEveryVariableAnswered == Spec => []EveryVariableAnswered
<1>1. AnswerInv => EveryVariableAnswered
  BY AllAreAnswered
<1>2. Init => AnswerInv
  BY TypeInit, CleanInit, AnswersInit DEF AnswerInv
<1>3. AnswerInv /\ [Next]_vars => AnswerInv'
  BY TypeStep, CleanInvStep, OrderedStep, AnswersStep DEF AnswerInv
<1>4. QED BY <1>1, <1>2, <1>3, PTL DEF Spec

-----------------------------------------------------------------------------
(* ShrinkBool: the sum of a byte's bits, as the sequence of its beginnings. *)

BitAt(bits, i) == IF i <= Len(bits) THEN bits[i] ELSE 0

ByteSum(bits, o, s) ==
    FoldLeft(LAMBDA sum, i : sum + (IF o + i <= Len(bits) THEN bits[o + i] ELSE 0)
                                     * 2 ^ (i - 1), 0, s)

ByteFold(it, s, bits, o) ==
    it = [T \in SUBSET DOMAIN s |->
            IF T = {} THEN 0
            ELSE it[T \ {Max(T)}]
                   + (IF o + s[Max(T)] <= Len(bits) THEN bits[o + s[Max(T)]] ELSE 0)
                        * 2 ^ (s[Max(T)] - 1)]

BitsFrom(bits, o, n) == \A i \in 1..n : BitAt(bits, o + i) \in {0, 1}

ByteRun(run, bits, o, n) ==
    /\ run[0] = 0
    /\ \A k \in 1..n : run[k] = run[k - 1] + BitAt(bits, o + k) * 2 ^ (k - 1)
    /\ ByteSum(bits, o, [i \in 1..n |-> i]) = run[n]

LEMMA ByteRuns ==
    ASSUME NEW n \in Nat, NEW bits, NEW o, BitsFrom(bits, o, n)
    PROVE  \E run : ByteRun(run, bits, o, n)
<1> DEFINE s == [i \in 1..n |-> i]
<1>12. s = [i \in 1..n |-> i] /\ \A i \in 1..n : BitAt(bits, o + i) \in {0, 1}
  BY DEF BitsFrom
<1> HIDE DEF s
<1> DEFINE g == [i \in 1..n |-> BitAt(bits, o + i) * 2 ^ (i - 1)]
           step == [i \in 1..n |-> [u \in Nat |-> u + g[i]]]
<1>1. \A T \in SUBSET (1..n) : T # {} => Max(T) \in T
  BY HighestIn
<1>2. \A i \in 1..n : g[i] \in Nat /\ g[i] = BitAt(bits, o + i) * 2 ^ (i - 1)
  <2> SUFFICES ASSUME NEW i \in 1..n PROVE g[i] \in Nat
    OBVIOUS
  <2>1. i - 1 \in Nat
    OBVIOUS
  <2> DEFINE p == 2 ^ (i - 1)
             b == BitAt(bits, o + i)
  <2>2. p \in Nat /\ b \in {0, 1} /\ g[i] = b * p
    BY <1>12, <2>1, Power
  <2> HIDE DEF p, b, g
  <2>3. QED BY <2>2
<1> HIDE DEF g
<1>3. \E it : it = [T \in SUBSET (1..n) |->
                      IF T = {} THEN 0 ELSE it[T \ {Max(T)}] + g[Max(T)]]
  <2>1. \A i \in 1..n, u \in Nat : step[i][u] = u + g[i] /\ step[i][u] \in Nat
    BY <1>2
  <2> HIDE DEF step
  <2>2. PICK it \in [SUBSET (1..n) -> Nat] : Iterates(it, n, 0, step)
    BY <2>1, IterationExists
  <2>3. \A T \in SUBSET (1..n) :
          it[T] = IF T = {} THEN 0 ELSE step[Max(T)][it[T \ {Max(T)}]]
    BY <2>2 DEF Iterates
  <2>4. \A T \in SUBSET (1..n) :
          it[T] = IF T = {} THEN 0 ELSE it[T \ {Max(T)}] + g[Max(T)]
    <3> SUFFICES ASSUME NEW T \in SUBSET (1..n), T # {}
                 PROVE  it[T] = it[T \ {Max(T)}] + g[Max(T)]
      BY <2>3
    <3>1. Max(T) \in 1..n /\ T \ {Max(T)} \in SUBSET (1..n)
      BY <1>1
    <3>2. it[T \ {Max(T)}] \in Nat
      BY <2>2, <3>1
    <3>3. it[T] = step[Max(T)][it[T \ {Max(T)}]]
      BY <2>3
    <3>4. QED BY <2>1, <3>1, <3>2, <3>3
  <2>5. QED BY <2>2, <2>4
<1>4. \E it : ByteFold(it, s, bits, o)
  <2>1. PICK it : it = [T \in SUBSET (1..n) |->
                          IF T = {} THEN 0 ELSE it[T \ {Max(T)}] + g[Max(T)]]
    BY <1>3
  <2>2. \A T \in SUBSET (1..n) :
          it[T] = IF T = {} THEN 0
                  ELSE it[T \ {Max(T)}]
                         + (IF o + s[Max(T)] <= Len(bits) THEN bits[o + s[Max(T)]] ELSE 0)
                              * 2 ^ (s[Max(T)] - 1)
    <3> SUFFICES ASSUME NEW T \in SUBSET (1..n), T # {}
                 PROVE  it[T] = it[T \ {Max(T)}]
                          + (IF o + s[Max(T)] <= Len(bits) THEN bits[o + s[Max(T)]] ELSE 0)
                               * 2 ^ (s[Max(T)] - 1)
      BY <2>1
    <3>1. Max(T) \in 1..n
      BY <1>1
    <3>2. it[T] = it[T \ {Max(T)}] + g[Max(T)]
      BY <2>1
    <3> DEFINE m == Max(T)
    <3> HIDE DEF m
    <3>3. g[m] = (IF o + s[m] <= Len(bits) THEN bits[o + s[m]] ELSE 0) * 2 ^ (s[m] - 1)
      <4>1. m \in 1..n /\ s[m] = m
        BY <1>12, <3>1 DEF m
      <4>2. QED BY <1>2, <4>1 DEF BitAt
    <3>4. QED BY <3>2, <3>3 DEF m
  <2>3. DOMAIN s = 1..n /\ DOMAIN it = SUBSET (1..n) /\ it = [T \in SUBSET (1..n) |-> it[T]]
    BY <1>12, <2>1
  <2> DEFINE G(T) == IF T = {} THEN 0
                     ELSE it[T \ {Max(T)}]
                            + (IF o + s[Max(T)] <= Len(bits) THEN bits[o + s[Max(T)]] ELSE 0)
                                 * 2 ^ (s[Max(T)] - 1)
  <2>4. \A T \in SUBSET (1..n) : it[T] = G(T)
    BY <2>2
  <2> HIDE DEF G
  <2>5. it = [T \in SUBSET DOMAIN s |-> G(T)]
    BY <2>3, <2>4
  <2>6. QED BY <2>5 DEF ByteFold, G
<1> DEFINE it == CHOOSE it : ByteFold(it, s, bits, o)
<1>5. ByteFold(it, s, bits, o)
  BY <1>4
<1>6. ByteSum(bits, o, s) = it[DOMAIN s]
  BY DEF ByteSum, FoldLeft, MapThenFoldSet, ByteFold
<1> HIDE DEF it
<1>7. \A T \in SUBSET (1..n) :
        it[T] = IF T = {} THEN 0
                ELSE it[T \ {Max(T)}]
                       + (IF o + s[Max(T)] <= Len(bits) THEN bits[o + s[Max(T)]] ELSE 0)
                            * 2 ^ (s[Max(T)] - 1)
  <2>1. DOMAIN s = 1..n
    BY <1>12
  <2>2. QED BY <1>5, <2>1 DEF ByteFold
<1> DEFINE run == [k \in 0..n |-> it[1..k]]
<1>8. ASSUME NEW k \in 1..n
      PROVE  run[k] = run[k - 1] + BitAt(bits, o + k) * 2 ^ (k - 1)
  <2>1. /\ 1..k \in SUBSET (1..n) /\ 1..k # {} /\ (1..k) \ {k} = 1..(k - 1)
        /\ k \in 0..n /\ k - 1 \in 0..n /\ Max(1..k) = k
    BY Beginning
  <2>2. s[k] = k
    BY <1>12
  <2>3. it[1..k] = it[(1..k) \ {Max(1..k)}]
                     + (IF o + s[Max(1..k)] <= Len(bits) THEN bits[o + s[Max(1..k)]] ELSE 0)
                          * 2 ^ (s[Max(1..k)] - 1)
    BY <1>7, <2>1
  <2>4. it[1..k] = it[1..(k - 1)] + BitAt(bits, o + k) * 2 ^ (k - 1)
    BY <2>1, <2>2, <2>3 DEF BitAt
  <2>5. QED BY <2>1, <2>4
<1>9. run[0] = 0
  <2>1. 1..0 = {} /\ 0 \in 0..n
    OBVIOUS
  <2>2. QED BY <1>7, <2>1
<1>10. run[n] = it[DOMAIN s]
  <2>1. n \in 0..n /\ DOMAIN s = 1..n
    BY <1>12
  <2>2. QED BY <2>1
<1> HIDE DEF run
<1>11. ByteRun(run, bits, o, n)
  BY <1>6, <1>8, <1>9, <1>10, <1>12 DEF ByteRun
<1>13. QED BY <1>11

(* Each bit of such a sum is one of the bits it was made of. *)
LEMMA BitOfByte ==
    ASSUME NEW n \in Nat, NEW g, \A i \in 1..n : g[i] \in {0, 1},
           NEW run, run[0] = 0, \A k \in 1..n : run[k] = run[k - 1] + g[k] * 2 ^ (k - 1),
           NEW j \in 1..n
    PROVE  (run[n] \div 2 ^ (j - 1)) % 2 = g[j]
<1> DEFINE K == {k \in 0..n : run[k] \in Nat /\ run[k] < 2 ^ k}
           L == {k \in 0..n : j <= k => \E t, u \in Nat : /\ run[k] = run[j] + 2 ^ j * t
                                                          /\ 2 ^ k = 2 ^ j * u}
<1>1. ASSUME NEW k \in 1..n
      PROVE  /\ k - 1 \in 0..n /\ k \in 0..n /\ 2 ^ (k - 1) \in Nat \ {0}
             /\ 2 ^ k = 2 ^ (k - 1) + 2 ^ (k - 1) /\ g[k] \in {0, 1}
  <2>1. k - 1 \in Nat /\ (k - 1) + 1 = k /\ k - 1 \in 0..n /\ k \in 0..n
    OBVIOUS
  <2>2. QED BY <2>1, Doubles, PowerIsPositive
<1>2. 0 \in K
  <2>1. 2 ^ 0 = 1 /\ 0 \in 0..n
    OBVIOUS
  <2>2. QED BY <2>1
<1>3. ASSUME NEW k \in 1..n, k - 1 \in K PROVE k \in K
  <2> DEFINE p == 2 ^ (k - 1)
             q == 2 ^ k
  <2>1. run[k - 1] \in Nat /\ run[k - 1] < p
    BY <1>3
  <2>2. p \in Nat /\ q = p + p /\ g[k] \in {0, 1} /\ run[k] = run[k - 1] + g[k] * p
        /\ k \in 0..n
    BY <1>1
  <2> HIDE DEF p, q
  <2>3. run[k] \in Nat /\ run[k] < q
    BY <2>1, <2>2
  <2>4. QED BY <2>2, <2>3 DEF q
<1>4. \A k \in 0..n : k \in K
  <2> HIDE DEF K
  <2>1. QED BY <1>2, <1>3, Counting
<1>5. 0 \in L
  OBVIOUS
<1>6. ASSUME NEW k \in 1..n, k - 1 \in L PROVE k \in L
  <2>1. CASE k < j
    BY <1>1, <2>1
  <2>2. CASE k = j
    <3> DEFINE p == 2 ^ j
               r == run[j]
    <3>1. p \in Nat /\ r \in Nat
      BY <1>1, <1>4, <2>2
    <3> HIDE DEF p, r
    <3>2. r = r + p * 0 /\ p = p * 1 /\ 0 \in Nat /\ 1 \in Nat
      BY <3>1
    <3>3. QED BY <1>1, <2>2, <3>2 DEF p, r
  <2>3. CASE k > j
    <3> DEFINE p == 2 ^ j
               q == 2 ^ (k - 1)
               o == 2 ^ k
    <3>1. j <= k - 1
      BY <2>3
    <3>2. PICK t \in Nat, u \in Nat : run[k - 1] = run[j] + p * t /\ q = p * u
      BY <1>6, <3>1
    <3>3. /\ q \in Nat /\ o = q + q /\ g[k] \in {0, 1} /\ run[k] = run[k - 1] + g[k] * q
          /\ k \in 0..n
      BY <1>1
    <3>4. p \in Nat /\ run[j] \in Nat
      BY <1>1, <1>4
    <3> HIDE DEF p, q, o, L
    <3>5. \E x, y \in Nat : run[k] = run[j] + p * x /\ o = p * y
      <4>1. o = p * (u + u) /\ u + u \in Nat
        BY <3>2, <3>3, <3>4
      <4>2. CASE g[k] = 0
        <5>1. run[k] = run[j] + p * t
          BY <3>2, <3>3, <3>4, <4>2
        <5>2. QED BY <4>1, <5>1
      <4>3. CASE g[k] = 1
        <5>1. run[k] = run[j] + p * t + p * u
          BY <3>2, <3>3, <3>4, <4>3
        <5>2. run[k] = run[j] + p * (t + u) /\ t + u \in Nat
          BY <3>4, <5>1
        <5>3. QED BY <4>1, <5>2
      <4>4. QED BY <3>3, <4>2, <4>3
    <3>6. QED BY <3>3, <3>5 DEF L, p, o
  <2>4. QED BY <2>1, <2>2, <2>3
<1> HIDE DEF L
<1>7. n \in L /\ n \in 0..n
  BY <1>5, <1>6, Counting
<1> DEFINE p == 2 ^ (j - 1)
           q == 2 ^ j
<1>8. PICK t \in Nat : run[n] = run[j] + q * t
  <2>1. j <= n
    OBVIOUS
  <2>2. \E t, u \in Nat : run[n] = run[j] + 2 ^ j * t /\ 2 ^ n = 2 ^ j * u
    BY <1>7, <2>1 DEF L
  <2>3. QED BY <2>2
<1>9. /\ p \in Nat \ {0} /\ q = p + p /\ g[j] \in {0, 1}
      /\ run[j] = run[j - 1] + g[j] * p
  BY <1>1
<1>10. run[j - 1] \in Nat /\ run[j - 1] < p
  BY <1>1, <1>4
<1>13. QED
  <2> DEFINE a == run[n]
             b == g[j]
             r == run[j - 1]
  <2>1. /\ a = r + b * p + (p + p) * t /\ b \in {0, 1} /\ r \in Nat /\ r < p
        /\ p \in Nat \ {0}
    BY <1>8, <1>9, <1>10
  <2> HIDE DEF a, b, p, q, r, K
  <2>2. a = p * (b + 2 * t) + r /\ b + 2 * t \in Nat
    <3>1. b = 0 \/ b = 1
      BY <2>1
    <3>2. QED BY <2>1, <3>1
  <2>3. a \div p = b + 2 * t
    <3> DEFINE c == b + 2 * t
    <3>1. c \in Nat /\ a = p * c + r
      BY <2>2
    <3> HIDE DEF c
    <3>2. a \div p = c
      BY <2>1, <3>1, QuotientIs
    <3>3. QED BY <3>2 DEF c
  <2>4. (2 * t + b) % 2 = b
    <3>1. b \in Nat /\ b < 2
      BY <2>1
    <3>2. QED BY <3>1, QuotientIs
  <2>5. b + 2 * t = 2 * t + b
    BY <2>1
  <2>6. QED BY <2>3, <2>4, <2>5 DEF a, b, p

(* ExpandBool finds again what ShrinkBool put away. *)
LEMMA BitsComeBack ==
    ASSUME NEW per \in Nat \ {0}, NEW bits, IsList(bits), Binary(bits),
           NEW n, n = (Len(bits) + per - 1) \div per,
           NEW bytes, Len(bytes) = n,
           \A b \in 1..n : bytes[b] = ShrinkBool(bits, per)[b],
           NEW i \in 1..Len(bits)
    PROVE  ExpandBool(bytes, n, per)[i] = bits[i]
<1> DEFINE len == Len(bits)
           b == ((i - 1) \div per) + 1
           j == ((i - 1) % per) + 1
           o == (b - 1) * per
<1>1. len \in Nat /\ DOMAIN bits = 1..len
  BY DEF IsList
<1>2. n \in Nat /\ len <= per * n
  <2>1. len + per - 1 \in Nat
    BY <1>1
  <2>2. n \in Nat
    BY <2>1, Quotient
  <2>3. PICK r \in 0..(per - 1) : len + per - 1 = per * n + r
    BY <2>1, Division
  <2>4. per * n \in Nat
    BY <2>2
  <2>5. QED BY <1>1, <2>2, <2>3, <2>4
<1>3. b \in 1..n /\ j \in 1..per /\ i = o + j /\ o \in Nat /\ b - 1 = (i - 1) \div per
  <2> DEFINE q == (i - 1) \div per
  <2>1. i - 1 \in Nat
    BY <1>1
  <2>2. q \in Nat /\ (i - 1) % per \in 0..(per - 1) /\ i - 1 = per * q + ((i - 1) % per)
    BY <2>1, Quotient
  <2> HIDE DEF q
  <2>3. b = q + 1 /\ b - 1 = q
    BY <2>2 DEF q
  <2>4. per * q = o /\ o \in Nat
    <3>1. \A x, y \in Nat : x * y = y * x /\ x * y \in Nat
      OBVIOUS
    <3>2. o = q * per
      BY <2>3
    <3> HIDE DEF o
    <3>3. per \in Nat
      OBVIOUS
    <3>4. QED BY <2>2, <3>1, <3>2, <3>3
  <2> HIDE DEF o
  <2>5. j \in 1..per /\ i = o + j
    BY <2>1, <2>2, <2>4
  <2>6. q < n
    <3>1. ASSUME n <= q PROVE FALSE
      <4>1. PICK x \in Nat : q = n + x
        <5>1. q - n \in Nat /\ q = n + (q - n)
          BY <1>2, <2>2, <3>1
        <5>2. QED BY <5>1
      <4>2. per * q = per * n + per * x /\ per * x \in Nat /\ per * n \in Nat
        BY <1>2, <4>1
      <4>3. i <= len /\ i - 1 >= per * q
        BY <2>1, <2>2
      <4>4. QED BY <1>1, <1>2, <4>2, <4>3
    <3>2. QED BY <1>2, <2>2, <3>1
  <2>7. QED BY <1>2, <2>2, <2>3, <2>4, <2>5, <2>6 DEF q
<1> HIDE DEF b, j
<1>4. \A k \in 1..per : BitAt(bits, o + k) \in {0, 1}
  <2> SUFFICES ASSUME NEW k \in 1..per PROVE BitAt(bits, o + k) \in {0, 1}
    OBVIOUS
  <2> HIDE DEF o
  <2>1. o + k \in Nat \ {0}
    BY <1>3
  <2>2. o + k <= len => o + k \in DOMAIN bits
    BY <1>1, <2>1
  <2>3. QED BY <2>2 DEF BitAt, Binary
<1>5. PICK run : ByteRun(run, bits, o, per)
  <2>1. per \in Nat /\ BitsFrom(bits, o, per)
    BY <1>4 DEF BitsFrom
  <2> HIDE DEF o
  <2>2. QED BY <2>1, ByteRuns
<1>6. bytes[b] = run[per]
  <2>1. bytes[b] = ShrinkBool(bits, per)[b]
    BY <1>3
  <2>2. ShrinkBool(bits, per)[b] = ByteSum(bits, o, [k \in 1..per |-> k])
    BY <1>3 DEF ShrinkBool, ByteSum
  <2>3. QED BY <1>5, <2>1, <2>2 DEF ByteRun
<1>7. (run[per] \div 2 ^ (j - 1)) % 2 = BitAt(bits, o + j)
  <2> DEFINE g == [k \in 1..per |-> BitAt(bits, o + k)]
  <2> HIDE DEF o
  <2>1. \A k \in 1..per : g[k] \in {0, 1} /\ g[k] = BitAt(bits, o + k)
    BY <1>4
  <2> HIDE DEF g
  <2>2. \A k \in 1..per : run[k] = run[k - 1] + g[k] * 2 ^ (k - 1)
    BY <1>5, <2>1 DEF ByteRun
  <2>3. (run[per] \div 2 ^ (j - 1)) % 2 = g[j]
    <3>1. per \in Nat /\ j \in 1..per /\ run[0] = 0 /\ \A k \in 1..per : g[k] \in {0, 1}
      BY <1>3, <1>5, <2>1 DEF ByteRun
    <3>2. QED BY ONLY <2>2, <3>1, BitOfByte, ZenonT(60)
  <2>4. QED BY <1>3, <2>1, <2>3
<1>8. BitAt(bits, o + j) = bits[i]
  BY <1>1, <1>3 DEF BitAt
<1> HIDE DEF o
<1>9. ExpandBool(bytes, n, per)[i] = (bytes[b] \div 2 ^ (j - 1)) % 2
  <2>1. i \in 1..(n * per)
    <3>1. per * n = n * per
      BY <1>2
    <3>2. QED BY <1>1, <1>2, <3>1
  <2>2. (IF n > Len(bytes) THEN Len(bytes) ELSE n) = n
    BY <1>2
  <2>3. ((i - 1) \div per) + 1 = b /\ (i - 1) % per = j - 1
    <3>1. i - 1 \in Nat
      BY <1>1
    <3>2. (i - 1) % per \in 0..(per - 1)
      BY <3>1
    <3>3. QED BY <3>2 DEF b, j
  <2> DEFINE e == ExpandBool(bytes, n, per)
             most == IF n > Len(bytes) THEN Len(bytes) ELSE n
  <2>4. e = [k \in 1..(most * per) |->
              (bytes[((k - 1) \div per) + 1] \div 2 ^ ((k - 1) % per)) % 2]
    BY DEF ExpandBool
  <2> HIDE DEF e, most
  <2>5. most = n
    BY <2>2 DEF most
  <2>6. e[i] = (bytes[((i - 1) \div per) + 1] \div 2 ^ ((i - 1) % per)) % 2
    BY <2>1, <2>4, <2>5
  <2>7. QED BY <2>3, <2>6 DEF e
<1>10. QED BY <1>6, <1>7, <1>8, <1>9

-----------------------------------------------------------------------------
(* What a message carries, byte for byte. *)

LEMMA HeadedHas ==
    ASSUME NEW c, NEW data, IsList(data)
    PROVE  LET b == [i \in DOMAIN data |-> Cell("byte", data[i])]
               m == Join(<<c>>, b)
           IN  /\ IsList(m) /\ Len(m) = 1 + Len(data) /\ m[1] = c
               /\ \A i \in 1..Len(data) : m[i + 1].content = data[i]
<1> DEFINE a == <<c>>
           b == [i \in DOMAIN data |-> Cell("byte", data[i])]
           m == Join(a, b)
           n == Len(data)
<1>1. n \in Nat /\ DOMAIN data = 1..n
  BY DEF IsList
<1>2. IsList(a) /\ Len(a) = 1 /\ a[1] = c
  BY OneCell
<1>3. IsList(b) /\ Len(b) = n
  BY DataCells
<1>4. \A i \in 1..n : b[i].content = data[i]
  BY <1>1 DEF Cell
<1> HIDE DEF a, b, n
<1>5. /\ IsList(m) /\ Len(m) = Len(a) + Len(b)
      /\ \A i \in 1..(Len(a) + Len(b)) : m[i] = IF i <= Len(a) THEN a[i] ELSE b[i - Len(a)]
  BY <1>2, <1>3, ListsJoined
<1> HIDE DEF m
<1>6. IsList(m) /\ Len(m) = 1 + n /\ m[1] = c
  BY <1>1, <1>2, <1>3, <1>5
<1>7. ASSUME NEW i \in 1..n PROVE m[i + 1].content = data[i]
  <2>1. i + 1 \in 1..(1 + n) /\ ~(i + 1 <= 1) /\ (i + 1) - 1 = i
    BY <1>1
  <2>2. m[i + 1] = b[i]
    BY <1>2, <1>3, <1>5, <2>1
  <2>3. QED BY <1>4, <2>2
<1>8. QED BY <1>6, <1>7 DEF m, a, b, n

LEMMA MessageHas ==
    ASSUME NEW proto, NEW head, NEW data, IsList(data)
    PROVE  LET m == Message(proto, head, data)
           IN  /\ IsList(m) /\ 1 + Len(data) <= Len(m) /\ m[1].content = head
               /\ \A i \in 1..Len(data) : m[i + 1].content = data[i]
<1> DEFINE n == Len(data)
           c == Cell("head", head)
           a == <<c>>
           b == [i \in DOMAIN data |-> Cell("byte", data[i])]
           h == Join(a, b)
           e == <<Cell("crc", Crc(head, data))>>
           m == Message(proto, head, data)
<1>1. n \in Nat
  BY DEF IsList
<1>2. c.content = head
  BY DEF Cell
<1>3. IsList(e) /\ Len(e) = 1
  BY OneCell
<1> HIDE DEF c, e
<1>4. /\ IsList(h) /\ Len(h) = 1 + n /\ h[1].content = head
      /\ \A i \in 1..n : h[i + 1].content = data[i]
  BY <1>2, HeadedHas
<1> HIDE DEF a, b, n
<1>5. IsList(h) /\ Len(h) = 1 + n
  BY <1>4
<1> HIDE DEF h
<1>6. CASE HasCrc(proto)
  <2> DEFINE j == Join(h, e)
  <2>1. m = j
    BY <1>6 DEF Message, a, b, c, e, h, Join
  <2> HIDE DEF m
  <2>2. /\ IsList(j) /\ Len(j) = Len(h) + Len(e)
        /\ \A i \in 1..(Len(h) + Len(e)) : j[i] = IF i <= Len(h) THEN h[i] ELSE e[i - Len(h)]
    BY <1>3, <1>5, ListsJoined
  <2> HIDE DEF j
  <2>3. Len(j) = n + 2 /\ \A i \in 1..(n + 1) : j[i] = h[i]
    BY <1>1, <1>3, <1>5, <2>2
  <2>4. 1 \in 1..(n + 1) /\ \A i \in 1..n : i + 1 \in 1..(n + 1)
    BY <1>1
  <2>5. /\ IsList(m) /\ 1 + n <= Len(m) /\ m[1].content = head
        /\ \A i \in 1..n : m[i + 1].content = data[i]
    BY <1>1, <1>4, <2>1, <2>2, <2>3, <2>4
  <2>6. QED BY <2>5 DEF m, n
<1>7. CASE ~HasCrc(proto)
  <2>1. m = h
    <3>1. h \in Seq({h[i] : i \in 1..Len(h)})
      BY <1>5, ListOf DEF IsList
    <3>2. h \o << >> = h
      BY <3>1
    <3>3. QED BY <1>7, <3>2 DEF Message, a, b, c, h, Join
  <2> HIDE DEF m
  <2>2. /\ IsList(m) /\ 1 + n <= Len(m) /\ m[1].content = head
        /\ \A i \in 1..n : m[i + 1].content = data[i]
    BY <1>1, <1>4, <1>5, <2>1
  <2>3. QED BY <2>2 DEF m, n
<1>8. QED BY <1>6, <1>7

(* An answer that is no exception has what the device holds in the places
   that its frame asks for. *)
Carries(plan, m) ==
    LET area == memory[AreaOf(plan.code)]
        k == Unit(plan.code)
        cells == SubSeq(area, k * plan.start + 1, k * plan.start + k * plan.size)
        data == IF plan.code \in Coils THEN ShrinkBool(cells, BitsPerByte) ELSE cells
    IN  /\ IsList(area) /\ k * plan.start + k * plan.size <= Len(area)
        /\ IsList(cells) /\ Len(cells) = k * plan.size
        /\ DataBytes(plan) \in Nat
        /\ 1 + DataBytes(plan) <= Len(m)
        /\ \A i \in 1..DataBytes(plan) : m[i + 1].content = data[i]

LEMMA ModbusCarries ==
    ASSUME Memory(memory), ~S7,
           NEW plan, plan.code \in Codes, plan.start \in Nat, plan.size \in Nat \ {0},
           plan.start + plan.size <= WireMod, NEW proto, NEW id,
           NEW m, m = ModbusAnswer(proto, memory, id, ReadRequest(plan)),
           m[1].content.code < 128
    PROVE  Carries(plan, m)
<1> DEFINE request == ReadRequest(plan)
           area == memory[AreaOf(plan.code)]
           k == Unit(plan.code)
           start == plan.start % WireMod
           size == plan.size % WireMod
           whole == SubSeq(area, k * start + 1, k * (start + size))
           sent == IF k = 1 THEN ShrinkBool(whole, BitsPerByte) ELSE whole
           head == MessageHead(id, plan.code, Len(sent))
           no == MessageHead(id, plan.code + 128, 0)
           cells == SubSeq(area, k * plan.start + 1, k * plan.start + k * plan.size)
           data == IF plan.code \in Coils THEN ShrinkBool(cells, BitsPerByte) ELSE cells
<1>1. request = [code |-> plan.code, start |-> start, size |-> size]
  BY DEF ReadRequest
<1>2. BitsPerByte \in Nat \ {0} /\ WireMod \in Nat \ {0}
  BY ModbusAssumption
<1>3. IsList(area)
  <2>1. AreaOf(plan.code) \in Areas
    BY DEF AreaOf, Areas, Codes, Coils, Registers
  <2>2. QED BY <2>1 DEF Memory
<1>4. k = (IF plan.code \in Coils THEN 1 ELSE 2)
  BY DEF Unit
<1>5. m = IF Holds(memory, request) THEN Message(proto, head, sent)
                                    ELSE Message(proto, no, << >>)
  <2>1. request.code = plan.code /\ request.start = start /\ request.size = size
    BY <1>1
  <2> HIDE DEF request
  <2>2. QED BY <2>1 DEF ModbusAnswer, area, k, request
<1>6. Holds(memory, request)
  <2> SUFFICES ASSUME ~Holds(memory, request) PROVE FALSE
    OBVIOUS
  <2>1. m = Message(proto, no, << >>)
    BY <1>5
  <2>2. IsList(<< >>)
    BY DEF IsList
  <2>3. m[1].content = no
    BY <2>1, <2>2, MessageHas
  <2>4. no.code = plan.code + 128
    BY DEF MessageHead
  <2>5. plan.code \in Nat
    BY DEF Codes, Coils, Registers
  <2> HIDE DEF no
  <2>6. plan.code + 128 < 128
    BY <2>3, <2>4
  <2>7. QED BY <2>5, <2>6
<1>7. start = plan.start /\ size = plan.size
  <2>1. plan.start < WireMod
    BY <1>2
  <2>2. start = plan.start
    BY <1>2, <2>1, SmallRemainder
  <2>3. CASE plan.size < WireMod
    <3>1. size = plan.size
      BY <1>2, <2>3, SmallRemainder
    <3>2. QED BY <2>2, <3>1
  <2>4. CASE ~(plan.size < WireMod)
    <3>1. plan.size = WireMod
      BY <1>2, <2>4
    <3>2. size = 0
      <4>1. plan.size = WireMod * 1 + 0
        BY <1>2, <3>1
      <4>2. QED BY <1>2, <4>1, QuotientIs
    <3>3. request.size > 0
      BY <1>6 DEF Holds
    <3>4. QED BY <1>1, <3>2, <3>3
  <2>5. QED BY <2>3, <2>4
<1> HIDE DEF start, size
<1>8. k * (start + size) <= Len(area)
  BY <1>1, <1>6 DEF Holds, area, k
<1> HIDE DEF area, k
<1>9. /\ k * plan.start \in Nat /\ k * plan.size \in Nat
      /\ k * (start + size) = k * plan.start + k * plan.size
  BY <1>4, <1>7
<1>10. whole = cells
  BY <1>7, <1>9
<1>11. IsList(cells) /\ Len(cells) = k * plan.size
  <2> DEFINE a == k * plan.start
             n == k * plan.size
  <2>1. a \in Nat /\ n \in Nat /\ a + n <= Len(area) /\ cells = SubSeq(area, a + 1, a + n)
    BY <1>8, <1>9
  <2> HIDE DEF a, n, cells
  <2>2. QED BY <1>3, <2>1, Slice DEF n
<1>12. sent = data
  <2>1. k = 1 <=> plan.code \in Coils
    BY <1>4
  <2> HIDE DEF whole, cells
  <2>2. QED BY <1>10, <2>1
<1> HIDE DEF whole, cells
<1>13. DataBytes(plan) \in Nat
  BY DataBytesAre
<1>14. IsList(data) /\ Len(data) = DataBytes(plan)
  <2>1. CASE plan.code \in Coils
    <3> DEFINE n == (plan.size + BitsPerByte - 1) \div BitsPerByte
               f == [b \in 1..n |-> ShrinkBool(cells, BitsPerByte)[b]]
    <3>1. Len(cells) = plan.size
      BY <1>4, <1>11, <2>1
    <3>2. DataBytes(plan) = n
      BY <2>1 DEF DataBytes
    <3> HIDE DEF n
    <3>3. ShrinkBool(cells, BitsPerByte) = f
      BY <3>1 DEF ShrinkBool, n
    <3>4. data = f
      BY <2>1, <3>3
    <3> HIDE DEF f
    <3>5. f = [b \in 1..n |-> f[b]]
      BY <3>3 DEF f
    <3>6. Len(f) = n
      BY <1>13, <3>2, <3>5, ListOf
    <3>7. QED BY <1>13, <3>2, <3>4, <3>5, <3>6 DEF IsList
  <2>2. CASE plan.code \notin Coils
    <3>1. data = cells
      BY <2>2
    <3>2. DataBytes(plan) = plan.size * 2
      BY <2>2 DEF DataBytes
    <3>3. k * plan.size = plan.size * 2
      BY <1>4, <2>2
    <3>4. QED BY <1>11, <3>1, <3>2, <3>3
  <2>3. QED BY <2>1, <2>2
<1> HIDE DEF data, sent, head
<1>15. /\ 1 + Len(data) <= Len(m)
       /\ \A i \in 1..Len(data) : m[i + 1].content = data[i]
  <2>1. m = Message(proto, head, data)
    BY <1>5, <1>6, <1>12
  <2>2. QED BY <1>14, <2>1, MessageHas
<1>16. k * plan.start + k * plan.size <= Len(area)
  BY <1>8, <1>9
<1>17. QED BY <1>3, <1>11, <1>13, <1>14, <1>15, <1>16 DEF Carries, data, cells, area, k

(* What a frame finds in its own answer where it looks for a variable. *)
Found(plan, d, b) ==
    LET area == memory[AreaOf(plan.code)]
        at == plan.parses[b].at
        v == plan.parses[b].v
    IN  IF plan.code \in Coils THEN d[at + 1] = area[v.address + 1]
        ELSE \A j \in 1..(2 * DataTypeWord(v.type)) :
                SubSeq(d, at + 1, Len(d))[j] = area[2 * v.address + j]

LEMMA ModbusFinds ==
    ASSUME setup \in Setups, ~S7, Memory(memory),
           NEW E, Variables(E), NEW plan \in FramesOf(E), Apt(plan),
           \A c \in DOMAIN plan.parses : Behind(plan.code, plan.parses[c].v) <= WireMod,
           NEW own, NEW m, m = ModbusAnswer(setup.proto, memory, own, ReadRequest(plan)),
           1 <= Len(m),
           NEW buffer,
           \A i \in 1..(DataBytes(plan) + 1) : i <= Len(m) => buffer[i] = m[i],
           NEW id,
           NEW d \in ValidateAndExtractMessage(setup.proto, buffer, id, DataBytes(plan)),
           NEW b \in DOMAIN plan.parses
    PROVE  Found(plan, d, b)
<1> DEFINE n == DataBytes(plan)
           head == buffer[1].content
           bytes == [i \in 1..n |-> buffer[i + 1].content]
           area == memory[AreaOf(plan.code)]
           k == Unit(plan.code)
           first == k * plan.start
           room == k * plan.size
           cells == SubSeq(area, first + 1, first + room)
           data == IF plan.code \in Coils THEN ShrinkBool(cells, BitsPerByte) ELSE cells
           at == plan.parses[b].at
           v == plan.parses[b].v
           far == v.address - plan.start
<1>1. /\ plan.code \in Codes /\ plan.start \in Nat /\ plan.size \in Nat
      /\ plan.parses \in Seq([v : E, at : Nat])
  BY DEF FramesOf
<1>2. n \in Nat /\ BitsPerByte \in Nat \ {0}
  BY <1>1, DataBytesAre, ModbusAssumption
<1>3. \A c \in DOMAIN plan.parses :
        /\ plan.parses[c].v.address \in Nat
        /\ DataTypeWord(plan.parses[c].v.type) \in Nat \ {0}
        /\ plan.start <= plan.parses[c].v.address
        /\ plan.parses[c].v.address < Behind(plan.code, plan.parses[c].v)
        /\ Behind(plan.code, plan.parses[c].v) \in Nat
  <2> SUFFICES ASSUME NEW c \in DOMAIN plan.parses
               PROVE  /\ plan.parses[c].v.address \in Nat
                      /\ DataTypeWord(plan.parses[c].v.type) \in Nat \ {0}
                      /\ plan.start <= plan.parses[c].v.address
                      /\ plan.parses[c].v.address < Behind(plan.code, plan.parses[c].v)
                      /\ Behind(plan.code, plan.parses[c].v) \in Nat
    OBVIOUS
  <2>1. plan.parses[c] \in [v : E, at : Nat]
    BY <1>1, Elements
  <2>2. plan.parses[c].v \in E
    BY <2>1
  <2>3. /\ plan.parses[c].v.address \in Nat
        /\ DataTypeWord(plan.parses[c].v.type) \in Nat \ {0}
    BY <2>2 DEF Variables, DataTypes, DataTypeWord
  <2>4. plan.start <= plan.parses[c].v.address
    BY DEF Apt, Sited
  <2>5. QED BY <2>3, <2>4 DEF Behind
<1>4. plan.size \in Nat \ {0} /\ plan.start + plan.size <= WireMod
  <2>1. plan.parses # << >>
    OBVIOUS
  <2>2. PICK c \in DOMAIN plan.parses :
          plan.start + plan.size = Behind(plan.code, plan.parses[c].v)
    BY <2>1 DEF Apt, Sited
  <2> DEFINE e == Behind(plan.code, plan.parses[c].v)
             a == plan.parses[c].v.address
  <2>3. a \in Nat /\ plan.start <= a /\ a < e /\ e \in Nat /\ e <= WireMod
        /\ plan.start + plan.size = e
    BY <1>3, <2>2
  <2> HIDE DEF a, e
  <2>4. QED BY <1>1, <2>3
<1>5. /\ head.code < 128
      /\ d = IF head.code \in Coils THEN ExpandBool(bytes, n, BitsPerByte)
             ELSE IF head.code \in Registers THEN bytes ELSE << >>
  BY DEF ValidateAndExtractMessage
<1>6. head = m[1].content
  BY <1>2
<1>7. head.code = plan.code
  <2>1. head.code \in {plan.code, plan.code + 128}
    BY <1>1, <1>6, ModbusFits
  <2>2. plan.code \in Nat
    BY <1>1 DEF Codes, Coils, Registers
  <2> HIDE DEF head
  <2>3. QED BY <1>5, <2>1, <2>2
<1>8. /\ IsList(area) /\ first + room <= Len(area)
      /\ IsList(cells) /\ Len(cells) = room /\ 1 + n <= Len(m)
      /\ \A i \in 1..n : m[i + 1].content = data[i]
  <2>1. m[1].content.code < 128
    BY <1>5, <1>6
  <2>2. /\ IsList(memory[AreaOf(plan.code)])
        /\ Unit(plan.code) * plan.start + Unit(plan.code) * plan.size
             <= Len(memory[AreaOf(plan.code)])
        /\ IsList(cells) /\ Len(cells) = Unit(plan.code) * plan.size
        /\ 1 + DataBytes(plan) <= Len(m)
        /\ \A i \in 1..DataBytes(plan) : m[i + 1].content = data[i]
    <3>1. Carries(plan, m)
      BY <1>1, <1>4, <2>1, ModbusCarries
    <3>2. QED BY <3>1 DEF Carries
  <2>3. QED BY <2>2
<1>9. ASSUME NEW i \in 1..n PROVE bytes[i] = data[i]
  <2>1. i + 1 \in 1..(n + 1) /\ i + 1 <= Len(m)
    <3>1. Len(m) \in Int
      BY <1>8 DEF IsList
    <3>2. QED BY <1>2, <1>8, <3>1
  <2>2. buffer[i + 1] = m[i + 1]
    BY <2>1
  <2>3. bytes[i] = buffer[i + 1].content
    OBVIOUS
  <2>4. QED BY <1>8, <2>2, <2>3
<1>10. Len(bytes) = n /\ IsList(bytes)
  <2>1. bytes = [i \in 1..n |-> bytes[i]]
    OBVIOUS
  <2> HIDE DEF bytes, n
  <2>2. QED BY <1>2, <2>1, ListOf DEF IsList
<1>11. /\ at = (IF plan.code \in Coils THEN far ELSE far * 2)
       /\ at + (IF plan.code \in Coils THEN 1 ELSE 2 * DataTypeWord(v.type))
            <= (IF plan.code \in Coils THEN plan.size ELSE plan.size * 2)
       /\ v.address \in Nat /\ far \in Nat /\ v.address = plan.start + far
       /\ DataTypeWord(v.type) \in Nat
  <2>1. at = (IF plan.code \in Coils THEN far ELSE far * 2)
    BY DEF Apt, Sited
  <2>2. at + (IF plan.code \in Coils THEN 1 ELSE 2 * DataTypeWord(v.type))
          <= (IF plan.code \in Coils THEN plan.size ELSE plan.size * 2)
    BY DEF Apt, Spacious, Needs
  <2>3. v.address \in Nat /\ plan.start <= v.address /\ DataTypeWord(v.type) \in Nat
    BY <1>3
  <2> HIDE DEF v, at
  <2>4. far \in Nat /\ v.address = plan.start + far
    BY <1>1, <2>3
  <2>5. QED BY <2>1, <2>2, <2>3, <2>4
<1> HIDE DEF far, v, at, head
<1>12. CASE plan.code \in Coils
  <2>1. k = 1
    BY <1>12 DEF Unit
  <2>2. first = plan.start /\ room = plan.size
    BY <1>1, <2>1
  <2>3. at + 1 \in 1..room /\ at = far
    BY <1>1, <1>11, <1>12, <2>2
  <2> HIDE DEF first, room, bytes, k
  <2>4. ASSUME NEW i \in 1..room PROVE cells[i] = area[plan.start + i]
    <3> HIDE DEF area
    <3>1. first \in Nat /\ room \in Nat
      BY <1>1, <2>2
    <3>2. cells[i] = area[first + i]
      BY <1>8, <3>1, SliceHas
    <3>3. QED BY <2>2, <3>2
  <2>5. Binary(cells)
    <3>1. Binary(area)
      <4>1. AreaOf(plan.code) \in {"coils", "inputs"}
        BY <1>12 DEF AreaOf, Coils
      <4>2. QED BY <4>1 DEF Memory
    <3> HIDE DEF area, cells
    <3>2. ASSUME NEW i \in DOMAIN cells PROVE cells[i] \in {0, 1}
      <4>1. i \in 1..room
        BY <1>8 DEF IsList
      <4>2. plan.start + i \in DOMAIN area
        <5>1. DOMAIN area = 1..Len(area) /\ Len(area) \in Nat
          BY <1>8 DEF IsList
        <5>2. QED BY <1>1, <1>8, <2>2, <4>1, <5>1
      <4>3. QED BY <2>4, <3>1, <4>1, <4>2 DEF Binary
    <3>3. QED BY <3>2 DEF Binary
  <2> HIDE DEF cells, area
  <2>6. \A i \in 1..n : bytes[i] = ShrinkBool(cells, BitsPerByte)[i]
    BY <1>9, <1>12
  <2>7. n = (Len(cells) + BitsPerByte - 1) \div BitsPerByte
    BY <1>8, <1>12, <2>2 DEF DataBytes
  <2> HIDE DEF n
  <2>8. ExpandBool(bytes, n, BitsPerByte)[at + 1] = cells[at + 1]
    <3>1. /\ BitsPerByte \in Nat \ {0} /\ IsList(cells) /\ Len(bytes) = n
          /\ at + 1 \in 1..Len(cells)
      BY <1>2, <1>8, <1>10, <2>3
    <3>2. QED BY ONLY <2>5, <2>6, <2>7, <3>1, BitsComeBack
  <2>9. d = ExpandBool(bytes, n, BitsPerByte)
    BY <1>5, <1>7, <1>12
  <2>10. plan.start + (at + 1) = v.address + 1
    <3>1. v.address = plan.start + far /\ far \in Nat /\ plan.start \in Nat /\ at = far
      BY <1>1, <1>11, <2>3
    <3>2. QED BY ONLY <3>1
  <2>11. d[at + 1] = area[v.address + 1]
    BY <2>3, <2>4, <2>8, <2>9, <2>10
  <2>12. QED BY <1>12, <2>11 DEF Found, area, v, at
<1>13. CASE plan.code \notin Coils
  <2>1. k = 2
    BY <1>13 DEF Unit
  <2>2. first = 2 * plan.start /\ room = 2 * plan.size
    BY <1>1, <2>1
  <2> HIDE DEF first, room, bytes, k
  <2>3. d = bytes
    <3>1. plan.code \in Registers
      BY <1>1, <1>13 DEF Codes
    <3>2. QED BY <1>5, <1>7, <1>13, <3>1
  <2>4. n = plan.size * 2
    BY <1>13 DEF DataBytes
  <2> HIDE DEF n
  <2>5. ASSUME NEW j \in 1..(2 * DataTypeWord(v.type))
        PROVE  SubSeq(d, at + 1, Len(d))[j] = area[2 * v.address + j]
    <3>1. at = far * 2 /\ at + 2 * DataTypeWord(v.type) <= plan.size * 2
      BY <1>11, <1>13
    <3>2. j \in Nat \ {0} /\ at \in Nat /\ at + j <= n /\ at + j \in 1..n /\ at + j \in 1..room
      <4> DEFINE w == DataTypeWord(v.type)
      <4>1. /\ j \in 1..(2 * w) /\ w \in Nat /\ far \in Nat /\ at = far * 2
            /\ at + 2 * w <= plan.size * 2 /\ n = plan.size * 2 /\ room = 2 * plan.size
            /\ plan.size \in Nat
        BY <1>1, <1>11, <2>2, <2>4, <3>1
      <4> HIDE DEF w
      <4>2. QED BY ONLY <4>1
    <3>3. SubSeq(d, at + 1, Len(d))[j] = d[at + j]
      BY <1>10, <2>3, <3>2, RestHas
    <3>4. d[at + j] = cells[at + j]
      <4> HIDE DEF cells
      <4>1. QED BY <1>9, <1>13, <2>3, <3>2
    <3>5. cells[at + j] = area[first + (at + j)]
      <4> HIDE DEF area
      <4>1. first \in Nat /\ room \in Nat
        BY <1>1, <2>2
      <4>2. QED BY <1>8, <3>2, <4>1, SliceHas
    <3>6. first + (at + j) = 2 * v.address + j
      BY <1>1, <1>11, <2>2, <3>1
    <3>7. QED BY <3>3, <3>4, <3>5, <3>6
  <2>6. QED BY <1>13, <2>5 DEF Found, area, v, at
<1>14. QED BY <1>12, <1>13

(* The code takes the bytes of a register from where the letters of the
   layout say. *)
LEMMA LayoutIs ==
    ASSUME NEW n \in {2, 4, 8}, setup.layout \in {"ABCD", "BADC", "CDAB", "DCBA"},
           NEW k \in 1..n
    PROVE  /\ OrderOf(setup.layout, n)[k] = Layout(n)[k]
           /\ Layout(n)[k] \in 1..n
<1> DEFINE half == (k - 1) \div 2
           odd == (k - 1) % 2
           back == (n - k) \div 2
<1>1. \A x \in 0..7 :
        /\ x \div 2 = (IF x \in {0, 1} THEN 0 ELSE IF x \in {2, 3} THEN 1
                       ELSE IF x \in {4, 5} THEN 2 ELSE 3)
        /\ x % 2 = (IF x \in {0, 2, 4, 6} THEN 0 ELSE 1)
  OBVIOUS
<1>2. /\ k - 1 \in 0..7 /\ n - k \in 0..7 /\ k \in 1..8
      /\ k % 2 = (IF k \in {1, 3, 5, 7} THEN 1 ELSE 0)
      /\ (n + 1 - k) % 2 = (IF n + 1 - k \in {1, 3, 5, 7} THEN 1 ELSE 0)
  OBVIOUS
<1>3. /\ half = (IF k - 1 \in {0, 1} THEN 0 ELSE IF k - 1 \in {2, 3} THEN 1
                 ELSE IF k - 1 \in {4, 5} THEN 2 ELSE 3)
      /\ odd = (IF k - 1 \in {0, 2, 4, 6} THEN 0 ELSE 1)
      /\ back = (IF n - k \in {0, 1} THEN 0 ELSE IF n - k \in {2, 3} THEN 1
                 ELSE IF n - k \in {4, 5} THEN 2 ELSE 3)
  BY <1>1, <1>2
<1>4. Layout(n)[k] = 2 * (IF setup.layout \in {"CDAB", "DCBA"} THEN back ELSE half)
                       + (IF setup.layout \in {"BADC", "DCBA"} THEN 1 - odd ELSE odd) + 1
  BY DEF Layout
<1>5. OrderOf(setup.layout, n)[k]
        = IF n = 2 THEN IF setup.layout \in {"ABCD", "CDAB"} THEN k ELSE n + 1 - k
          ELSE IF setup.layout = "ABCD" THEN k
          ELSE IF setup.layout = "BADC"
               THEN IF k \in {1, 3, 5, 7} THEN k + 1 ELSE k - 1
          ELSE IF setup.layout = "CDAB"
               THEN IF n + 1 - k \in {1, 3, 5, 7} THEN (n + 1 - k) + 1 ELSE (n + 1 - k) - 1
          ELSE n + 1 - k
  BY <1>2 DEF OrderOf, BigEndian, LittleEndian, ByteSwap
<1> HIDE DEF half, odd, back
<1>6. QED BY <1>3, <1>4, <1>5

(* What it makes of them is what the variable is worth. *)
LEMMA ModbusIsTrue ==
    ASSUME setup \in Setups, ~S7, memory' = memory,
           NEW plan, plan.code \in Codes, NEW d, NEW b \in DOMAIN plan.parses,
           plan.parses[b].v.type \in DataTypes, plan.parses[b].v.code = plan.code,
           Legible(plan.parses[b].v), Found(plan, d, b),
           NEW values \in ParseVariableValue(plan, setup.layout, d),
           Represented(plan.parses[b].v, Truth(plan.parses[b].v))
    PROVE  values[b].value = Truth(plan.parses[b].v)
<1> DEFINE v == plan.parses[b].v
           at == plan.parses[b].at
           area == memory[AreaOf(plan.code)]
           n == 2 * DataTypeWord(v.type)
           data == SubSeq(d, at + 1, Len(d))
<1>1. values[b].value = IF plan.code \in Coils THEN d[at + 1]
                        ELSE ParseRegisters(v, setup.layout, data)
  BY DEF ParseVariableValue
<1>2. /\ v.type \in DataTypes /\ v.code = plan.code /\ Legible(v)
      /\ Represented(v, Truth(v))
  OBVIOUS
<1>3. IF plan.code \in Coils THEN d[at + 1] = area[v.address + 1]
      ELSE \A j \in 1..n : data[j] = area[2 * v.address + j]
  BY DEF Found
<1>4. n \in {2, 4, 8}
  BY <1>2 DEF DataTypes, DataTypeWord
<1>5. setup.layout \in {"ABCD", "BADC", "CDAB", "DCBA"}
  BY ExchangeAssumption DEF Device, S7
<1>6. S7 = FALSE /\ memory'[AreaOf(v.code)] = area
  BY <1>2
<1> HIDE DEF v, at, area, data
<1>7. CASE plan.code \in Coils
  <2>1. Truth(v) = area[v.address + 1]
    BY <1>2, <1>6, <1>7 DEF Truth
  <2>2. QED BY <1>1, <1>3, <1>7, <2>1 DEF v
<1>8. CASE plan.code \notin Coils
  <2> DEFINE order == OrderOf(setup.layout, n)
             bytes == [k \in 1..n |-> memory'[AreaOf(v.code)][2 * v.address + Layout(n)[k]]]
             value == ValueOf(bytes)
  <2>1. Truth(v) = IF v.type = "BOOL" THEN Bit(value, v.bits - 1) ELSE TimesRate(v, value)
    BY <1>2, <1>6, <1>8 DEF Truth, TruthOfRegister
  <2>2. Parse(order, data) = bytes
    <3>1. DOMAIN order = 1..n
      BY <1>4, <1>5, OrdersAre
    <3>2. \A k \in 1..n : order[k] = Layout(n)[k] /\ Layout(n)[k] \in 1..n
      BY <1>4, <1>5, LayoutIs
    <3> HIDE DEF order, n
    <3>3. \A k \in 1..n : data[order[k]] = area[2 * v.address + Layout(n)[k]]
      BY <1>3, <1>8, <3>2
    <3>4. QED BY <1>6, <3>1, <3>3 DEF Parse
  <2>3. ParseRegisters(v, setup.layout, data)
          = CASE v.type = "BOOL" -> IF v.bits = 0 THEN 0 ELSE Bit(value, v.bits - 1)
              [] v.type # "BOOL" /\ Rated(v.rate) -> (value * v.rate) % Width(n)
              [] OTHER -> value
    BY <2>2 DEF ParseRegisters, order, n
  <2> HIDE DEF order, bytes, value
  <2>4. plan.code \in Registers
    BY <1>8 DEF Codes
  <2>5. CASE v.type = "BOOL"
    <3>1. v.bits # 0
      BY <1>2, <1>6, <2>4, <2>5 DEF Legible
    <3>2. QED BY <1>1, <1>8, <2>1, <2>3, <2>5, <3>1 DEF v
  <2>6. CASE v.type # "BOOL" /\ Rated(v.rate)
    <3> DEFINE x == value * v.rate
               w == Width(n)
    <3>1. Truth(v) = x
      BY <2>1, <2>6 DEF TimesRate
    <3>2. x \in 0..(w - 1)
      BY <1>2, <1>6, <2>4, <2>6, <3>1 DEF Represented, OfType
    <3>3. w \in Nat
      <4>1. BitsPerByte * n \in Nat
        BY <1>4, ModbusAssumption
      <4>2. QED BY <4>1, Power DEF Width
    <3>4. ParseRegisters(v, setup.layout, data) = x % w
      BY <2>3, <2>6
    <3> HIDE DEF x, w
    <3>5. x % w = x
      BY <3>2, <3>3, SmallRemainder
    <3>6. QED BY <1>1, <1>8, <3>1, <3>4, <3>5 DEF v
  <2>7. CASE v.type # "BOOL" /\ ~Rated(v.rate)
    <3>1. Truth(v) = value
      BY <2>1, <2>7 DEF TimesRate
    <3>2. ParseRegisters(v, setup.layout, data) = value
      BY <2>3, <2>7
    <3>3. QED BY <1>1, <1>8, <3>1, <3>2 DEF v
  <2>8. QED BY <2>5, <2>6, <2>7
<1>9. QED BY <1>7, <1>8

-----------------------------------------------------------------------------
(* An S7 answer of the length that its frame expects has every item, each
   where the frame looks for it: what lacks one item's data is shorter. *)

Begins(a, b) == Len(a) <= Len(b) /\ \A i \in 1..Len(a) : b[i] = a[i]

(* Two counts that begin and end alike, the one never ahead of the other. *)
Pace(n, e, l) ==
    /\ e[0] = 0 /\ l[0] = 0 /\ e[n] = l[n]
    /\ \A k \in 0..n : e[k] \in Nat /\ l[k] \in Nat
    /\ \A k \in 1..n : l[k] - l[k - 1] <= e[k] - e[k - 1]

LEMMA NoGap ==
    ASSUME NEW n \in Nat, NEW e, NEW l, Pace(n, e, l)
    PROVE  \A k \in 0..n : e[k] = l[k]
<1> USE DEF Pace
<1> DEFINE K == {k \in 0..n : l[k] <= e[k] /\ \A j \in 0..k : e[j] - l[j] <= e[k] - l[k]}
<1>1. 0 \in K
  <2>1. 0..0 = {0} /\ 0 \in 0..n
    OBVIOUS
  <2>2. QED BY <2>1
<1>2. ASSUME NEW k \in 1..n, k - 1 \in K PROVE k \in K
  <2>1. k - 1 \in 0..n /\ k \in 0..n
    OBVIOUS
  <2>2. e[k] \in Nat /\ l[k] \in Nat /\ e[k - 1] \in Nat /\ l[k - 1] \in Nat
    BY <2>1
  <2>3. l[k] - l[k - 1] <= e[k] - e[k - 1] /\ l[k - 1] <= e[k - 1]
    BY <1>2
  <2>4. l[k] <= e[k] /\ e[k - 1] - l[k - 1] <= e[k] - l[k]
    BY <2>2, <2>3
  <2>5. ASSUME NEW j \in 0..k PROVE e[j] - l[j] <= e[k] - l[k]
    <3>1. CASE j = k
      BY <2>2, <3>1
    <3>2. CASE j # k
      <4>1. j \in 0..(k - 1) /\ j \in 0..n
        BY <3>2
      <4>2. e[j] \in Nat /\ l[j] \in Nat /\ e[j] - l[j] <= e[k - 1] - l[k - 1]
        BY <1>2, <4>1
      <4>3. QED BY <2>2, <2>4, <4>2
    <3>3. QED BY <3>1, <3>2
  <2>6. QED BY <2>1, <2>4, <2>5
<1>3. \A k \in 0..n : k \in K
  <2> HIDE DEF K
  <2>1. QED BY <1>1, <1>2, Counting
<1>4. ASSUME NEW k \in 0..n PROVE e[k] = l[k]
  <2>1. n \in K /\ k \in K /\ n \in 0..n
    BY <1>3
  <2>2. e[k] - l[k] <= e[n] - l[n] /\ l[k] <= e[k]
    BY <2>1
  <2>3. e[k] \in Nat /\ l[k] \in Nat /\ e[n] \in Nat
    BY <2>1
  <2>4. QED BY <2>2, <2>3
<1>5. QED BY <1>4

LEMMA ItemAnswerHas ==
    ASSUME NEW E, Placed(E), NEW item \in Items(E), NEW m, \A a \in DOMAIN m : IsList(m[a])
    PROVE  /\ IsList(ItemAnswer(m, item))
           /\ Len(ItemAnswer(m, item)) = 4 + (IF HasItem(m, item) THEN ItemBytes(item) ELSE 0)
           /\ HasItem(m, item) => \A j \in 1..ItemBytes(item) :
                ItemAnswer(m, item)[4 + j] = m[PlaceOf(item)][item.address + j]
<1> DEFINE area == m[PlaceOf(item)]
           n == ItemBytes(item)
           bytes == SubSeq(area, item.address + 1, item.address + n)
           z == <<0, 0, 0, 0>>
           none == << >>
           x == ItemAnswer(m, item)
<1>1. item.address \in Nat /\ n \in Nat
  BY ItemIs
<1>2. IsList(z) /\ Len(z) = 4 /\ IsList(none) /\ Len(none) = 0
  BY DEF IsList
<1>3. x = IF HasItem(m, item) THEN Join(z, bytes) ELSE Join(z, none)
  BY DEF ItemAnswer, Join
<1>4. CASE HasItem(m, item)
  <2>1. PlaceOf(item) \in DOMAIN m /\ item.address + n <= Len(area) /\ IsList(area)
    BY <1>4 DEF HasItem
  <2> HIDE DEF n, area, z, none, x
  <2>2. IsList(bytes) /\ Len(bytes) = n /\ \A j \in 1..n : bytes[j] = area[item.address + j]
    BY <1>1, <2>1, Slice, SliceHas
  <2> HIDE DEF bytes
  <2>3. x = Join(z, bytes)
    BY <1>3, <1>4
  <2>4. /\ IsList(x) /\ Len(x) = Len(z) + Len(bytes)
        /\ \A i \in 1..(Len(z) + Len(bytes)) :
              x[i] = IF i <= Len(z) THEN z[i] ELSE bytes[i - Len(z)]
    BY <1>2, <2>2, <2>3, ListsJoined
  <2>5. ASSUME NEW j \in 1..n PROVE x[4 + j] = area[item.address + j]
    <3>1. 4 + j \in 1..(4 + n) /\ ~(4 + j <= 4) /\ (4 + j) - 4 = j
      BY <1>1
    <3>2. x[4 + j] = bytes[j]
      BY <1>2, <2>2, <2>4, <3>1
    <3>3. QED BY <2>2, <3>2
  <2>6. IsList(x) /\ Len(x) = 4 + n
    BY <1>2, <2>2, <2>4
  <2>7. QED BY <1>4, <2>5, <2>6 DEF x, n, area
<1>5. CASE ~HasItem(m, item)
  <2> HIDE DEF z, none, x
  <2>1. x = Join(z, none)
    BY <1>3, <1>5
  <2>2. IsList(x) /\ Len(x) = Len(z) + Len(none)
    BY <1>2, <2>1, ListsJoined
  <2>3. IsList(x) /\ Len(x) = 4 + 0
    BY <1>2, <2>2
  <2>4. QED BY <1>5, <2>3 DEF x
<1>6. QED BY <1>4, <1>5

(* The answer to one more item comes behind what there was. *)
Grows(run, m, s, k) ==
    LET x == ItemAnswer(m, s[k])
        old == run[k - 1]
    IN  /\ Len(old) \in Nat /\ Len(x) \in Nat /\ Len(run[k]) = Len(old) + Len(x)
        /\ Begins(old, run[k])
        /\ \A j \in 1..Len(x) : run[k][Len(old) + j] = x[j]

LEMMA ContentGrows ==
    ASSUME NEW E, Placed(E), NEW s \in Seq(Items(E)), NEW m, \A a \in DOMAIN m : IsList(m[a]),
           NEW run, ContentRun(run, m, s)
    PROVE  \A k \in 1..Len(s) : Grows(run, m, s, k)
<1> SUFFICES ASSUME NEW k \in 1..Len(s) PROVE Grows(run, m, s, k)
  OBVIOUS
<1> DEFINE x == ItemAnswer(m, s[k])
           old == run[k - 1]
           new == run[k]
<1>1. IsList(x)
  BY ItemAnswerHas
<1>2. IsList(old) /\ new = Join(old, x)
  BY DEF ContentRun
<1> HIDE DEF x, old, new
<1>3. /\ Len(new) = Len(old) + Len(x)
      /\ \A i \in 1..(Len(old) + Len(x)) :
            new[i] = IF i <= Len(old) THEN old[i] ELSE x[i - Len(old)]
  BY <1>1, <1>2, ListsJoined
<1>4. Len(old) \in Nat /\ Len(x) \in Nat
  BY <1>1, <1>2 DEF IsList
<1>5. Begins(old, new)
  BY <1>3, <1>4 DEF Begins
<1>6. ASSUME NEW j \in 1..Len(x) PROVE new[Len(old) + j] = x[j]
  <2>1. /\ Len(old) + j \in 1..(Len(old) + Len(x)) /\ ~(Len(old) + j <= Len(old))
        /\ (Len(old) + j) - Len(old) = j
    BY <1>4
  <2>2. QED BY <1>3, <2>1
<1>7. QED BY <1>3, <1>4, <1>5, <1>6 DEF Grows, x, old, new

LEMMA ContentBegins ==
    ASSUME NEW E, Placed(E), NEW s \in Seq(Items(E)), NEW m, \A a \in DOMAIN m : IsList(m[a]),
           NEW run, ContentRun(run, m, s), NEW c \in 0..Len(s)
    PROVE  Begins(run[c], run[Len(s)])
<1> DEFINE n == Len(s)
           K == {k \in 0..n : c <= k => Begins(run[c], run[k])}
<1>1. n \in Nat /\ 0 \in 0..n /\ n \in 0..n /\ c \in Nat /\ c <= n
  OBVIOUS
<1>2. \A k \in 0..n : IsList(run[k]) /\ Len(run[k]) \in Nat
  BY DEF ContentRun, IsList
<1>3. \A k \in 1..n : Begins(run[k - 1], run[k])
  BY ContentGrows DEF Grows
<1> HIDE DEF n
<1>4. Begins(run[c], run[c])
  <2>1. Len(run[c]) \in Nat
    BY <1>2 DEF n
  <2>2. QED BY <2>1 DEF Begins
<1>5. 0 \in K
  <2>1. c <= 0 => c = 0
    BY <1>1
  <2>2. QED BY <1>1, <1>4, <2>1
<1>6. ASSUME NEW k \in 1..n, k - 1 \in K PROVE k \in K
  <2>1. k \in 0..n /\ k - 1 \in 0..n
    BY <1>1
  <2>2. CASE c <= k - 1
    <3>1. Begins(run[c], run[k - 1]) /\ Begins(run[k - 1], run[k])
      BY <1>3, <1>6, <2>2
    <3>2. Len(run[c]) \in Nat /\ Len(run[k - 1]) \in Nat /\ Len(run[k]) \in Nat
      BY <1>2, <2>1 DEF n
    <3>3. Begins(run[c], run[k])
      BY <3>1, <3>2 DEF Begins
    <3>4. QED BY <2>1, <3>3
  <2>3. CASE ~(c <= k - 1)
    <3>1. c <= k => c = k
      BY <1>1, <2>3
    <3>2. QED BY <1>4, <2>1, <3>1
  <2>4. QED BY <2>2, <2>3
<1> HIDE DEF K
<1>7. n \in K
  BY <1>1, <1>5, <1>6, Counting
<1>8. QED BY <1>1, <1>7 DEF K, n

(* Where a frame looks for its item, the answer has it. *)
HasPlaced(m, plan, c) ==
    LET item == plan.items[c]
        content == S7Content(m, plan.items)
        at == plan.starts[c]
    IN  /\ HasItem(m, item) /\ at \in Nat /\ at + 4 + ItemBytes(item) <= Len(content)
        /\ \A j \in 1..ItemBytes(item) :
              content[at + 4 + j] = m[PlaceOf(item)][item.address + j]

LEMMA S7Carries ==
    ASSUME NEW E, Placed(E), NEW plan \in Filled7(E), S7Sited(plan),
           NEW m, \A a \in DOMAIN m : IsList(m[a]),
           Len(S7Content(m, plan.items)) = plan.length, NEW c \in DOMAIN plan.items
    PROVE  HasPlaced(m, plan, c)
<1> DEFINE s == plan.items
           n == Len(s)
           e == [k \in 0..n |-> IF k + 1 \in 1..n THEN plan.starts[k + 1] ELSE plan.length]
<1>1. /\ s \in Seq(Items(E)) /\ n \in Nat /\ DOMAIN s = 1..n /\ c \in 1..n
      /\ plan.starts \in Seq(Nat) /\ Len(plan.starts) = n /\ plan.length \in Nat
  BY DEF Filled7, S7FramesOf
<1>2. PICK run : ContentRun(run, m, s)
  BY <1>1, ContentRuns
<1> DEFINE l == [k \in 0..n |-> Len(run[k])]
<1>3. \A k \in 1..n : s[k] \in Items(E) /\ plan.starts[k] \in Nat
  BY <1>1
<1>4. \A k \in 1..n : ItemBytes(s[k]) \in Nat \ {0}
  <2> SUFFICES ASSUME NEW k \in 1..n PROVE ItemBytes(s[k]) \in Nat \ {0}
    OBVIOUS
  <2>1. PICK v \in E, zone \in Zones : s[k] = ItemOf(v, zone)
    BY <1>3 DEF Items
  <2>2. v.type \in DataTypes
    BY DEF Placed
  <2>3. ItemBytes(s[k]) = DataResponseLength(v.type, zone)
    BY <2>1, <2>2, ItemHas
  <2>4. DataResponseLength(v.type, zone) \in Nat \ {0}
    BY <2>2 DEF DataTypes, DataResponseLength, S7Bytes
  <2>5. QED BY <2>3, <2>4
<1>5. \A k \in 1..n :
        LET x == ItemAnswer(m, s[k])
        IN  /\ Len(x) = 4 + (IF HasItem(m, s[k]) THEN ItemBytes(s[k]) ELSE 0)
            /\ HasItem(m, s[k]) => \A j \in 1..ItemBytes(s[k]) :
                  x[4 + j] = m[PlaceOf(s[k])][s[k].address + j]
  BY <1>3, ItemAnswerHas
<1>6. \A k \in 1..n :
        /\ Len(run[k - 1]) \in Nat
        /\ Len(run[k]) = Len(run[k - 1]) + Len(ItemAnswer(m, s[k]))
        /\ \A j \in 1..Len(ItemAnswer(m, s[k])) :
              run[k][Len(run[k - 1]) + j] = ItemAnswer(m, s[k])[j]
  <2> HIDE DEF s
  <2>1. \A k \in 1..Len(s) : Grows(run, m, s, k)
    BY <1>1, <1>2, ContentGrows
  <2>2. QED BY <2>1 DEF Grows
<1>7. \A k \in 1..n : plan.starts[k] + 4 + ItemBytes(s[k])
        = (IF k + 1 \in 1..n THEN plan.starts[k + 1] ELSE plan.length)
  BY <1>1 DEF S7Sited
<1>8. 1 \in 1..n /\ plan.starts[1] = 0
  <2>1. 1 \in 1..n
    BY <1>1
  <2>2. QED BY <1>1, <2>1 DEF S7Sited
<1> HIDE DEF n, s
<1>9. \A k \in 1..n : /\ e[k] = plan.starts[k] + 4 + ItemBytes(s[k])
                      /\ e[k - 1] = plan.starts[k]
                      /\ l[k] = Len(run[k]) /\ l[k - 1] = Len(run[k - 1])
  <2> SUFFICES ASSUME NEW k \in 1..n
               PROVE  /\ e[k] = plan.starts[k] + 4 + ItemBytes(s[k])
                      /\ e[k - 1] = plan.starts[k]
                      /\ l[k] = Len(run[k]) /\ l[k - 1] = Len(run[k - 1])
    OBVIOUS
  <2>1. k \in 0..n /\ k - 1 \in 0..n /\ (k - 1) + 1 = k
    BY <1>1
  <2>2. QED BY <1>7, <2>1
<1>10. e[0] = 0 /\ l[0] = 0 /\ e[n] = l[n] /\ l[n] = plan.length
  <2>1. 0 \in 0..n /\ n \in 0..n /\ 0 + 1 = 1 /\ n + 1 \notin 1..n
    BY <1>1
  <2>2. e[0] = 0
    BY <1>8, <2>1
  <2>3. run[0] = << >> /\ Len(<< >>) = 0
    BY <1>2 DEF ContentRun
  <2>4. l[0] = 0
    BY <2>1, <2>3
  <2>5. e[n] = plan.length
    BY <2>1
  <2>6. l[n] = plan.length
    BY <1>2, <2>1 DEF ContentRun, n, s
  <2>7. QED BY <2>2, <2>4, <2>5, <2>6
<1>11. \A k \in 0..n : e[k] \in Nat /\ l[k] \in Nat
  <2>1. \A k \in 0..n : e[k] \in Nat
    BY <1>1, <1>3
  <2>2. \A k \in 0..n : Len(run[k]) \in Nat
    BY <1>2 DEF ContentRun, IsList, n
  <2>3. QED BY <2>1, <2>2
<1> HIDE DEF e, l
<1>12. \A k \in 1..n : l[k] - l[k - 1] <= e[k] - e[k - 1]
  <2> SUFFICES ASSUME NEW k \in 1..n PROVE l[k] - l[k - 1] <= e[k] - e[k - 1]
    OBVIOUS
  <2> DEFINE w == ItemBytes(s[k])
             x == ItemAnswer(m, s[k])
             st == plan.starts[k]
             old == l[k - 1]
  <2>1. w \in Nat /\ st \in Nat /\ old \in Nat
    BY <1>3, <1>4, <1>6, <1>9
  <2>2. Len(x) = 4 + (IF HasItem(m, s[k]) THEN w ELSE 0)
    BY <1>5
  <2>3. l[k] = old + Len(x) /\ e[k] = st + 4 + w /\ e[k - 1] = st /\ l[k - 1] = old
    BY <1>6, <1>9
  <2> HIDE DEF w, x, st, old
  <2>4. Len(x) \in Nat /\ Len(x) <= 4 + w
    BY <2>1, <2>2
  <2>5. QED BY <2>1, <2>3, <2>4
<1>13. \A k \in 0..n : e[k] = l[k]
  <2>1. Pace(n, e, l)
    BY <1>10, <1>11, <1>12 DEF Pace
  <2>2. n \in Nat
    BY <1>1
  <2>3. QED BY ONLY <2>1, <2>2, NoGap
<1> DEFINE item == s[c]
           w == ItemBytes(item)
           x == ItemAnswer(m, item)
           at == plan.starts[c]
           old == run[c - 1]
           content == S7Content(m, s)
<1>14. /\ c \in 0..n /\ c - 1 \in 0..n /\ w \in Nat \ {0} /\ at \in Nat
       /\ Len(x) = 4 + (IF HasItem(m, item) THEN w ELSE 0)
  <2>1. c \in 0..n /\ c - 1 \in 0..n
    BY <1>1
  <2>2. w \in Nat \ {0} /\ at \in Nat
    BY <1>1, <1>3, <1>4
  <2>3. Len(x) = 4 + (IF HasItem(m, item) THEN w ELSE 0)
    BY <1>1, <1>5
  <2>4. QED BY <2>1, <2>2, <2>3
<1>15. Len(old) = at /\ Len(run[c]) = at + 4 + w
  BY <1>1, <1>9, <1>13, <1>14
<1>16. Len(run[c]) = Len(old) + Len(x)
  BY <1>1, <1>6
<1>17. HasItem(m, item) /\ Len(x) = 4 + w
  <2> HIDE DEF w, x, at, old
  <2>1. QED BY <1>14, <1>15, <1>16
<1>18. Begins(run[c], content)
  <2>1. Begins(run[c], run[n])
    BY <1>1, <1>2, <1>14, ContentBegins DEF n
  <2>2. QED BY <1>2, <2>1 DEF ContentRun, n
<1>19. ASSUME NEW j \in 1..w
       PROVE  content[at + 4 + j] = m[PlaceOf(item)][item.address + j]
  <2>1. 4 + j \in 1..Len(x) /\ at + 4 + j \in 1..Len(run[c]) /\ at + (4 + j) = at + 4 + j
    <3> HIDE DEF w, x, at
    <3>1. QED BY <1>14, <1>15, <1>17
  <2>2. content[at + 4 + j] = run[c][at + 4 + j]
    BY <1>18, <2>1 DEF Begins
  <2>3. run[c][Len(old) + (4 + j)] = x[4 + j]
    BY <1>1, <1>6, <2>1
  <2>4. x[4 + j] = m[PlaceOf(item)][item.address + j]
    BY <1>1, <1>5, <1>17
  <2>5. QED BY <1>15, <2>1, <2>2, <2>3, <2>4
<1>20. at + 4 + w <= Len(content)
  BY <1>15, <1>18 DEF Begins
<1>21. QED BY <1>14, <1>17, <1>19, <1>20 DEF HasPlaced, s

(* What an S7 frame finds in its own answer where it looks for a variable. *)
S7Found(plan, d, b) ==
    LET v == plan.parses[b].v
        area == memory[<<v.where.zone, BlockSize(v.where)>>]
        n == S7Bytes(v.type)
    IN  /\ IsList(area) /\ v.where.number + n <= Len(area)
        /\ \A j \in 1..n : SubSeq(d, plan.parses[b].at + 5, Len(d))[j] = area[v.where.number + j]

LEMMA S7ReplyHas ==
    ASSUME NEW data, IsList(data)
    PROVE  LET m == S7Reply(data)
           IN  /\ Len(m) = 1 + Len(data) /\ m[1].content.length = Len(data)
               /\ \A i \in 1..Len(data) : m[i + 1].content = data[i]
<1> DEFINE n == Len(data)
           content == [length |-> n, error |-> FALSE]
           c == Cell("head", content)
           b == [i \in DOMAIN data |-> Cell("byte", data[i])]
           m == Join(<<c>>, b)
<1>1. S7Reply(data) = m
  BY DEF S7Reply, S7Message, Join
<1>2. c.content.length = n
  BY DEF Cell
<1> HIDE DEF c, n
<1>3. /\ Len(m) = 1 + Len(data) /\ m[1] = c
      /\ \A i \in 1..Len(data) : m[i + 1].content = data[i]
  BY HeadedHas
<1> HIDE DEF m
<1>4. QED BY <1>1, <1>2, <1>3 DEF n

LEMMA S7Finds ==
    ASSUME S7, Memory(memory), NEW E, Placed(E), NEW plan \in Filled7(E), S7Apt(plan),
           NEW b \in DOMAIN plan.parses,
           ParseVariableAddress(plan.parses[b].v.where) = plan.parses[b].v.where.number,
           NEW m, m = S7Answer(memory, S7Request(plan)), 1 <= Len(m),
           NEW d \in ValidateMessage(plan, m)
    PROVE  S7Found(plan, d, b)
<1> DEFINE content == S7Content(memory, plan.items)
           v == plan.parses[b].v
           at == plan.parses[b].at
           n == S7Bytes(v.type)
           area == memory[<<v.where.zone, BlockSize(v.where)>>]
           l == plan.length
<1>1. plan.items \in Seq(Items(E)) /\ plan.parses \in Seq([v : E, at : Nat]) /\ l \in Nat
  BY DEF Filled7, S7FramesOf
<1>2. m = S7Reply(content)
  <2>1. S7Request(plan).items = plan.items
    BY DEF S7Request
  <2>2. m = IF S7Request(plan).length # RequestLength(S7Request(plan).items) THEN << >>
            ELSE S7Reply(content)
    BY <2>1 DEF S7Answer, S7Reply, S7Content
  <2>3. m # << >>
    <3>1. Len(<< >>) = 0
      OBVIOUS
    <3>2. QED BY <3>1
  <2> HIDE DEF content
  <2>4. QED BY <2>2, <2>3
<1>3. IsList(content)
  BY <1>1, S7ContentIs DEF Memory
<1>4. /\ Len(m) = 1 + Len(content) /\ m[1].content.length = Len(content)
      /\ \A i \in 1..Len(content) : m[i + 1].content = content[i]
  <2> HIDE DEF content
  <2>1. QED BY <1>2, <1>3, S7ReplyHas
<1>5. m[1].content.length = l /\ d = [i \in 1..(Len(m) - 1) |-> m[i + 1].content]
  BY DEF ValidateMessage
<1>6. Len(content) = l
  BY <1>4, <1>5
<1>7. d = [i \in 1..l |-> content[i]]
  <2> HIDE DEF content, l
  <2>1. Len(m) - 1 = l
    BY <1>1, <1>4, <1>6
  <2>2. QED BY <1>4, <1>5, <1>6, <2>1
<1>8. PICK c \in DOMAIN plan.items :
        /\ at = plan.starts[c] /\ SamePlace(plan.items[c], v)
        /\ plan.items[c].zone = v.where.zone /\ n <= ItemBytes(plan.items[c])
  BY DEF S7Apt, S7Sited
<1> DEFINE item == plan.items[c]
           w == ItemBytes(item)
<1>9. HasPlaced(memory, plan, c)
  <2>1. Len(S7Content(memory, plan.items)) = plan.length
    BY <1>6
  <2>2. S7Sited(plan) /\ \A a \in DOMAIN memory : IsList(memory[a])
    BY DEF S7Apt, Memory
  <2>3. QED BY <2>1, <2>2, S7Carries
<1>10. item.block = BlockSize(v.where) /\ item.address = v.where.number
       /\ PlaceOf(item) = <<v.where.zone, BlockSize(v.where)>>
  BY <1>8 DEF SamePlace, PlaceOf
<1>11. v \in E /\ n \in Nat /\ v.where.number \in Nat
  <2>1. plan.parses[b] \in [v : E, at : Nat]
    BY <1>1, Elements
  <2>2. v \in E
    BY <2>1
  <2>3. v.type \in DataTypes /\ v.where.number \in Nat
    BY <2>2 DEF Placed
  <2>4. QED BY <2>2, <2>3, LengthsAre
<1>12. /\ HasItem(memory, item) /\ at \in Nat /\ at + 4 + w <= l
       /\ \A j \in 1..w : content[at + 4 + j] = area[v.where.number + j]
  BY <1>6, <1>8, <1>9, <1>10 DEF HasPlaced
<1>13. w \in Nat /\ n <= w
  <2>1. item \in Items(E)
    BY <1>1, Elements
  <2>2. QED BY <1>8, <2>1, ItemIs
<1>14. IsList(area) /\ v.where.number + n <= Len(area)
  <2>1. PlaceOf(item) \in DOMAIN memory /\ item.address + w <= Len(area)
    BY <1>10, <1>12 DEF HasItem
  <2>2. IsList(area)
    BY <1>10, <2>1 DEF Memory
  <2>3. Len(area) \in Nat
    BY <2>2 DEF IsList
  <2> HIDE DEF w, n, area
  <2>4. QED BY <1>10, <1>11, <1>13, <2>1, <2>2, <2>3
<1>15. IsList(d) /\ Len(d) = l
  <2> HIDE DEF content, l
  <2>1. d = [i \in 1..l |-> d[i]]
    BY <1>7
  <2>2. QED BY <1>1, <2>1, ListOf DEF IsList
<1> HIDE DEF content, l, w, area
<1>16. ASSUME NEW j \in 1..n
       PROVE  SubSeq(d, at + 5, Len(d))[j] = area[v.where.number + j]
  <2> HIDE DEF n, at
  <2>1. /\ at + 4 \in Nat /\ (at + 4) + 1 = at + 5 /\ j \in Nat \ {0} /\ (at + 4) + j <= l
        /\ at + 4 + j \in 1..l /\ j \in 1..w
    <3>1. at \in Nat /\ at + 4 + w <= l /\ w \in Nat /\ n <= w /\ n \in Nat /\ l \in Nat
      BY <1>1, <1>11, <1>12, <1>13
    <3>2. j \in 1..n
      OBVIOUS
    <3>3. QED BY ONLY <3>1, <3>2
  <2>2. SubSeq(d, (at + 4) + 1, Len(d))[j] = d[at + 4 + j]
    BY <1>15, <2>1, RestHas
  <2>3. d[at + 4 + j] = content[at + 4 + j]
    BY <1>7, <2>1
  <2>4. QED BY <1>12, <2>1, <2>2, <2>3
<1>17. QED BY <1>14, <1>16 DEF S7Found, area

LEMMA S7IsTrue ==
    ASSUME S7, memory' = memory, NEW plan, NEW d, NEW b \in DOMAIN plan.parses,
           plan.parses[b].v.type \in DataTypes, plan.parses[b].v.where.number \in Nat,
           S7Found(plan, d, b), NEW values \in S7ParseVariableValue(plan, d)
    PROVE  values[b].value = Truth(plan.parses[b].v)
<1> DEFINE v == plan.parses[b].v
           at == plan.parses[b].at
           n == S7Bytes(v.type)
           area == memory[<<v.where.zone, BlockSize(v.where)>>]
           data == SubSeq(d, at + 5, Len(d))
           number == v.where.number
           bytes == SubSeq(area, number + 1, number + n)
<1>1. values[b].value = S7ParseValue(v, data)
  BY DEF S7ParseVariableValue
<1>2. /\ IsList(area) /\ number + n <= Len(area)
      /\ \A j \in 1..n : data[j] = area[number + j]
  BY DEF S7Found
<1>3. n \in Nat /\ (v.type = "BOOL" => n = 1) /\ number \in Nat /\ n > 0
  BY DEF S7Bytes, DataTypes
<1>4. Truth(v) = IF v.type = "BOOL" THEN Bit(bytes[1], v.where.bit)
                 ELSE TimesRate(v, ValueOf(bytes))
  BY DEF Truth, TruthOfS7
<1> HIDE DEF v, area, data
<1> HIDE DEF n
<1>5. IsList(bytes) /\ Len(bytes) = n /\ \A j \in 1..n : bytes[j] = area[number + j]
  <2> HIDE DEF number
  <2>1. QED BY <1>2, <1>3, Slice, SliceHas
<1> HIDE DEF bytes, number
<1>6. \A j \in 1..n : bytes[j] = data[j]
  BY <1>2, <1>5
<1>7. CASE v.type = "BOOL"
  <2>1. bytes[1] = data[1]
    BY <1>3, <1>6, <1>7
  <2>2. S7ParseValue(v, data) = Bit(data[1], v.where.bit)
    BY <1>7 DEF S7ParseValue
  <2>3. QED BY <1>1, <1>4, <1>7, <2>1, <2>2 DEF v
<1>8. CASE v.type # "BOOL"
  <2>1. Parse(BigEndian(n), data) = bytes
    <3>1. bytes = [k \in 1..n |-> bytes[k]]
      BY <1>5 DEF IsList
    <3>2. Parse(BigEndian(n), data) = [k \in 1..n |-> data[k]]
      BY DEF Parse, BigEndian
    <3>3. QED BY <1>6, <3>1, <3>2
  <2>2. S7ParseValue(v, data) = TimesRate(v, ValueOf(bytes))
    BY <1>8, <2>1 DEF S7ParseValue, TimesRate, n
  <2>3. QED BY <1>1, <1>4, <1>8, <2>2 DEF v
<1>9. QED BY <1>7, <1>8

-----------------------------------------------------------------------------
(* What a poll reports of an answer that was alone on the connection is what
   the device held. *)

LEMMA OwnIsTrue ==
    ASSUME CleanInv, Regular, Ordered, memory' = memory, NEW i \in DOMAIN frames,
           ~dirty, NEW r \in Reads(Arrived(i), Capacity(frames[i].plan)), ~r.short,
           NEW buffer, ~S7 => buffer = Filled(frames[i].buffer, r.cells),
           NEW id,
           NEW d \in (IF S7 THEN ValidateMessage(frames[i].plan, r.cells)
                      ELSE ValidateAndExtractMessage(setup.proto, buffer, id,
                                                     DataBytes(frames[i].plan))),
           NEW values \in ParsedValues(frames[i].plan, d),
           \A v \in ToSet(table.list) : Legible(v),
           NEW b \in DOMAIN frames[i].plan.parses,
           Represented(frames[i].plan.parses[b].v, Truth(frames[i].plan.parses[b].v))
    PROVE  values[b].value = Truth(frames[i].plan.parses[b].v)
<1> DEFINE plan == frames[i].plan
           m == r.cells
           v == plan.parses[b].v
<1>1. /\ setup \in Setups /\ Memory(memory) /\ WellPlanned(frames, table.list)
      /\ WellFramed(frames[i]) /\ ProperPlan(plan)
  BY RegularFits, RegularNow DEF CleanInv, Planned, Ordered, WellPlanned
<1>2. m = Answer(plan, NextId(frames[i].id)) /\ Len(m) \in Nat \ {0}
  BY OwnCells
<1>3. \A c \in DOMAIN plan.parses : \E k \in DOMAIN table.list :
        plan.parses[c].v = table.list[k]
  BY <1>1, OfTheTable
<1>4. \A c \in DOMAIN plan.parses : Legible(plan.parses[c].v)
  BY <1>3 DEF ToSet
<1>5. CASE S7
  <2>1. /\ d \in ValidateMessage(plan, m) /\ plan \in Filled7(Requestable)
        /\ Placed(Requestable) /\ S7Apt(plan)
    BY <1>1, <1>5, TypedRequests DEF ProperPlan, AtMost, WellFramed
  <2>2. ParseVariableAddress(v.where) = v.where.number
    <3>1. PICK k \in DOMAIN table.list : v = table.list[k]
      BY <1>3
    <3>2. RegularS7(table.list)
      BY <1>5 DEF Regular
    <3>3. QED BY <3>1, <3>2 DEF RegularS7
  <2>3. m = S7Answer(memory, S7Request(plan)) /\ 1 <= Len(m)
    BY <1>2, <1>5 DEF Answer
  <2>4. v.type \in DataTypes /\ v.where.number \in Nat
    <3>1. plan.parses \in Seq([v : Requestable, at : Nat])
      BY <2>1 DEF Filled7, S7FramesOf
    <3>2. plan.parses[b] \in [v : Requestable, at : Nat]
      BY <3>1, Elements
    <3>3. v \in Requestable
      BY <3>2
    <3>4. QED BY <2>1, <3>3 DEF Placed
  <2>5. values \in S7ParseVariableValue(plan, d) /\ b \in DOMAIN plan.parses
    BY <1>5 DEF ParsedValues
  <2> HIDE DEF plan, m
  <2>6. S7Found(plan, d, b)
    BY <1>1, <1>5, <2>1, <2>2, <2>3, <2>5, S7Finds
  <2>7. values[b].value = Truth(v)
    BY <1>5, <2>4, <2>5, <2>6, S7IsTrue
  <2>8. QED BY <2>7 DEF plan
<1>6. CASE ~S7
  <2>1. plan \in FramesOf(Requestable) /\ Variables(Requestable) /\ Apt(plan)
    BY <1>1, <1>6, TypedRequests DEF ProperPlan, WellFramed
  <2>2. d \in ValidateAndExtractMessage(setup.proto, buffer, id, DataBytes(plan))
    BY <1>6
  <2>3. DOMAIN frames[i].buffer = 1..(DataBytes(plan) + 2) /\ DataBytes(plan) \in Nat
    <3>1. DataBytes(plan) \in Nat
      BY <2>1, DataBytesAre DEF FramesOf
    <3>2. QED BY <1>1, <1>6, <3>1 DEF WellFramed
  <2>4. \A j \in 1..(DataBytes(plan) + 1) : j <= Len(m) => buffer[j] = m[j]
    BY <1>6, <2>3 DEF Filled
  <2>5. m = ModbusAnswer(setup.proto, memory, NextId(frames[i].id), ReadRequest(plan))
        /\ 1 <= Len(m)
    BY <1>2, <1>6 DEF Answer
  <2>6. \A c \in DOMAIN plan.parses :
          plan.parses[c].v.code = plan.code /\ Behind(plan.code, plan.parses[c].v) <= WireMod
    <3> SUFFICES ASSUME NEW c \in DOMAIN plan.parses
                 PROVE  plan.parses[c].v.code = plan.code
                        /\ Behind(plan.code, plan.parses[c].v) <= WireMod
      OBVIOUS
    <3>1. plan.parses[c].v.code = plan.code
      BY <2>1 DEF Apt, Sited
    <3>2. Legible(plan.parses[c].v)
      BY <1>4
    <3>3. QED BY <1>6, <3>1, <3>2 DEF Legible, Behind
  <2>7. plan.code \in Codes /\ v.type \in DataTypes
    <3>1. plan.parses \in Seq([v : Requestable, at : Nat]) /\ plan.code \in Codes
      BY <2>1 DEF FramesOf
    <3>2. plan.parses[b] \in [v : Requestable, at : Nat]
      BY <3>1, Elements
    <3>3. v \in Requestable
      BY <3>2
    <3>4. QED BY <2>1, <3>1, <3>3 DEF Variables
  <2>8. values \in ParseVariableValue(plan, setup.layout, d) /\ b \in DOMAIN plan.parses
        /\ Represented(v, Truth(v)) /\ Legible(v)
    BY <1>4, <1>6 DEF ParsedValues
  <2> HIDE DEF plan, m
  <2>9. Found(plan, d, b)
    BY <1>1, <1>6, <2>1, <2>2, <2>4, <2>5, <2>6, <2>8, ModbusFinds
  <2>10. values[b].value = Truth(v)
    BY <1>1, <1>6, <2>6, <2>7, <2>8, <2>9, ModbusIsTrue
  <2>11. QED BY <2>10 DEF plan
<1>7. QED BY <1>5, <1>6

(* What a result gives as held it reports. *)
Truthful(r, plan) ==
    r.truth # << >> =>
        \A k \in DOMAIN r.values :
            Represented(plan.parses[k].v, r.truth[k]) => r.values[k].value = r.truth[k]

HeldInv == \A i \in DOMAIN frames :
    "plan" \in DOMAIN frames[i] /\ Truthful(result[i], frames[i].plan)

LEMMA SilentResults ==
    \A plan, c : /\ Truthful(NoResult, plan) /\ Truthful(Error, plan)
                 /\ Truthful(Dropped(c), plan)
BY DEF Truthful, NoResult, Error, Dropped

LEMMA ReportIsTrue ==
    ASSUME TInv, CleanInv, Ordered, HeldInv,
           NEW i \in DOMAIN frames, Answered(i) \/ Unanswered(i) \/ Overrun(i)
    PROVE  /\ Truthful(result'[i], frames[i].plan)
           /\ \A j \in DOMAIN frames : j # i => result'[j] = result[j]
<1> DEFINE plan == frames[i].plan
           Goal == /\ Truthful(result'[i], plan)
                   /\ \A j \in DOMAIN frames : j # i => result'[j] = result[j]
<1>1. Truthful(result[i], plan) /\ DOMAIN result = DOMAIN frames
  BY DEF HeldInv, TInv, TypeOK
<1>2. ASSUME NEW r, Reported(i, r), Truthful(r, plan) PROVE Goal
  <2> HIDE DEF plan
  <2>1. result' = [result EXCEPT ![i] = r]
    BY <1>2 DEF Reported
  <2>2. QED BY <1>1, <1>2, <2>1
<1>3. UNCHANGED result => Goal
  BY <1>1
<1>4. TriedInVain(i) => Goal
  <2>1. Truthful(Error, plan)
    BY SilentResults
  <2>2. TriedInVain(i) => Reported(i, Error) \/ UNCHANGED result
    BY DEF TriedInVain
  <2> HIDE DEF plan, Goal
  <2>3. QED BY <1>2, <1>3, <2>1, <2>2
<1>5. ASSUME Answered(i) PROVE Goal
  <2>1. PICK r \in Reads(Arrived(i), Capacity(plan)) :
           /\ frames' = [frames EXCEPT ![i].id = NextId(@),
                            ![i].buffer = IF S7 THEN @ ELSE Filled(@, r.cells)]
           /\ dirty' = (dirty \/ r.short)
           /\ Understood(i, r.cells, ~dirty')
    BY <1>5 DEF Answered
  <2>2. memory' = memory
    BY <1>5 DEF Answered
  <2> DEFINE data == IF S7 THEN ValidateMessage(plan, r.cells)
                     ELSE ValidateAndExtractMessage(setup.proto, frames'[i].buffer,
                                                    frames'[i].id, DataBytes(plan))
             values == UNION {ParsedValues(plan, d) : d \in data}
  <2>3. \/ TriedInVain(i)
        \/ Reported(i, Dropped(~dirty'))
        \/ \E v \in values : Reported(i, Values(plan, v, ~dirty'))
    BY <2>1 DEF Understood
  <2>4. CASE Reported(i, Dropped(~dirty'))
    BY <1>2, <2>4, SilentResults
  <2>5. ASSUME NEW v \in values, Reported(i, Values(plan, v, ~dirty')) PROVE Goal
    <3> DEFINE told == Values(plan, v, ~dirty')
               truth == [k \in DOMAIN plan.parses |-> Truth(plan.parses[k].v)]
    <3>1. /\ told.values = v
          /\ told.truth = (IF ~dirty' /\ Regular /\ \A x \in ToSet(table.list) : Legible(x)
                           THEN truth ELSE << >>)
      BY DEF Values
    <3> HIDE DEF told, truth
    <3>2. SUFFICES ASSUME told.truth # << >>, NEW k \in DOMAIN v,
                          Represented(plan.parses[k].v, told.truth[k])
                   PROVE  v[k].value = told.truth[k]
      <4>1. Truthful(told, plan)
        BY <3>1 DEF Truthful
      <4> HIDE DEF plan, Goal
      <4>2. QED BY <1>2, <2>5, <4>1 DEF told
    <3>3. ~dirty' /\ Regular /\ (\A x \in ToSet(table.list) : Legible(x)) /\ told.truth = truth
      BY <3>1, <3>2
    <3>4. PICK d \in data : v \in ParsedValues(plan, d)
      BY <2>5
    <3>5. ProperPlan(plan) /\ WellFramed(frames[i])
      BY <3>3, RegularFits, RegularNow DEF CleanInv, Planned, Ordered, WellPlanned
    <3>6. IsList(plan.parses)
      <4>1. PICK P : plan.parses \in Seq(P)
        BY <3>5 DEF ProperPlan, AtMost, Filled7, S7FramesOf, FramesOf
      <4> HIDE DEF plan
      <4>2. QED BY <4>1 DEF IsList
    <3>7. k \in DOMAIN plan.parses
      <4>1. Named(v, plan)
        BY <3>4, <3>6, ParsedAreNamed
      <4>2. QED BY <4>1 DEF Named
    <3>8. ~dirty /\ ~r.short
      BY <2>1, <3>3
    <3>9. ~S7 => frames'[i].buffer = Filled(frames[i].buffer, r.cells)
      BY <2>1, <3>5 DEF WellFramed
    <3>10. told.truth[k] = Truth(plan.parses[k].v)
      BY <3>3, <3>7 DEF truth
    <3>11. d \in (IF S7 THEN ValidateMessage(plan, r.cells)
                  ELSE ValidateAndExtractMessage(setup.proto, frames'[i].buffer,
                                                 frames'[i].id, DataBytes(plan)))
      OBVIOUS
    <3>12. Represented(plan.parses[k].v, Truth(plan.parses[k].v))
      BY <3>2, <3>10
    <3>13. v[k].value = Truth(plan.parses[k].v)
      <4>1. /\ CleanInv /\ Regular /\ Ordered /\ memory' = memory /\ i \in DOMAIN frames
            /\ ~dirty /\ r \in Reads(Arrived(i), Capacity(frames[i].plan)) /\ ~r.short
            /\ v \in ParsedValues(frames[i].plan, d) /\ k \in DOMAIN frames[i].plan.parses
        BY <2>2, <3>3, <3>4, <3>7, <3>8
      <4>2. Represented(frames[i].plan.parses[k].v, Truth(frames[i].plan.parses[k].v))
        BY <3>12
      <4>3. QED BY ONLY <3>3, <3>9, <3>11, <4>1, <4>2, OwnIsTrue
    <3>14. QED BY <3>10, <3>13
  <2> HIDE DEF Goal, values
  <2>6. QED BY <1>4, <2>3, <2>4, <2>5
<1>6. ASSUME Unanswered(i) PROVE Goal
  <2>1. TriedInVain(i) \/ Reported(i, Error) \/ UNCHANGED result
    BY <1>6 DEF Unanswered
  <2>2. Truthful(Error, plan)
    BY SilentResults
  <2> HIDE DEF plan, Goal
  <2>3. QED BY <1>2, <1>3, <1>4, <2>1, <2>2
<1>7. ASSUME Overrun(i) PROVE Goal
  <2>1. Reported(i, Dropped(~dirty))
    BY <1>7 DEF Overrun
  <2>2. Truthful(Dropped(~dirty), plan)
    BY SilentResults
  <2> HIDE DEF plan, Goal
  <2>3. QED BY <1>2, <2>1, <2>2
<1>8. Goal
  <2> HIDE DEF Goal
  <2>1. QED BY <1>5, <1>6, <1>7
<1>9. QED BY <1>8

LEMMA HeldStep == TInv /\ CleanInv /\ Ordered /\ HeldInv /\ [Next]_vars => HeldInv'
<1> SUFFICES ASSUME TInv, CleanInv, Ordered, HeldInv, [Next]_vars PROVE HeldInv'
  OBVIOUS
<1>0. setup' = setup
  BY TabledStep
<1> SUFFICES ASSUME NEW i \in DOMAIN frames'
             PROVE  "plan" \in DOMAIN frames'[i] /\ Truthful(result'[i], frames'[i].plan)
  BY <1>0 DEF HeldInv, Truthful, Represented, S7, OfType
<1>1. CASE UNCHANGED <<frames, result>>
  BY <1>1 DEF HeldInv
<1>2. ASSUME NEW k \in DOMAIN frames, Answered(k) \/ Unanswered(k) \/ Overrun(k)
      PROVE  "plan" \in DOMAIN frames'[i] /\ Truthful(result'[i], frames'[i].plan)
  <2>1. \/ frames' = [frames EXCEPT ![k].id = NextId(@)]
        \/ \E cells : frames' = [frames EXCEPT ![k].id = NextId(@),
                            ![k].buffer = IF S7 THEN @ ELSE Filled(@, cells)]
    BY <1>2 DEF Answered, Unanswered, Overrun
  <2>2. \A j \in DOMAIN frames : "plan" \in DOMAIN frames[j]
    BY DEF HeldInv
  <2>3. DOMAIN frames' = DOMAIN frames /\ frames'[i].plan = frames[i].plan
        /\ "plan" \in DOMAIN frames'[i]
    <3>1. CASE frames' = [frames EXCEPT ![k].id = NextId(@)]
      BY <2>2, <3>1
    <3>2. ASSUME NEW cells, frames' = [frames EXCEPT ![k].id = NextId(@),
                            ![k].buffer = IF S7 THEN @ ELSE Filled(@, cells)]
          PROVE  DOMAIN frames' = DOMAIN frames /\ frames'[i].plan = frames[i].plan
                 /\ "plan" \in DOMAIN frames'[i]
      <4>1. DOMAIN frames' = DOMAIN frames
        BY <3>2
      <4>2. QED BY <2>2, <3>2, <4>1
    <3>3. QED BY <2>1, <3>1, <3>2
  <2>4. /\ Truthful(result'[k], frames[k].plan)
        /\ \A j \in DOMAIN frames : j # k => result'[j] = result[j]
    BY <1>2, ReportIsTrue
  <2>5. CASE i = k
    BY <2>3, <2>4, <2>5
  <2>6. CASE i # k
    BY <2>3, <2>4, <2>6 DEF HeldInv
  <2>7. QED BY <2>5, <2>6
<1>3. CASE Recollect
  <2>1. PICK plans \in Plans(stored) : /\ frames' = NewFrames(plans)
                                       /\ result' = [j \in DOMAIN plans |-> NoResult]
    BY <1>3 DEF Recollect, Collecting
  <2>2. result'[i] = NoResult /\ "plan" \in DOMAIN frames'[i]
    BY <2>1 DEF NewFrames
  <2>3. QED BY <2>2, SilentResults
<1>4. CASE StartPoll
  <2>1. frames' = frames /\ result' = [j \in DOMAIN frames |-> NoResult]
    BY <1>4 DEF StartPoll
  <2>2. QED BY <2>1, SilentResults DEF HeldInv
<1>5. ASSUME NEW k \in DOMAIN frames, TakeTurn(k)
      PROVE  "plan" \in DOMAIN frames'[i] /\ Truthful(result'[i], frames'[i].plan)
  BY <1>1, <1>5 DEF TakeTurn
<1>6. CASE UpdateDevice \/ Drift \/ BeginCommand \/ CommandPanics \/ UNCHANGED vars
  BY <1>1, <1>6 DEF UpdateDevice, Drift, BeginCommand, CommandPanics, Begin, vars
<1>7. CASE CommandAnswered \/ CommandLate \/ CommandUnread \/ CommandBroken
           \/ CommandOverrun
  BY <1>1, <1>7 DEF CommandAnswered, CommandLate, CommandUnread, CommandBroken,
                    CommandOverrun
<1>8. QED BY <1>2, <1>3, <1>4, <1>5, <1>6, <1>7 DEF Next

LEMMA HeldInit == Init => HeldInv
<1> SUFFICES ASSUME Init PROVE HeldInv
  OBVIOUS
<1>1. PICK plans \in Plans(table) : /\ frames = NewFrames(plans)
                                    /\ result = [j \in DOMAIN plans |-> NoResult]
  BY DEF Init
<1>2. \A i \in DOMAIN frames : result[i] = NoResult /\ "plan" \in DOMAIN frames[i]
  BY <1>1 DEF NewFrames
<1>3. QED BY <1>2, SilentResults DEF HeldInv

ReportInv == AnswerInv /\ HeldInv

(* ReportsWhatIsHeld: what a poll reports of a variable is what the device held
   when it answered, for every plan of frames, every layout and every order
   of the steps, as long as the answer was alone on the connection. *)
THEOREM ExchangeReportsWhatIsHeld == Spec => []ReportsWhatIsHeld
<1>1. Init => ReportInv
  BY TypeInit, CleanInit, AnswersInit, HeldInit DEF ReportInv, AnswerInv
<1>2. ReportInv /\ [Next]_vars => ReportInv'
  BY TypeStep, CleanInvStep, OrderedStep, AnswersStep, HeldStep DEF ReportInv, AnswerInv
<1>3. ReportInv => ReportsWhatIsHeld
  <2> SUFFICES ASSUME ReportInv PROVE ReportsWhatIsHeld
    OBVIOUS
  <2>1. DOMAIN result = DOMAIN frames
    BY DEF ReportInv, AnswerInv, TInv, TypeOK
  <2>2. \A i \in DOMAIN frames : Truthful(result[i], frames[i].plan)
    BY DEF ReportInv, HeldInv
  <2>3. QED BY <2>1, <2>2 DEF Truthful, ReportsWhatIsHeld
<1>4. QED BY <1>1, <1>2, <1>3, PTL DEF Spec

-----------------------------------------------------------------------------
(* A number is its bytes. *)

LEMMA Widths ==
    ASSUME NEW m \in Nat
    PROVE  /\ Width(m) \in Nat \ {0} /\ Radix \in Nat \ {0}
           /\ Width(m + 1) = Width(m) * Radix
           /\ Width(0) = 1
<1>1. BitsPerByte \in Nat
  BY ModbusAssumption
<1>2. BitsPerByte * m \in Nat /\ BitsPerByte * (m + 1) = BitsPerByte * m + BitsPerByte
      /\ BitsPerByte * 0 = 0
  BY <1>1
<1>3. 2 ^ (BitsPerByte * m + BitsPerByte) = 2 ^ (BitsPerByte * m) * 2 ^ BitsPerByte
  BY <1>1, <1>2, PowersMultiply
<1>4. 2 ^ 0 = 1
  OBVIOUS
<1>5. QED BY <1>1, <1>2, <1>3, <1>4, PowerIsPositive DEF Width, Radix

NumberFold(it, bytes) ==
    it = [T \in SUBSET DOMAIN bytes |->
            IF T = {} THEN 0 ELSE it[T \ {Max(T)}] * Radix + bytes[Max(T)]]

(* The number, as the sequence of its beginnings. *)
LEMMA NumberRuns ==
    ASSUME NEW n \in Nat, NEW bytes, DOMAIN bytes = 1..n, \A i \in 1..n : bytes[i] \in Nat
    PROVE  \E run : /\ run[0] = 0
                    /\ \A k \in 1..n : run[k] = run[k - 1] * Radix + bytes[k]
                    /\ ValueOf(bytes) = run[n]
<1> DEFINE step == [i \in 1..n |-> [u \in Nat |-> u * Radix + bytes[i]]]
<1>0. Radix \in Nat
  BY Widths
<1>1. \A T \in SUBSET (1..n) : T # {} => Max(T) \in T
  BY HighestIn
<1>2. \E it : NumberFold(it, bytes)
  <2>1. \A i \in 1..n, u \in Nat : step[i][u] = u * Radix + bytes[i] /\ step[i][u] \in Nat
    <3> SUFFICES ASSUME NEW i \in 1..n, NEW u \in Nat
                 PROVE  step[i][u] = u * Radix + bytes[i] /\ step[i][u] \in Nat
      OBVIOUS
    <3> DEFINE y == u * Radix
    <3>1. y \in Nat /\ bytes[i] \in Nat
      BY <1>0
    <3>2. step[i][u] = y + bytes[i]
      OBVIOUS
    <3> HIDE DEF y, step
    <3>3. QED BY <3>1, <3>2 DEF y
  <2> HIDE DEF step
  <2>2. PICK it \in [SUBSET (1..n) -> Nat] : Iterates(it, n, 0, step)
    BY <2>1, IterationExists
  <2>3. \A T \in SUBSET (1..n) :
          it[T] = IF T = {} THEN 0 ELSE step[Max(T)][it[T \ {Max(T)}]]
    BY <2>2 DEF Iterates
  <2>4. \A T \in SUBSET (1..n) :
          it[T] = IF T = {} THEN 0 ELSE it[T \ {Max(T)}] * Radix + bytes[Max(T)]
    <3> SUFFICES ASSUME NEW T \in SUBSET (1..n), T # {}
                 PROVE  it[T] = it[T \ {Max(T)}] * Radix + bytes[Max(T)]
      BY <2>3
    <3>1. Max(T) \in 1..n /\ T \ {Max(T)} \in SUBSET (1..n)
      BY <1>1
    <3>2. it[T \ {Max(T)}] \in Nat
      BY <2>2, <3>1
    <3>3. it[T] = step[Max(T)][it[T \ {Max(T)}]]
      BY <2>3
    <3>4. QED BY <2>1, <3>1, <3>2, <3>3
  <2>5. it = [T \in SUBSET (1..n) |->
                IF T = {} THEN 0 ELSE it[T \ {Max(T)}] * Radix + bytes[Max(T)]]
    BY <2>2, <2>4
  <2>6. QED BY <2>5 DEF NumberFold
<1> DEFINE it == CHOOSE it : NumberFold(it, bytes)
<1>3. NumberFold(it, bytes)
  BY <1>2
<1>4. ValueOf(bytes) = it[DOMAIN bytes]
  BY DEF ValueOf, FoldLeft, MapThenFoldSet, NumberFold
<1> HIDE DEF it
<1>5. \A T \in SUBSET (1..n) :
        it[T] = IF T = {} THEN 0 ELSE it[T \ {Max(T)}] * Radix + bytes[Max(T)]
  BY <1>3 DEF NumberFold
<1> DEFINE run == [k \in 0..n |-> it[1..k]]
<1>6. ASSUME NEW k \in 1..n PROVE run[k] = run[k - 1] * Radix + bytes[k]
  <2>1. /\ 1..k \in SUBSET (1..n) /\ 1..k # {} /\ (1..k) \ {k} = 1..(k - 1)
        /\ k \in 0..n /\ k - 1 \in 0..n /\ Max(1..k) = k
    BY Beginning
  <2>2. it[1..k] = it[(1..k) \ {Max(1..k)}] * Radix + bytes[Max(1..k)]
    BY <1>5, <2>1
  <2>3. QED BY <2>1, <2>2
<1>7. run[0] = 0
  <2>1. 1..0 = {} /\ 0 \in 0..n
    OBVIOUS
  <2>2. QED BY <1>5, <2>1
<1>8. run[n] = it[DOMAIN bytes]
  <2>1. n \in 0..n
    OBVIOUS
  <2>2. QED BY <2>1
<1> HIDE DEF run
<1>9. QED BY <1>4, <1>6, <1>7, <1>8

(* The bytes of a number that fits them are worth the number. *)
LEMMA BytesReadBack ==
    ASSUME NEW n \in Nat, NEW x \in 0..(Width(n) - 1)
    PROVE  ValueOf(BytesOf(x, n)) = x
<1> DEFINE bytes == BytesOf(x, n)
<1>1. DOMAIN bytes = 1..n /\ \A k \in 1..n : bytes[k] = (x \div Width(n - k)) % Radix
  BY DEF BytesOf
<1>2. \A m \in Nat : /\ Width(m) \in Nat \ {0} /\ Radix \in Nat \ {0}
                     /\ Width(m + 1) = Width(m) * Radix
                     /\ Width(0) = 1
  BY Widths
<1>3. Radix \in Nat \ {0} /\ x \in Nat /\ x < Width(n)
  BY <1>2
<1>4. \A m \in Nat : x \div Width(m) \in Nat
  BY <1>2, <1>3, Quotient
<1> HIDE DEF bytes
<1>5. \A k \in 1..n : n - k \in Nat
  OBVIOUS
<1>6. ASSUME NEW k \in 1..n PROVE bytes[k] \in Nat
  <2> DEFINE y == x \div Width(n - k)
  <2>1. y \in Nat /\ bytes[k] = y % Radix
    BY <1>1, <1>4, <1>5
  <2> HIDE DEF y
  <2>2. QED BY <1>3, <2>1, Remainder
<1>7. PICK run : /\ run[0] = 0
                 /\ \A k \in 1..n : run[k] = run[k - 1] * Radix + bytes[k]
                 /\ ValueOf(bytes) = run[n]
  BY <1>1, <1>6, NumberRuns
<1> DEFINE L == {k \in 0..n : run[k] = x \div Width(n - k)}
<1>8. 0 \in L
  <2> DEFINE w == Width(n)
  <2>1. w \in Nat \ {0} /\ x < w
    BY <1>2, <1>3
  <2> HIDE DEF w
  <2>2. x = w * 0 + x
    BY <1>3, <2>1
  <2>3. x \div w = 0
    BY <1>3, <2>1, <2>2, QuotientIs
  <2>4. 0 \in 0..n /\ n - 0 = n
    OBVIOUS
  <2>5. QED BY <1>7, <2>3, <2>4 DEF w
<1>9. ASSUME NEW k \in 1..n, k - 1 \in L PROVE k \in L
  <2> DEFINE w == Width(n - k)
             y == x \div w
  <2>1. n - k \in Nat /\ (n - k) + 1 = n - (k - 1) /\ k \in 0..n
    OBVIOUS
  <2>2. Width(n - (k - 1)) = w * Radix /\ w \in Nat \ {0}
    <3>1. Width((n - k) + 1) = Width(n - k) * Radix
      BY <1>2, <2>1
    <3>2. QED BY <1>2, <2>1, <3>1
  <2>3. run[k - 1] = x \div (w * Radix)
    BY <1>9, <2>2
  <2> HIDE DEF w
  <2>4. run[k - 1] = y \div Radix
    BY <1>3, <2>2, <2>3, QuotientTwice
  <2>5. bytes[k] = y % Radix
    BY <1>1 DEF w
  <2>6. y \in Nat
    BY <1>4, <2>1 DEF w
  <2> HIDE DEF y
  <2>7. y = Radix * (y \div Radix) + (y % Radix) /\ y \div Radix \in Nat
    BY <1>3, <2>6, Quotient
  <2>8. run[k] = y
    <3> DEFINE u == y \div Radix
    <3>1. run[k] = u * Radix + bytes[k] /\ u \in Nat
      BY <1>7, <2>4, <2>7
    <3>2. y = Radix * u + bytes[k]
      BY <2>5, <2>7
    <3> HIDE DEF u
    <3>3. u * Radix = Radix * u
      BY <1>3, <3>1
    <3>4. QED BY <3>1, <3>2, <3>3
  <2>9. QED BY <2>1, <2>8 DEF y, w
<1> HIDE DEF L
<1>10. n \in L
  BY <1>8, <1>9, Counting
<1>11. run[n] = x \div 1
  <2>1. n - n = 0
    OBVIOUS
  <2>2. QED BY <1>2, <1>10, <2>1 DEF L
<1>12. x \div 1 = x
  BY <1>3
<1>13. QED BY <1>7, <1>11, <1>12 DEF bytes
-----------------------------------------------------------------------------
(* What a Modbus device has done of a write reads back. *)

LEMMA OrdersTell ==
    ASSUME NEW n \in {2, 4, 8}, setup.layout \in {"ABCD", "BADC", "CDAB", "DCBA"}
    PROVE  LET order == OrderOf(setup.layout, n)
           IN  /\ DOMAIN order = 1..n
               /\ \A k \in 1..n : order[k] = Layout(n)[k] /\ order[k] \in 1..n
               /\ \A j, k \in 1..n : order[j] = order[k] => j = k
<1> DEFINE order == OrderOf(setup.layout, n)
<1>1. DOMAIN order = 1..n
  BY OrdersAre
<1>2. \A k \in 1..n : order[k] = Layout(n)[k] /\ order[k] \in 1..n
  BY LayoutIs
<1>3. \A k \in 1..n : k % 2 = (IF k \in {1, 3, 5, 7} THEN 1 ELSE 0)
                   /\ (n + 1 - k) % 2 = (IF n + 1 - k \in {1, 3, 5, 7} THEN 1 ELSE 0)
  <2>1. \A k \in 1..8 : k % 2 = (IF k \in {1, 3, 5, 7} THEN 1 ELSE 0)
    OBVIOUS
  <2>2. \A k \in 1..n : k \in 1..8 /\ n + 1 - k \in 1..8
    OBVIOUS
  <2>3. QED BY <2>1, <2>2
<1>4. \A k \in 1..n : order[k]
        = IF n = 2 THEN IF setup.layout \in {"ABCD", "CDAB"} THEN k ELSE n + 1 - k
          ELSE IF setup.layout = "ABCD" THEN k
          ELSE IF setup.layout = "BADC"
               THEN IF k \in {1, 3, 5, 7} THEN k + 1 ELSE k - 1
          ELSE IF setup.layout = "CDAB"
               THEN IF n + 1 - k \in {1, 3, 5, 7} THEN (n + 1 - k) + 1 ELSE (n + 1 - k) - 1
          ELSE n + 1 - k
  BY <1>3 DEF OrderOf, BigEndian, LittleEndian, ByteSwap
<1> HIDE DEF order
<1>5. ASSUME NEW j \in 1..n, NEW k \in 1..n, order[j] = order[k] PROVE j = k
  BY <1>4, <1>5
<1>6. QED BY <1>1, <1>2, <1>5 DEF order

LEMMA BytesPlaced ==
    ASSUME NEW n \in Nat, NEW order, DOMAIN order = 1..n, NEW number,
           \A j, k \in 1..n : order[j] = order[k] => j = k,
           NEW k \in 1..n, order[k] \in 1..n
    PROVE  ToBytes(order, number)[order[k]] = number[k]
<1> DEFINE i == order[k]
           c == CHOOSE j \in DOMAIN order : order[j] = i
<1>1. c \in 1..n /\ order[c] = i
  OBVIOUS
<1>2. ToBytes(order, number)[i] = number[c]
  BY DEF ToBytes
<1> HIDE DEF c
<1>3. c = k
  BY <1>1
<1>4. QED BY <1>2, <1>3

(* Where a write has put its bytes. *)
LEMMA WrittenHas ==
    ASSUME NEW w, w.code \in {5, 6, 16}, w.at \in Nat, IsList(w.data), Writable(memory, w),
           Memory(memory), ~S7, NEW j \in 1..Len(w.data)
    PROVE  Written(memory, w)[AreaOf(w.code)][(IF w.code = 5 THEN 1 ELSE 2) * w.at + j]
             = w.data[j]
<1> DEFINE a == AreaOf(w.code)
           first == (IF w.code = 5 THEN 1 ELSE 2) * w.at
           area == memory[a]
           f == [i \in DOMAIN area |->
                   IF i - first \in DOMAIN w.data THEN w.data[i - first] ELSE area[i]]
<1>1. a \in DOMAIN memory /\ IsList(area)
  <2>1. a \in Areas
    BY DEF AreaOf, Areas
  <2>2. QED BY <2>1 DEF Memory
<1>2. first \in Nat /\ first + Len(w.data) <= Len(area)
  BY DEF Writable
<1>3. Written(memory, w) = [memory EXCEPT ![a] = f]
  BY DEF Written
<1> HIDE DEF a, first
<1>4. Written(memory, w)[a] = f
  BY <1>1, <1>3
<1>5. /\ DOMAIN area = 1..Len(area) /\ Len(area) \in Nat
      /\ DOMAIN w.data = 1..Len(w.data) /\ Len(w.data) \in Nat
  BY <1>1 DEF IsList
<1> HIDE DEF area
<1>6. first + j \in DOMAIN area /\ (first + j) - first = j
  BY <1>2, <1>5
<1>7. f[first + j] = w.data[j]
  BY <1>5, <1>6
<1>8. QED BY <1>4, <1>7 DEF a, first

LEMMA CoilIsTrue ==
    ASSUME ~S7, Memory(memory), NEW v, v.code = 1, v.address \in Nat, Legible(v),
           NEW value \in {0, 1}, NEW w, w = WriteOf(v, setup.layout, value),
           Writable(memory, w), memory' = Written(memory, w)
    PROVE  Truth(v) = value
<1>1. v.address % WireMod = v.address
  <2>1. v.address + 1 <= WireMod /\ WireMod \in Nat
    BY ModbusAssumption DEF Legible, Coils
  <2>2. QED BY <2>1, SmallRemainder
<1>2. w.code = 5 /\ w.at = v.address /\ w.data = IF value > 0 THEN <<1>> ELSE <<0>>
  <2> DEFINE bit == IF value > 0 THEN <<1>> ELSE <<0>>
  <2>1. w = [code |-> 5, at |-> v.address % WireMod, data |-> bit]
    BY DEF WriteOf, Coils, Registers
  <2> HIDE DEF bit
  <2>2. w.code = 5 /\ w.at = v.address /\ w.data = bit
    BY <1>1, <2>1
  <2>3. QED BY <2>2 DEF bit
<1>3. w.data = <<value>>
  BY <1>2
<1>4. IsList(w.data) /\ Len(w.data) = 1 /\ w.data[1] = value
  BY <1>3, OneCell
<1>5. AreaOf(w.code) = "coils" /\ AreaOf(v.code) = "coils" /\ v.code \in Coils
  BY <1>2 DEF AreaOf, Coils
<1>6. Written(memory, w)["coils"][1 * v.address + 1] = value
  <2>1. 1 \in 1..Len(w.data)
    BY <1>4
  <2>2. w.code \in {5, 6, 16} /\ w.at \in Nat
    BY <1>2
  <2>3. Written(memory, w)[AreaOf(w.code)][(IF w.code = 5 THEN 1 ELSE 2) * w.at + 1] = w.data[1]
    BY <1>4, <2>1, <2>2, WrittenHas
  <2>4. QED BY <1>2, <1>4, <1>5, <2>3
<1>7. 1 * v.address + 1 = v.address + 1
  OBVIOUS
<1>8. QED BY <1>5, <1>6, <1>7 DEF Truth

(* A rate that divides a value is taken out and put back. *)
LEMMA RateReadsBack ==
    ASSUME NEW v, v.rate \in Nat, NEW value \in Nat,
           Rated(v.rate) => value % v.rate = 0
    PROVE  /\ RawOf(v, value) \in Nat /\ RawOf(v, value) <= value
           /\ TimesRate(v, RawOf(v, value)) = value
<1>1. CASE ~Rated(v.rate)
  BY <1>1 DEF RawOf, TimesRate
<1>2. CASE Rated(v.rate)
  <2> DEFINE d == v.rate
             q == value \div d
  <2>1. d \in Nat \ {0, 1}
    BY <1>2 DEF Rated
  <2>2. RawOf(v, value) = q /\ TimesRate(v, q) = q * d
    BY <1>2 DEF RawOf, TimesRate
  <2>3. value % d = 0
    BY <1>2
  <2> HIDE DEF d
  <2>4. q \in Nat /\ value = d * q + (value % d)
    BY <2>1, Quotient
  <2> HIDE DEF q
  <2>5. value = d * q
    <3> DEFINE x == d * q
    <3>1. x \in Nat
      BY <2>1, <2>4
    <3> HIDE DEF x
    <3>2. value = x
      BY <2>3, <2>4, <3>1 DEF x
    <3>3. QED BY <3>2 DEF x
  <2>6. q * d = d * q
    BY <2>1, <2>4
  <2>7. q <= value
    <3>1. PICK c \in Nat : d = c + 1
      <4>1. d - 1 \in Nat /\ d = (d - 1) + 1
        BY <2>1
      <4>2. QED BY <4>1
    <3>2. d * q = c * q + q /\ c * q \in Nat
      BY <2>4, <3>1
    <3>3. QED BY <2>4, <2>5, <3>2
  <2>8. QED BY <2>2, <2>4, <2>5, <2>6, <2>7
<1>3. QED BY <1>1, <1>2

LEMMA RegisterIsTrue ==
    ASSUME setup \in Setups, ~S7, Memory(memory), NEW v, v.code = 3, v.address \in Nat,
           v.type \in DataTypes, v.type # "BOOL", v.rate \in Nat, Legible(v),
           NEW value \in Nat, OfType(v, value), Rated(v.rate) => value % v.rate = 0,
           NEW w, w = WriteOf(v, setup.layout, value),
           Writable(memory, w), memory' = Written(memory, w)
    PROVE  Truth(v) = value
<1> DEFINE n == 2 * DataTypeWord(v.type)
           order == OrderOf(setup.layout, n)
           raw == RawOf(v, value)
           number == BytesOf(raw, n)
           data == ToBytes(order, number)
           bytes == [k \in 1..n |-> memory'[AreaOf(v.code)][2 * v.address + Layout(n)[k]]]
<1>1. n \in {2, 4, 8} /\ DataTypeWord(v.type) \in Nat \ {0}
  BY DEF DataTypeWord, DataTypes
<1>2. v.address % WireMod = v.address
  <2>1. v.address + DataTypeWord(v.type) <= WireMod /\ WireMod \in Nat
    BY ModbusAssumption DEF Legible, Coils
  <2>2. QED BY <1>1, <2>1, SmallRemainder
<1>3. w = [code |-> IF n = 2 THEN 6 ELSE 16, at |-> v.address, data |-> data]
  BY <1>2 DEF WriteOf, Coils, Registers
<1>4. setup.layout \in {"ABCD", "BADC", "CDAB", "DCBA"}
  BY ExchangeAssumption DEF Device, S7
<1>5. raw \in Nat /\ raw <= value /\ TimesRate(v, raw) = value
  BY RateReadsBack
<1>6. value \in 0..(Width(n) - 1)
  BY DEF OfType
<1>7. Truth(v) = TimesRate(v, ValueOf(bytes))
  BY DEF Truth, TruthOfRegister, Coils
<1> HIDE DEF n, raw
<1>8. /\ DOMAIN order = 1..n
      /\ \A k \in 1..n : order[k] = Layout(n)[k] /\ order[k] \in 1..n
      /\ \A j, k \in 1..n : order[j] = order[k] => j = k
  BY <1>1, <1>4, OrdersTell
<1> HIDE DEF order
<1>9. \A k \in 1..n : data[order[k]] = number[k]
  <2> HIDE DEF number, data
  <2> SUFFICES ASSUME NEW k \in 1..n PROVE data[order[k]] = number[k]
    OBVIOUS
  <2>1. n \in Nat /\ order[k] \in 1..n
    BY <1>1, <1>8
  <2>2. ToBytes(order, number)[order[k]] = number[k]
    <3>1. DOMAIN order = 1..n /\ \A i, j \in 1..n : order[i] = order[j] => i = j
      BY <1>8
    <3>2. n \in Nat
      BY <2>1
    <3>3. order[k] \in 1..n
      BY <2>1
    <3>4. QED BY ONLY <3>1, <3>2, <3>3, k \in 1..n, BytesPlaced
  <2>3. QED BY <2>2 DEF data
<1>10. DOMAIN number = 1..n /\ number = [k \in 1..n |-> number[k]]
  BY DEF BytesOf
<1>11. IsList(data) /\ Len(data) = n
  <2>1. data = [i \in 1..n |-> data[i]]
    BY <1>8 DEF ToBytes
  <2> HIDE DEF data
  <2>2. Len(data) = n
    BY <1>1, <2>1, ListOf
  <2>3. QED BY <1>1, <2>1, <2>2 DEF IsList
<1> HIDE DEF data, number
<1>12. w.code \in {6, 16} /\ w.at = v.address /\ w.data = data
  BY <1>3
<1>13. AreaOf(w.code) = "holdings" /\ AreaOf(v.code) = "holdings"
  BY <1>12 DEF AreaOf
<1>14. ASSUME NEW j \in 1..n
       PROVE  memory'["holdings"][2 * v.address + j] = data[j]
  <2>1. w.code \in {5, 6, 16} /\ w.at \in Nat /\ IsList(w.data) /\ j \in 1..Len(w.data)
    BY <1>11, <1>12
  <2>2. Written(memory, w)[AreaOf(w.code)][(IF w.code = 5 THEN 1 ELSE 2) * w.at + j] = w.data[j]
    BY <2>1, WrittenHas
  <2>3. w.code # 5
    BY <1>12
  <2>4. QED BY <1>12, <1>13, <2>2, <2>3
<1>15. \A k \in 1..n : memory'[AreaOf(v.code)][2 * v.address + Layout(n)[k]] = number[k]
  <2> SUFFICES ASSUME NEW k \in 1..n
               PROVE  memory'["holdings"][2 * v.address + Layout(n)[k]] = number[k]
    BY <1>13
  <2>1. order[k] = Layout(n)[k] /\ order[k] \in 1..n /\ data[order[k]] = number[k]
    BY <1>8, <1>9
  <2>2. memory'["holdings"][2 * v.address + order[k]] = data[order[k]]
    BY <1>14, <2>1
  <2>3. QED BY <2>1, <2>2
<1>16. bytes = number
  BY <1>10, <1>15
<1>17. ValueOf(number) = raw
  <2>1. raw \in 0..(Width(n) - 1) /\ n \in Nat
    <3>1. n \in Nat
      BY <1>1
    <3> DEFINE x == Width(n)
    <3>2. x \in Nat /\ value < x
      BY <1>6, <3>1, Widths
    <3> HIDE DEF x
    <3>3. raw \in 0..(x - 1)
      BY <1>5, <3>2
    <3>4. QED BY <3>1, <3>3 DEF x
  <2>2. QED BY <2>1, BytesReadBack DEF number
<1> HIDE DEF bytes
<1>18. QED BY <1>5, <1>7, <1>16, <1>17
-----------------------------------------------------------------------------
(* What an S7 device has done of a write reads back. *)

(* A bit that is set in a byte is that bit of the byte. *)
LEMMA BitSet ==
    ASSUME NEW byte \in Nat, NEW b \in Nat, NEW set \in {0, 1}
    PROVE  LET new == byte + (set - Bit(byte, b)) * 2 ^ b
           IN  new \in Nat /\ Bit(new, b) = set
<1> DEFINE p == 2 ^ b
           q == byte \div p
           old == q % 2
           new == byte + (set - old) * p
<1>1. p \in Nat \ {0}
  BY PowerIsPositive
<1>2. Bit(byte, b) = old /\ Bit(new, b) = (new \div p) % 2
  BY DEF Bit
<1> HIDE DEF p
<1>3. PICK r \in 0..(p - 1) : byte = p * q + r
  BY <1>1, Division
<1>4. q \in Nat
  BY <1>1, Quotient
<1> HIDE DEF q
<1>5. PICK h \in Nat : q = 2 * h + old
  <2>1. q = 2 * (q \div 2) + (q % 2) /\ q \div 2 \in Nat
    BY <1>4, Quotient
  <2>2. QED BY <2>1
<1>6. old \in {0, 1}
  BY <1>4
<1> HIDE DEF old
<1> DEFINE x == p * (2 * h)
<1>7. x \in Nat /\ p * (2 * h + 1) = x + p
  BY <1>1, <1>5
<1>8. p * q = x + (IF old = 1 THEN p ELSE 0)
  <2>1. CASE old = 0
    <3>1. q = 2 * h
      BY <1>5, <2>1
    <3>2. QED BY <1>1, <1>7, <2>1, <3>1
  <2>2. CASE old = 1
    BY <1>5, <1>7, <2>2
  <2>3. QED BY <1>6, <2>1, <2>2
<1>9. p * (2 * h + set) = x + (IF set = 1 THEN p ELSE 0)
  <2>1. CASE set = 0
    <3>1. 2 * h + set = 2 * h
      BY <2>1
    <3>2. QED BY <1>7, <2>1, <3>1
  <2>2. CASE set = 1
    BY <1>7, <2>2
  <2>3. QED BY <2>1, <2>2
<1>10. (set - old) * p = (IF set = 1 THEN p ELSE 0) - (IF old = 1 THEN p ELSE 0)
  <2>1. /\ (0 - 0) * p = 0 /\ (1 - 1) * p = 0
        /\ (1 - 0) * p = p /\ (0 - 1) * p = 0 - p
    BY <1>1
  <2>2. \/ set = 0 /\ old = 0
        \/ set = 0 /\ old = 1
        \/ set = 1 /\ old = 0
        \/ set = 1 /\ old = 1
    BY <1>6
  <2>3. QED BY <1>1, <2>1, <2>2
<1> HIDE DEF x
<1> DEFINE y == (set - old) * p
           m == p * (2 * h + set)
<1>11. new = byte + y
  OBVIOUS
<1> HIDE DEF y, m, new
<1>12. m \in Nat /\ new = m + r
  <2> DEFINE a == IF set = 1 THEN p ELSE 0
             c == IF old = 1 THEN p ELSE 0
             e == p * q
  <2>1. a \in Nat /\ c \in Nat
    BY <1>1
  <2>2. y = a - c
    BY <1>10 DEF y
  <2>3. m = x + a
    BY <1>9 DEF m
  <2>4. e = x + c /\ byte = e + r
    BY <1>3, <1>8
  <2> HIDE DEF a, c, e
  <2>5. QED BY <1>7, <1>11, <2>1, <2>2, <2>3, <2>4
<1>13. new \in Nat
  BY <1>12
<1>14. new \div p = 2 * h + set
  <2> DEFINE z == 2 * h + set
  <2>1. z \in Nat /\ r \in Nat /\ r < p
    BY <1>1
  <2>2. new = p * z + r
    BY <1>12 DEF m
  <2> HIDE DEF z
  <2>3. new \div p = z
    BY <1>1, <2>1, <2>2, QuotientIs
  <2>4. QED BY <2>3 DEF z
<1>15. (2 * h + set) % 2 = set
  <2>1. 2 * h + set \in Nat /\ set \in Nat /\ set < 2
    OBVIOUS
  <2>2. QED BY <2>1, QuotientIs
<1>16. Bit(new, b) = set
  BY <1>2, <1>14, <1>15
<1>17. QED BY <1>2, <1>13, <1>16 DEF new, p

LEMMA BytesAre ==
    ASSUME NEW n \in Nat, NEW x \in Nat
    PROVE  /\ IsList(BytesOf(x, n)) /\ Len(BytesOf(x, n)) = n
           /\ \A k \in 1..n : BytesOf(x, n)[k] \in Nat
<1> DEFINE bytes == BytesOf(x, n)
<1>1. bytes = [k \in 1..n |-> bytes[k]]
  BY DEF BytesOf
<1>2. ASSUME NEW k \in 1..n PROVE bytes[k] \in Nat
  <2> DEFINE w == Width(n - k)
             y == x \div w
  <2>1. bytes[k] = y % Radix
    BY DEF BytesOf
  <2>2. n - k \in Nat
    OBVIOUS
  <2>3. w \in Nat \ {0} /\ Radix \in Nat \ {0}
    BY <2>2, Widths
  <2> HIDE DEF w
  <2>4. y \in Nat
    BY <2>3, Quotient
  <2> HIDE DEF y, bytes
  <2>5. QED BY <2>1, <2>3, <2>4, Remainder
<1> HIDE DEF bytes
<1>3. Len(bytes) = n
  BY <1>1, ListOf
<1>4. QED BY <1>1, <1>2, <1>3 DEF IsList, bytes

LEMMA S7DataIs ==
    ASSUME NEW v, v.type \in DataTypes, v.rate \in Nat, NEW value \in Nat
    PROVE  LET n == IF v.type = "BOOL" THEN 2 ELSE S7Bytes(v.type)
               raw == IF Rated(v.rate) THEN value * v.rate ELSE value
           IN  /\ S7Data(v, value) = BytesOf(raw, n)
               /\ n \in Nat \ {0} /\ raw \in Nat
<1> DEFINE n == IF v.type = "BOOL" THEN 2 ELSE S7Bytes(v.type)
           raw == IF Rated(v.rate) THEN value * v.rate ELSE value
           number == BytesOf(raw, n)
<1>1. n \in Nat \ {0}
  BY DEF S7Bytes, DataTypes
<1>2. raw \in Nat
  <2>1. value * v.rate \in Nat
    OBVIOUS
  <2>2. QED BY <2>1
<1>3. S7Data(v, value) = ToBytes(BigEndian(n), number)
  BY DEF S7Data
<1> HIDE DEF n, raw
<1>4. number = [k \in 1..n |-> number[k]]
  BY DEF BytesOf
<1> HIDE DEF number
<1>5. \A i \in 1..n : (CHOOSE k \in 1..n : k = i) = i
  OBVIOUS
<1>6. DOMAIN BigEndian(n) = 1..n /\ \A k \in 1..n : BigEndian(n)[k] = k
  BY DEF BigEndian
<1>7. ToBytes(BigEndian(n), number) = [i \in 1..n |-> number[i]]
  <2>1. ToBytes(BigEndian(n), number) = [i \in 1..n |-> number[CHOOSE k \in 1..n : k = i]]
    BY DEF ToBytes, BigEndian
  <2>2. QED BY <1>5, <2>1
<1>8. QED BY <1>1, <1>2, <1>3, <1>4, <1>7 DEF n, raw, number

LEMMA S7WriteIs ==
    ASSUME NEW v, NEW t, NEW value
    PROVE  LET w == S7WriteOf(v, t, value)
           IN  /\ w.item.transport = t /\ w.item.zone = v.where.zone
               /\ w.item.length = DataRequestLength(v.type, v.where.zone)
               /\ w.item.block = BlockSize(v.where)
               /\ w.item.address = ParseVariableAddress(v.where)
               /\ w.item.bit = v.where.bit
               /\ w.data = S7Data(v, value)
<1> DEFINE data == S7Data(v, value)
           item == [ItemOf(v, v.where.zone) EXCEPT !.transport = t]
<1>1. item = [transport |-> t, zone |-> v.where.zone,
              length |-> DataRequestLength(v.type, v.where.zone),
              block |-> BlockSize(v.where), address |-> ParseVariableAddress(v.where),
              bit |-> v.where.bit]
  BY DEF ItemOf
<1>2. S7WriteOf(v, t, value) = [item |-> item, data |-> data, stated |-> StatedBytes]
  BY DEF S7WriteOf
<1> HIDE DEF item, data
<1>3. S7WriteOf(v, t, value).item = item /\ S7WriteOf(v, t, value).data = data
  BY <1>2
<1>4. QED BY <1>1, <1>3 DEF data

(* The bytes a write puts at its place. *)
S7New(m, w) ==
    LET byte == m[PlaceOf(w.item)][w.item.address + 1]
        set == IF ValueOf(w.data) = 0 THEN 0 ELSE 1
    IN  IF w.item.transport = 1
        THEN <<byte + (set - Bit(byte, w.item.bit)) * 2 ^ w.item.bit>>
        ELSE w.data

Natural(m) == \A a \in DOMAIN m : IsList(m[a]) /\ \A i \in 1..Len(m[a]) : m[a][i] \in Nat

LEMMA S7NewIs ==
    ASSUME NEW m, Natural(m), NEW v, v.type \in DataTypes, v.rate \in Nat,
           v.where.number \in Nat, v.where.bit \in Nat, NEW t, NEW value \in Nat,
           NEW w, w = S7WriteOf(v, t, value), NEW strict, S7Writable(m, w, strict)
    PROVE  LET new == S7New(m, w)
               at == w.item.address
           IN  /\ IsList(new) /\ Len(new) \in Nat \ {0} /\ \A i \in 1..Len(new) : new[i] \in Nat
               /\ PlaceOf(w.item) \in DOMAIN m
               /\ at \in Nat /\ at + Len(new) <= Len(m[PlaceOf(w.item)])
               /\ t = 1 => /\ Len(new) = 1
                           /\ Bit(new[1], w.item.bit) = IF ValueOf(w.data) = 0 THEN 0 ELSE 1
               /\ t # 1 => new = w.data
<1> DEFINE new == S7New(m, w)
           at == w.item.address
           bit == w.item.bit
           place == PlaceOf(w.item)
           area == m[place]
<1>1. /\ w.item.transport = t /\ bit = v.where.bit /\ at = ParseVariableAddress(v.where)
      /\ w.data = S7Data(v, value)
  BY S7WriteIs
<1>2. at \in Nat /\ bit \in Nat
  BY <1>1 DEF ParseVariableAddress
<1>3. /\ place \in DOMAIN m /\ at + ItemBytes(w.item) <= Len(area)
      /\ IF t = 1 THEN w.item.length = 1 /\ Len(w.data) = 2
                  ELSE ItemBytes(w.item) = Len(w.data)
  BY <1>1 DEF S7Writable, HasItem
<1>4. IsList(area) /\ \A i \in 1..Len(area) : area[i] \in Nat
  BY <1>3 DEF Natural
<1> HIDE DEF at, bit, place, area
<1>5. CASE t = 1
  <2> DEFINE byte == area[at + 1]
             set == IF ValueOf(w.data) = 0 THEN 0 ELSE 1
             c == byte + (set - Bit(byte, bit)) * 2 ^ bit
  <2>1. new = <<c>>
    BY <1>1, <1>5 DEF S7New, at, bit, place, area
  <2>2. ItemBytes(w.item) = 1
    BY <1>1, <1>3, <1>5 DEF ItemBytes
  <2>3. byte \in Nat
    <3>1. at + 1 <= Len(area)
      BY <1>3, <2>2
    <3>2. at + 1 \in 1..Len(area)
      BY <1>2, <1>4, <3>1 DEF IsList
    <3>3. QED BY <1>4, <3>2
  <2>4. set \in {0, 1}
    OBVIOUS
  <2> HIDE DEF byte, set
  <2>5. c \in Nat /\ Bit(c, bit) = set
    BY <1>2, <2>3, <2>4, BitSet
  <2> HIDE DEF c, new
  <2>6. IsList(new) /\ Len(new) = 1 /\ new[1] = c
    BY <2>1, OneCell
  <2>7. \A i \in 1..Len(new) : new[i] \in Nat
    BY <2>5, <2>6
  <2>8. at + Len(new) <= Len(area)
    BY <1>3, <2>2, <2>6
  <2>9. Len(new) \in Nat \ {0}
    BY <2>6
  <2>10. Bit(new[1], bit) = IF ValueOf(w.data) = 0 THEN 0 ELSE 1
    BY <2>5, <2>6 DEF set
  <2>11. QED BY <1>2, <1>3, <1>5, <2>6, <2>7, <2>8, <2>9, <2>10 DEF new, at, bit, place, area
<1>6. CASE t # 1
  <2> DEFINE n == IF v.type = "BOOL" THEN 2 ELSE S7Bytes(v.type)
             raw == IF Rated(v.rate) THEN value * v.rate ELSE value
  <2>1. new = w.data
    BY <1>1, <1>6 DEF S7New
  <2>2. w.data = BytesOf(raw, n) /\ n \in Nat \ {0} /\ raw \in Nat
    BY <1>1, S7DataIs
  <2> HIDE DEF n, raw, new
  <2>3. IsList(new) /\ Len(new) = n /\ \A k \in 1..n : new[k] \in Nat
    BY <2>1, <2>2, BytesAre
  <2>4. at + Len(new) <= Len(area)
    BY <1>3, <1>6, <2>1
  <2>5. QED BY <1>2, <1>3, <1>6, <2>1, <2>2, <2>3, <2>4 DEF new, at, bit, place, area
<1>7. QED BY <1>5, <1>6

(* Where it puts them; the rest stays. *)
LEMMA S7WrittenHas ==
    ASSUME NEW m, NEW w, PlaceOf(w.item) \in DOMAIN m, IsList(m[PlaceOf(w.item)]),
           IsList(S7New(m, w)), w.item.address \in Nat,
           w.item.address + Len(S7New(m, w)) <= Len(m[PlaceOf(w.item)])
    PROVE  LET new == S7New(m, w)
               at == w.item.address
               old == m[PlaceOf(w.item)]
               area == S7Written(m, w)[PlaceOf(w.item)]
           IN  /\ DOMAIN S7Written(m, w) = DOMAIN m
               /\ \A a \in DOMAIN m \ {PlaceOf(w.item)} : S7Written(m, w)[a] = m[a]
               /\ IsList(area) /\ Len(area) = Len(old)
               /\ \A i \in 1..Len(old) : area[i] = IF i - at \in 1..Len(new)
                                                   THEN new[i - at] ELSE old[i]
<1> DEFINE place == PlaceOf(w.item)
           at == w.item.address
           new == S7New(m, w)
           old == m[place]
           f == [i \in DOMAIN old |-> IF i - at \in DOMAIN new THEN new[i - at] ELSE old[i]]
           written == S7Written(m, w)
<1>1. written = [m EXCEPT ![place] = f]
  <2> DEFINE bit == w.item.bit
             byte == m[place][at + 1]
             set == IF ValueOf(w.data) = 0 THEN 0 ELSE 1
             bitByte == byte + (set - Bit(byte, bit)) * 2 ^ bit
             what == IF w.item.transport = 1 THEN <<bitByte>> ELSE w.data
  <2>1. new = what
    BY DEF S7New
  <2> HIDE DEF new
  <2>2. written = [m EXCEPT ![place] =
           [i \in DOMAIN m[place] |-> IF i - at \in DOMAIN what THEN what[i - at] ELSE m[place][i]]]
    <3> HIDE DEF byte, set
    <3>1. QED BY Zenon DEF S7Written, byte, set
  <2> HIDE DEF what, written, place, at
  <2>3. QED BY <2>1, <2>2
<1> HIDE DEF place, at, new, written
<1>2. /\ place \in DOMAIN m /\ IsList(old) /\ IsList(new) /\ at \in Nat
      /\ at + Len(new) <= Len(old)
  BY DEF place, at, new
<1>3. DOMAIN old = 1..Len(old) /\ Len(old) \in Nat /\ DOMAIN new = 1..Len(new)
  BY <1>2 DEF IsList
<1> HIDE DEF old
<1>4. f = [i \in 1..Len(old) |-> f[i]]
  BY <1>3
<1>5. \A i \in 1..Len(old) : f[i] = IF i - at \in 1..Len(new) THEN new[i - at] ELSE old[i]
  BY <1>3
<1> HIDE DEF f
<1>6. Len(f) = Len(old)
  BY <1>3, <1>4, ListOf
<1>7. /\ DOMAIN written = DOMAIN m /\ written[place] = f
      /\ \A a \in DOMAIN m \ {place} : written[a] = m[a]
  BY <1>1, <1>2
<1>8. IsList(f)
  BY <1>3, <1>4, <1>6 DEF IsList
<1>9. QED BY <1>5, <1>6, <1>7, <1>8 DEF place, at, new, old, written
LEMMA S7DoneIsTrue ==
    ASSUME S7, Natural(memory), NEW v, v.type \in DataTypes, v.rate \in Nat, ~Rated(v.rate),
           v.where.number \in Nat, v.where.bit \in Nat,
           ParseVariableAddress(v.where) = v.where.number,
           NEW value \in Nat, IF v.type = "BOOL" THEN value \in {0, 1} ELSE OfType(v, value),
           NEW t, v.type = "BOOL" <=> t = 1, NEW w, w = S7WriteOf(v, t, value),
           S7Writable(memory, w, setup.strict), memory' = S7Written(memory, w)
    PROVE  Truth(v) = value
<1> DEFINE number == v.where.number
           place == <<v.where.zone, BlockSize(v.where)>>
           new == S7New(memory, w)
           old == memory[place]
           area == S7Written(memory, w)[place]
           n == S7Bytes(v.type)
           size == IF v.type = "BOOL" THEN 2 ELSE n
           bytes == SubSeq(area, number + 1, number + n)
<1>1. /\ PlaceOf(w.item) = place /\ w.item.address = number /\ w.item.bit = v.where.bit
      /\ w.data = S7Data(v, value)
  BY S7WriteIs DEF PlaceOf
<1>2. w.data = BytesOf(value, size)
  BY <1>1, S7DataIs
<1>3. n \in Nat \ {0} /\ (v.type = "BOOL" => n = 1) /\ number \in Nat
  BY DEF S7Bytes, DataTypes
<1>4. Truth(v) = IF v.type = "BOOL" THEN Bit(bytes[1], v.where.bit)
                 ELSE TimesRate(v, ValueOf(bytes))
  BY DEF Truth, TruthOfS7
<1>5. /\ IsList(new) /\ Len(new) \in Nat
      /\ place \in DOMAIN memory /\ number + Len(new) <= Len(old)
      /\ t = 1 => /\ Len(new) = 1
                  /\ Bit(new[1], v.where.bit) = IF ValueOf(w.data) = 0 THEN 0 ELSE 1
      /\ t # 1 => new = w.data
  BY <1>1, S7NewIs
<1> HIDE DEF number, place, n, new
<1>6. IsList(old) /\ Len(old) \in Nat
  BY <1>5 DEF Natural, IsList
<1>7. /\ IsList(area) /\ Len(area) = Len(old)
      /\ \A i \in 1..Len(old) : area[i] = IF i - number \in 1..Len(new)
                                          THEN new[i - number] ELSE old[i]
  <2>1. /\ PlaceOf(w.item) \in DOMAIN memory /\ IsList(memory[PlaceOf(w.item)])
        /\ IsList(S7New(memory, w)) /\ w.item.address \in Nat
        /\ w.item.address + Len(S7New(memory, w)) <= Len(memory[PlaceOf(w.item)])
    BY <1>1, <1>3, <1>5, <1>6 DEF new
  <2> DEFINE a == S7Written(memory, w)[PlaceOf(w.item)]
             o == memory[PlaceOf(w.item)]
             s == S7New(memory, w)
  <2>2. /\ IsList(a) /\ Len(a) = Len(o)
        /\ \A i \in 1..Len(o) : a[i] = IF i - w.item.address \in 1..Len(s)
                                       THEN s[i - w.item.address] ELSE o[i]
    BY ONLY <2>1, S7WrittenHas
  <2>3. a = area /\ o = old /\ s = new
    BY <1>1 DEF new
  <2> HIDE DEF a, o, s, area, old
  <2>4. QED BY <1>1, <2>2, <2>3
<1>8. size \in Nat
  BY <1>3
<1>9. Len(new) = n
  <2>1. CASE t = 1
    BY <1>3, <1>5, <2>1
  <2>2. CASE t # 1
    <3>1. Len(BytesOf(value, size)) = size
      BY <1>8, BytesAre
    <3>2. QED BY <1>2, <1>5, <2>2, <3>1
  <2>3. QED BY <2>1, <2>2
<1> HIDE DEF area, size, old
<1>10. \A j \in 1..n : area[number + j] = new[j]
  <2> SUFFICES ASSUME NEW j \in 1..n PROVE area[number + j] = new[j]
    OBVIOUS
  <2>1. /\ number + j \in 1..Len(old) /\ (number + j) - number = j
        /\ j \in 1..Len(new)
    BY <1>3, <1>5, <1>6, <1>9
  <2>2. QED BY <1>7, <2>1
<1>11. /\ IsList(bytes) /\ Len(bytes) = n
       /\ \A j \in 1..n : bytes[j] = area[number + j]
  <2>1. number + n <= Len(area) /\ IsList(area) /\ n \in Nat /\ number \in Nat
    BY <1>3, <1>5, <1>7, <1>9
  <2>2. QED BY ONLY <2>1, Slice, SliceHas
<1> HIDE DEF bytes
<1>12. bytes = new
  <2>1. bytes = [j \in 1..n |-> bytes[j]] /\ new = [j \in 1..n |-> new[j]]
    BY <1>5, <1>9, <1>11 DEF IsList
  <2>2. \A j \in 1..n : bytes[j] = new[j]
    BY <1>10, <1>11
  <2> HIDE DEF bytes
  <2>3. QED BY <2>1, <2>2
<1>13. CASE v.type = "BOOL"
  <2> DEFINE x == Width(2)
  <2>1. value \in 0..(x - 1)
    <3>1. x = Width(1) * Radix /\ Width(1) \in Nat \ {0}
      BY 1 + 1 = 2, Widths
    <3>2. Radix \in Nat /\ Radix >= 2
      <4> DEFINE p == 2 ^ (BitsPerByte - 1)
      <4>1. BitsPerByte - 1 \in Nat /\ (BitsPerByte - 1) + 1 = BitsPerByte
        BY ModbusAssumption
      <4>2. p \in Nat \ {0}
        BY <4>1, PowerIsPositive
      <4>3. Radix = p + p
        BY <4>1, Doubles DEF Radix
      <4> HIDE DEF p
      <4>4. QED BY <4>2, <4>3
    <3>3. PICK c \in Nat : Width(1) = c + 1
      <4>1. Width(1) - 1 \in Nat /\ Width(1) = (Width(1) - 1) + 1
        BY <3>1
      <4>2. QED BY <4>1
    <3> DEFINE y == c * Radix
    <3>4. x = y + Radix /\ y \in Nat
      BY <3>1, <3>2, <3>3
    <3> HIDE DEF x, y
    <3>5. QED BY <1>13, <3>2, <3>4
  <2>2. ValueOf(w.data) = value
    <3>1. size = 2
      BY <1>13 DEF size
    <3>2. QED BY <1>2, <2>1, <3>1, BytesReadBack
  <2>3. Truth(v) = IF ValueOf(w.data) = 0 THEN 0 ELSE 1
    BY <1>4, <1>5, <1>12, <1>13
  <2>4. QED BY <1>13, <2>2, <2>3
<1>14. CASE v.type # "BOOL"
  <2>1. size = n /\ 2 * DataTypeWord(v.type) = n
    BY <1>14 DEF size, n, DataTypeWord, S7Bytes, DataTypes
  <2>2. value \in 0..(Width(n) - 1)
    BY <1>14, <2>1 DEF OfType
  <2>3. bytes = BytesOf(value, n)
    BY <1>2, <1>5, <1>12, <1>14, <2>1
  <2>4. ValueOf(bytes) = value
    BY <1>3, <2>2, <2>3, BytesReadBack
  <2>5. QED BY <1>4, <1>14, <2>4 DEF TimesRate
<1>15. QED BY <1>13, <1>14
-----------------------------------------------------------------------------
(* The messages of an S7 command are those of its items. *)

WritesFold(it, items) ==
    it = [T \in SUBSET DOMAIN items |->
            IF T = {} THEN [transport |-> 0, writes |-> << >>]
            ELSE LET acc == it[T \ {Max(T)}]
                     item == items[Max(T)]
                     t == TransportAfter(acc.transport, item.v)
                 IN  [transport |-> t,
                      writes |-> Append(acc.writes, S7WriteOf(item.v, t, item.value))]]

WritesRun(run, items) ==
    /\ run[0].writes = << >>
    /\ \A k \in 1..Len(items) :
          \E t : run[k].writes = Append(run[k - 1].writes,
                                        S7WriteOf(items[k].v, t, items[k].value))
    /\ \A k \in 0..Len(items) : IsList(run[k].writes)
    /\ S7Writes(items) = run[Len(items)].writes

LEMMA WritesRuns ==
    ASSUME NEW items, IsList(items), \A i \in 1..Len(items) : items[i].v.where.zone \in Zones
    PROVE  \E run : WritesRun(run, items)
<1> DEFINE n == Len(items)
           T4 == {0, 1, 2, 4}
           W == {S7WriteOf(items[i].v, t, items[i].value) : i \in 1..n, t \in T4}
           base == [transport |-> 0, writes |-> << >>]
           V == [transport : T4, writes : Seq(W)]
           New(i, t) == S7WriteOf(items[i].v, t, items[i].value)
           Then(i, acc) == TransportAfter(acc.transport, items[i].v)
           Next1(i, acc) == [transport |-> Then(i, acc),
                             writes |-> Append(acc.writes, New(i, Then(i, acc)))]
           step == [i \in 1..n |-> [u \in V |-> Next1(i, u)]]
<1>1. n \in Nat /\ DOMAIN items = 1..n /\ \A i \in 1..n : items[i].v.where.zone \in Zones
  BY DEF IsList
<1>2. \A i \in 1..n, t \in T4 : New(i, t) \in W
  OBVIOUS
<1>3. \A i \in 1..n : \A u \in V : Then(i, u) \in T4
  BY DEF TransportAfter, StoreAreaTransportSize
<1> HIDE DEF n, W, New, Then
<1>4. base \in V
  OBVIOUS
<1>5. ASSUME NEW i \in 1..n, NEW u \in V PROVE Next1(i, u) \in V
  <2> DEFINE t == Then(i, u)
             w == New(i, t)
  <2>1. t \in T4
    BY <1>3
  <2>2. w \in W
    BY <1>2, <2>1
  <2>3. u.writes \in Seq(W)
    OBVIOUS
  <2>4. Next1(i, u) = [transport |-> t, writes |-> Append(u.writes, w)]
    OBVIOUS
  <2> HIDE DEF t, w, T4
  <2>5. Append(u.writes, w) \in Seq(W)
    BY <2>2, <2>3
  <2>6. QED BY <2>1, <2>4, <2>5
<1> HIDE DEF V, Next1, T4
<1>6. \A T \in SUBSET (1..n) : T # {} => Max(T) \in T
  BY <1>1, HighestIn
<1>7. \E it : WritesFold(it, items)
  <2>1. \A i \in 1..n, u \in V : step[i][u] = Next1(i, u) /\ step[i][u] \in V
    BY <1>5
  <2> HIDE DEF step
  <2>2. PICK it \in [SUBSET (1..n) -> V] : Iterates(it, n, base, step)
    <3> HIDE DEF base
    <3>1. QED BY <1>1, <1>4, <2>1, IterationExists
  <2>3. \A T \in SUBSET (1..n) :
          it[T] = IF T = {} THEN base ELSE step[Max(T)][it[T \ {Max(T)}]]
    BY <2>2 DEF Iterates
  <2> HIDE DEF base
  <2>4. \A T \in SUBSET (1..n) :
          it[T] = IF T = {} THEN base ELSE Next1(Max(T), it[T \ {Max(T)}])
    <3> SUFFICES ASSUME NEW T \in SUBSET (1..n), T # {}
                 PROVE  it[T] = Next1(Max(T), it[T \ {Max(T)}])
      BY <2>3
    <3>1. Max(T) \in 1..n /\ T \ {Max(T)} \in SUBSET (1..n)
      BY <1>6
    <3>2. it[T \ {Max(T)}] \in V
      BY <2>2, <3>1
    <3>3. it[T] = step[Max(T)][it[T \ {Max(T)}]]
      BY <2>3
    <3>4. QED BY <2>1, <3>1, <3>2, <3>3
  <2>5. it = [T \in SUBSET (1..n) |->
                IF T = {} THEN base ELSE Next1(Max(T), it[T \ {Max(T)}])]
    BY <2>2, <2>4
  <2>6. QED BY <1>1, <2>5 DEF WritesFold, Next1, New, Then, base
<1> DEFINE it == CHOOSE it : WritesFold(it, items)
           end == it[DOMAIN items]
<1>8. WritesFold(it, items)
  BY <1>7
<1>9. S7Writes(items) = end.writes
  BY DEF S7Writes, FoldLeft, MapThenFoldSet, WritesFold
<1> HIDE DEF it, base
<1>10. \A T \in SUBSET (1..n) :
        it[T] = IF T = {} THEN base ELSE Next1(Max(T), it[T \ {Max(T)}])
  BY <1>1, <1>8 DEF WritesFold, Next1, New, Then, base
<1> DEFINE run == [k \in 0..n |-> it[1..k]]
<1>11. /\ run[0] = base
       /\ \A k \in 1..n : run[k] = Next1(k, run[k - 1])
       /\ run[n] = end
  <2>1. 1..0 = {} /\ 0 \in 0..n /\ n \in 0..n
    BY <1>1
  <2>2. ASSUME NEW k \in 1..n PROVE run[k] = Next1(k, run[k - 1])
    <3>1. /\ 1..k \in SUBSET (1..n) /\ 1..k # {} /\ (1..k) \ {k} = 1..(k - 1)
          /\ k \in 0..n /\ k - 1 \in 0..n /\ Max(1..k) = k
      BY <1>1, Beginning
    <3>2. it[1..k] = Next1(Max(1..k), it[(1..k) \ {Max(1..k)}])
      BY <1>10, <3>1
    <3>3. QED BY <3>1, <3>2
  <2>3. run[0] = base
    BY <1>10, <2>1
  <2>4. run[n] = end
    BY <1>1, <2>1
  <2>5. QED BY <2>2, <2>3, <2>4
<1> HIDE DEF run, end
<1>12. \A k \in 0..n : IsList(run[k].writes)
  <2> DEFINE K == {k \in 0..n : run[k] \in V}
  <2>1. 0 \in K
    BY <1>1, <1>4, <1>11
  <2>2. \A k \in 1..n : k - 1 \in K => k \in K
    BY <1>1, <1>5, <1>11
  <2> HIDE DEF K
  <2>3. \A k \in 0..n : k \in K
    BY <1>1, <2>1, <2>2, Counting
  <2>4. \A u \in V : IsList(u.writes)
    <3>1. \A s \in Seq(W) : IsList(s)
      BY DEF IsList
    <3>2. QED BY <3>1 DEF V
  <2>5. QED BY <2>3, <2>4 DEF K
<1>13. ASSUME NEW k \in 1..n
       PROVE  \E t : run[k].writes = Append(run[k - 1].writes,
                                            S7WriteOf(items[k].v, t, items[k].value))
  <2>1. run[k] = Next1(k, run[k - 1])
    BY <1>11
  <2>2. run[k].writes = Append(run[k - 1].writes, New(k, Then(k, run[k - 1])))
    BY <2>1 DEF Next1
  <2>3. QED BY <2>2 DEF New
<1>14. WritesRun(run, items)
  BY <1>9, <1>11, <1>12, <1>13 DEF WritesRun, base, n
<1>15. QED BY <1>14

LEMMA S7WritesAre ==
    ASSUME NEW items, IsList(items), \A i \in 1..Len(items) : items[i].v.where.zone \in Zones
    PROVE  /\ IsList(S7Writes(items)) /\ Len(S7Writes(items)) = Len(items)
           /\ \A j \in 1..Len(items) :
                 \E t : S7Writes(items)[j] = S7WriteOf(items[j].v, t, items[j].value)
<1> DEFINE n == Len(items)
           Is(w, j) == \E t : w = S7WriteOf(items[j].v, t, items[j].value)
<1>1. PICK run : WritesRun(run, items)
  BY WritesRuns
<1> DEFINE K == {k \in 0..n : /\ Len(run[k].writes) = k
                              /\ \A j \in 1..k : Is(run[k].writes[j], j)}
<1>2. n \in Nat
  BY DEF IsList
<1> HIDE DEF n, Is
<1>3. /\ run[0].writes = << >> /\ \A k \in 0..n : IsList(run[k].writes)
      /\ S7Writes(items) = run[n].writes
  BY <1>1 DEF WritesRun, n
<1>4. 0 \in K
  <2>1. Len(<< >>) = 0 /\ 0 \in 0..n
    BY <1>2
  <2>2. QED BY <1>3, <2>1
<1>5. ASSUME NEW k \in 1..n, k - 1 \in K PROVE k \in K
  <2> DEFINE old == run[k - 1].writes
             new == run[k].writes
  <2>1. PICK t : new = Append(old, S7WriteOf(items[k].v, t, items[k].value))
    BY <1>1 DEF WritesRun, n
  <2> DEFINE w == S7WriteOf(items[k].v, t, items[k].value)
  <2>2. new = Append(old, w)
    BY <2>1
  <2>3. Is(w, k)
    BY DEF Is
  <2>4. k - 1 \in 0..n /\ k \in 0..n /\ k \in Nat /\ k - 1 \in Nat
    BY <1>2
  <2>5. IsList(old) /\ Len(old) = k - 1 /\ \A j \in 1..(k - 1) : Is(old[j], j)
    BY <1>3, <1>5, <2>4
  <2> HIDE DEF w, old, new
  <2> DEFINE E == {old[j] : j \in 1..Len(old)} \cup {w}
  <2>6. old \in Seq(E)
    <3> DEFINE D == {old[j] : j \in 1..Len(old)}
    <3>1. old \in Seq(D)
      BY <2>5, ListOf DEF IsList
    <3>2. D \subseteq E
      OBVIOUS
    <3> HIDE DEF D, E
    <3>3. QED BY <3>1, <3>2, InAList
  <2>7. w \in E
    OBVIOUS
  <2> HIDE DEF E
  <2>8. Len(new) = k /\ \A j \in 1..k : new[j] = IF j = k THEN w ELSE old[j]
    BY <2>2, <2>4, <2>5, <2>6, <2>7
  <2>9. \A j \in 1..k : Is(new[j], j)
    <3> SUFFICES ASSUME NEW j \in 1..k PROVE Is(new[j], j)
      OBVIOUS
    <3>1. CASE j = k
      BY <2>3, <2>8, <3>1
    <3>2. CASE j # k
      <4>1. j \in 1..(k - 1)
        BY <2>4, <3>2
      <4>2. QED BY <2>5, <2>8, <3>2, <4>1
    <3>3. QED BY <3>1, <3>2
  <2>10. QED BY <2>4, <2>8, <2>9 DEF new
<1> HIDE DEF K
<1>6. n \in K
  <2>1. \A k \in 1..n : k - 1 \in K => k \in K
    BY <1>5
  <2>2. \A k \in 0..n : k \in K
    BY ONLY <1>2, <1>4, <2>1, Counting
  <2>3. QED BY <1>2, <2>2
<1>7. Len(run[n].writes) = n /\ \A j \in 1..n : Is(run[n].writes[j], j)
  BY <1>6 DEF K
<1>8. IsList(run[n].writes)
  BY <1>2, <1>3
<1>9. QED BY <1>3, <1>7, <1>8 DEF Is, n

-----------------------------------------------------------------------------
(* What the messages of a command say, and of which items. *)

Tells(w, item) ==
    /\ item.v \in Requestable /\ item.value \in Nat
    /\ IF S7 THEN \E t : w = S7WriteOf(item.v, t, item.value)
             ELSE w = WriteOf(item.v, setup.layout, item.value)

Delivered ==
    /\ {"items", "writes", "at", "errs"} \subseteq DOMAIN command
    /\ command.errs \in Nat
    /\ IsList(command.writes)
    /\ \A k \in 1..Len(command.writes) : Tells(command.writes[k], command.items[k])
    /\ turn = Command => command.at <= Len(command.writes)

DoneInv == Fitting => Delivered /\ (S7 => Natural(memory))

LEMMA PlantIsNatural ==
    ASSUME setup \in Setups
    PROVE  Natural(setup.memory) /\ Natural(setup.later)
<1>1. Plant(setup.proto, setup.memory) /\ Plant(setup.proto, setup.later)
  BY ExchangeAssumption DEF Device
<1>2. ASSUME NEW m, Plant(setup.proto, m) PROVE Natural(m)
  <2> SUFFICES ASSUME NEW a \in DOMAIN m
               PROVE  IsList(m[a]) /\ \A i \in 1..Len(m[a]) : m[a][i] \in Nat
    BY DEF Natural
  <2>1. m[a] \in Seq(Nat)
    BY <1>2 DEF Plant
  <2>2. QED BY <2>1 DEF IsList
<1>3. QED BY <1>1, <1>2

LEMMA DoneInit == Init => DoneInv
<1> SUFFICES ASSUME Init PROVE DoneInv
  OBVIOUS
<1>1. setup \in Setups /\ memory = setup.memory /\ command = NoCommand /\ turn = Nobody
  BY DEF Init
<1>2. Natural(memory)
  BY <1>1, PlantIsNatural
<1>3. /\ command.errs = 0 /\ command.writes = << >>
      /\ {"items", "writes", "at", "errs"} \subseteq DOMAIN command
  BY <1>1 DEF NoCommand
<1>4. IsList(<< >>) /\ 1..Len(<< >>) = {}
  BY DEF IsList
<1>5. turn # Command
  BY <1>1 DEF Nobody, Command
<1>6. QED BY <1>2, <1>3, <1>4, <1>5 DEF DoneInv, Delivered

LEMMA CommandDelivered ==
    ASSUME CleanInv, BeginCommand
    PROVE  Delivered'
<1>1. /\ setup \in Setups /\ setup' = setup /\ (S7' <=> S7)
      /\ Rooted(table, Requestable) /\ Requestable' = Requestable
  BY DEF CleanInv, Tabled, BeginCommand, Begin, S7, Requestable
<1> DEFINE MessagesOf(items) ==
             [k \in DOMAIN items |-> WriteOf(items[k].v, setup.layout, items[k].value)]
<1>2. PICK request \in setup.commands :
          /\ Deliverable(request)
          /\ command' = [items |-> ItemsOf(request), at |-> 1, errs |-> 0,
                         writes |-> IF S7 THEN S7Writes(ItemsOf(request))
                                    ELSE MessagesOf(ItemsOf(request))]
  BY DEF BeginCommand
<1> DEFINE items == ItemsOf(request)
           writes == IF S7 THEN S7Writes(items) ELSE MessagesOf(items)
           n == Len(request)
<1>3. /\ {"items", "writes", "at", "errs"} \subseteq DOMAIN command'
      /\ command'.at = 1 /\ command'.errs = 0
      /\ command'.writes = writes /\ command'.items = items
  BY <1>2
<1>4. n \in Nat \ {0} /\ DOMAIN request = 1..n /\ \A k \in 1..n : request[k].value \in Nat
  <2>1. /\ request \in Seq(ToSet(request)) \ {<< >>}
        /\ \A item \in ToSet(request) : item.value \in Nat
    BY <1>1, ExchangeAssumption DEF Device
  <2>2. n \in Nat \ {0} /\ DOMAIN request = 1..n
    BY <2>1
  <2>3. \A k \in DOMAIN request : request[k] \in ToSet(request)
    BY DEF ToSet
  <2>4. QED BY <2>1, <2>2, <2>3
<1> HIDE DEF n
<1>5. /\ IsList(items) /\ Len(items) = n /\ DOMAIN items = 1..n
      /\ \A k \in 1..n : items[k].v \in Requestable /\ items[k].value \in Nat
  <2>1. items = [k \in 1..n |-> items[k]]
    BY <1>4 DEF ItemsOf
  <2>2. \A k \in 1..n : items[k].v \in Requestable
    BY <1>1, <1>2, <1>4, ItemsAreRequestable
  <2>3. \A k \in 1..n : items[k].value = request[k].value
    BY <1>4 DEF ItemsOf
  <2> HIDE DEF items
  <2>4. IsList(items) /\ Len(items) = n
    BY <1>4, <2>1, ListOf DEF IsList
  <2>5. DOMAIN items = 1..n
    BY <2>1
  <2>6. QED BY <1>4, <2>2, <2>3, <2>4, <2>5
<1> HIDE DEF items
<1>6. /\ IsList(writes) /\ Len(writes) = n
      /\ \A k \in 1..n : Tells(writes[k], items[k])
  <2>1. CASE S7
    <3>1. \A k \in 1..Len(items) : items[k].v.where.zone \in Zones
      BY <1>1, <1>5, <2>1, TypedRequests DEF Placed
    <3>2. /\ IsList(S7Writes(items)) /\ Len(S7Writes(items)) = Len(items)
          /\ \A k \in 1..Len(items) :
                \E t : S7Writes(items)[k] = S7WriteOf(items[k].v, t, items[k].value)
      BY <1>5, <3>1, S7WritesAre
    <3>3. writes = S7Writes(items)
      BY <2>1
    <3> HIDE DEF writes
    <3>4. QED BY <1>5, <2>1, <3>2, <3>3 DEF Tells
  <2>2. CASE ~S7
    <3>1. writes = [k \in 1..n |-> WriteOf(items[k].v, setup.layout, items[k].value)]
      BY <1>5, <2>2
    <3>2. writes = [k \in 1..n |-> writes[k]]
      BY <3>1
    <3> HIDE DEF writes
    <3>3. IsList(writes) /\ Len(writes) = n
      BY <1>4, <3>2, ListOf DEF IsList
    <3>4. QED BY <1>5, <2>2, <3>1, <3>3 DEF Tells
  <2>3. QED BY <2>1, <2>2
<1> HIDE DEF writes
<1>7. \A w, item : Tells(w, item)' <=> Tells(w, item)
  BY <1>1 DEF Tells
<1>8. /\ command'.errs \in Nat /\ IsList(command'.writes)
      /\ \A k \in 1..Len(command'.writes) : Tells(command'.writes[k], command'.items[k])
  BY <1>3, <1>4, <1>6
<1>9. command'.at <= Len(command'.writes)
  BY <1>3, <1>4, <1>6
<1>10. QED BY <1>3, <1>7, <1>8, <1>9 DEF Delivered

LEMMA DeliveryGoesOn ==
    ASSUME Delivered, Commanded, setup' = setup, NEW errs \in {0, 1}, ThenNext(errs)
    PROVE  Delivered'
<1>1. /\ {"items", "writes", "at", "errs"} \subseteq DOMAIN command
      /\ command.at \in Nat \ {0} /\ command.errs \in Nat /\ IsList(command.writes)
      /\ command' = [command EXCEPT !.at = @ + 1, !.errs = @ + errs]
      /\ turn' = IF CommandEnded' THEN Nobody ELSE Command
  BY DEF Delivered, Commanded, ThenNext
<1>2. /\ {"items", "writes", "at", "errs"} \subseteq DOMAIN command'
      /\ command'.at = command.at + 1 /\ command'.writes = command.writes
      /\ command'.errs = command.errs + errs /\ command'.items = command.items
  BY <1>1
<1>3. ASSUME turn' = Command PROVE command'.at <= Len(command'.writes)
  <2>1. ~(command'.at > Len(command'.writes))
    BY <1>1, <1>3 DEF CommandEnded, Nobody, Command
  <2>2. command'.at \in Nat /\ Len(command'.writes) \in Nat
    BY <1>1, <1>2 DEF IsList
  <2>3. QED BY <2>1, <2>2
<1>4. \A w, item : Tells(w, item)' <=> Tells(w, item)
  BY DEF Tells, S7, Requestable
<1>5. command'.errs \in Nat
  BY <1>1, <1>2
<1>6. QED BY <1>1, <1>2, <1>3, <1>4, <1>5 DEF Delivered

LEMMA DeliveredStep == CleanInv /\ Fitting /\ Delivered /\ [Next]_vars => Delivered'
<1> SUFFICES ASSUME CleanInv, Fitting, Delivered, [Next]_vars PROVE Delivered'
  OBVIOUS
<1>1. setup' = setup /\ Commanded /\ Planned /\ \A w, item : Tells(w, item)' <=> Tells(w, item)
  <2>1. setup' = setup
    BY TabledStep
  <2>2. QED BY <2>1 DEF CleanInv, Tells, S7, Requestable
<1>2. ASSUME UNCHANGED command, turn' = Command => turn = Command
      PROVE  Delivered'
  BY <1>1, <1>2 DEF Delivered
<1>3. CASE UNCHANGED <<command, turn>>
  BY <1>2, <1>3
<1>4. ASSUME NEW i \in DOMAIN frames, TakeTurn(i) PROVE Delivered'
  <2>1. i \in Nat
    BY <1>1 DEF Planned
  <2>2. turn' # Command
    BY <1>4, <2>1 DEF TakeTurn, Command
  <2>3. QED BY <1>2, <1>4, <2>2 DEF TakeTurn
<1>5. ASSUME turn' = turn \/ turn' = Nobody, UNCHANGED command PROVE Delivered'
  BY <1>2, <1>5 DEF Nobody, Command
<1>6. \A i, r : Reported(i, r) => turn' = Nobody
  BY DEF Reported
<1>7. \A i : TriedInVain(i) => turn' = turn \/ turn' = Nobody
  BY <1>6 DEF TriedInVain
<1>8. ASSUME NEW i \in DOMAIN frames, Answered(i) PROVE Delivered'
  <2>1. PICK r : Understood(i, r.cells, ~dirty')
    BY <1>8 DEF Answered
  <2>2. turn' = turn \/ turn' = Nobody
    BY <1>6, <1>7, <2>1 DEF Understood
  <2>3. QED BY <1>5, <1>8, <2>2 DEF Answered
<1>9. ASSUME NEW i \in DOMAIN frames, Unanswered(i) \/ Overrun(i) PROVE Delivered'
  BY <1>5, <1>6, <1>7, <1>9 DEF Unanswered, Overrun
<1>10. CASE BeginCommand
  BY <1>10, CommandDelivered
<1>11. CASE CommandAnswered \/ CommandLate \/ CommandUnread \/ CommandBroken
  <2>1. \E errs \in {0, 1} : ThenNext(errs)
    <3>1. CASE CommandAnswered
      <4>1. PICK r : ThenNext(IF Accepts(r.cells) THEN 0 ELSE 1)
        BY <3>1 DEF CommandAnswered
      <4>2. QED BY <4>1
    <3>2. CASE CommandLate \/ CommandUnread \/ CommandBroken
      BY <3>2 DEF CommandLate, CommandUnread, CommandBroken
    <3>3. QED BY <1>11, <3>1, <3>2
  <2>2. QED BY <1>1, <2>1, DeliveryGoesOn
<1>12. CASE CommandOverrun
  <2>1. /\ turn' = Nobody
        /\ command' = [command EXCEPT !.at = Len(command.writes) + 1, !.errs = @ + 1]
    BY <1>12 DEF CommandOverrun
  <2>2. /\ {"items", "writes", "at", "errs"} \subseteq DOMAIN command
        /\ command.errs \in Nat
    BY DEF Delivered
  <2>3. /\ {"items", "writes", "at", "errs"} \subseteq DOMAIN command'
        /\ command'.errs \in Nat /\ command'.items = command.items
        /\ command'.writes = command.writes
    BY <2>1, <2>2
  <2>4. turn' # Command
    BY <2>1 DEF Nobody, Command
  <2>5. QED BY <1>1, <2>3, <2>4 DEF Delivered
<1>13. CASE StartPoll \/ UpdateDevice \/ Recollect \/ Drift \/ CommandPanics
            \/ UNCHANGED vars
  BY <1>3, <1>13 DEF StartPoll, UpdateDevice, Recollect, Drift, CommandPanics, Begin, vars
<1>14. QED BY <1>4, <1>8, <1>9, <1>10, <1>11, <1>12, <1>13 DEF Next

(* The variable and the value of the message whose turn it is. *)
LEMMA ThisTells ==
    ASSUME CleanInv, Delivered, turn = Command
    PROVE  /\ command.at \in 1..Len(command.writes) /\ command.at \in DOMAIN command.writes
           /\ Tells(ThisWrite, command.items[command.at])
<1>1. /\ command.at \in Nat \ {0} /\ command.at <= Len(command.writes)
      /\ Len(command.writes) \in Nat /\ DOMAIN command.writes = 1..Len(command.writes)
  BY DEF CleanInv, Commanded, Delivered, IsList
<1>2. command.at \in 1..Len(command.writes)
  BY <1>1
<1>3. QED BY <1>1, <1>2 DEF Delivered, ThisWrite

LEMMA NaturalStep ==
    ASSUME CleanInv, Delivered, S7, Natural(memory), [Next]_vars
    PROVE  Natural(memory)'
<1>1. setup \in Setups
  BY DEF CleanInv
<1>2. ASSUME NEW m, Natural(m), memory' = m PROVE Natural(memory)'
  BY <1>2 DEF Natural
<1>3. CASE memory' = memory
  BY <1>2, <1>3
<1>4. ASSUME memory' = Done(memory), turn = Command PROVE Natural(memory)'
  <2>1. CASE ~S7Writable(memory, ThisWrite, setup.strict)
    BY <1>3, <1>4, <2>1 DEF Done
  <2>2. CASE S7Writable(memory, ThisWrite, setup.strict)
    <3> DEFINE w == ThisWrite
               item == command.items[command.at]
               place == PlaceOf(w.item)
               new == S7New(memory, w)
               at == w.item.address
               m == S7Written(memory, w)
    <3>1. memory' = m
      BY <1>4, <2>2 DEF Done
    <3>2. item.v \in Requestable /\ item.value \in Nat
          /\ \E t : w = S7WriteOf(item.v, t, item.value)
      BY <1>4, ThisTells DEF Tells
    <3>3. item.v.type \in DataTypes /\ item.v.rate \in Nat
          /\ item.v.where.number \in Nat /\ item.v.where.bit \in Nat
      BY <1>1, <3>2, ExchangeAssumption DEF Device, Requestable, S7
    <3> HIDE DEF w, item
    <3>4. /\ IsList(new) /\ Len(new) \in Nat \ {0} /\ \A i \in 1..Len(new) : new[i] \in Nat
          /\ place \in DOMAIN memory /\ at \in Nat /\ at + Len(new) <= Len(memory[place])
      BY <2>2, <3>2, <3>3, S7NewIs DEF w
    <3>5. IsList(memory[place]) /\ \A i \in 1..Len(memory[place]) : memory[place][i] \in Nat
      BY <3>4 DEF Natural
    <3>6. /\ DOMAIN m = DOMAIN memory
          /\ \A a \in DOMAIN memory \ {place} : m[a] = memory[a]
          /\ IsList(m[place]) /\ Len(m[place]) = Len(memory[place])
          /\ \A i \in 1..Len(memory[place]) :
                m[place][i] = IF i - at \in 1..Len(new) THEN new[i - at] ELSE memory[place][i]
      BY <3>4, <3>5, S7WrittenHas
    <3> HIDE DEF m, place, new, at
    <3>7. ASSUME NEW a \in DOMAIN m
          PROVE  IsList(m[a]) /\ \A i \in 1..Len(m[a]) : m[a][i] \in Nat
      <4>1. CASE a = place
        BY <3>4, <3>5, <3>6, <4>1
      <4>2. CASE a # place
        BY <3>6, <3>7, <4>2 DEF Natural
      <4>3. QED BY <4>1, <4>2
    <3>8. Natural(m)
      BY <3>7 DEF Natural
    <3>9. QED BY <1>2, <3>1, <3>8
  <2>3. QED BY <2>1, <2>2
<1>5. CASE Drift
  BY <1>1, <1>2, <1>5, PlantIsNatural DEF Drift
<1>6. CASE StartPoll \/ UpdateDevice \/ Recollect \/ UNCHANGED vars
  BY <1>3, <1>6 DEF StartPoll, UpdateDevice, Recollect, vars
<1>7. ASSUME NEW i \in DOMAIN frames,
             TakeTurn(i) \/ Answered(i) \/ Unanswered(i) \/ Overrun(i)
      PROVE  Natural(memory)'
  BY <1>3, <1>7 DEF TakeTurn, Answered, Unanswered, Overrun
<1>8. CASE BeginCommand \/ CommandPanics \/ CommandBroken
  BY <1>3, <1>8 DEF BeginCommand, CommandPanics, Begin, CommandBroken
<1>9. CASE CommandAnswered \/ CommandLate \/ CommandUnread \/ CommandOverrun
  BY <1>4, <1>9 DEF CommandAnswered, CommandLate, CommandUnread, CommandOverrun
<1>10. QED BY <1>5, <1>6, <1>7, <1>8, <1>9 DEF Next

LEMMA DoneStep == CleanInv /\ DoneInv /\ [Next]_vars => DoneInv'
<1> SUFFICES ASSUME CleanInv, DoneInv, [Next]_vars, Fitting'
             PROVE  Delivered' /\ (S7' => Natural(memory)')
  BY DEF DoneInv
<1>1. setup' = setup
  BY TabledStep
<1>2. Fitting /\ (S7' <=> S7)
  BY <1>1 DEF Fitting, S7, Roomy, HeadBytes
<1>3. Delivered /\ (S7 => Natural(memory))
  BY <1>2 DEF DoneInv
<1>4. Delivered'
  BY <1>2, <1>3, DeliveredStep
<1>5. S7 => Natural(memory)'
  BY <1>3, NaturalStep
<1>6. QED BY <1>2, <1>4, <1>5

(* A write whose answer was alone on the connection and no exception is one
   the device has done. *)
CarriedOut == IF S7 THEN S7Writable(memory, ThisWrite, setup.strict)
                    ELSE Writable(memory, ThisWrite)

LEMMA AcceptedIsCarriedOut ==
    ASSUME CleanInv, Fitting, turn = Command, ~dirty,
           NEW r \in Reads(CommandArrived, CommandRoom), ~r.short, Accepts(r.cells)
    PROVE  CarriedOut
<1> DEFINE m == IF S7 THEN S7WriteAnswer(memory, ThisWrite, setup.strict)
                ELSE WriteAnswer(setup.proto, memory, command.at - 1, ThisWrite)
<1>1. setup \in Setups /\ (~dirty => stream = << >>)
  BY DEF CleanInv, Clean
<1>2. CommandArrived = stream \o m
  BY DEF CommandArrived
<1>3. Cells(m) /\ CommandRoom \in Nat /\ Bytes(m) <= CommandRoom
  BY WriteFits
<1> HIDE DEF m
<1>4. r \in Reads(stream \o m, CommandRoom)
  BY <1>2
<1>5. r.cells = m
  BY <1>1, <1>3, <1>4, ReadWhole
<1>6. CASE S7
  <2> DEFINE code == IF S7Writable(memory, ThisWrite, setup.strict) THEN 255 ELSE 10
             data == <<code>>
             b == [i \in DOMAIN data |-> Cell("byte", data[i])]
             head == Cell("head", [length |-> 1, error |-> FALSE])
  <2>1. m = <<head>> \o b
    BY <1>6 DEF m, S7WriteAnswer, S7Message
  <2> HIDE DEF code, head
  <2>2. b = <<Cell("byte", code)>>
    <3>1. b = [i \in 1..1 |-> Cell("byte", data[i])]
      OBVIOUS
    <3>2. QED BY <3>1
  <2> HIDE DEF b
  <2>3. m[2] = Cell("byte", code)
    <3> DEFINE c == Cell("byte", code)
    <3> HIDE DEF c
    <3>1. b = <<c>>
      BY <2>2 DEF c
    <3>2. (<<head>> \o <<c>>)[2] = c
      OBVIOUS
    <3>3. QED BY <2>1, <3>1, <3>2 DEF c
  <2>4. Cell("byte", code) = Cell("byte", 255)
    BY <1>5, <1>6, <2>3 DEF Accepts
  <2>5. code = 255
    BY <2>4 DEF Cell
  <2>6. QED BY <1>6, <2>5 DEF CarriedOut, code
<1>7. CASE ~S7
  <2> SUFFICES ASSUME ~Writable(memory, ThisWrite) PROVE FALSE
    BY <1>7 DEF CarriedOut
  <2> DEFINE head == MessageHead(command.at - 1, ThisWrite.code + 128, 0)
  <2>1. m = Message(setup.proto, head, << >>)
    BY <1>7 DEF m, WriteAnswer
  <2>2. head.code = ThisWrite.code + 128
    BY DEF MessageHead
  <2> HIDE DEF head
  <2>3. m[1].content = head
    <3>1. IsList(<< >>)
      BY DEF IsList
    <3>2. QED BY <2>1, <3>1, MessageHas
  <2>4. m[1].content.code < 128
    BY <1>5, <1>7 DEF Accepts
  <2>5. ThisWrite.code \in Nat
    <3>1. ProperWrite(ThisWrite)
      BY <1>7 DEF CleanInv, Commanded, ThisWrite
    <3>2. QED BY <3>1 DEF ProperWrite
  <2>6. QED BY <2>2, <2>3, <2>4, <2>5
<1>8. QED BY <1>6, <1>7

LEMMA CarriedOutIsTrue ==
    ASSUME CleanInv, Delivered, S7 => Natural(memory), turn = Command,
           Writes(command.items[command.at]), CarriedOut, memory' = Done(memory)
    PROVE  Truth(command.items[command.at].v) = command.items[command.at].value
<1> DEFINE item == command.items[command.at]
           v == item.v
           value == item.value
           w == ThisWrite
<1>1. setup \in Setups /\ Memory(memory)
  BY DEF CleanInv
<1>2. /\ v \in Requestable /\ value \in Nat
      /\ S7 => \E t : w = S7WriteOf(v, t, value)
      /\ ~S7 => w = WriteOf(v, setup.layout, value)
      /\ command.at \in DOMAIN command.writes
  BY ThisTells DEF Tells
<1>3. /\ v.type \in DataTypes /\ v.rate \in Nat
      /\ S7 => {v.where.number, v.where.bit} \subseteq Nat
      /\ ~S7 => v.address \in Nat /\ v.code \in Codes
  BY <1>1, <1>2, ExchangeAssumption DEF Device, Requestable, S7, Codes
<1>4. CASE S7
  <2>1. PICK t : w = S7WriteOf(v, t, value)
    BY <1>2, <1>4
  <2>2. /\ RegularS7(<<v>>) /\ ~Rated(v.rate)
        /\ IF v.type = "BOOL" THEN value \in {0, 1} ELSE OfType(v, value)
        /\ \A k \in DOMAIN command.writes :
              command.items[k].v.type = "BOOL" <=> command.writes[k].item.transport = 1
    BY <1>4 DEF Writes
  <2>3. v.type = "BOOL" <=> t = 1
    <3>1. v.type = "BOOL" <=> w.item.transport = 1
      BY <1>2, <2>2 DEF ThisWrite
    <3>2. w.item.transport = t
      BY <2>1, S7WriteIs
    <3>3. QED BY <3>1, <3>2
  <2>4. ParseVariableAddress(v.where) = v.where.number
    <3> HIDE DEF v
    <3>1. 1 \in DOMAIN <<v>> /\ <<v>>[1] = v
      OBVIOUS
    <3>2. ParseVariableAddress(<<v>>[1].where) = <<v>>[1].where.number
      BY <2>2, <3>1 DEF RegularS7
    <3>3. QED BY <3>1, <3>2
  <2>5. S7Writable(memory, w, setup.strict) /\ memory' = S7Written(memory, w)
    BY <1>4 DEF CarriedOut, Done
  <2> HIDE DEF v, value, w, item
  <2>6. Truth(v) = value
    BY <1>2, <1>3, <1>4, <2>1, <2>2, <2>3, <2>4, <2>5, S7DoneIsTrue
  <2>7. QED BY <2>6 DEF v, value, item
<1>5. CASE ~S7
  <2>1. w = WriteOf(v, setup.layout, value)
    BY <1>2, <1>5
  <2>2. Writable(memory, w) /\ memory' = Written(memory, w)
    BY <1>5 DEF CarriedOut, Done
  <2>3. /\ Legible(v)
        /\ \/ v.code = 1 /\ value \in {0, 1}
           \/ v.code = 3 /\ OfType(v, value) /\ (Rated(v.rate) => value % v.rate = 0)
    BY <1>5 DEF Writes
  <2> HIDE DEF v, value, w, item
  <2>4. CASE v.code = 1 /\ value \in {0, 1}
    <3>1. Truth(v) = value
      BY <1>1, <1>3, <1>5, <2>1, <2>2, <2>3, <2>4, CoilIsTrue
    <3>2. QED BY <3>1 DEF v, value, item
  <2>5. CASE v.code = 3 /\ OfType(v, value) /\ (Rated(v.rate) => value % v.rate = 0)
    <3>1. v.type # "BOOL"
      <4> SUFFICES ASSUME v.type = "BOOL" PROVE FALSE
        OBVIOUS
      <4>1. w.code = 0
        BY <2>1, <2>5 DEF WriteOf, Coils, Registers
      <4>2. QED BY <2>2, <4>1 DEF Writable
    <3>2. Truth(v) = value
      BY <1>1, <1>2, <1>3, <1>5, <2>1, <2>2, <2>3, <2>5, <3>1, RegisterIsTrue
    <3>3. QED BY <3>2 DEF v, value, item
  <2>6. QED BY <2>3, <2>4, <2>5
<1>6. QED BY <1>4, <1>5

(* Only an answer that is accepted brings a command to its next message with
   no error more. *)
LEMMA OnlyAccepted ==
    ASSUME CleanInv, Delivered, turn = Command, [Next]_vars,
           command'.at = command.at + 1, command'.errs = command.errs
    PROVE  CommandAnswered
           /\ \E r \in Reads(CommandArrived, CommandRoom) :
                 dirty' = (dirty \/ r.short) /\ Accepts(r.cells)
<1>1. command.at \in Nat /\ command.errs \in Nat /\ {"at", "errs"} \subseteq DOMAIN command
  BY DEF CleanInv, Commanded, Delivered
<1>2. ~UNCHANGED command
  BY <1>1
<1>3. ~ThenNext(1)
  <2> SUFFICES ASSUME ThenNext(1) PROVE FALSE
    OBVIOUS
  <2>1. command'.errs = command.errs + 1
    BY <1>1 DEF ThenNext
  <2>2. QED BY <1>1, <2>1
<1>4. ~CommandOverrun
  <2> SUFFICES ASSUME CommandOverrun PROVE FALSE
    OBVIOUS
  <2>1. command'.errs = command.errs + 1
    BY <1>1 DEF CommandOverrun
  <2>2. QED BY <1>1, <2>1
<1>5. ~BeginCommand
  BY DEF BeginCommand, Begin, Nobody, Command
<1>6. ~(CommandLate \/ CommandUnread \/ CommandBroken)
  BY <1>3 DEF CommandLate, CommandUnread, CommandBroken
<1>7. ~(StartPoll \/ UpdateDevice \/ Recollect \/ Drift \/ CommandPanics \/ UNCHANGED vars)
  BY <1>2 DEF StartPoll, UpdateDevice, Recollect, Drift, CommandPanics, Begin, vars
<1>8. \A i \in DOMAIN frames : ~(TakeTurn(i) \/ Answered(i) \/ Unanswered(i) \/ Overrun(i))
  BY <1>2 DEF TakeTurn, Answered, Unanswered, Overrun
<1>9. CommandAnswered
  BY <1>4, <1>5, <1>6, <1>7, <1>8 DEF Next
<1>10. PICK r \in Reads(CommandArrived, CommandRoom) :
           dirty' = (dirty \/ r.short) /\ ThenNext(IF Accepts(r.cells) THEN 0 ELSE 1)
  BY <1>9 DEF CommandAnswered
<1>11. Accepts(r.cells)
  BY <1>3, <1>10
<1>12. QED BY <1>9, <1>10, <1>11

(* AcceptedIsDone: a message of DeliverAction that counts as accepted has been
   carried out by the device, and the variable reads back as the value that
   was sent, for every layout, type and order of the steps, as long as the
   answer was alone on the connection. *)
THEOREM ExchangeAcceptedIsDone == Spec => AcceptedIsDone
<1> DEFINE IInv == TInv /\ CleanInv /\ DoneInv
           Step == (/\ turn = Command /\ ~CommandEnded
                    /\ command'.at = command.at + 1 /\ command'.errs = command.errs
                    /\ ~dirty /\ ~dirty')
                   => (Writes(command.items[command.at])
                        => Truth(command.items[command.at].v) = command.items[command.at].value)
<1>1. IInv /\ [Next]_vars => Step
  <2> SUFFICES ASSUME CleanInv, DoneInv, [Next]_vars, turn = Command,
                      command'.at = command.at + 1, command'.errs = command.errs,
                      ~dirty, ~dirty', Writes(command.items[command.at])
               PROVE  Truth(command.items[command.at].v) = command.items[command.at].value
    OBVIOUS
  <2>1. Fitting
    BY DEF Fitting, Writes, RegularS7
  <2>2. Delivered /\ (S7 => Natural(memory))
    BY <2>1 DEF DoneInv
  <2>3. CommandAnswered
    BY <2>2, OnlyAccepted
  <2>4. PICK r \in Reads(CommandArrived, CommandRoom) :
            dirty' = (dirty \/ r.short) /\ Accepts(r.cells)
    BY <2>2, OnlyAccepted
  <2>5. ~r.short
    BY <2>4
  <2>6. CarriedOut
    BY <2>1, <2>4, <2>5, AcceptedIsCarriedOut
  <2>7. memory' = Done(memory)
    BY <2>3 DEF CommandAnswered
  <2>8. QED BY <2>2, <2>6, <2>7, CarriedOutIsTrue
<1>2. IInv /\ [Next]_vars => [Step]_vars
  BY <1>1
<1>3. Init => IInv
  BY TypeInit, CleanInit, DoneInit
<1>4. IInv /\ [Next]_vars => IInv'
  BY TypeStep, CleanInvStep, DoneStep
<1>5. QED BY <1>2, <1>3, <1>4, PTL DEF Spec, AcceptedIsDone
=================================================================================
