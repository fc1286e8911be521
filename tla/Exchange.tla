------------------------------- MODULE Exchange -------------------------------
(***************************************************************************)
(* What passes over one connection of a Modbus or an S7 device: the frames *)
(* of a poll and the messages of a command take turns on it, each asks and *)
(* reads what arrives.  The broker works on the device as it was when      *)
(* collecting began; the manager's own copy is updated beside it.          *)
(*                                                                         *)
(* The connection is the cells that have arrived and were not read.  An    *)
(* answer may arrive whole, in pieces or after the deadline, and the       *)
(* connection may break.  The connection pool (up to four frames share one *)
(* connection), the goroutines of a poll and the life of the broker are in *)
(* MessengerPool and Broker.                                               *)
(***************************************************************************)
EXTENDS S7Frames, VariableTable

CONSTANTS
    Setups,      \* the devices: protocol, layout, variables, update,
                 \* commands, memory (now and later), and how many polls,
                 \* commands, updates, drifts and faults there are at most
    IdMod        \* 2^16, where a transaction id wraps

(* The lists of a device are lists, and the names are names. *)
Listed(vs) ==
    /\ vs \in Seq(ToSet(vs))
    /\ \A v \in ToSet(vs) : v.name \in {Name(v.name.text), Blank(v.name.text)}

Areas == {"coils", "inputs", "holdings", "registers"}

(* What the device at the other end holds: bytes, in areas; coils and inputs
   are bits. *)
Plant(proto, m) == /\ \A a \in DOMAIN m : m[a] \in Seq(Nat)
                   /\ proto # "s7" => /\ Areas \subseteq DOMAIN m
                                      /\ {m["coils"], m["inputs"]} \subseteq Seq({0, 1})

(* A device is of a protocol and, over Modbus, of a layout the code knows,
   and so are the types of its variables.  The manager refuses a command of
   no items. *)
Device(s) ==
    /\ s.proto \in {"tcp", "rtu", "rtuovertcp", "s7"}
    /\ s.proto # "s7" => s.layout \in {"ABCD", "BADC", "CDAB", "DCBA"}
    /\ {s.pdu, s.position} \subseteq Nat
    /\ Listed(s.variables) /\ Listed(s.update)
    /\ \A v \in ToSet(s.variables) \cup ToSet(s.update) :
          /\ v.type \in DataTypes /\ v.rate \in Nat
          /\ IF s.proto = "s7" THEN /\ {v.where.number, v.where.bit} \subseteq Nat
                                    /\ v.where.zone \in Zones
                              ELSE v.address \in Nat /\ v.code \in Coils \cup Registers
    /\ \A request \in s.commands :
          /\ request \in Seq(ToSet(request)) \ {<< >>}
          /\ \A item \in ToSet(request) : item.value \in Nat
    /\ Plant(s.proto, s.memory) /\ Plant(s.proto, s.later)

ASSUME ExchangeAssumption ==
    /\ IdMod \in Nat \ {0}
    /\ \A s \in Setups : Device(s)

VARIABLES
    setup,    \* the device that was chosen
    stored,   \* the manager's table of variables
    blanks,   \* a request had a name with a blank (history)
    table,    \* the table the broker works with
    frames,   \* the frames of a poll: plan, last id, response buffer
    stage,    \* where message() is for each frame
    result,   \* what each frame of the poll reported, and the truth then
    stream,   \* cells that have arrived and are not read
    up,       \* the connection stands
    dirty,    \* an answer was left in the stream since the dial (history)
    turn,     \* the frame or command that has the connection
    tries,    \* rounds of retry()
    command,  \* the last command: items, the next one, errors so far
    memory,   \* of the device
    spent     \* polls, commands, faults so far

vars == <<setup, stored, blanks, table, frames, stage, result, stream, up,
          dirty, turn, tries, command, memory, spent>>

Nobody == 0
Command == -1

S7 == setup.proto = "s7"
Serial == setup.proto = "rtu"

Plans(t) == IF S7 THEN S7Plans(t.list, setup.pdu)
            ELSE ModbusPlans(t.list, setup.position)

(* The bytes of a response buffer, and of what was read into it. *)
HeadBytes == CASE setup.proto = "tcp" -> 9
               [] HasCrc(setup.proto) -> 3
               [] S7 -> 21
Least == IF S7 THEN 19 ELSE 6

Capacity(plan) ==
    IF S7 THEN setup.pdu
    ELSE HeadBytes + DataBytes(plan) + (IF HasCrc(setup.proto) THEN 2 ELSE 0)

Number(cells, kind) == Cardinality({k \in DOMAIN cells : cells[k].kind = kind})
Bytes(cells) == HeadBytes * Number(cells, "head") + Number(cells, "byte")
                                                  + 2 * Number(cells, "crc")

(* make([]byte, n): a buffer of the right shape that says nothing. *)
Blanked(plan) ==
    [i \in 1..(IF S7 THEN 1 ELSE DataBytes(plan) + 2) |-> Cell("none", 0)]

NewFrames(plans) ==
    [i \in DOMAIN plans |-> [plan |-> plans[i], id |-> 0,
                             buffer |-> Blanked(plans[i])]]

NoResult == [kind |-> "none", values |-> << >>, truth |-> << >>, clean |-> TRUE]
Error == [NoResult EXCEPT !.kind = "error"]
Dropped(clean) == [NoResult EXCEPT !.kind = "dropped", !.clean = clean]
NoCommand == [items |-> << >>, writes |-> << >>, at |-> 1, errs |-> 0]

Collecting(t) ==
    /\ table' = t
    /\ \E plans \in Plans(t) :
          /\ frames' = NewFrames(plans)
          /\ stage' = [i \in DOMAIN plans |-> "done"]
          /\ result' = [i \in DOMAIN plans |-> NoResult]
    /\ stream' = << >> /\ up' = TRUE /\ dirty' = FALSE

Created(vs) == IF setup.proto = "s7" THEN CreateS7Device(vs)
                                     ELSE CreateModBusDevice(vs)

Blanky(vs) == \E i \in DOMAIN vs : vs[i].name.blank

Init ==
    /\ setup \in Setups
    /\ stored = Created(setup.variables)
    /\ blanks = Blanky(setup.variables)
    /\ table = stored
    /\ \E plans \in Plans(table) :
          /\ frames = NewFrames(plans)
          /\ stage = [i \in DOMAIN plans |-> "done"]
          /\ result = [i \in DOMAIN plans |-> NoResult]
    /\ stream = << >> /\ up = TRUE /\ dirty = FALSE
    /\ turn = Nobody /\ tries = 0
    /\ command = NoCommand
    /\ memory = setup.memory
    /\ spent = [polls |-> 0, commands |-> 0, faults |-> 0, updates |-> 0,
                drifts |-> 0]

(* n things go wrong in a step. *)
Faults(n) == /\ spent.faults + n <= setup.bounds.faults
             /\ spent' = [spent EXCEPT !.faults = @ + n]

Ended == turn = Nobody /\ \A i \in DOMAIN stage : stage[i] = "done"
CommandEnded == command.at > Len(command.writes)

-----------------------------------------------------------------------------
(* What a variable is worth, by the layout letters of the device's manual:
   A is the most significant byte, and the letters say which byte stands
   where, two to a register. *)

Layout(n) ==
    LET reversed == setup.layout \in {"CDAB", "DCBA"}
        swapped == setup.layout \in {"BADC", "DCBA"}
        word(k) == IF reversed THEN (n - k) \div 2 ELSE (k - 1) \div 2
        byte(k) == IF swapped THEN 1 - ((k - 1) % 2) ELSE (k - 1) % 2
    IN  [k \in 1..n |-> 2 * word(k) + byte(k) + 1]

TimesRate(v, value) == IF Rated(v.rate) THEN value * v.rate ELSE value

TruthOfRegister(v) ==
    LET n == 2 * DataTypeWord(v.type)
        bytes == [k \in 1..n |-> memory'[AreaOf(v.code)][2 * v.address + Layout(n)[k]]]
    IN  IF v.type = "BOOL" THEN Bit(ValueOf(bytes), v.bits - 1)
        ELSE TimesRate(v, ValueOf(bytes))

TruthOfS7(v) ==
    LET area == memory'[<<v.where.zone, BlockSize(v.where)>>]
        bytes == SubSeq(area, v.where.number + 1, v.where.number + S7Bytes(v.type))
    IN  IF v.type = "BOOL" THEN Bit(bytes[1], v.where.bit)
        ELSE TimesRate(v, ValueOf(bytes))

Truth(v) == IF S7 THEN TruthOfS7(v)
            ELSE IF v.code \in Coils THEN memory'[AreaOf(v.code)][v.address + 1]
            ELSE TruthOfRegister(v)

(* What the code asks of the variables to read them right.  Modbus: the
   distance to the first address fits its frame, and in the order of their
   addresses the variables also end.  S7: variables of one address have one
   length, a rate is given to a FLOAT64 only, an address is written with
   the letters its zone takes off, the length byte holds the length, and the
   answers fit the buffer.  (It has as many bytes as the device's PDU; the
   items are counted as if 19 bytes came before their answers, of 12 bytes at
   most, and 21 do.) *)
Ends(v) == Reach(v.code, v)

RegularModBus(vs) ==
    \A i, j \in DOMAIN vs : vs[i].code = vs[j].code =>
        /\ setup.position <= vs[i].address
        /\ vs[i].address + setup.position + (Ends(vs[i]) - vs[i].address)
             <= Limit(NoFrame(vs[i].code, vs[i].address))
        /\ vs[i].address <= vs[j].address => Ends(vs[i]) <= Ends(vs[j])

Roomy == LET n == MaxItemPerDataFrame(setup.pdu)
         IN  n > 0 /\ HeadBytes + 12 * n <= setup.pdu

RegularS7(vs) ==
    /\ \A i, j \in DOMAIN vs :
          vs[i].where.zone = vs[j].where.zone /\ SamePlace(ItemOf(vs[i], vs[i].where.zone), vs[j])
            => S7Bytes(vs[i].type) = S7Bytes(vs[j].type)
    /\ \A i \in DOMAIN vs : /\ ~S7WritePanics(vs[i])
                            /\ ParseVariableAddress(vs[i].where) = vs[i].where.number
    /\ Roomy
    /\ 19 + 12 * Len(vs) < LengthMod \/ 19 + 12 * MaxItemPerDataFrame(setup.pdu) < LengthMod

Regular == IF S7 THEN RegularS7(table.list) ELSE RegularModBus(table.list)

(* What the code asks of one variable of a Modbus device, where nothing checks
   it: an address that the wire can carry (a larger one wraps), and, of a BOOL
   in a register, the number of its bit from 1 (a BOOL of bit 0 is
   reported as FALSE). *)
Legible(v) == S7 \/ /\ v.address + (IF v.code \in Coils THEN 1 ELSE DataTypeWord(v.type))
                         <= WireMod
                    /\ v.code \in Registers /\ v.type = "BOOL" => v.bits > 0

(* A number that is converted to the type of its variable keeps what fits
   there. *)
OfType(v, value) == value \in 0..(Width(2 * DataTypeWord(v.type)) - 1)
-----------------------------------------------------------------------------
(* poll() starts message() for every frame; each takes its turn. *)

StartPoll ==
    /\ Ended
    /\ spent.polls < setup.bounds.polls
    /\ spent' = [spent EXCEPT !.polls = @ + 1]
    /\ stage' = [i \in DOMAIN frames |-> "waiting"]
    /\ result' = [i \in DOMAIN frames |-> NoResult]
    /\ UNCHANGED <<setup, stored, blanks, table, frames, stream, up, dirty, turn,
                   tries, command, memory>>

TakeTurn(i) ==
    /\ turn = Nobody
    /\ stage[i] = "waiting"
    /\ turn' = i
    /\ tries' = 0
    /\ UNCHANGED <<setup, stored, blanks, table, frames, stage, result, stream,
                   up, dirty, command, memory, spent>>

(* AskAtLeast(request, response, min): what is read of the cells that have
   arrived, as much as fits or, when the rest comes late, less; the serial
   client reads just as many bytes as it expects. *)
Reads(arrived, capacity) ==
    LET first(k) == SubSeq(arrived, 1, k)
        fits == {k \in 1..Len(arrived) : Bytes(first(k)) \in Least..capacity}
        due == IF Serial THEN {k \in fits : Bytes(first(k)) = capacity} ELSE fits
    IN  {[cells |-> first(k), rest |-> SubSeq(arrived, k + 1, Len(arrived)),
          short |-> k # LastPlace(due)] : k \in due}

(* WriteTransactionId; mutation: the id does not wrap. *)
UnwrappedId(id) == IF setup.proto = "tcp" THEN id + 1 ELSE id
NextId(id) == IF setup.proto = "tcp" THEN (id + 1) % IdMod ELSE id

Answer(plan, id) ==
    IF S7 THEN S7Answer(memory, S7Request(plan))
    ELSE ModbusAnswer(setup.proto, memory, id, ReadRequest(plan))

Arrived(i) == stream \o Answer(frames[i].plan, NextId(frames[i].id))

Filled(buffer, cells) ==
    [k \in DOMAIN buffer |-> IF k <= Len(cells) THEN cells[k] ELSE buffer[k]]

Reported(i, r) ==
    /\ result' = [result EXCEPT ![i] = r]
    /\ stage' = [stage EXCEPT ![i] = "done"]
    /\ turn' = Nobody
    /\ tries' = 0

(* A failed round of retry(); the third is the last. *)
TriedInVain(i) ==
    IF tries = 2 THEN Reported(i, Error)
    ELSE /\ tries' = tries + 1
         /\ UNCHANGED <<result, stage, turn>>

ParsedValues(plan, data) ==
    IF S7 THEN S7ParseVariableValue(plan, data)
    ELSE ParseVariableValue(plan, setup.layout, data)

Values(plan, values, clean) ==
    [kind |-> "values", values |-> values, clean |-> clean,
     truth |-> IF clean /\ Regular /\ \A v \in ToSet(table.list) : Legible(v)
               THEN [k \in DOMAIN plan.parses |-> Truth(plan.parses[k].v)]
               ELSE << >>]

Understood(i, cells, clean) ==
    LET plan == frames[i].plan
        data == IF S7 THEN ValidateMessage(plan, cells)
                ELSE ValidateAndExtractMessage(setup.proto, frames'[i].buffer,
                                               frames'[i].id, DataBytes(plan))
        values == UNION {ParsedValues(plan, d) : d \in data}
    IN  \/ data = {} /\ TriedInVain(i)
        \/ data # {} /\ values = {} /\ Reported(i, Dropped(clean))
        \/ \E v \in values : Reported(i, Values(plan, v, clean))

Answered(i) ==
    /\ turn = i /\ up
    /\ memory' = memory
    /\ \E r \in Reads(Arrived(i), Capacity(frames[i].plan)) :
          /\ Faults(IF r.short THEN 1 ELSE 0)
          /\ frames' = [frames EXCEPT ![i].id = NextId(@),
                            ![i].buffer = IF S7 THEN @ ELSE Filled(@, r.cells)]
          /\ stream' = r.rest
          /\ dirty' = (dirty \/ r.short)
          /\ Understood(i, r.cells, ~dirty')
    /\ UNCHANGED <<setup, stored, blanks, table, up, command>>

(* Mutation: the connection is dialled with the old one's bytes unread. *)
StreamKept(cells) == cells
FreshStream(cells) == << >>

(* The connection is broken, nothing that can be read arrives in time, or
   the answer comes too late: retry() closes the messenger and dials.  S7
   does not count that round.  Where the dial fails, the error is reported
   and the closed connection stays with the messenger. *)
Unanswered(i) ==
    /\ turn = i
    /\ LET free == ~up \/ Reads(Arrived(i), Capacity(frames[i].plan)) = {}
           cost == IF free THEN 0 ELSE 1
       IN  \/ /\ Faults(cost)
              /\ up' = TRUE
              /\ IF S7 THEN UNCHANGED <<result, stage, turn, tries>>
                       ELSE TriedInVain(i)
           \/ /\ Faults(cost + 1)
              /\ up' = FALSE
              /\ Reported(i, Error)
    /\ stream' = FreshStream(stream)
    /\ dirty' = FALSE
    /\ frames' = [frames EXCEPT ![i].id = NextId(@)]
    /\ UNCHANGED <<setup, stored, blanks, table, command, memory>>

(* More bytes than the serial client has room for come in one read: it
   panics, message() recovers and reports nothing. *)
Overrun(i) ==
    /\ turn = i /\ up /\ Serial
    /\ Bytes(Arrived(i)) > Capacity(frames[i].plan)
    /\ Reported(i, Dropped(~dirty))
    /\ stream' = << >>
    /\ frames' = [frames EXCEPT ![i].id = NextId(@)]
    /\ UNCHANGED <<setup, stored, blanks, table, up, dirty, command, memory, spent>>

-----------------------------------------------------------------------------
(* DeliverAction.  The manager lets a name pass that its table has; the
   broker takes the variable from its own. *)

ItemsOf(request) ==
    [k \in DOMAIN request |->
        [v |-> CHOOSE v \in GetVariable(table, request[k].name) : TRUE,
         value |-> request[k].value]]

Deliverable(request) ==
    /\ \A k \in DOMAIN request : request[k].name \in DOMAIN table.map
    /\ S7 => \A k \in DOMAIN request : ~S7WritePanics(ItemsOf(request)[k].v)

Begin(request) ==
    /\ turn = Nobody /\ CommandEnded
    /\ spent.commands < setup.bounds.commands
    /\ \A k \in DOMAIN request : request[k].name \in DOMAIN stored.map
    /\ spent' = [spent EXCEPT !.commands = @ + 1]
    /\ UNCHANGED <<setup, stored, blanks, table, frames, stage, result, stream,
                   up, dirty, tries, memory>>

(* The values are those that pass the type switch: for another one
   DeliverAction returns an error before it has taken a messenger or sent
   anything. *)
BeginCommand ==
    \E request \in setup.commands :
        /\ Begin(request)
        /\ Deliverable(request)
        /\ LET items == ItemsOf(request)
               writes == IF S7 THEN S7Writes(items)
                         ELSE [k \in DOMAIN items |->
                                WriteOf(items[k].v, setup.layout, items[k].value)]
           IN  command' = [items |-> items, writes |-> writes, at |-> 1, errs |-> 0]
        /\ turn' = Command

(* A name the broker's device does not have yet, or a rate on an S7 number:
   DeliverAction panics before it has taken a messenger. *)
CommandPanics ==
    \E request \in setup.commands :
        /\ Begin(request)
        /\ ~Deliverable(request)
        /\ UNCHANGED <<turn, command>>

ThisWrite == command.writes[command.at]

Done(m) ==
    IF S7 THEN IF S7Writable(m, ThisWrite, setup.strict) THEN S7Written(m, ThisWrite) ELSE m
    ELSE IF Writable(m, ThisWrite) THEN Written(m, ThisWrite) ELSE m

(* The ids of a command are the places of its messages, from 0. *)
CommandArrived ==
    stream \o (IF S7 THEN S7WriteAnswer(memory, ThisWrite, setup.strict)
               ELSE WriteAnswer(setup.proto, memory, command.at - 1, ThisWrite))

(* The bytes of the response buffer: those of the request, S7: 22. *)
CommandRoom ==
    LET n == Len(ThisWrite.data)
        pdu == CASE ThisWrite.code = 0 -> 3
                 [] ThisWrite.code \in {5, 6} -> 5
                 [] ThisWrite.code = 16 -> 6 + n
    IN  IF S7 THEN 22
        ELSE pdu + 1 + (IF HasCrc(setup.proto) THEN 2 ELSE 6)

(* DeliverAction compares the answer's transaction id with itself: any
   answer that is no exception is taken. *)
Accepts(cells) ==
    IF S7 THEN Len(cells) > 1 /\ cells[2] = Cell("byte", 255)
    ELSE cells[1].kind = "head" /\ cells[1].content.code < 128

ThenNext(errs) ==
    /\ command' = [command EXCEPT !.at = @ + 1, !.errs = @ + errs]
    /\ turn' = IF CommandEnded' THEN Nobody ELSE Command

CommandAnswered ==
    /\ turn = Command /\ up
    /\ \E r \in Reads(CommandArrived, CommandRoom) :
          /\ Faults(IF r.short THEN 1 ELSE 0)
          /\ stream' = r.rest
          /\ dirty' = (dirty \/ r.short)
          /\ ThenNext(IF Accepts(r.cells) THEN 0 ELSE 1)
    /\ memory' = Done(memory)
    /\ UNCHANGED <<setup, stored, blanks, table, frames, stage, result, up, tries>>

(* An error; the connection is kept, and with it the answer that comes too
   late. *)
CommandLate ==
    /\ turn = Command /\ up
    /\ Faults(1)
    /\ stream' = CommandArrived
    /\ dirty' = TRUE
    /\ memory' = Done(memory)
    /\ ThenNext(1)
    /\ UNCHANGED <<setup, stored, blanks, table, frames, stage, result, up, tries>>

(* What arrives is less than what is asked for, and is read: an exception
   over RTU, or the short answer to a long write on a serial line, which
   the device has done. *)
CommandUnread ==
    /\ turn = Command /\ up
    /\ Reads(CommandArrived, CommandRoom) = {}
    /\ Bytes(CommandArrived) < CommandRoom
    /\ stream' = << >>
    /\ memory' = Done(memory)
    /\ ThenNext(1)
    /\ UNCHANGED <<setup, stored, blanks, table, frames, stage, result, up,
                   dirty, tries, spent>>

(* The connection is broken, or breaks. *)
CommandBroken ==
    /\ turn = Command
    /\ Faults(IF up THEN 1 ELSE 0)
    /\ up' = FALSE
    /\ stream' = << >>
    /\ ThenNext(1)
    /\ UNCHANGED <<setup, stored, blanks, table, frames, stage, result, dirty,
                   tries, memory>>

(* DeliverAction has no recover; the deferred release gives the messenger
   back. *)
CommandOverrun ==
    /\ turn = Command /\ up /\ Serial
    /\ Bytes(CommandArrived) > CommandRoom
    /\ stream' = << >>
    /\ memory' = Done(memory)
    /\ command' = [command EXCEPT !.at = Len(command.writes) + 1, !.errs = @ + 1]
    /\ turn' = Nobody
    /\ UNCHANGED <<setup, stored, blanks, table, frames, stage, result, up,
                   dirty, tries, spent>>

-----------------------------------------------------------------------------
(* The manager stores an updated device and leaves the broker as it is;
   collecting is stopped and started again by a request of its own. *)

Updated(t, vs) == IF S7 THEN UpdateS7Device(t, vs) ELSE UpdateModBusDevice(t, vs)

UpdateDevice ==
    /\ spent.updates < setup.bounds.updates
    /\ spent' = [spent EXCEPT !.updates = @ + 1]
    /\ stored' = Updated(stored, setup.update)
    /\ blanks' = (blanks \/ Blanky(setup.update))
    /\ UNCHANGED <<setup, table, frames, stage, result, stream, up, dirty, turn,
                   tries, command, memory>>

Recollect ==
    /\ Ended /\ CommandEnded
    /\ stored # table
    /\ Collecting(stored)
    /\ UNCHANGED <<setup, stored, blanks, turn, tries, command, memory, spent>>

(* The plant goes on. *)
Drift ==
    /\ spent.drifts < setup.bounds.drifts
    /\ spent' = [spent EXCEPT !.drifts = @ + 1]
    /\ memory' = setup.later
    /\ UNCHANGED <<setup, stored, blanks, table, frames, stage, result, stream,
                   up, dirty, turn, tries, command>>

Next ==
    \/ StartPoll
    \/ \E i \in DOMAIN frames :
          TakeTurn(i) \/ Answered(i) \/ Unanswered(i) \/ Overrun(i)
    \/ BeginCommand \/ CommandPanics
    \/ CommandAnswered \/ CommandLate \/ CommandUnread
    \/ CommandBroken \/ CommandOverrun
    \/ UpdateDevice \/ Recollect \/ Drift

Spec == Init /\ [][Next]_vars

-----------------------------------------------------------------------------
(* The types: ids that fit their width, a turn somebody has, and a result
   for every frame. *)
TypeOK ==
    /\ setup \in Setups
    /\ DOMAIN stage = DOMAIN frames /\ DOMAIN result = DOMAIN frames
    /\ \A i \in DOMAIN frames :
          /\ frames[i].id \in 0..(IdMod - 1)
          /\ stage[i] \in {"done", "waiting"}
          /\ result[i].kind \in {"none", "error", "dropped", "values"}
    /\ turn \in {Nobody, Command} \cup DOMAIN frames
    /\ tries \in 0..2
    /\ {up, dirty, blanks} \subseteq BOOLEAN

(* What a poll reports of a variable is what the device held when it
   answered: through the planning of frames, the layouts, the retries,
   the redials and the answers that come after their deadline, as long as
   no answer was left on this connection by a command or by a short read.
   (An id tells a frame's own answers apart, not those of two frames.)  What a
   Modbus number is worth with its rate may be more than its type holds. *)
Represented(v, value) == ~S7 /\ v.code \in Registers /\ Rated(v.rate) => OfType(v, value)

ReportsWhatIsHeld ==
    \A i \in DOMAIN result :
        result[i].truth # << >> =>
            \A k \in DOMAIN result[i].values :
                Represented(frames[i].plan.parses[k].v, result[i].truth[k])
                  => result[i].values[k].value = result[i].truth[k]

Reports(i) == DOMAIN result[i].values

(* A poll whose answers all came alone on the connection reports each
   variable of the device in one frame, or an error for it: no variable is
   planned twice or forgotten, and no frame is silently dropped. *)
EveryVariableAnswered ==
    (/\ Regular /\ turn = Nobody
     /\ \A i \in DOMAIN result : result[i].kind # "none" /\ result[i].clean)
    => /\ \A i \in DOMAIN result : result[i].kind \in {"values", "error"}
       /\ (\A i \in DOMAIN result : result[i].kind = "values") =>
            /\ \A n \in Names(table.list) : \E i \in DOMAIN result :
                  \E k \in Reports(i) : result[i].values[k].name = n
            /\ FoldLeft(LAMBDA n, r : n + Len(r.values), 0, result)
                 = Len(table.list)

(* Between two turns nothing waits to be read on a connection that no late
   or partial answer has touched since it was dialled: the next request is
   answered by its own answer.  (Where an S7 device's PDU leaves 7 or 8 over
   12, up to two bytes of a full answer are left.) *)
CleanWhenFree == turn = Nobody /\ ~dirty /\ (S7 => Roomy) => stream = << >>

(* A value the broker's own device can write: a coil takes a bit; an input
   register cannot be written (the message goes to the holding register of
   its number); a number fits its type; a rate divides the value; and no BOOL
   comes before a number in one S7 command, because its transport size sticks. *)
Writes(item) ==
    IF S7 THEN /\ RegularS7(<<item.v>>) /\ ~Rated(item.v.rate)
               /\ IF item.v.type = "BOOL" THEN item.value \in {0, 1}
                                          ELSE OfType(item.v, item.value)
               /\ \A k \in DOMAIN command.writes :
                    command.items[k].v.type = "BOOL" <=> command.writes[k].item.transport = 1
    ELSE /\ Legible(item.v)
         /\ CASE item.v.code = 1 -> item.value \in {0, 1}
              [] item.v.code = 3 ->
                   /\ OfType(item.v, item.value)
                   /\ Rated(item.v.rate) => item.value % item.v.rate = 0
              [] OTHER -> FALSE

(* A message of a command that counts as accepted has been carried out: the
   variable, read by the layout of the device, is worth what was sent. *)
AcceptedIsDone ==
    [][(/\ turn = Command /\ ~CommandEnded
        /\ command'.at = command.at + 1 /\ command'.errs = command.errs
        /\ ~dirty /\ ~dirty')
       => (Writes(command.items[command.at])
            => Truth(command.items[command.at].v) = command.items[command.at].value)]_vars

(* After an update the manager's table is the request's: no variable of the
   old device is left in the list or in the map, none is there twice, and
   every name leads to its variable.  (Names with blanks are the exception:
   they are looked up trimmed and stored as they are.  That a request has no
   name twice is up to its sender: nobody checks it.) *)
StoredIsRequested ==
    ~blanks /\ Unambiguous(setup.variables) /\ Unambiguous(setup.update) =>
        /\ Faithful(stored)
        /\ ToSet(stored.list) = ToSet(IF spent.updates = 0 THEN setup.variables
                                       ELSE setup.update)
==============================================================================
