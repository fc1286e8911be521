----------------------------- MODULE ModbusFrames -----------------------------
(***************************************************************************)
(* What the Modbus broker asks for, and how it reads and writes values:    *)
(* the planning in NewBroker, the frames of the three modelers, the check  *)
(* of an answer and the conversions, as operators.                         *)
(*                                                                         *)
(* A message is a sequence of cells: a head (transaction id, function      *)
(* code, number of data bytes), the data, and a CRC where there is one.    *)
(* The CRC is the content it was made from.  A byte has BitsPerByte bits,  *)
(* so that one variable's eight bytes stay within TLC's integers, and a    *)
(* number is its bits, without a sign: a rate is a natural number and a    *)
(* written value a multiple of it.                                         *)
(***************************************************************************)
EXTENDS Integers, Sequences, FiniteSets, SequencesExt, ByteOrder

CONSTANTS
    BitsPerByte,           \* 8 in the code
    PerRequestMaxCoil,     \* 1983
    PerRequestMaxRegister, \* 123
    UintMod,               \* 2^64, where a uint wraps
    WireMod                \* 2^16, where an address on the wire wraps

ASSUME ModbusAssumption ==
    /\ BitsPerByte \in Nat \ {0}
    /\ PerRequestMaxCoil \in Nat
    /\ PerRequestMaxRegister \in Nat \ (0..3)
    /\ WireMod \in Nat \ {0}
    /\ UintMod \in Nat \ {0}

Radix == 2 ^ BitsPerByte

(* How many numbers n bytes tell apart. *)
Width(n) == 2 ^ (BitsPerByte * n)

(* Numbers and their bytes, the most significant first. *)
ValueOf(bytes) == FoldLeft(LAMBDA n, b : n * Radix + b, 0, bytes)
BytesOf(value, n) == [k \in 1..n |-> (value \div Width(n - k)) % Radix]

Bit(value, b) == (value \div 2 ^ b) % 2

DataTypes == {"BOOL", "INT16", "UINT16", "INT32", "FLOAT32", "INT64", "FLOAT64"}

DataTypeWord(type) ==
    CASE type \in {"BOOL", "INT16", "UINT16"} -> 1
      [] type \in {"INT32", "FLOAT32"} -> 2
      [] type \in {"INT64", "FLOAT64"} -> 4

Coils == {1, 2}      \* ReadCoilStatus, ReadInputStatus
Registers == {3, 4}  \* ReadHoldRegister, ReadInputRegister

-----------------------------------------------------------------------------
(* NewBroker: the variables of one function code, sorted by address, are
   packed into frames. *)

Orders(vs, places) ==
    {[i \in 1..Cardinality(places) |-> vs[p[i]]] : p \in SetToSeqs(places)}

ByAddress(vs, places) ==
    {s \in Orders(vs, places) :
        \A i, j \in DOMAIN s : i < j => s[i].address <= s[j].address}

(* A frame being filled; start is its first address. *)
NoFrame(code, start) ==
    [code |-> code, start |-> start, size |-> 0, parses |-> << >>]

Limit(frame) ==
    (frame.start + (IF frame.code \in Coils THEN PerRequestMaxCoil
                                            ELSE PerRequestMaxRegister))
        % UintMod

(* The address a frame must reach to hold the variable. *)
Reach(code, v) ==
    IF code \in Coils THEN v.address ELSE v.address + DataTypeWord(v.type)

Put(frame, v) ==
    LET offset == (v.address - frame.start) % UintMod
        coil == frame.code \in Coils
    IN  [frame EXCEPT
            !.size = offset + (IF coil THEN 1 ELSE DataTypeWord(v.type)),
            !.parses = Append(@, [v |-> v,
                                  at |-> IF coil THEN offset ELSE offset * 2])]

(* Mutation: what is left in the open frame is not flushed. *)
NotFlushed(done, open) == done
Flushed(done, open) == Append(done, open)

(* The variable joins the frame, or begins the next at its own address. *)
Plan(code, sorted, position) ==
    LET first == NoFrame(code, (sorted[1].address - position) % UintMod)
        Next(acc, v) ==
            IF Reach(code, v) <= Limit(acc.open)
            THEN [acc EXCEPT !.open = Put(@, v)]
            ELSE [done |-> Append(acc.done, acc.open),
                  open |-> Put(NoFrame(code, v.address), v)]
        end == FoldLeft(Next, [done |-> << >>, open |-> first], sorted)
    IN  Flushed(end.done, end.open)

(* All the frames of a device, for one sorted order of each code's
   variables: sort.Sort is not stable. *)
ModbusPlans(vs, position) ==
    LET Of(code) == {i \in DOMAIN vs : vs[i].code = code}
        PlansOf(code) == IF Of(code) = {} THEN {<< >>}
                         ELSE {Plan(code, s, position) : s \in ByAddress(vs, Of(code))}
    IN  {a \o b \o c \o d : a \in PlansOf(1), b \in PlansOf(2),
                            c \in PlansOf(3), d \in PlansOf(4)}

-----------------------------------------------------------------------------
(* GenerateReadMessage: the request, and the data bytes its answer has. *)

ReadRequest(frame) == [code |-> frame.code, start |-> frame.start % WireMod,
                       size |-> frame.size % WireMod]

DataBytes(frame) ==
    IF frame.code \in Coils
    THEN (frame.size + BitsPerByte - 1) \div BitsPerByte
    ELSE frame.size * 2

MessageHead(id, code, count) == [id |-> id, code |-> code, count |-> count]
Crc(head, data) == <<head.code, head.count, data>>
HasCrc(proto) == proto \in {"rtu", "rtuovertcp"}

Cell(kind, content) == [kind |-> kind, content |-> content]

(* A message as it travels; an error answer has a code above 128. *)
Message(proto, head, data) ==
    <<Cell("head", head)>> \o [i \in DOMAIN data |-> Cell("byte", data[i])]
        \o (IF HasCrc(proto) THEN <<Cell("crc", Crc(head, data))>> ELSE << >>)

(* ValidateAndExtractMessage, of a buffer and the id its frame last wrote:
   the data, or nothing.  A cell of another kind than the one due fails one
   of the checks.  ExpandBool and Dup follow the code of the answer, and an
   answer to a write leaves no data. *)
IdMatches(proto, head, id) == proto = "tcp" => head.id = id

ValidateAndExtractMessage(proto, buffer, id, n) ==
    LET head == buffer[1].content
        bytes == [i \in 1..n |-> buffer[i + 1].content]
    IN  IF /\ buffer[1].kind = "head"
           /\ IdMatches(proto, head, id)
           /\ head.code < 128
           /\ head.count = n
           /\ \A i \in 1..n : buffer[i + 1].kind = "byte"
           /\ HasCrc(proto) => buffer[n + 2] = Cell("crc", Crc(head, bytes))
        THEN {IF head.code \in Coils THEN ExpandBool(bytes, n, BitsPerByte)
              ELSE IF head.code \in Registers THEN bytes ELSE << >>}
        ELSE {}

-----------------------------------------------------------------------------
(* ParseVariableValue *)

(* Which reading the memory layout of the device asks for; mutation: the two
   swapped ones change places. *)
OrderSwapped(layout, n) ==
    IF n = 2 THEN IF layout \in {"ABCD", "CDAB"} THEN BigEndian(n)
                                                 ELSE LittleEndian(n)
    ELSE CASE layout = "ABCD" -> BigEndian(n)
           [] layout = "BADC" -> ByteSwap(LittleEndian(n))
           [] layout = "CDAB" -> ByteSwap(BigEndian(n))
           [] layout = "DCBA" -> LittleEndian(n)

OrderOf(layout, n) ==
    IF n = 2 THEN IF layout \in {"ABCD", "CDAB"} THEN BigEndian(n)
                                                 ELSE LittleEndian(n)
    ELSE CASE layout = "ABCD" -> BigEndian(n)
           [] layout = "BADC" -> ByteSwap(BigEndian(n))
           [] layout = "CDAB" -> ByteSwap(LittleEndian(n))
           [] layout = "DCBA" -> LittleEndian(n)

Rated(rate) == rate \notin {0, 1}

ParseRegisters(v, layout, data) ==
    LET n == 2 * DataTypeWord(v.type)
        value == ValueOf(Parse(OrderOf(layout, n), data))
    IN  CASE v.type = "BOOL" -> IF v.bits = 0 THEN 0 ELSE Bit(value, v.bits - 1)
          [] v.type # "BOOL" /\ Rated(v.rate) -> (value * v.rate) % Width(n)
          [] OTHER -> value

Needs(frame, parse) ==
    parse.at + (IF frame.code \in Coils THEN 1
                ELSE 2 * DataTypeWord(parse.v.type))

(* The values of a frame's variables; an index past the data panics, and
   the values of the whole frame are lost. *)
ParseVariableValue(frame, layout, data) ==
    IF \E i \in DOMAIN frame.parses : Needs(frame, frame.parses[i]) > Len(data)
    THEN {}
    ELSE {[i \in DOMAIN frame.parses |->
            LET p == frame.parses[i]
            IN  [name |-> p.v.name,
                 value |-> IF frame.code \in Coils THEN data[p.at + 1]
                           ELSE ParseRegisters(p.v, layout,
                                    SubSeq(data, p.at + 1, Len(data)))]]}

-----------------------------------------------------------------------------
(* DeliverAction: generateActionBytes and the message around them.  The
   code and the data a write of the value has; a BOOL in a register is
   left out, and its message goes out with code 0 and no data.  Mutation: the
   rate is not taken out of the value. *)

WithoutRate(v, value) == value
RawOf(v, value) == IF Rated(v.rate) THEN value \div v.rate ELSE value

WriteOf(v, layout, value) ==
    LET n == 2 * DataTypeWord(v.type)
        at == v.address % WireMod
    IN  CASE v.code \in Coils ->
                [code |-> 5, at |-> at, data |-> IF value > 0 THEN <<1>> ELSE <<0>>]
          [] v.code \in Registers /\ v.type = "BOOL" ->
                [code |-> 0, at |-> at, data |-> << >>]
          [] OTHER ->
                [code |-> IF n = 2 THEN 6 ELSE 16, at |-> at,
                 data |-> ToBytes(OrderOf(layout, n), BytesOf(RawOf(v, value), n))]

-----------------------------------------------------------------------------
(* The device at the other end (external): four areas, coils and registers
   numbered from 0.  It refuses what it does not have, and a request for
   more than the comment beside the two limits allows. *)

AreaOf(code) == CASE code \in {1, 5} -> "coils"
                  [] code = 2 -> "inputs"
                  [] code \in {3, 6, 16} -> "holdings"
                  [] code = 4 -> "registers"

Unit(code) == IF code \in Coils THEN 1 ELSE 2

Holds(memory, request) ==
    /\ request.size > 0
    /\ request.size <= 1 + (IF request.code \in Coils THEN PerRequestMaxCoil
                                                     ELSE PerRequestMaxRegister)
    /\ Unit(request.code) * (request.start + request.size)
         <= Len(memory[AreaOf(request.code)])

ModbusAnswer(proto, memory, id, request) ==
    LET k == Unit(request.code)
        cells == SubSeq(memory[AreaOf(request.code)], k * request.start + 1,
                        k * (request.start + request.size))
        data == IF k = 1 THEN ShrinkBool(cells, BitsPerByte) ELSE cells
    IN  IF Holds(memory, request)
        THEN Message(proto, MessageHead(id, request.code, Len(data)), data)
        ELSE Message(proto, MessageHead(id, request.code + 128, 0), << >>)

Writable(memory, write) ==
    /\ write.code \in {5, 6, 16}
    /\ (IF write.code = 5 THEN 1 ELSE 2) * write.at + Len(write.data)
         <= Len(memory[AreaOf(write.code)])

Written(memory, write) ==
    LET area == AreaOf(write.code)
        first == (IF write.code = 5 THEN 1 ELSE 2) * write.at
    IN  [memory EXCEPT ![area] =
            [i \in DOMAIN @ |-> IF i - first \in DOMAIN write.data
                                THEN write.data[i - first] ELSE @[i]]]

(* A write is answered with its own address and value: three bytes more
   than a head, whose count is the high byte of a small address. *)
WriteAnswer(proto, memory, id, write) ==
    IF Writable(memory, write)
    THEN Message(proto, MessageHead(id, write.code, 0), <<0, 0, 0>>)
    ELSE Message(proto, MessageHead(id, write.code + 128, 0), << >>)
==============================================================================
