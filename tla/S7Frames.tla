------------------------------- MODULE S7Frames -------------------------------
(***************************************************************************)
(* The same for the S7 broker: pkg/protocol/s7/s7broker.go and the         *)
(* addresses and lengths of pkg/protocol/s7/runtime/type.go, as operators. *)
(* A message is a head, which stands for its first 21 bytes, and bytes.    *)
(***************************************************************************)
EXTENDS ModbusFrames

CONSTANTS
    LengthMod   \* 2^8, where the length byte of a request wraps

ASSUME S7Assumption == LengthMod \in Nat \ {0}

Zones == {"I", "Q", "M", "DB"}

(* An address as it is written: zone, block, the letters before the number,
   the number (below 100) and the bit. *)
ShortLetters == {"X", "B", "W", "D"}
LongLetters == {"DBX", "DBB", "DBW", "DBD"}
shortening(where) == where.letters \notin ShortLetters \cup LongLetters

(* ParseVariableAddress takes one letter off an address in I, Q and M and
   three off one in a DB.  Where that is not what stands there the rest is
   no number, and the address is 0. *)
ParseVariableAddress(where) ==
    LET due == IF where.zone = "DB" THEN LongLetters ELSE ShortLetters
    IN  IF shortening(where) \/ where.letters \in due THEN where.number ELSE 0

BlockSize(where) == IF where.zone = "DB" THEN where.block ELSE 0

S7Bytes(type) ==
    CASE type = "BOOL" -> 1
      [] type \in {"UINT16", "INT16"} -> 2
      [] type \in {"INT32", "FLOAT32"} -> 4
      [] type \in {"INT64", "FLOAT64"} -> 8

(* How much a request asks for: bytes, and in a DB words. *)
DataRequestLength(type, zone) ==
    IF zone = "DB" /\ type # "BOOL" THEN S7Bytes(type) \div 2 ELSE S7Bytes(type)

(* How many bytes the answer has for it. *)
DataResponseLength(type, zone) ==
    IF zone = "DB" /\ type = "BOOL" THEN 2 ELSE S7Bytes(type)

StoreAreaTransportSize(zone) == IF zone = "DB" THEN 4 ELSE 2

-----------------------------------------------------------------------------
(* NewBroker: the variables of one zone, sorted, become items, and items
   frames. *)

Rank(where) == <<BlockSize(where), ParseVariableAddress(where), where.bit>>

Less(a, b) == \/ Rank(a)[1] < Rank(b)[1]
              \/ Rank(a)[1] = Rank(b)[1] /\ Rank(a)[2] < Rank(b)[2]
              \/ Rank(a)[1] = Rank(b)[1] /\ Rank(a)[2] = Rank(b)[2]
                   /\ Rank(a)[3] < Rank(b)[3]

Sorted(vs, places) ==
    {s \in Orders(vs, places) :
        \A i, j \in DOMAIN s : i < j => ~Less(s[j].where, s[i].where)}

MaxItemPerDataFrame(pdu) == (pdu - 19) \div 12

(* newS7COMMReadParameterItem *)
ItemOf(v, zone) ==
    [transport |-> StoreAreaTransportSize(zone), zone |-> zone,
     length |-> DataRequestLength(v.type, zone),
     block |-> BlockSize(v.where), address |-> ParseVariableAddress(v.where),
     bit |-> v.where.bit]

SamePlace(item, v) ==
    /\ item.block = BlockSize(v.where)
    /\ item.address = ParseVariableAddress(v.where)

(* The frame with one more variable: it shares the item of the variable that
   first had its address, or gets one of its own behind the others. *)
Take(frame, v) ==
    LET shared == {i \in DOMAIN frame.items : SamePlace(frame.items[i], v)}
        i == CHOOSE j \in shared : TRUE
        more == 4 + DataResponseLength(v.type, frame.zone)
    IN  IF shared # {}
        THEN [frame EXCEPT !.parses = Append(@, [v |-> v, at |-> frame.starts[i]])]
        ELSE [frame EXCEPT
                !.items = Append(@, ItemOf(v, frame.zone)),
                !.starts = Append(@, frame.length),
                !.parses = Append(@, [v |-> v, at |-> frame.length]),
                !.length = @ + more]

EmptyFrame(zone) == [zone |-> zone, items |-> << >>, starts |-> << >>,
                     parses |-> << >>, length |-> 0]

S7Plan(zone, sorted, pdu) ==
    LET Next(acc, v) ==
            LET filled == Take(acc.open, v)
            IN  IF Len(filled.items) = MaxItemPerDataFrame(pdu)
                THEN [done |-> Append(acc.done, filled), open |-> EmptyFrame(zone)]
                ELSE [acc EXCEPT !.open = filled]
        end == FoldLeft(Next, [done |-> << >>, open |-> EmptyFrame(zone)], sorted)
    IN  IF end.open.items = << >> THEN end.done ELSE Append(end.done, end.open)

S7Plans(vs, pdu) ==
    LET In(zone) == {i \in DOMAIN vs : vs[i].where.zone = zone}
        PlansIn(zone) == {S7Plan(zone, s, pdu) : s \in Sorted(vs, In(zone))}
    IN  {a \o b \o c \o d : a \in PlansIn("I"), b \in PlansIn("Q"),
                            c \in PlansIn("M"), d \in PlansIn("DB")}

-----------------------------------------------------------------------------
(* newS7DataFrame: 19 bytes and twelve for each item; the message says its
   own length in one byte. *)

RequestLength(items) == 7 + 10 + 2 + Len(items) * 12
S7Request(frame) == [items |-> frame.items,
                     length |-> RequestLength(frame.items) % LengthMod]

S7Message(length, error, data) ==
    <<Cell("head", [length |-> length, error |-> error])>>
        \o [i \in DOMAIN data |-> Cell("byte", data[i])]

(* ValidateMessage, of as many cells as were read: the data, or nothing. *)
ValidateMessage(frame, read) ==
    LET head == read[1].content
    IN  IF /\ read[1].kind = "head"
           /\ head.length = frame.length
           /\ ~head.error
        THEN {[i \in 1..(Len(read) - 1) |-> read[i + 1].content]}
        ELSE {}

(* ParseVariableValue of the S7 frame: an index past what was read panics,
   and so does a rate on anything but a FLOAT64. *)
S7ParseValue(v, data) ==
    LET value == ValueOf(Parse(BigEndian(S7Bytes(v.type)), data))
    IN  IF v.type = "BOOL" THEN Bit(data[1], v.where.bit)
        ELSE IF Rated(v.rate) THEN value * v.rate ELSE value

S7ParsePanics(parse, data) ==
    \/ parse.at + 4 + S7Bytes(parse.v.type) > Len(data)
    \/ Rated(parse.v.rate) /\ parse.v.type \notin {"BOOL", "FLOAT64"}

S7ParseVariableValue(frame, data) ==
    IF \E i \in DOMAIN frame.parses : S7ParsePanics(frame.parses[i], data)
    THEN {}
    ELSE {[i \in DOMAIN frame.parses |->
            LET p == frame.parses[i]
            IN  [name |-> p.v.name,
                 value |-> S7ParseValue(p.v, SubSeq(data, p.at + 5, Len(data)))]]}

-----------------------------------------------------------------------------
(* DeliverAction: generateActionParameterDataItem.  transportSize is set by
   a BOOL or, once, by the zone of the first variable, and keeps that value
   for the variables that follow. *)

S7WritePanics(v) == Rated(v.rate) /\ v.type \notin {"BOOL", "FLOAT64"}

TransportAfter(transport, v) ==
    IF v.type = "BOOL" THEN 1
    ELSE IF transport = 0 THEN StoreAreaTransportSize(v.where.zone)
    ELSE transport

S7Data(v, value) ==
    LET n == IF v.type = "BOOL" THEN 2 ELSE S7Bytes(v.type)
        raw == IF Rated(v.rate) THEN value * v.rate ELSE value
    IN  ToBytes(BigEndian(n), BytesOf(raw, n))

(* newS7COMMWriteDataItem states 32 bits, whatever the data is. *)
StatedBytes == 4

(* ParameterData: what is to be written, and the data. *)
S7WriteOf(v, transport, value) ==
    [item |-> [ItemOf(v, v.where.zone) EXCEPT !.transport = transport],
     data |-> S7Data(v, value), stated |-> StatedBytes]

(* The writes of a command, whose items are variables and values. *)
S7Writes(items) ==
    LET Next(acc, it) ==
            LET t == TransportAfter(acc.transport, it.v)
            IN  [transport |-> t,
                 writes |-> Append(acc.writes, S7WriteOf(it.v, t, it.value))]
    IN  FoldLeft(Next, [transport |-> 0, writes |-> << >>], items).writes

-----------------------------------------------------------------------------
(* The device at the other end (external).  Its memory is a sequence of
   bytes for each zone and block; it does not answer a message whose length
   is not the one it says, leaves the data of an item out when it has no
   such place, and refuses a write whose data is not of the length its
   item asks for; a strict one, also a write whose data is not as long as
   the data item states. *)

PlaceOf(item) == <<item.zone, item.block>>
ItemBytes(item) == IF item.transport = 4 THEN 2 * item.length ELSE item.length

HasItem(memory, item) ==
    /\ PlaceOf(item) \in DOMAIN memory
    /\ item.address + ItemBytes(item) <= Len(memory[PlaceOf(item)])

ItemAnswer(memory, item) ==
    <<0, 0, 0, 0>> \o
        IF HasItem(memory, item)
        THEN SubSeq(memory[PlaceOf(item)], item.address + 1,
                    item.address + ItemBytes(item))
        ELSE << >>

S7Answer(memory, request) ==
    LET data == FoldLeft(LAMBDA acc, item : acc \o ItemAnswer(memory, item),
                         << >>, request.items)
    IN  IF request.length # RequestLength(request.items) THEN << >>
        ELSE S7Message(Len(data), FALSE, data)

S7Writable(memory, write, strict) ==
    /\ HasItem(memory, write.item)
    /\ strict => write.stated = Len(write.data)
    /\ IF write.item.transport = 1 THEN write.item.length = 1 /\ Len(write.data) = 2
                                   ELSE ItemBytes(write.item) = Len(write.data)

S7Written(memory, write) ==
    LET place == PlaceOf(write.item)
        at == write.item.address
        bit == write.item.bit
        byte == memory[place][at + 1]
        set == IF ValueOf(write.data) = 0 THEN 0 ELSE 1
        bitByte == byte + (set - Bit(byte, bit)) * 2 ^ bit
        new == IF write.item.transport = 1 THEN <<bitByte>> ELSE write.data
    IN  [memory EXCEPT ![place] =
            [i \in DOMAIN @ |-> IF i - at \in DOMAIN new THEN new[i - at] ELSE @[i]]]

S7WriteAnswer(memory, write, strict) ==
    S7Message(1, FALSE, <<IF S7Writable(memory, write, strict) THEN 255 ELSE 10>>)
==============================================================================
