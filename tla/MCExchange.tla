------------------------------ MODULE MCExchange ------------------------------
(* Devices of each protocol and layout; a byte has three bits, a frame takes
   five coils or five registers, or two S7 items. *)
EXTENDS Exchange

Reg(n, type, address, rate) ==
    [name |-> Name(n), type |-> type, address |-> address, code |-> 3,
     rate |-> rate, bits |-> 2]
At(v, code) == [v EXCEPT !.code = code]
Coil(n, address) == At(Reg(n, "BOOL", address, 1), 1)

Where(zone, letters, number, bit) ==
    [zone |-> zone, block |-> 1, letters |-> letters, number |-> number, bit |-> bit]
Var(n, type, where) ==
    [name |-> Name(n), type |-> type, where |-> where, rate |-> 1]

Set(n, value) == [name |-> Name(n), value |-> value]

(* The first register is small enough for its rate. *)
Pattern(n, k, mod) ==
    [i \in 1..n |-> IF i < 3 THEN i % mod ELSE (k * i + i \div 5) % mod]
Field(k) == [coils |-> Pattern(12, k, 2), inputs |-> Pattern(12, k + 1, 2),
             holdings |-> Pattern(24, k, 8), registers |-> Pattern(24, k + 2, 8)]
S7Field(k) == (<<"DB", 1>> :> Pattern(12, k, 8)) @@ (<<"M", 0>> :> Pattern(8, k + 1, 8))

Bounds(polls, commands, updates, drifts, faults) ==
    [polls |-> polls, commands |-> commands, updates |-> updates,
     drifts |-> drifts, faults |-> faults]

Modbus(proto, layout, position, variables, update, commands, bounds) ==
    [proto |-> proto, layout |-> layout, position |-> position, pdu |-> 0,
     strict |-> FALSE,
     variables |-> variables, update |-> update, commands |-> commands,
     memory |-> Field(3), later |-> Field(5), bounds |-> bounds]

Words == <<Reg("a", "INT16", 0, 2), Reg("b", "INT32", 1, 1),
           Reg("c", "BOOL", 3, 1), Reg("d", "FLOAT64", 4, 1)>>
OtherWords == <<Reg("d", "FLOAT64", 4, 1), Reg("e", "UINT16", 8, 0),
                Reg("a", "INT32", 0, 1)>>
Writing == {<<Set("a", 6)>>, <<Set("b", 1000), Set("d", 12345)>>, <<Set("e", 5)>>}

Bits == <<Coil("a", 1), Coil("b", 4), Coil("c", 7)>>
(* A number that outgrows its type with its rate. *)
Inputs == <<At(Coil("d", 2), 2), At(Reg("e", "INT64", 1, 3), 4)>>
Overlapping == <<Reg("a", "INT64", 0, 1), Reg("b", "INT16", 1, 1)>>
(* An address past what the wire carries, and a BOOL of no bit. *)
Unchecked == <<Reg("a", "INT16", 1, 1), Reg("b", "INT16", WireMod + 2, 1),
               [Reg("c", "BOOL", 3, 1) EXCEPT !.bits = 0]>>
Blanks == <<[Reg("a", "INT16", 0, 1) EXCEPT !.name = Blank("a")]>>

S7Device(pdu, variables, update, commands, bounds) ==
    [proto |-> "s7", layout |-> "", position |-> 0, pdu |-> pdu,
     strict |-> FALSE,
     variables |-> variables, update |-> update, commands |-> commands,
     memory |-> S7Field(3), later |-> S7Field(5), bounds |-> bounds]

Mixed == <<Var("a", "BOOL", Where("DB", "DBX", 0, 0)),
           Var("b", "BOOL", Where("DB", "DBX", 0, 1)),
           Var("c", "INT16", Where("DB", "DBW", 2, 0)),
           Var("d", "INT32", Where("DB", "DBD", 4, 0))>>
Fewer == <<Var("c", "INT16", Where("DB", "DBW", 6, 0)),
           Var("f", "BOOL", Where("M", "", 1, 2))>>
(* An address as the comment writes it, and one of two lengths. *)
Odd == <<Var("a", "INT16", Where("DB", "W", 2, 0)),
         Var("b", "INT32", Where("DB", "DBD", 2, 0)),
         Var("c", "INT16", Where("DB", "DBW", 2, 0))>>
(* Four items in one request, whose length byte wraps; a rate. *)
Four == <<Var("a", "INT16", Where("M", "W", 0, 0)),
          Var("b", "INT16", Where("M", "W", 2, 0)),
          Var("c", "INT16", Where("M", "W", 4, 0)),
          [Var("d", "INT16", Where("M", "W", 6, 0)) EXCEPT !.rate = 2]>>

MCSetups ==
    {Modbus("tcp", "CDAB", 0, Words, OtherWords, Writing, Bounds(2, 1, 1, 0, 1)),
     Modbus("tcp", "CDAB", 0, Words, Words, {}, Bounds(2, 0, 0, 1, 2)),
     Modbus("tcp", "DCBA", 1, Bits, Bits, {<<Set("b", 1), Set("a", 0)>>},
            Bounds(1, 1, 0, 1, 2)),
     Modbus("tcp", "DCBA", 0, Inputs, Inputs, {<<Set("d", 1), Set("e", 9)>>},
            Bounds(1, 1, 0, 0, 1)),
     Modbus("tcp", "ABCD", 0, Unchecked, Unchecked, {<<Set("b", 5), Set("a", 3)>>},
            Bounds(2, 1, 0, 1, 1)),
     Modbus("tcp", "ABCD", 4, Overlapping, Overlapping, {}, Bounds(1, 0, 0, 0, 1)),
     Modbus("rtu", "BADC", 0, Words, Blanks, Writing \cup {<<Set("a", 6), Set("c", 1)>>},
            Bounds(1, 1, 2, 0, 1)),
     Modbus("rtuovertcp", "BADC", 0, Overlapping, Words,
            {<<Set("a", 5)>>, <<Set("b", 37)>>}, Bounds(1, 1, 1, 0, 1)),
     S7Device(48, Mixed, Fewer,
              {<<Set("b", 1)>>, <<Set("c", 9), Set("d", 99)>>,
               <<Set("a", 1), Set("c", 0)>>, <<Set("f", 1)>>}, Bounds(1, 1, 1, 0, 1)),
     [S7Device(48, Mixed, Mixed, {<<Set("c", 9), Set("d", 99)>>}, Bounds(1, 1, 0, 1, 1))
        EXCEPT !.strict = TRUE],
     S7Device(48, Mixed, Mixed, {}, Bounds(2, 0, 0, 1, 2)),
     S7Device(48, Odd, Fewer, {}, Bounds(1, 0, 1, 0, 1)),
     S7Device(69, Four, Mixed, {<<Set("b", 1)>>, <<Set("d", 3)>>},
              Bounds(1, 1, 1, 0, 1))}

-----------------------------------------------------------------------------
(* pkg/utils/binutil: whatever the order, a number written is read back, two
   orders do not read the same, and bits come out of bytes as they went in. *)
Orders8 == {BigEndian(8), LittleEndian(8), ByteSwap(BigEndian(8)), ByteSwap(LittleEndian(8))}
Number8 == [k \in 1..8 |-> k - 1]
ASSUME NumbersReadBack ==
    /\ \A order \in Orders8 :
          /\ Parse(order, ToBytes(order, Number8)) = Number8
          /\ ParseFloat(order, Write(order, Pattern(9, 3, 8), Number8)) = Number8
          /\ Write(order, Pattern(9, 3, 8), Number8)[9] = Pattern(9, 3, 8)[9]
    /\ Cardinality({Parse(order, Number8) : order \in Orders8}) = 4
ASSUME BitsReadBack ==
    \A n \in 0..7 : \A k \in 1..4 :
        LET bytes == ShrinkBool(Pattern(n, k, 2), BitsPerByte)
        IN  SubSeq(ExpandBool(bytes, Len(bytes), BitsPerByte), 1, n) = Pattern(n, k, 2)
==============================================================================
