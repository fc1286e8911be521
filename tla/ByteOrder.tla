------------------------------ MODULE ByteOrder ------------------------------
(***************************************************************************)
(* pkg/utils/binutil/bytes.go: how a number is laid out in a buffer.       *)
(* A number of n bytes is the sequence of its bytes, the most significant  *)
(* first; a float is its bits.  An order says, for each byte of the        *)
(* number, which place of the buffer holds it.  The file writes out each   *)
(* order for 16, 32 and 64 bits, for reading, for making a buffer and for  *)
(* writing into one.                                                       *)
(***************************************************************************)
EXTENDS Integers, Sequences, SequencesExt

(* ABCD EFGH *)
BigEndian(n) == [k \in 1..n |-> k]

(* HGFE DCBA *)
LittleEndian(n) == [k \in 1..n |-> n + 1 - k]

(* The bytes of each pair change places: BADC FEHG from ABCD EFGH, and
   GHEF CDAB from HGFE DCBA. *)
ByteSwap(order) ==
    [k \in DOMAIN order |-> IF order[k] % 2 = 1 THEN order[k] + 1
                                                ELSE order[k] - 1]

(* ParseUint16*, ParseUint32*, ParseUint64*: the number a buffer begins
   with. *)
Parse(order, buf) == [k \in DOMAIN order |-> buf[order[k]]]

(* ParseFloat32*, ParseFloat64*: the number of the same bits. *)
ParseFloat(order, buf) == Parse(order, buf)

(* Uint16ToBytes* to Float64ToBytes*: a buffer that holds the number. *)
ToBytes(order, number) ==
    [i \in DOMAIN order |-> number[CHOOSE k \in DOMAIN order : order[k] = i]]

(* WriteUint16* to WriteFloat64*: the number put over the beginning of a
   buffer; what follows stays. *)
Write(order, buf, number) ==
    [i \in DOMAIN buf |-> IF i \in DOMAIN order THEN ToBytes(order, number)[i]
                                                ELSE buf[i]]

(* Bits into bytes, perByte to a byte, the first the lowest. *)
ShrinkBool(bits, perByte) ==
    [b \in 1..((Len(bits) + perByte - 1) \div perByte) |->
        LET Bit(i) == IF (b - 1) * perByte + i <= Len(bits)
                      THEN bits[(b - 1) * perByte + i] ELSE 0
        IN  FoldLeft(LAMBDA sum, i : sum + Bit(i) * 2 ^ (i - 1), 0,
                     [i \in 1..perByte |-> i])]

(* Bytes into bits; no more than count bytes. *)
ExpandBool(bytes, count, perByte) ==
    LET n == IF count > Len(bytes) THEN Len(bytes) ELSE count
    IN  [i \in 1..(n * perByte) |->
            (bytes[((i - 1) \div perByte) + 1] \div 2 ^ ((i - 1) % perByte)) % 2]
==============================================================================
