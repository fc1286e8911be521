------------------------------- MODULE XorChunk -------------------------------
(***************************************************************************)
(* pkg/tsdb/chunkenc: samples of a time and a value as a stream of bits.   *)
(* A time is written as the difference of its distance from the last one,  *)
(* in the smallest of three fields it fits; a value as the bits in which   *)
(* it differs from the last one, within a window of them that is used      *)
(* again while it fits.                                                    *)
(*                                                                         *)
(* A stream is a sequence of bits, in which a varint of encoding/binary is *)
(* one element; a value is the sequence of its bits, a time a number of    *)
(* TimeBits bits.  The widths are parameters: 64 and 64, the fields        *)
(* 14, 17, 20, the two of a window 5 and 6.  The count of samples in the   *)
(* header has 16 bits and does not reach its end.                          *)
(***************************************************************************)
EXTENDS Integers, Sequences, SequencesExt

CONSTANTS
    ValueBits, TimeBits,
    Fields,                     \* widths of a difference, the smallest first
    LeadingBits, SigBits        \* widths of the fields of a window

ASSUME XorAssumption ==
    /\ {LeadingBits, SigBits} \subseteq Nat
    /\ 2^SigBits = ValueBits /\ 2 * 2^LeadingBits = ValueBits
    /\ TimeBits \in Nat \ {0} /\ Fields \in Seq(Nat \ {0})
    /\ \A i \in DOMAIN Fields : Fields[i] < TimeBits

VARIABLES
    chunk,    \* the XORChunk, with its last appender
    series    \* the samples appended (history)

xorVars == <<chunk, series>>

Unset == ValueBits + 1          \* 0xff: no window was written yet

(* Of int64 and uint64: a number modulo their width, and its sign. *)
Unsigned(x) == x % 2^TimeBits
Signed(x) == IF Unsigned(x) >= 2^(TimeBits - 1) THEN Unsigned(x) - 2^TimeBits
                                                ELSE Unsigned(x)

-----------------------------------------------------------------------------
(* bstream: the low n bits of u, the high ones first. *)
writeBits(u, n) == [i \in 1..n |-> (u \div 2^(n - i)) % 2]

Number(bits) == FoldLeft(LAMBDA u, b : 2 * u + b, 0, bits)
Zeros(n) == [i \in 1..n |-> 0]
Differing(v, w) == [i \in 1..ValueBits |-> IF v[i] = w[i] THEN 0 ELSE 1]

(* The reader takes bits off the front of what is left. *)
readBits(stream, n) == SubSeq(stream, 1, n)
Rest(stream, n) == SubSeq(stream, n + 1, Len(stream))

-----------------------------------------------------------------------------
(* The chunk and the appender in one: c. *)
NewXORChunk ==
    [stream |-> << >>, num |-> 0, t |-> 0, v |-> Zeros(ValueBits), tDelta |-> 0,
     leading |-> Unset, trailing |-> 0]

(* Mutation: a field of n bits is taken for a two's complement. *)
TwosComplement(x, n) == -(2^(n - 1)) <= x /\ x < 2^(n - 1)
bitRange(x, n) == -(2^(n - 1) - 1) <= x /\ x <= 2^(n - 1)

(* The prefix of a field is as many ones as there are smaller fields, one
   more, and a zero; of no difference a zero; of a whole one only ones. *)
Ones(n) == [i \in 1..n |-> 1]
writeDod(dod) ==
    LET fit == {i \in DOMAIN Fields : bitRange(dod, Fields[i])}
        i == Min(fit)
    IN  IF dod = 0 THEN <<0>>
        ELSE IF fit = {} THEN Ones(Len(Fields) + 1) \o writeBits(Unsigned(dod), TimeBits)
        ELSE Ones(i) \o <<0>> \o writeBits(Unsigned(dod), Fields[i])

(* The bits of a new value; the window may be a new one. *)
writeVDelta(c, v) ==
    LET delta == Differing(v, c.v)
        set == {i \in 1..ValueBits : delta[i] = 1}
        most == 2^LeadingBits - 1
        leading == IF Min(set) - 1 > most THEN most ELSE Min(set) - 1
        trailing == ValueBits - Max(set)
        sigbits == ValueBits - leading - trailing
    IN  IF set = {} THEN [c EXCEPT !.stream = Append(@, 0)]
        ELSE IF c.leading # Unset /\ leading >= c.leading /\ trailing >= c.trailing
        THEN [c EXCEPT !.stream = @ \o <<1, 0>>
                          \o SubSeq(delta, c.leading + 1, ValueBits - c.trailing)]
        ELSE [c EXCEPT !.leading = leading, !.trailing = trailing,
                       !.stream = @ \o <<1, 1>> \o writeBits(leading, LeadingBits)
                          \o writeBits(sigbits, SigBits)
                          \o SubSeq(delta, leading + 1, ValueBits - trailing)]

AppendSample(c, s) ==
    LET tDelta == Unsigned(s.t - c.t)
        timed == [c EXCEPT !.stream = @ \o
                    IF c.num = 1 THEN <<tDelta>>
                                 ELSE writeDod(Signed(tDelta - c.tDelta))]
        written == IF c.num = 0 THEN [c EXCEPT !.stream = @ \o <<s.t>> \o s.v]
                                ELSE writeVDelta(timed, s.v)
    IN  [written EXCEPT !.t = s.t, !.v = s.v, !.num = @ + 1,
                        !.tDelta = IF c.num = 0 THEN 0 ELSE tDelta]

XorInit == chunk = NewXORChunk /\ series = << >>

-----------------------------------------------------------------------------
(* The iterator: what is left of the stream, and the sample it is at. *)
iterator(c) ==
    [stream |-> c.stream, numRead |-> 0, t |-> 0, v |-> Zeros(ValueBits),
     tDelta |-> 0, leading |-> 0, trailing |-> 0]

readValue(it) ==
    LET fresh == it.stream[2] = 1
        head == Rest(it.stream, 2)
        leading == IF fresh THEN Number(readBits(head, LeadingBits)) ELSE it.leading
        sig == Number(readBits(Rest(head, LeadingBits), SigBits))
        mbits == IF fresh /\ sig = 0 THEN ValueBits
                 ELSE IF fresh THEN sig
                 ELSE ValueBits - it.leading - it.trailing
        trailing == ValueBits - leading - mbits
        body == IF fresh THEN Rest(head, LeadingBits + SigBits) ELSE head
        delta == Zeros(leading) \o readBits(body, mbits) \o Zeros(trailing)
    IN  IF it.stream[1] = 0 THEN [it EXCEPT !.stream = Rest(@, 1), !.numRead = @ + 1]
        ELSE [it EXCEPT !.stream = Rest(body, mbits), !.numRead = @ + 1,
                        !.v = Differing(@, delta),
                        !.leading = leading, !.trailing = trailing]

(* d is the number of ones before the zero that ends a prefix. *)
readDod(it) ==
    LET d == Max({n \in 0..(Len(Fields) + 1) : IsPrefix(Ones(n), it.stream)})
        sz == IF d = 0 THEN 0 ELSE Fields[d]
        bits == Number(readBits(Rest(it.stream, d + 1), sz))
    IN  IF d = Len(Fields) + 1
        THEN [dod |-> Signed(Number(readBits(Rest(it.stream, d), TimeBits))),
              rest |-> Rest(it.stream, d + TimeBits)]
        ELSE [dod |-> IF sz # 0 /\ bits > 2^(sz - 1) THEN bits - 2^sz ELSE bits,
              rest |-> Rest(it.stream, d + 1 + sz)]

NextSample(it) ==
    LET tDelta == IF it.numRead = 1 THEN it.stream[1]
                                    ELSE Unsigned(it.tDelta + readDod(it).dod)
        rest == IF it.numRead = 1 THEN Rest(it.stream, 1) ELSE readDod(it).rest
    IN  IF it.numRead = 0
        THEN [it EXCEPT !.stream = Rest(@, 1 + ValueBits), !.numRead = 1,
                        !.t = it.stream[1], !.v = SubSeq(it.stream, 2, 1 + ValueBits)]
        ELSE readValue([it EXCEPT !.stream = rest, !.tDelta = tDelta,
                                  !.t = Unsigned(@ + tDelta)])

(* The samples of c, as far as its header counts them. *)
Iterators(c) ==
    LET its[n \in 0..c.num] == IF n = 0 THEN iterator(c) ELSE NextSample(its[n - 1])
    IN  its
Samples(c) == LET its == Iterators(c)
              IN  [n \in 1..c.num |-> [t |-> its[n].t, v |-> its[n].v]]

(* An appender on a chunk that is there goes on from where an iteration
   ends. *)
Appender(c) ==
    LET it == Iterators(c)[c.num]
    IN  [c EXCEPT !.t = it.t, !.v = it.v, !.tDelta = it.tDelta,
                  !.leading = IF c.num = 0 THEN Unset ELSE it.leading,
                  !.trailing = it.trailing]

-----------------------------------------------------------------------------
AppendToChunk(s) ==
    /\ chunk' = AppendSample(chunk, s)
    /\ series' = Append(series, s)

NewAppender == chunk' = Appender(chunk) /\ UNCHANGED series

(* A sample is a time and the bits of a float64, in no order of times. *)
XorSample == [t : 0..(2^TimeBits - 1), v : [1..ValueBits -> {0, 1}]]

XorSpec == XorInit /\ [][NewAppender \/ \E s \in XorSample : AppendToChunk(s)]_xorVars

(* An iteration gives every sample that was appended, and no other, after
   any appends at the ends of the fields and windows and whenever a new
   Appender took over: one that starts on a chunk of one sample writes
   another window than the old one would. *)
XorReadsBack == Samples(chunk) = series
===============================================================================
