------------------------------- MODULE Codec -------------------------------
(***************************************************************************)
(* The field codecs of include/eup/codec.hpp: little-endian integers,      *)
(* two's complement, floats by their bits, bool, enums, length-prefixed    *)
(* spans, and tuples of them.  Radix is the number of values of a byte.    *)
(*                                                                         *)
(* A float and an enum are the unsigned integer of their bits; every bit   *)
(* pattern is a value of theirs.  A span is the sequence of its elements.  *)
(***************************************************************************)
EXTENDS Integers, Sequences, SequencesExt

CONSTANTS Radix, MaxPayload

\* The types that have a codec.
UintOf(w) == [kind |-> "uint", width |-> w]
IntOf(w) == [kind |-> "int", width |-> w]
FloatOf(w) == [kind |-> "float", width |-> w]
EnumOf(w) == [kind |-> "enum", width |-> w]
Bool == [kind |-> "bool", width |-> 1]
SpanOf(elem, n) == [kind |-> "span", elem |-> elem, capacity |-> n]
StringOf(n) == SpanOf(UintOf(1), n)

\* kMaxSize
MaxSize(type) ==
    IF type.kind = "span" THEN 1 + type.capacity * type.elem.width ELSE type.width

TupleMaxSize(types) == FoldLeft(LAMBDA size, type : size + MaxSize(type), 0, types)

Encoded(bytes) == [ok |-> TRUE, bytes |-> bytes]
NoBytes == [ok |-> FALSE, bytes |-> <<>>]
Decoded(value, used) == [ok |-> TRUE, value |-> value, used |-> used]
NoValue == [ok |-> FALSE, value |-> <<>>, used |-> 0]

\* What encode_frame is given of a payload, its length cast to a byte.
Narrow(payload) == SubSeq(payload, 1, Len(payload) % Radix)

-----------------------------------------------------------------------------
\* UintCodec
EncodeUint(v, w, cap) ==
    IF cap < w THEN NoBytes
    ELSE Encoded([i \in 1 .. w |-> (v \div Radix ^ (i - 1)) % Radix])

DecodeUint(in, w) ==
    IF Len(in) < w THEN NoValue
    ELSE Decoded(FoldLeftDomain(LAMBDA v, i : v + in[i] * Radix ^ (i - 1),
                                0, SubSeq(in, 1, w)), w)

\* The unsigned integer that travels for a scalar, and back.
Bits(type, v) ==
    IF type.kind = "bool" THEN IF v THEN 1 ELSE 0
    ELSE IF type.kind = "int" THEN v % Radix ^ type.width
    ELSE v

\* Mutant: the sign is lost.
FromBitsUnsigned(type, bits) == IF type.kind = "bool" THEN bits # 0 ELSE bits

FromBits(type, bits) ==
    IF type.kind = "bool" THEN bits # 0
    ELSE IF type.kind = "int" /\ 2 * bits >= Radix ^ type.width THEN bits - Radix ^ type.width
    ELSE bits

EncodeScalar(type, v, cap) == EncodeUint(Bits(type, v), type.width, cap)

DecodeScalar(type, in) ==
    LET raw == DecodeUint(in, type.width)
    IN  IF raw.ok THEN Decoded(FromBits(type, raw.value), raw.used) ELSE NoValue

-----------------------------------------------------------------------------
\* encode_one and decode_one: one value more, or failure for good.
EncodeOnto(done, one) ==
    IF done.ok /\ one.ok THEN Encoded(done.bytes \o one.bytes) ELSE NoBytes

DecodeOnto(done, one) ==
    IF done.ok /\ one.ok THEN Decoded(Append(done.value, one.value), done.used + one.used)
    ELSE NoValue

\* The codec Enc or Dec of each type in turn.
EncodeEach(Enc(_, _, _), types, values, cap, prefix) ==
    FoldLeftDomain(
        LAMBDA done, i : EncodeOnto(done, Enc(types[i], values[i], cap - Len(done.bytes))),
        Encoded(prefix), types)

DecodeEach(Dec(_, _), types, in) ==
    FoldLeft(LAMBDA done, type : DecodeOnto(done, Dec(type, SubSeq(in, done.used + 1, Len(in)))),
             Decoded(<<>>, 0), types)

Elements(type, n) == [i \in 1 .. n |-> type.elem]

\* The count is cast to a byte.
EncodeSpan(type, s, cap) ==
    IF cap < 1 THEN NoBytes
    ELSE EncodeEach(EncodeScalar, Elements(type, Len(s)), s, cap, <<Len(s) % Radix>>)

\* Mutant: the count is not compared with the capacity.
DecodeSpanUnbounded(type, in) ==
    IF Len(in) < 1 THEN NoValue
    ELSE LET elements == DecodeEach(DecodeScalar, Elements(type, in[1]), Tail(in))
         IN  IF elements.ok THEN Decoded(elements.value, 1 + elements.used) ELSE NoValue

DecodeSpan(type, in) ==
    IF Len(in) < 1 \/ in[1] > type.capacity THEN NoValue
    ELSE LET elements == DecodeEach(DecodeScalar, Elements(type, in[1]), Tail(in))
         IN  IF elements.ok THEN Decoded(elements.value, 1 + elements.used) ELSE NoValue

Encode(type, v, cap) ==
    IF type.kind = "span" THEN EncodeSpan(type, v, cap) ELSE EncodeScalar(type, v, cap)

Decode(type, in) ==
    IF type.kind = "span" THEN DecodeSpan(type, in) ELSE DecodeScalar(type, in)

EncodeTuple(types, values, cap) == EncodeEach(Encode, types, values, cap, <<>>)

\* Mutant: bytes may be left over.
DecodeTupleLoose(types, in) == DecodeEach(Decode, types, in)

\* decode_tuple: the input must be consumed exactly.
DecodeTuple(types, in) ==
    LET all == DecodeEach(Decode, types, in)
    IN  IF all.used = Len(in) THEN all ELSE NoValue

-----------------------------------------------------------------------------
\* InlineArray::push_back, for a capacity of n.
PushBack(s, v, n) == IF Len(s) >= n THEN s ELSE Append(s, v)

\* make_string: what of a C string, without its NUL, fits.
MakeString(n, chars) == SubSeq(chars, 1, IF Len(chars) < n THEN Len(chars) ELSE n)

=============================================================================
