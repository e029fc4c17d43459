------------------------------ MODULE Streams ------------------------------
(***************************************************************************)
(* Stream packets (include/eup/stream.hpp): opcode, a 32-bit counter and   *)
(* the fields of a contract [opcode, fields].                              *)
(***************************************************************************)
EXTENDS Codec

CounterType == UintOf(4)
StreamHeaderSize == 1 + CounterType.width

\* StreamWriter::write up to encode_frame: the payload.
WriteStream(def, counter, fields) ==
    LET opcode == Encoded(<<def.opcode>>)
        header == EncodeOnto(opcode, Encode(CounterType, counter, MaxPayload - 1))
        all == EncodeOnto(header, EncodeTuple(def.fields, fields, MaxPayload - Len(header.bytes)))
    IN  IF all.ok THEN Encoded(Narrow(all.bytes)) ELSE NoBytes

NotGiven == [given |-> FALSE]

\* Mutant: the fields are looked for where the counter is.
StreamThunkNoOffset(def, body) ==
    LET counter == Decode(CounterType, body)
        fields == DecodeTuple(def.fields, SubSeq(body, 1, Len(body) - counter.used))
    IN  IF counter.ok /\ fields.ok
        THEN [given |-> TRUE, opcode |-> def.opcode, counter |-> counter.value,
              fields |-> fields.value]
        ELSE NotGiven

\* stream_thunk: what the handler is called with, if it is called.
StreamThunk(def, body) ==
    LET counter == Decode(CounterType, body)
        fields == DecodeTuple(def.fields, SubSeq(body, counter.used + 1, Len(body)))
    IN  IF counter.ok /\ fields.ok
        THEN [given |-> TRUE, opcode |-> def.opcode, counter |-> counter.value,
              fields |-> fields.value]
        ELSE NotGiven

\* dispatch_stream: the first entry of the table with the packet's opcode.
DispatchStream(table, payload) ==
    LET entry == SelectInSeq(table, LAMBDA def : def.opcode = Head(payload))
    IN  IF payload = <<>> \/ entry = 0 THEN NotGiven
        ELSE StreamThunk(table[entry], Tail(payload))

=============================================================================
