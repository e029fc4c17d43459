------------------------------ MODULE Loopback ------------------------------
(***************************************************************************)
(* The two ends in one process, as in examples/rgb_led_adc: call           *)
(* (include/eup/host.hpp) over SerialLink (main.cpp), which hands a packet *)
(* to device_handle_packet (device.cpp) and keeps its reply; and telemetry *)
(* from the device to the host's stream handlers.  Packets and stream      *)
(* frames of other origin reach both ends too: several frames at once,     *)
(* damaged ones, ones of other types, and payloads that no contract made.  *)
(*                                                                         *)
(* A packet is the sequence of the frames a FrameReader makes of its bytes,*)
(* Garbage for a region it refuses; module FrameRoundTrip shows that an    *)
(* undamaged frame is read as it was written.                              *)
(***************************************************************************)
EXTENDS Streams

CONSTANTS
    Contracts,       \* for each command, the types of its arguments and results
    Run(_, _, _),    \* the handlers
    InitialDevice,   \* the device's first state
    Arguments,       \* for each command, the argument tuples it is called with
    StreamContract, StreamFields(_),   \* the contract, and the fields by counter
    Counters,        \* the counters the device passes to device_emit_telemetry
    StreamTable,     \* the host's stream contracts
    Packets,         \* packets of other origin
    StreamPayloads,  \* payloads of Stream frames of other origin
    MaxSteps, MaxForeign   \* bounds

\* The static_asserts of command and call, stream and InlineArray.
ASSUME BudgetAssumption ==
    /\ \A op \in DOMAIN Contracts :
          /\ TupleMaxSize(Contracts[op].args) <= MaxPayload - 1
          /\ TupleMaxSize(Contracts[op].rets) <= MaxPayload - 1
    /\ \A n \in 1 .. Len(StreamTable) :
          StreamHeaderSize + TupleMaxSize(StreamTable[n].fields) <= MaxPayload
    /\ \A op \in DOMAIN Contracts : \A type \in ToSet(Contracts[op].args \o Contracts[op].rets) :
          type.kind = "span" => type.capacity < Radix
    /\ MaxPayload < Radix

VARIABLES
    device,           \* the static variables of the firmware
    steps, foreign,   \* how many steps there were, how many of other origin
    calls,            \* how often call was used
    result,           \* what the latest step returned, if it was a call,
    handled,          \* what it did, if it was a packet of other origin,
    pushed            \* and if it was a stream packet

vars == <<device, steps, foreign, calls, result, handled, pushed>>

Garbage == [type |-> "garbage", payload |-> <<>>]
NoReply == <<>>
CommandFrame(payload) == [type |-> "Command", payload |-> payload]

NoResult == [command |-> "none", status |-> "Ok", rets |-> <<>>]
NothingHandled == [packet |-> <<>>, reply |-> NoReply, ran |-> <<>>]
NothingPushed == [payload |-> <<>>, fields |-> <<>>, delivery |-> NotGiven]

\* Run, on a state that also records what ran.
Observed(op, args, s) ==
    LET ran == Run(op, args, s.device)
    IN  [ran EXCEPT !.state = [device |-> ran.state,
                               ran |-> Append(s.ran, [op |-> op, args |-> args])]]

Commands == INSTANCE Dispatch WITH
    Table <- DOMAIN Contracts,
    DecodeArgs <- LAMBDA op, bytes : DecodeTuple(Contracts[op].args, bytes),
    EncodeRets <- LAMBDA op, rets, cap : EncodeTuple(Contracts[op].rets, rets, cap),
    DecodeRets <- LAMBDA op, bytes : DecodeTuple(Contracts[op].rets, bytes),
    Run <- Observed,
    LengthValues <- Radix

Init ==
    /\ device = InitialDevice
    /\ steps = 0 /\ foreign = 0 /\ calls = 0
    /\ result = NoResult /\ handled = NothingHandled /\ pushed = NothingPushed

-----------------------------------------------------------------------------
OwnStep == steps < MaxSteps /\ steps' = steps + 1 /\ UNCHANGED foreign
ForeignStep ==
    /\ steps < MaxSteps /\ foreign < MaxForeign
    /\ steps' = steps + 1 /\ foreign' = foreign + 1

Good(packet) == SelectSeq(packet, LAMBDA frame : frame # Garbage)

\* Mutant: the type of the frame is not looked at.
DeviceHandlePacketAnyType(packet, s) ==
    LET good == Good(packet)
    IN  IF good = <<>> THEN [payload |-> NoReply, state |-> s]
        ELSE Commands!DispatchCommand(Last(good).payload, s, MaxPayload)

\* Mutant: a packet's first good frame is taken.
DeviceHandlePacketFirst(packet, s) ==
    LET good == Good(packet)
    IN  IF good = <<>> \/ Last(good).type # "Command" THEN [payload |-> NoReply, state |-> s]
        ELSE Commands!DispatchCommand(Head(good).payload, s, MaxPayload)

\* device_handle_packet: the last good frame of the packet is dispatched.
DeviceHandlePacket(packet, s) ==
    LET good == Good(packet)
    IN  IF good = <<>> \/ Last(good).type # "Command" THEN [payload |-> NoReply, state |-> s]
        ELSE Commands!DispatchCommand(Last(good).payload, s, MaxPayload)

\* call over SerialLink: send_command has the packet handled, await_reply
\* returns its reply.
Call(op, args) ==
    LET encoded == EncodeTuple(Contracts[op].args, args, MaxPayload - 1)
        done == DeviceHandlePacket(<<CommandFrame(Narrow(<<op>> \o encoded.bytes))>>,
                                   [device |-> device, ran |-> <<>>])
        parsed == IF done.payload = NoReply THEN [status |-> "TransportError", rets |-> <<>>]
                  ELSE Commands!ParseReply(op, done.payload)
    IN  /\ OwnStep
        /\ calls' = calls + 1
        /\ device' = done.state.device
        /\ result' = [command |-> op, status |-> parsed.status, rets |-> parsed.rets]
        /\ handled' = NothingHandled /\ pushed' = NothingPushed

\* A packet of other origin.
HandlePacket(packet) ==
    LET done == DeviceHandlePacket(packet, [device |-> device, ran |-> <<>>])
    IN  /\ ForeignStep
        /\ device' = done.state.device
        /\ handled' = [packet |-> packet, reply |-> done.payload, ran |-> done.state.ran]
        /\ result' = NoResult /\ pushed' = NothingPushed
        /\ UNCHANGED calls

\* device_emit_telemetry, and dispatch_stream on the host.
EmitTelemetry(counter) ==
    LET fields == StreamFields(counter)
        written == WriteStream(StreamContract, counter, fields)
    IN  /\ OwnStep
        /\ pushed' = [payload |-> written.bytes, fields |-> <<counter>> \o fields,
                      delivery |-> DispatchStream(StreamTable, written.bytes)]
        /\ result' = NoResult /\ handled' = NothingHandled
        /\ UNCHANGED <<device, calls>>

\* A Stream frame of other origin.
ReceiveStream(payload) ==
    /\ ForeignStep
    /\ pushed' = [payload |-> payload, fields |-> <<>>,
                  delivery |-> DispatchStream(StreamTable, payload)]
    /\ result' = NoResult /\ handled' = NothingHandled
    /\ UNCHANGED <<device, calls>>

Next ==
    \/ \E op \in DOMAIN Contracts : \E args \in Arguments[op] : Call(op, args)
    \/ \E packet \in Packets : HandlePacket(packet)
    \/ \E counter \in Counters : EmitTelemetry(counter)
    \/ \E payload \in StreamPayloads : ReceiveStream(payload)

Spec == Init /\ [][Next]_vars

-----------------------------------------------------------------------------
Local == INSTANCE LocalCalls

(* A call is the handler itself: the arguments reach it as they were       *)
(* given, its results come back as it returned them, whatever of their     *)
(* types they are, and no budget or narrowing between the two ends gets in *)
(* the way.  In particular, when both ends share the contract, no call     *)
(* returns BadArguments that the handler did not return.                   *)
RefinesLocalCalls == Local!Spec

HasType(type, v) ==
    LET span == type.kind = "span"
        elem == IF span THEN type.elem ELSE type
        Half == Radix ^ elem.width \div 2
        scalar(x) == IF elem.kind = "bool" THEN x \in BOOLEAN
                     ELSE IF elem.kind = "int" THEN x \in -Half .. Half - 1
                     ELSE x \in 0 .. Radix ^ elem.width - 1
    IN  IF span THEN Len(v) <= type.capacity /\ \A i \in 1 .. Len(v) : scalar(v[i])
        ELSE scalar(v)

SameBytes(types) == \A n \in 1 .. Len(types) : types[n].kind # "bool"

(* A handler runs for the last good frame of a packet and no other, at     *)
(* most once, and only on arguments of its types whose encoding that       *)
(* Command carries, all of it and nothing more (any byte but 0 is true).   *)
RunsOnlyEncodings ==
    LET good == Good(handled.packet)
    IN  handled.ran # <<>> =>
            LET run == handled.ran[1]
                types == Contracts[run.op].args
                encoded == EncodeTuple(types, run.args, MaxPayload - 1)
                sent == Last(good).payload
            IN  /\ Len(handled.ran) = 1
                /\ \A n \in 1 .. Len(types) : HasType(types[n], run.args[n])
                /\ Last(good).type = "Command" /\ sent # <<>> /\ Head(sent) = run.op
                /\ encoded.ok /\ Len(encoded.bytes) = Len(Tail(sent))
                /\ SameBytes(types) => encoded.bytes = Tail(sent)
                /\ DecodeTuple(types, encoded.bytes).value = run.args

(* The device answers a packet that ends with a Command exactly once,      *)
(* whatever the Command carries, and says truly whether a handler ran: not *)
(* if the status is UnknownCommand or BadArguments, and its results are    *)
(* complete in every other reply.                                          *)
AnswersTruly ==
    LET good == Good(handled.packet)
        reply == handled.reply
    IN  /\ reply # NoReply <=> good # <<>> /\ Last(good).type = "Command"
        /\ reply # NoReply =>
              /\ handled.ran = <<>> <=> Head(reply) \in {"UnknownCommand", "BadArguments"}
              /\ Len(reply) <= MaxPayload
              /\ handled.ran # <<>> =>
                    DecodeTuple(Contracts[handled.ran[1].op].rets, Tail(reply)).ok

(* The telemetry handler is called with the counter and the fields that    *)
(* were written, for every counter; and no handler is called for a Stream  *)
(* frame that is not, byte for byte, the encoding of what it is given.     *)
StreamsGivenAsWritten ==
    LET delivery == pushed.delivery
    IN  /\ pushed.fields # <<>> =>
              delivery.given /\ <<delivery.counter>> \o delivery.fields = pushed.fields
        /\ delivery.given =>
              \E n \in 1 .. Len(StreamTable) :
                  /\ StreamTable[n].opcode = delivery.opcode
                  /\ WriteStream(StreamTable[n], delivery.counter, delivery.fields)
                         = Encoded(pushed.payload)

=============================================================================
