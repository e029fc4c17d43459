----------------------------- MODULE FrameLink -----------------------------
(***************************************************************************)
(* A sender of frames, a serial line with faults, and the FrameReader at   *)
(* its other end.  The line may drop, corrupt or insert bytes, and the     *)
(* receiver may restart, at most MaxFaults times together.                 *)
(*                                                                         *)
(* Frame f is sent as the FrameLength[f] bytes <<f, 1>>, <<f, 2>>, ... and *)
(* a delimiter, as encode_frame lays it out.  A region decodes if and only *)
(* if it is the whole of one frame.  That is an idealisation: the CRC has  *)
(* 16 bits, and some damage passes it (module Crc16 says which cannot).    *)
(***************************************************************************)
EXTENDS Naturals, Sequences, FiniteSets

CONSTANTS
    FrameLength,        \* the lengths of the frames' regions, in order
    RegionCap,          \* kRegionCap
    MaxFaults,          \* bound on the faults of one behaviour
    Delimiter, Junk,    \* 0x00, and a byte that belongs to no frame
    NoFrame             \* the reader's frame before the first one

Frames == 1 .. Len(FrameLength)
DataByte == {<<f, k>> : f \in Frames, k \in 1 .. RegionCap}
Byte == DataByte \cup {Delimiter, Junk}

ASSUME FrameLinkAssumption ==
    /\ FrameLength \in Seq(1 .. RegionCap)
    /\ RegionCap \in Nat /\ MaxFaults \in Nat
    /\ Delimiter # Junk /\ {Delimiter, Junk} \cap DataByte = {}

VARIABLES
    region, overflow, frame, lastStatus, event,   \* the reader's
    current, position,    \* the frame being sent and its next byte
    delivered,            \* the frames the receiver was given, in order
    errors, faults,       \* how many Error events and faults there were
    splits,               \* of the faults, how many were a made-up delimiter
    damaged,              \* frames that a fault may have cost
    garbled,              \* frames with a fault between their first and last byte
    unclosed              \* frames whose delimiter did not arrive

readerVars == <<region, overflow, frame, lastStatus, event>>
senderVars == <<current, position>>
historyVars == <<faults, splits, damaged, garbled, unclosed>>
vars == <<readerVars, senderVars, delivered, errors, historyVars>>

RegionOf(f) == [k \in 1 .. FrameLength[f] |-> <<f, k>>]

DecodeRegion(r) ==
    IF \E f \in Frames : r = RegionOf(f)
    THEN [status |-> "Ok", frame |-> r[1][1]]
    ELSE [status |-> "CrcMismatch", frame |-> NoFrame]

Reader == INSTANCE FrameReader WITH
    Frame <- Frames \cup {NoFrame},
    FrameStatus <- {"Ok", "BufferTooSmall", "CrcMismatch"},
    InitialFrame <- NoFrame

Init ==
    /\ Reader!Init
    /\ current = 1 /\ position = 1
    /\ delivered = <<>> /\ errors = 0
    /\ faults = 0 /\ splits = 0 /\ damaged = {} /\ garbled = {} /\ unclosed = {}

Sending == current \in Frames
AtDelimiter == position > FrameLength[current]
NextByte == IF AtDelimiter THEN Delimiter ELSE <<current, position>>

Advance ==
    IF AtDelimiter THEN current' = current + 1 /\ position' = 1
                   ELSE position' = position + 1 /\ UNCHANGED current

\* The receiver pushes a byte and takes the frame when there is one.
Receive(byte) ==
    /\ Reader!Push(byte)
    /\ delivered' = IF event' = "FrameReady" THEN Append(delivered, frame') ELSE delivered
    /\ errors' = IF event' = "Error" THEN errors + 1 ELSE errors

ReceiveNothing == UNCHANGED <<readerVars, delivered, errors>>

Delivered == {delivered[n] : n \in 1 .. Len(delivered)}

\* A fault: when hit it may cost the current frame, when inside it must
\* (unless an inserted delimiter closed the frame's region before).
Fault(hit, inside) ==
    /\ faults < MaxFaults
    /\ faults' = faults + 1
    /\ damaged' = IF hit THEN damaged \cup {current} ELSE damaged
    /\ garbled' = IF inside /\ current \notin Delivered THEN garbled \cup {current} ELSE garbled

Split(byte) == splits' = IF byte = Delimiter THEN splits + 1 ELSE splits

MarkUnclosed == unclosed' = IF AtDelimiter THEN unclosed \cup {current} ELSE unclosed

Transmit ==
    /\ Sending
    /\ Receive(NextByte)
    /\ Advance
    /\ UNCHANGED historyVars

Drop ==
    /\ Sending
    /\ Fault(TRUE, ~AtDelimiter)
    /\ MarkUnclosed
    /\ Advance
    /\ ReceiveNothing
    /\ UNCHANGED splits

Corrupt ==
    /\ Sending
    /\ Fault(TRUE, ~AtDelimiter)
    /\ MarkUnclosed
    /\ \E byte \in {Delimiter, Junk} \ {NextByte} : Receive(byte) /\ Split(byte)
    /\ Advance

\* Delimiters inserted at the ends of a region do no damage.
Insert ==
    /\ Sending
    /\ \/ Receive(Delimiter) /\ Split(Delimiter) /\ Fault(position > 1, position > 1 /\ ~AtDelimiter)
       \/ Receive(Junk) /\ Split(Junk) /\ Fault(TRUE, position > 1)
    /\ UNCHANGED <<senderVars, unclosed>>

\* The receiver starts over with an empty reader, at any point of the stream.
Restart ==
    /\ Sending
    /\ Fault(position > 1, position > 1)
    /\ Reader!Reset
    /\ UNCHANGED <<senderVars, splits, unclosed, delivered, errors>>

Next == Transmit \/ Drop \/ Corrupt \/ Insert \/ Restart

Spec == Init /\ [][Next]_vars

-----------------------------------------------------------------------------
(* Whatever the line does, the frames delivered are frames that were sent, *)
(* in the order they were sent, none twice, and none that was damaged on   *)
(* the way: in particular not one that was followed by noise and then cut  *)
(* to its own length by the full region buffer.                            *)
DeliveredAsSent ==
    /\ \A m, n \in 1 .. Len(delivered) : m < n => delivered[m] < delivered[n]
    /\ Delivered \cap garbled = {}

(* The reader resynchronises at the first delimiter: a frame that was sent *)
(* to its end is lost only if a fault hit its own bytes or the delimiter   *)
(* of the frame before it.  A fault never costs a later frame.             *)
OnlyDamagedFramesLost ==
    \A f \in Frames : f < current /\ f \notin Delivered
        => f \in damaged \/ f - 1 \in unclosed

(* A lost byte, a corrupted one, noise or a restart causes at most one     *)
(* Error event, however much piles up before the next delimiter and        *)
(* whatever the reader was in the middle of; only a delimiter the line     *)
(* made up, which cuts one region into two, may cause a second.            *)
ErrorsBounded == errors <= faults + splits

=============================================================================
