---------------------------- MODULE FrameReader ----------------------------
(***************************************************************************)
(* eup::FrameReader (src/frame.cpp): bytes are pushed one at a time, a     *)
(* delimiter closes the region gathered so far, and the region is decoded. *)
(* decode_region is the constant operator DecodeRegion, which maps a       *)
(* region to a record [status, frame]; module Framing says what it does.   *)
(***************************************************************************)
EXTENDS Naturals, Sequences

CONSTANTS
    Byte,             \* the values of a byte on the wire
    Delimiter,        \* kDelimiter, 0x00
    RegionCap,        \* kRegionCap, 255
    Frame,            \* what a decoded frame may be
    FrameStatus,      \* enum class FrameStatus
    InitialFrame,     \* the value-initialised Frame{}
    DecodeRegion(_)   \* decode_region

ASSUME FrameReaderAssumption ==
    /\ Delimiter \in Byte
    /\ RegionCap \in Nat \ {0}
    /\ InitialFrame \in Frame
    /\ {"Ok", "BufferTooSmall"} \subseteq FrameStatus
    /\ \A n \in 1 .. RegionCap : \A r \in [1 .. n -> Byte \ {Delimiter}] :
           /\ DecodeRegion(r).status \in FrameStatus
           /\ DecodeRegion(r).status = "Ok" => DecodeRegion(r).frame \in Frame

VARIABLES
    region,       \* region_[0 .. regionLen_ - 1]
    overflow,     \* overflow_
    frame,        \* frame_
    lastStatus,   \* lastStatus_
    event         \* what the latest push returned

readerVars == <<region, overflow, frame, lastStatus, event>>

Event == {"NeedMore", "FrameReady", "Error"}

Init ==
    /\ region = <<>>
    /\ overflow = FALSE
    /\ frame = InitialFrame
    /\ lastStatus = "Ok"
    /\ event = "NeedMore"

\* Mutant: one byte past the buffer.
AccumulateOffByOne(byte) ==
    /\ byte # Delimiter /\ Len(region) <= RegionCap
    /\ region' = Append(region, byte) /\ event' = "NeedMore"
    /\ UNCHANGED <<overflow, frame, lastStatus>>

Accumulate(byte) ==
    /\ byte # Delimiter
    /\ Len(region) < RegionCap
    /\ region' = Append(region, byte)
    /\ event' = "NeedMore"
    /\ UNCHANGED <<overflow, frame, lastStatus>>

\* The region is full: the byte is dropped and the frame is doomed.
Overflow(byte) ==
    /\ byte # Delimiter
    /\ Len(region) >= RegionCap
    /\ overflow' = TRUE
    /\ event' = "NeedMore"
    /\ UNCHANGED <<region, frame, lastStatus>>

\* A delimiter after a delimiter is just a boundary.
SkipEmpty(byte) ==
    /\ byte = Delimiter
    /\ region = <<>>
    /\ ~overflow
    /\ event' = "NeedMore"
    /\ UNCHANGED <<region, overflow, frame, lastStatus>>

\* Mutant: the overflow of one region is remembered in the next.
StayOverflowed == region' = <<>> /\ UNCHANGED overflow

\* What reset() does, and every delimiter that closes a region.
StartRegion ==
    /\ region' = <<>>
    /\ overflow' = FALSE

\* Mutant: the doomed region is kept.
CloseOverflowedKeepsRegion(byte) ==
    /\ byte = Delimiter /\ overflow /\ overflow' = FALSE
    /\ lastStatus' = "BufferTooSmall" /\ event' = "Error"
    /\ UNCHANGED <<region, frame>>

CloseOverflowed(byte) ==
    /\ byte = Delimiter
    /\ overflow
    /\ StartRegion
    /\ lastStatus' = "BufferTooSmall"
    /\ event' = "Error"
    /\ UNCHANGED frame

\* Mutant: a truncated region is decoded like any other.
CloseRegionAnyway(byte) ==
    /\ byte = Delimiter /\ region # <<>> /\ StartRegion
    /\ lastStatus' = DecodeRegion(region).status
    /\ \/ lastStatus' = "Ok" /\ event' = "FrameReady"
          /\ frame' = DecodeRegion(region).frame
       \/ lastStatus' # "Ok" /\ event' = "Error" /\ UNCHANGED frame

CloseRegion(byte) ==
    /\ byte = Delimiter
    /\ region # <<>>
    /\ ~overflow
    /\ StartRegion
    /\ lastStatus' = DecodeRegion(region).status
    /\ \/ /\ lastStatus' = "Ok"
          /\ event' = "FrameReady"
          /\ frame' = DecodeRegion(region).frame
       \/ /\ lastStatus' # "Ok"
          /\ event' = "Error"
          /\ UNCHANGED frame

\* FrameReader::push
Push(byte) ==
    \/ Accumulate(byte)
    \/ Overflow(byte)
    \/ SkipEmpty(byte)
    \/ CloseOverflowed(byte)
    \/ CloseRegion(byte)

\* FrameReader::reset
Reset ==
    /\ StartRegion
    /\ UNCHANGED <<frame, lastStatus, event>>

Next == Reset \/ \E byte \in Byte : Push(byte)

Spec == Init /\ [][Next]_readerVars

-----------------------------------------------------------------------------
(* The type of every variable: the region fits its buffer and holds no     *)
(* delimiter, which is what decode_region and cobs_decode take for granted *)
(* (frame.hpp line 84, "the bytes BETWEEN delimiters, with no 0x00").      *)
TypeOK ==
    /\ region \in Seq(Byte \ {Delimiter})
    /\ Len(region) <= RegionCap
    /\ overflow \in BOOLEAN
    /\ frame \in Frame
    /\ lastStatus \in FrameStatus
    /\ event \in Event

=============================================================================
