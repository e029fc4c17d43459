--------------------------- MODULE FrameSplitter ---------------------------
(***************************************************************************)
(* What a FrameReader promises, without its buffer: the wire is cut at     *)
(* every delimiter, and each non-empty piece is decoded as a whole, or     *)
(* refused as a whole when it is longer than Limit bytes.  The piece is of *)
(* unbounded length here: there is no buffer, no flag and nothing that one *)
(* piece could leave behind for the next.                                  *)
(***************************************************************************)
EXTENDS Naturals, Sequences

CONSTANTS Byte, Delimiter, Limit, InitialFrame, DecodeRegion(_)

VARIABLES
    piece,        \* the bytes since the latest delimiter
    frame,        \* the latest good frame
    lastStatus,   \* why the latest closed piece was accepted or refused
    event         \* what the latest byte brought about

splitterVars == <<piece, frame, lastStatus, event>>

Init ==
    /\ piece = <<>>
    /\ frame = InitialFrame
    /\ lastStatus = "Ok"
    /\ event = "NeedMore"

Gather(byte) ==
    /\ byte # Delimiter
    /\ piece' = Append(piece, byte)
    /\ event' = "NeedMore"
    /\ UNCHANGED <<frame, lastStatus>>

Boundary ==
    /\ piece = <<>>
    /\ event' = "NeedMore"
    /\ UNCHANGED <<piece, frame, lastStatus>>

Verdict(p) == IF Len(p) > Limit THEN "BufferTooSmall" ELSE DecodeRegion(p).status

Accept ==
    /\ piece # <<>>
    /\ Verdict(piece) = "Ok"
    /\ frame' = DecodeRegion(piece).frame
    /\ lastStatus' = "Ok"
    /\ event' = "FrameReady"
    /\ piece' = <<>>

Refuse ==
    /\ piece # <<>>
    /\ Verdict(piece) # "Ok"
    /\ lastStatus' = Verdict(piece)
    /\ event' = "Error"
    /\ piece' = <<>>
    /\ UNCHANGED frame

Forget ==
    /\ piece' = <<>>
    /\ UNCHANGED <<frame, lastStatus, event>>

Next ==
    \/ \E byte \in Byte : Gather(byte)
    \/ Boundary
    \/ Accept
    \/ Refuse
    \/ Forget

Spec == Init /\ [][Next]_splitterVars

=============================================================================
