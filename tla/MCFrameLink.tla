---------------------------- MODULE MCFrameLink ----------------------------
EXTENDS FrameLink

\* Frames of one byte up to the whole buffer; any two that merge overflow it
\* or come close.
MCFrameLength == <<2, 3, 1, 2>>
MCRegionCap == 3
MCMaxFaults == 3

=============================================================================
