-------------------------- MODULE MCFrameRoundTrip --------------------------
EXTENDS FrameRoundTrip

\* The proportions of the code: the largest raw block is one byte short of
\* MaxByte, so that it is one full block when it holds no zero.
MCMaxByte == 7
MCMaxPayload == 2

Reference == INSTANCE Cobs WITH MaxCode <- MCMaxByte

MCCobsEncode(block) == Reference!Encoding(block)
MCCobsDecode(r) ==
    IF Reference!Decodable(r)
    THEN [ok |-> TRUE, block |-> Reference!Decoding(r)]
    ELSE [ok |-> FALSE, block |-> <<>>]

\* A checksum over the position and value of every byte.
MCCrc(block) ==
    FoldLeft(LAMBDA acc, b : (acc * 5 + b + 3) % 64, 41, block)

MCTypes == {0, 1, 7}
MCPayloadBytes == {0, 2, 7}
MCLongPayloads == {[k \in 1 .. n |-> 2] : n \in {8, 10, 13}}
MCOutCaps == {0, 1, 5, 6, 7, 8, 9}
MCMaxDamage == 2
MCEarlier == [type |-> 3, payload |-> <<7, 7>>]

=============================================================================
