CONSTANTS
    MaxByte <- MCMaxByte
    MaxPayload <- MCMaxPayload
    CobsEncode <- MCCobsEncode
    CobsDecode <- MCCobsDecode
    Crc <- MCCrc
    Types <- MCTypes
    PayloadBytes <- MCPayloadBytes
    LongPayloads <- MCLongPayloads
    OutCaps <- MCOutCaps
    MaxDamage <- MCMaxDamage
    Earlier <- MCEarlier
SPECIFICATION Spec
INVARIANTS
    PacketWellFormed
    RoundTrip
    AcceptsOnlyEncodings
CHECK_DEADLOCK FALSE
