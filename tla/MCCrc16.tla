------------------------------ MODULE MCCrc16 ------------------------------
EXTENDS Crc16

\* The bytes of "123", 0x31 to 0x33, and a message of the least length a raw
\* block has in front of its CRC.
Digits == [n \in 1 .. 3 |-> {4, 5} \cup {k \in 0 .. 1 : (n \div 2^k) % 2 = 1}]
MCMessages == {Digits, <<{0, 7}, 0 .. 5>>}

\* In the raw block of the shorter message, 32 bits long with the boundary in
\* the middle: every error in the message, every error in the field, and every
\* error within 12 bits that the boundary crosses.
MCErrors ==
    UNION ({SUBSET (first .. first + 11) : first \in 5 .. 15}
           \cup {SUBSET (0 .. 15), SUBSET (16 .. 31)})

=============================================================================
