-------------------------------- MODULE Cobs --------------------------------
(***************************************************************************)
(* Consistent Overhead Byte Stuffing as a definition: what cobs_encode and *)
(* cobs_decode compute, said without buffers, indices and loops.  The      *)
(* machines of CobsEncode and CobsDecode are checked against it, and the   *)
(* framing layer is built on it.                                           *)
(***************************************************************************)
EXTENDS Integers, Sequences

CONSTANT MaxCode   \* 0xFF in the code

\* The number of non-zero bytes of s after position k, at most a full block.
RunLength(s, k) ==
    CHOOSE n \in 0 .. MaxCode - 1 :
        /\ k + n <= Len(s)
        /\ \A j \in 1 .. n : s[k + j] # 0
        /\ n = MaxCode - 1 \/ k + n = Len(s) \/ s[k + n + 1] = 0

\* One block per run: its length plus one, then the run.  A zero ends the run
\* of a block that is not full, and is left out.
Encoding(s) ==
    LET from[k \in 0 .. Len(s)] ==
            LET n == RunLength(s, k)
                next == IF n = MaxCode - 1 THEN k + n ELSE k + n + 1
            IN  <<n + 1>> \o SubSeq(s, k + 1, k + n)
                    \o (IF k + n = Len(s) THEN <<>> ELSE from[next])
    IN  from[0]

\* The positions of the code bytes of r, if r is a sequence of whole blocks.
IsCodePosition(r, P) ==
    /\ 1 \in P
    /\ \A p \in P : r[p] # 0 /\ (p + r[p] \in P \/ p + r[p] = Len(r) + 1)
    /\ \A p \in P \ {1} : \E q \in P : q + r[q] = p

CodePositions(r) == {P \in SUBSET (1 .. Len(r)) : IsCodePosition(r, P)}

Decodable(r) == r = <<>> \/ CodePositions(r) # {}

\* A later code byte stands for the zero that ended the block before it, unless
\* that block was full.
Decoding(r) ==
    IF r = <<>> THEN <<>> ELSE
    LET P == CHOOSE Q \in SUBSET (1 .. Len(r)) : IsCodePosition(r, Q)
        AfterFull(p) == \E q \in P : q + r[q] = p /\ r[q] = MaxCode
        upTo[k \in 1 .. Len(r)] ==
            IF k = 1 THEN <<>>
            ELSE upTo[k - 1] \o (IF k \notin P THEN <<r[k]>>
                                 ELSE IF AfterFull(k) THEN <<>> ELSE <<0>>)
    IN  upTo[Len(r)]

=============================================================================
