---------------------------- MODULE MCCobsDecode ----------------------------
EXTENDS CobsDecode, SequencesExt

MCMaxCode == 4
\* Every region of up to 6 bytes: all code bytes, zeros in every position.
MCInputs == SeqOf(0 .. 4, 6)
MCCaps == {0, 1, 2, 4, 6}

=============================================================================
