---------------------------- MODULE MCCobsEncode ----------------------------
EXTENDS CobsEncode, SequencesExt

MCMaxCode == 4
\* Every block of up to 6 bytes: two full blocks of 3 non-zero bytes.
MCInputs == SeqOf({0, 1, 4}, 6)
MCCaps == 0 .. 9

=============================================================================
