----------------------------- MODULE MCReadable -----------------------------
\* Model of Readable for TLC: the other bounds come from the .cfg files.
EXTENDS Readable

MCAmounts == {All, 1, 3}
=============================================================================
