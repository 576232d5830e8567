------------------------------ MODULE MCMDriver ------------------------------
EXTENDS MDriver, TLC

\* The sizes of payloads that fill the least block, and one of twice its size.
MCSizes == {6, 13}

\* A trace may number its blocks as it likes.
IdSymmetry == Permutations(Ids)
==============================================================================
