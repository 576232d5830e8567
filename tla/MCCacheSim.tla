----------------------------- MODULE MCCacheSim ------------------------------
EXTENDS CacheSim

\* Two sets of two-byte blocks: five blocks of set 0, two of set 1, and both
\* bytes of block 0.
MCAddress == {0, 1, 4, 9, 12, 17, 2, 7}
==============================================================================
