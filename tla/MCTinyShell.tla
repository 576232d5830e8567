----------------------------- MODULE MCTinyShell -----------------------------
EXTENDS TinyShell, TLC

PidSymmetry == Permutations(Pids)
==============================================================================
