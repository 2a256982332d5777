------------------------------- MODULE MCSnooze ------------------------------
EXTENDS Snooze, TLC

SnoozeSymmetry == Permutations(Inodes)
=============================================================================
