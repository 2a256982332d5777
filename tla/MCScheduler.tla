----------------------------- MODULE MCScheduler -----------------------------
EXTENDS Scheduler, TLC

UserSymmetry == Permutations(Users)
=============================================================================
