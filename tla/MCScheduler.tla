---------------------------- MODULE MCScheduler -----------------------------
EXTENDS Scheduler

CONSTANTS d, p

DP == {d, p}
D == {d}
P == {p}
=============================================================================
