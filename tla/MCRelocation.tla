---------------------------- MODULE MCRelocation ----------------------------
EXTENDS Relocation, TLC

CONSTANTS a, b, c

TwoCwds == {a, b}
ThreeCwds == {a, b, c}
Symmetry == Permutations(Cwds)
=============================================================================
