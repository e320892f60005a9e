-------------------------- MODULE MCRelocationView --------------------------
EXTENDS RelocationView, TLC

CONSTANTS a, b

TwoCwds == {a, b}
Symmetry == Permutations(Cwds)
=============================================================================
