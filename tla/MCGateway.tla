----------------------------- MODULE MCGateway -----------------------------
EXTENDS Gateway, TLC

\* The menus are interchangeable.
Symmetry == Permutations(Menus)
=============================================================================
