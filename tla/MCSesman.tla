----------------------------- MODULE MCSesman -----------------------------
EXTENDS Sesman, TLC

Symmetry == Permutations(Clients) \cup Permutations(Users) \cup Permutations(Items)
=============================================================================
