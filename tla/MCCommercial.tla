------------------------------ MODULE MCCommercial ------------------------------
EXTENDS CommercialSystem, TLC
Sym == Permutations(Workers) \cup Permutations(Cases) \cup Permutations(Contracts)
=============================================================================
