------------------------------ MODULE MCCalls ------------------------------
EXTENDS Calls, TLC

Symmetry == Permutations(Flow) \cup Permutations(User) \cup Permutations(Call)
=============================================================================
