----------------------------- MODULE MCMemogit -----------------------------
EXTENDS Memogit, TLC
EditSymmetry == Permutations(Edits)
=============================================================================
