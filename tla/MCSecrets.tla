----------------------------- MODULE MCSecrets -----------------------------
\* Secrets for TLC: commands and names are interchangeable.
EXTENDS Secrets, TLC

Symmetry == Permutations(Call) \cup Permutations(Name)
=============================================================================
