----------------------------- MODULE MCSnapshots -----------------------------
\* Snapshots for TLC: jobs, commands, ids and volumes are interchangeable.
EXTENDS Snapshots, TLC

Symmetry == Permutations(Job) \cup Permutations(Call) \cup Permutations(Snap)
              \cup Permutations(Volume) \cup Permutations(Path)
              \cup Permutations(Version)
=============================================================================
