---------------------------- MODULE MCBootstrap ----------------------------
(* Bootstrap for TLC: the processes of each kind are interchangeable. *)
EXTENDS Bootstrap, TLC

Symmetry == Permutations(Cli) \cup Permutations(Daemon) \cup Permutations(Key)
=============================================================================
