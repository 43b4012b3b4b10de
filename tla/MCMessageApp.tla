---------------------------- MODULE MCMessageApp ----------------------------
(* Instances of MessageApp for TLC. *)
EXTENDS MessageApp, TLC

\* Values compared for equality only.  (Safety runs only.)
Symmetry ==
  Permutations(Procs) \cup Permutations(Conns) \cup Permutations(UUIDs)
    \cup Permutations(Names) \cup Permutations(KeyPairs) \cup Permutations(SymKeys)

=============================================================================
