------------------------------ MODULE MCServer ------------------------------
(* Instances of Server for TLC. *)
EXTENDS ServerMailbox, TLC

\* Connections, UUIDs, names and key pairs are interchangeable: Server compares them for
\* equality and nothing else.  (Safety runs only.)
ServerSymmetry ==
  Permutations(Conns) \cup Permutations(UUIDs) \cup Permutations(Names)
    \cup Permutations(KeyPairs)

=============================================================================
