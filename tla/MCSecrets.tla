----------------------------- MODULE MCSecrets -----------------------------
(* Small instances of Secrets for TLC. *)
EXTENDS Secrets, TLC

Symmetry == Permutations(Client) \cup Permutations(Key \ Converted)
============================================================================
