--------------------------- MODULE MCConfigFiles ---------------------------
(* Small instances of ConfigFiles for TLC. *)
EXTENDS ConfigFiles, TLC

ClientSymmetry == Permutations(Client)
============================================================================
