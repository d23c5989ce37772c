----------------------------- MODULE MCBuildRun -----------------------------
(* Small instances of BuildRun for TLC. *)
EXTENDS BuildRun

AllMethods == {"compile", "upload", "clean", "run", "validate"}
RunOnly == {"run"}
============================================================================
