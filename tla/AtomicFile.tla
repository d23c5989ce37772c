----------------------------- MODULE AtomicFile -----------------------------
(***************************************************************************)
(* What the configuration tools promise about one file: each call replaces *)
(* it by a whole new version at one instant, or fails and leaves it alone. *)
(***************************************************************************)
CONSTANTS
    Client,         \* calls that write the file
    Version,        \* whole contents, and the absence of the file
    VersionOf(_)    \* the versions a call may produce

VARIABLES file, landed, failed
vars == <<file, landed, failed>>

Init ==
    /\ file \in Version
    /\ landed = {}
    /\ failed = {}

Land(c) ==
    /\ c \notin landed \cup failed
    /\ file' \in VersionOf(c)
    /\ landed' = landed \cup {c}
    /\ UNCHANGED failed

Fail(c) ==
    /\ c \notin landed \cup failed
    /\ failed' = failed \cup {c}
    /\ UNCHANGED <<file, landed>>

Next == \E c \in Client : Land(c) \/ Fail(c)

Spec == Init /\ [][Next]_vars
============================================================================
