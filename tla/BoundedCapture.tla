--------------------------- MODULE BoundedCapture ---------------------------
(***************************************************************************)
(* What a log capture promises its caller, whatever task runs the stream:  *)
(* the lines it keeps only grow while it is pending, it ends once, with a  *)
(* reason that is true, and what it returned never changes afterwards.     *)
(***************************************************************************)
EXTENDS Integers, Sequences

CONSTANTS
    MaxLines,   \* kept lines after which the capture wants to end
    Burst       \* kept lines one raw line can release

VARIABLES
    lines,      \* the kept lines
    stop,       \* the caller asked for an early end
    source,     \* "open", or how the stream came to its own end
    outcome     \* "pending", or how the capture ended

vars == <<lines, stop, source, outcome>>

Sources  == {"open", "window", "closed", "failed"}
Outcomes == {"pending", "max_lines", "window", "closed", "stopped", "raised", "cancelled"}

Init ==
    /\ lines = <<>>
    /\ stop \in BOOLEAN
    /\ source = "open"
    /\ outcome = "pending"

\* At most a burst of lines is kept at once, and only below the limit.  A
\* cancelled capture has no result to keep intact.
Collect ==
    /\ outcome \in {"pending", "cancelled"}
    /\ source = "open"
    /\ Len(lines) < MaxLines
    /\ \E n \in 1..Burst :
         /\ Len(lines') = Len(lines) + n
         /\ \A i \in 1..Len(lines) : lines'[i] = lines[i]
    /\ UNCHANGED <<stop, source, outcome>>

AskStop ==
    /\ stop' = TRUE
    /\ UNCHANGED <<lines, source, outcome>>

SourceEnds ==
    /\ source = "open"
    /\ source' \in Sources \ {"open"}
    /\ UNCHANGED <<lines, stop, outcome>>

End(o) ==
    /\ outcome = "pending"
    /\ CASE o = "max_lines" -> Len(lines) >= MaxLines
         [] o = "stopped"   -> stop
         [] o = "raised"    -> source = "failed"
         [] o = "cancelled" -> TRUE
         [] OTHER           -> source = o
    /\ outcome' = o
    /\ UNCHANGED <<lines, stop, source>>

Next ==
    \/ Collect
    \/ AskStop
    \/ SourceEnds
    \/ \E o \in Outcomes \ {"pending"} : End(o)

Spec == Init /\ [][Next]_vars
============================================================================
