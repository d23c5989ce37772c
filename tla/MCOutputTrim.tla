---------------------------- MODULE MCOutputTrim ----------------------------
(***************************************************************************)
(* OutputTrim checked against what README.md and output.py say is kept,    *)
(* as conditions on the whole output.                                      *)
(***************************************************************************)
EXTENDS OutputTrim

\* "The details that follow an ERROR": no other log line is between.
Details(i) ==
    \E e \in 1..i - 1 : Cleaned[e] = "error" /\ \A k \in e..i : Cleaned[k] # "log"

\* A validation's answer has every log line, what follows an ERROR up to the
\* next log line, the whole of the output from "Failed config" on, and of the
\* configuration's dump nothing (trim_validate_output).
ValidateKeepsDiagnostics ==
    command = "validate" =>
        Trimmed(FALSE) = {i \in DOMAIN Cleaned :
            \/ Cleaned[i] \in {"log", "error"}
            \/ Details(i)
            \/ \E f \in 1..i : Cleaned[f] = "failed"}

\* A line printed under a diagnostic as a part of its excerpt.
UnderDiagnostic(i) ==
    \E d \in 1..i - 1 :
        Cleaned[d] = "diag" /\ \A k \in d + 1..i : Cleaned[k] \in {"excerpt", "graph"}

\* The answer of a build that runs, or that ended with an exit code, lacks a
\* line only if it is noise that is no part of a diagnostic's excerpt and, when
\* the build failed, not among its last FAILED_BUILD_TAIL lines; and it lacks
\* all of these (trim_build_output).
BuildLeavesOutOnlyNoise ==
    command # "validate" /\ (over => exit_code # "none") =>
        DOMAIN Cleaned \ Trimmed(FALSE) = {i \in DOMAIN Cleaned :
            /\ Cleaned[i] \in {"noise", "graph"}
            /\ ~UnderDiagnostic(i)
            /\ exit_code = "bad" => i <= Len(Cleaned) - FailedTail}

\* What an agent was shown of a job stays in its later answers of the same
\* verbosity, unless as many newer lines fill the answer: neither more output
\* nor the end of the command takes a line back (JobStatusTool).
PollsOnlyAdd ==
    [][verbose' = verbose =>
        \A i \in shown \ shown' :
            Cardinality(shown') = MaxShown /\ \A k \in shown' : k > i]_trim_vars

\* When a job's answer lacks kept lines because there are too many, it says so
\* in output_truncated, if every piece of output was one line: the pieces are
\* counted, the lines are cut.
CutIsTold ==
    command = "job" /\ chunks = Len(lines) =>
        \A v \in BOOLEAN : Window(Trimmed(v)) # Trimmed(v) => SaysCut
============================================================================
