----------------------------- MODULE OutputTrim -----------------------------
(***************************************************************************)
(* What an agent is shown of a command's output: the two trimmers of       *)
(* output.py, and the answers they go into (_trimmed_output,               *)
(* _result_to_dict, JobStatusTool in llm.py, Job.to_dict in jobs.py), while*)
(* the output of a background build grows and after the command is over.   *)
(*                                                                         *)
(* A line is known by what the patterns of output.py make of it once it is *)
(* cleaned; lines that they treat alike are one class:                     *)
(*   both      "blank"                                                     *)
(*   validate  "log", "error" (an ERROR or CRITICAL log line), "failed"    *)
(*             ("Failed config"), "plain"                                  *)
(*   build     "diag" (a diagnostic), "excerpt", "graph" (matches the      *)
(*             excerpt's pattern and a noise pattern, as "|-- lib" does),  *)
(*             "noise" (progress bars short of 100% too), "plain" (the rest,*)
(*             log lines too)                                              *)
(***************************************************************************)
EXTENDS Integers, Sequences, FiniteSets

CONSTANTS
    FailedTail, \* FAILED_BUILD_TAIL
    MaxShown,   \* MAX_OUTPUT_LINES
    MaxLines    \* bound on the lines of output

ASSUME TailShort     == FailedTail \in Nat /\ MaxShown \in Nat /\ FailedTail <= MaxShown
ASSUME MaxLinesIsNat == MaxLines \in Nat

VARIABLES
    command,    \* "validate"; "build" for compile, upload, run and clean; or
                \* "job" for those that run in the background
    lines,      \* the lines of the output so far, uncleaned
    chunks,     \* len(job.lines): how many pieces they came in
    over,       \* the command is over
    exit_code,  \* "none" while it runs, and if it ended without one
    verbose,    \* how the last answer was asked for
    shown       \* the cleaned lines it had, by number

trim_vars == <<command, lines, chunks, over, exit_code, verbose, shown>>

Commands == {"validate", "build", "job"}
Classes(k) ==
    IF k = "validate" THEN {"blank", "log", "error", "failed", "plain"}
    ELSE {"blank", "diag", "excerpt", "graph", "noise", "plain"}

TrimInit ==
    /\ command \in Commands
    /\ lines = <<>>
    /\ chunks = 0
    /\ over = FALSE
    /\ exit_code = "none"
    /\ verbose \in BOOLEAN
    /\ shown = {}

----------------------------------------------------------------------------
(* output.py *)

\* _cleaned: blank lines are no lines.
WithoutBlanks(ls) ==
    LET f[i \in 0..Len(ls)] ==
            IF i = 0 THEN <<>>
            ELSE IF ls[i] = "blank" THEN f[i - 1]
            ELSE Append(f[i - 1], ls[i])
    IN f[Len(ls)]
Cleaned == WithoutBlanks(lines)

\* Seeded fault: any line of the log ends what an error has to say.
ErrorEnds(c, s) == IF c \in {"log", "error"} THEN "dump" ELSE s
\* after_error after a line of class c.
AfterError(c, s) == CASE c = "error" -> "details" [] c = "log" -> "dump" [] OTHER -> s

\* in_failure and after_error of trim_validate_output after each line.
Section(ls) ==
    LET f[i \in 0..Len(ls)] ==
            IF i = 0 THEN "dump"
            ELSE IF f[i - 1] = "failure" \/ ls[i] = "failed" THEN "failure"
            ELSE AfterError(ls[i], f[i - 1])
    IN f

\* trim_validate_output: the numbers of the kept lines.
TrimValidate(ls) ==
    LET section == Section(ls)
    IN {i \in DOMAIN ls : section[i] # "dump" \/ ls[i] \in {"log", "error"}}

\* Seeded fault: noise is looked for first, as it is in every other line.
ExcerptIfNoNoise == {"excerpt"}
Excerpts == {"excerpt", "graph"}

\* in_excerpt of trim_build_output after each line.
InExcerpt(ls) ==
    LET f[i \in 0..Len(ls)] ==
            i > 0 /\ (ls[i] = "diag" \/ (f[i - 1] /\ ls[i] \in Excerpts))
    IN f

\* trim_build_output.
TrimBuild(ls, failed) ==
    LET in_excerpt == InExcerpt(ls)
    IN {i \in DOMAIN ls :
          \/ failed /\ i > Len(ls) - FailedTail
          \/ in_excerpt[i]
          \/ ls[i] \notin {"noise", "graph"}}

----------------------------------------------------------------------------
(* The answers *)

\* _trimmed_output.  Without an exit code a command counts as one that succeeded.
Trimmed(v) ==
    CASE v                          -> DOMAIN Cleaned
      [] ~v /\ command = "validate" -> TrimValidate(Cleaned)
      [] ~v /\ command # "validate" -> TrimBuild(Cleaned, exit_code = "bad")

\* Seeded fault: what is old is cut before the trimming, not after it.
TrimWindow(K) == {i \in K : i > Len(Cleaned) - MaxShown}
\* The last MAX_OUTPUT_LINES of these lines.
Window(K) == {i \in K : Cardinality({k \in K : k >= i}) <= MaxShown}

\* output_truncated of a status answer, apart from Job.truncated: to_dict
\* counts the pieces of untrimmed output.
OffByOne == chunks > MaxShown + 1
SaysCut  == chunks > MaxShown

\* A piece of output arrives, of one line or of two.
Output ==
    /\ ~over
    /\ \E piece \in {<<c>> : c \in Classes(command)} \cup (Classes(command) \X Classes(command)) :
         /\ Len(lines) + Len(piece) <= MaxLines
         /\ lines' = lines \o piece
    /\ chunks' = chunks + 1
    /\ UNCHANGED <<command, over, exit_code, verbose, shown>>

\* The command ends: with an exit code, or without (a timeout, a lost
\* connection, a driver's error).
Ends ==
    /\ ~over
    /\ over' = TRUE
    /\ exit_code' \in {"none", "ok", "bad"}
    /\ UNCHANGED <<command, lines, chunks, verbose, shown>>

\* JobStatusTool.
Poll ==
    /\ command = "job"
    /\ verbose' \in BOOLEAN
    /\ shown' = Window(Trimmed(verbose'))
    /\ UNCHANGED <<command, lines, chunks, over, exit_code>>

\* _result_to_dict: a waiting call answers with the whole of its result.
Result ==
    /\ command # "job" /\ over
    /\ verbose' \in BOOLEAN
    /\ shown' = Trimmed(verbose')
    /\ UNCHANGED <<command, lines, chunks, over, exit_code>>

TrimNext == Output \/ Ends \/ Poll \/ Result

TrimSpec == TrimInit /\ [][TrimNext]_trim_vars
============================================================================
