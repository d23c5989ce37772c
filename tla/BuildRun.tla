------------------------------ MODULE BuildRun ------------------------------
(***************************************************************************)
(* One build command of an agent, from _BuildClient._dispatch down to the  *)
(* frames of the dashboard: the /ws client (ws_client.py: _run_job,        *)
(* _run_stream, _pump, run) and the legacy spawn client it falls back to   *)
(* (dashboard.py: _run_command).                                           *)
(*                                                                         *)
(* The dashboard is external: it answers with any frame at any time, or    *)
(* closes, or stays silent until the client's deadline.  Frames the client *)
(* skips (another message id, no text, no JSON) change nothing and have no *)
(* action.  An output line is known by the server operation it came from.  *)
(***************************************************************************)
EXTENDS Integers, Sequences

CONSTANTS
    Method,     \* the commands agents give
    MaxLines,   \* max_lines, per command sent to the dashboard
    MaxJunk     \* bound on the legacy frames that are not JSON

ASSUME MethodKnown == Method \subseteq {"compile", "upload", "clean", "run", "validate"}
ASSUME MaxLinesPositive == MaxLines \in Nat \ {0}
ASSUME MaxJunkIsNat == MaxJunk \in Nat

VARIABLES
    backend,    \* "builder" serves /ws, "classic" only the spawn endpoints
    method,     \* the command of this call
    pc,         \* where the call is
    op,         \* the /ws operation in progress
    late,       \* the deadline of the operation in progress has passed
    lines,      \* lines of the CommandResult being filled
    exit_code,  \* exit_code of the CommandResult being filled
    truncated,  \* truncated of the CommandResult being filled
    prior,      \* lines and truncated of a finished compile, while run uploads
    outcome,    \* how the call ended
    streamed,   \* the lines on_line was called with
    started,    \* the operations the dashboard was asked for, in order
    reported    \* for each of them, the exit code it last sent

result == <<lines, exit_code, truncated>>
vars == <<backend, method, pc, op, late, result, prior, outcome, streamed, started, reported>>

\* Endpoints the Device Builder lacks (_DEVICE_BUILDER_MISSING).
BuilderMissing == {"validate", "clean", "run"}
Exits    == {"none", "ok", "bad"}
Outcomes == {"pending", "returned", "error", "crashed"}
Phases   == {"connect", "submit", "follow", "legacy_connect", "legacy"}
NoPrior  == [lines |-> <<>>, truncated |-> FALSE]

\* run starts with its compile; every other command is one operation.
FirstOp(m) == IF m = "run" THEN "compile" ELSE m

Init ==
    /\ backend \in {"builder", "classic"}
    /\ method \in Method
    /\ pc = "connect"
    /\ op = FirstOp(method)
    /\ late = FALSE
    /\ lines = <<>> /\ exit_code = "none" /\ truncated = FALSE
    /\ prior = NoPrior
    /\ outcome = "pending"
    /\ streamed = <<>> /\ started = <<>> /\ reported = <<>>

----------------------------------------------------------------------------
(* Ending an operation, and the call *)

End(o) == outcome' = o

\* An exception leaves the call, which then has no result to return.
Raise(o) ==
    /\ End(o)
    /\ UNCHANGED <<backend, method, pc, op, late, result, prior, streamed, started, reported>>

Request(o) ==
    /\ started' = Append(started, o)
    /\ reported' = Append(reported, "none")

\* Seeded fault: the exit code of the compile is still there for the upload.
CarryResult == lines' = <<>> /\ UNCHANGED exit_code /\ truncated' = FALSE
NewResult   == lines' = <<>> /\ exit_code' = "none" /\ truncated' = FALSE

\* Seeded fault: anything but a reported failure lets the upload start.
NotFailed(code) == code # "bad"
Success(code)   == code = "ok"

\* Seeded fault: run returns the lines of its upload only.
ForgetCompile(ls, t) == [lines |-> <<>>, truncated |-> t]
Compiled(ls, t)      == [lines |-> ls, truncated |-> t]

\* The /ws operation is over with these lines, exit code and truncated flag:
\* a successful compile of run goes on to the upload, on a new connection and
\* with a deadline of its own.
OperationDone(ls, code, t) ==
    \/ /\ method = "run" /\ op = "compile" /\ Success(code)
       /\ op' = "upload"
       /\ pc' = "connect"
       /\ late' = FALSE
       /\ prior' = Compiled(ls, t)
       /\ NewResult
       /\ UNCHANGED outcome
    \/ /\ ~(method = "run" /\ op = "compile" /\ Success(code))
       /\ lines' = ls /\ exit_code' = code /\ truncated' = t
       /\ End("returned")
       /\ UNCHANGED <<op, pc, late, prior>>

----------------------------------------------------------------------------
(* Connecting to /ws *)

\* The handshake succeeds and the command is sent: a firmware job is queued,
\* a validation starts streaming.
WsConnect ==
    /\ outcome = "pending" /\ pc = "connect"
    /\ backend = "builder"
    /\ Request(op)
    /\ pc' = IF op = "validate" THEN "follow" ELSE "submit"
    /\ UNCHANGED <<backend, method, op, late, result, prior, outcome, streamed>>

\* The handshake is refused -- always by a classic dashboard, now and then by
\* the ingress proxy of a Device Builder that restarts -- and _dispatch starts
\* the whole method again on the legacy client.
WsRefused ==
    /\ outcome = "pending" /\ pc = "connect"
    /\ pc' = "legacy_connect"
    /\ prior' = NoPrior
    /\ NewResult
    /\ late' = FALSE
    /\ UNCHANGED <<backend, method, op, outcome, streamed, started, reported>>

\* Seeded fault: every connection error counts as "/ws is not available".
FallBackAlways ==
    /\ outcome = "pending" /\ pc \in {"connect", "submit", "follow"}
    /\ pc' = "legacy_connect"
    /\ prior' = NoPrior
    /\ NewResult
    /\ late' = FALSE
    /\ UNCHANGED <<backend, method, op, outcome, streamed, started, reported>>
\* Any other connection error, in the handshake or while sending.
WsFails ==
    /\ outcome = "pending" /\ pc \in {"connect", "submit", "follow"}
    /\ Raise("error")

----------------------------------------------------------------------------
(* Reading /ws frames: _pump, first for the submission, then for its output *)

Pumping(phase) == outcome = "pending" /\ pc = phase /\ ~late

\* max_seconds have passed since the operation began: one deadline for its
\* submission and its output.
DeadlinePasses ==
    /\ outcome = "pending" /\ pc \in {"submit", "follow", "legacy"}
    /\ ~late
    /\ late' = TRUE
    /\ UNCHANGED <<backend, method, pc, op, result, prior, outcome, streamed, started, reported>>

\* The submission is acknowledged with a job id, which is then followed.
SubmitAck ==
    /\ Pumping("submit")
    /\ pc' = "follow"
    /\ UNCHANGED <<backend, method, op, late, result, prior, outcome, streamed, started, reported>>

\* Seeded fault: an unanswered submission is waited for without limit.
SubmitNeverLate == Pumping("submit") /\ Raise("error")
\* No job id: an error frame, a reply without one, a close, or the deadline --
\* although the job may be queued by then.
SubmitFails ==
    /\ outcome = "pending" /\ pc = "submit"
    /\ Raise("error")

\* A frame that is JSON but no object, or a result that is none.
Malformed ==
    /\ Pumping("submit") \/ Pumping("follow") \/ Pumping("legacy")
    /\ Raise("crashed")

Line == [from |-> Len(started), text |-> TRUE]

\* An output event.  The line limit ends the operation, often before its exit
\* code is known.
Output ==
    /\ Pumping("follow")
    /\ streamed' = Append(streamed, Line)
    /\ \/ /\ Len(lines) + 1 >= MaxLines
          /\ OperationDone(Append(lines, Line), exit_code, TRUE)
       \/ /\ Len(lines) + 1 < MaxLines
          /\ lines' = Append(lines, Line)
          /\ UNCHANGED <<pc, op, late, exit_code, truncated, prior, outcome>>
    /\ UNCHANGED <<backend, method, started, reported>>

\* A result event: the exit code, without ending the operation.
ResultEvent(code) ==
    /\ Pumping("follow")
    /\ exit_code' = code
    /\ reported' = [reported EXCEPT ![Len(reported)] = code]
    /\ UNCHANGED <<backend, method, pc, op, late, lines, truncated, prior, outcome, streamed, started>>

\* The final ResultMessage, or the socket closes.
FollowEnds ==
    /\ Pumping("follow")
    /\ OperationDone(lines, exit_code, truncated)
    /\ UNCHANGED <<backend, method, streamed, started, reported>>

FollowLate ==
    /\ outcome = "pending" /\ pc = "follow" /\ late
    /\ OperationDone(lines, exit_code, TRUE)
    /\ UNCHANGED <<backend, method, streamed, started, reported>>

\* An ErrorMessage: the lines read so far are not returned.
FollowError ==
    /\ Pumping("follow")
    /\ Raise("error")

----------------------------------------------------------------------------
(* The legacy spawn protocol: _run_command *)

LegacyConnect ==
    /\ outcome = "pending" /\ pc = "legacy_connect"
    /\ backend = "classic" \/ method \notin BuilderMissing
    /\ Request(method)
    /\ pc' = "legacy"
    /\ UNCHANGED <<backend, method, op, late, result, prior, outcome, streamed>>

\* A Device Builder without the endpoint (HTTP 200, or an empty close), or any
\* connection error.
LegacyFails ==
    /\ outcome = "pending" /\ pc = "legacy_connect"
    /\ Raise("error")

LegacyLine ==
    /\ Pumping("legacy")
    /\ streamed' = Append(streamed, Line)
    /\ lines' = Append(lines, Line)
    /\ \/ /\ Len(lines) + 1 >= MaxLines
          /\ truncated' = TRUE
          /\ End("returned")
       \/ /\ Len(lines) + 1 < MaxLines
          /\ UNCHANGED <<truncated, outcome>>
    /\ UNCHANGED <<backend, method, pc, op, late, exit_code, prior, started, reported>>

\* A frame that is not JSON is kept as a line, but on_line and the limit do
\* not see it.
LegacyJunk ==
    /\ Pumping("legacy")
    /\ Len(SelectSeq(lines, LAMBDA l : ~l.text)) < MaxJunk
    /\ lines' = Append(lines, [Line EXCEPT !.text = FALSE])
    /\ UNCHANGED <<backend, method, pc, op, late, exit_code, truncated, prior, outcome,
                   streamed, started, reported>>

\* With no line and no exit code, an endpoint the Device Builder lacks is
\* reported as missing.
Unheard == IF method \in BuilderMissing /\ lines = <<>> THEN "error" ELSE "returned"

LegacyExit(code) ==
    /\ Pumping("legacy")
    /\ exit_code' = code
    /\ reported' = [reported EXCEPT ![Len(reported)] = code]
    /\ End(IF code = "none" THEN Unheard ELSE "returned")
    /\ UNCHANGED <<backend, method, pc, op, late, lines, truncated, prior, streamed, started>>

\* The socket closes.
LegacyClose ==
    /\ Pumping("legacy")
    /\ End(Unheard)
    /\ UNCHANGED <<backend, method, pc, op, late, result, prior, streamed, started, reported>>

LegacyLate ==
    /\ outcome = "pending" /\ pc = "legacy" /\ late
    /\ truncated' = TRUE
    /\ End("returned")
    /\ UNCHANGED <<backend, method, pc, op, late, lines, exit_code, prior, streamed, started, reported>>

----------------------------------------------------------------------------

Next ==
    \/ WsConnect
    \/ WsRefused
    \/ WsFails
    \/ DeadlinePasses
    \/ SubmitAck
    \/ SubmitFails
    \/ Malformed
    \/ Output
    \/ \E code \in Exits : ResultEvent(code)
    \/ FollowEnds
    \/ FollowLate
    \/ FollowError
    \/ LegacyConnect
    \/ LegacyFails
    \/ LegacyLine
    \/ LegacyJunk
    \/ \E code \in Exits : LegacyExit(code)
    \/ LegacyClose
    \/ LegacyLate

Spec == Init /\ [][Next]_vars

\* Time passes, a handshake is answered or refused, and the client acts on a
\* passed deadline.  The dashboard need not send anything.
Fairness ==
    /\ WF_vars(pc = "connect" /\ (WsConnect \/ WsRefused \/ WsFails))
    /\ WF_vars(LegacyConnect \/ LegacyFails)
    /\ WF_vars(DeadlinePasses)
    /\ WF_vars(late /\ SubmitFails)
    /\ WF_vars(FollowLate \/ LegacyLate)

FairSpec == Spec /\ Fairness

----------------------------------------------------------------------------
(* Properties *)

\* The result the tool gets.
Returned == [lines     |-> prior.lines \o lines,
             exit_code |-> exit_code,
             truncated |-> prior.truncated \/ truncated]

Lines == [from : Nat, text : BOOLEAN]

\* Every variable keeps the shape the code gives it.
TypeOK ==
    /\ backend \in {"builder", "classic"}
    /\ method \in Method
    /\ pc \in Phases
    /\ op \in {"compile", "upload", "clean", "validate"}
    /\ late \in BOOLEAN
    /\ lines \in Seq(Lines)
    /\ exit_code \in Exits
    /\ truncated \in BOOLEAN
    /\ prior \in [lines : Seq(Lines), truncated : BOOLEAN]
    /\ outcome \in Outcomes
    /\ streamed \in Seq(Lines)
    /\ started \in Seq({"compile", "upload", "clean", "run", "validate"})
    /\ reported \in Seq(Exits)
    /\ Len(reported) = Len(started)

\* What an operation makes the dashboard do.
Work(o) == IF o = "run" THEN {"compile", "upload"} ELSE {o}

\* One call never makes the dashboard compile, or flash, twice: the fallback
\* repeats no work (_BuildClient._dispatch, "can't duplicate").
WorkDoneOnce ==
    \A i, j \in DOMAIN started : i # j => Work(started[i]) \cap Work(started[j]) = {}

\* run flashes a device only after the dashboard reported that the compile of
\* this same call succeeded (WsClient.run).
FlashOnlyCompiled ==
    method = "run" =>
        \A i \in DOMAIN started :
            started[i] = "upload" => i = 2 /\ started[1] = "compile" /\ reported[1] = "ok"

\* A call reports success only if it did all its work and every operation it
\* started said so itself; no exit code is taken over from another operation.
SuccessIsReal ==
    outcome = "returned" /\ Returned.exit_code = "ok" =>
        /\ Work(method) \subseteq UNION {Work(started[i]) : i \in DOMAIN started}
        /\ \A i \in DOMAIN reported : reported[i] = "ok"

\* The lines with text among the first i of these, for every i, and among all.
TextUpto(ls) ==
    LET upto[i \in 0..Len(ls)] ==
            IF i = 0 THEN <<>>
            ELSE IF ls[i].text THEN Append(upto[i - 1], ls[i])
            ELSE upto[i - 1]
    IN upto

TextLines(ls) == TextUpto(ls)[Len(ls)]

\* What is returned is what a background job was shown while it ran, line for
\* line; only lines that were no JSON are returned without having been shown.
ReturnedMatchesStreamed == outcome = "returned" => TextLines(Returned.lines) = streamed

\* Every call ends, however silent the dashboard is.
CallEnds == <>(outcome # "pending")

\* "Raised only at connection time, before any output is streamed"
\* (WsUnavailableError): the legacy client starts with nothing done before it.
FallbackBeforeOutput == pc = "legacy_connect" => streamed = <<>> /\ started = <<>>
============================================================================
