----------------------------- MODULE LogCapture -----------------------------
(***************************************************************************)
(* async_capture (log_capture.py): a caller that waits for the first of a  *)
(* stream task's end, the kept lines reaching max_lines, or a stop event,  *)
(* then winds the stream task down and returns what was kept.              *)
(*                                                                         *)
(* The stream task is _stream of device_logs.py, or of logs in             *)
(* ws_client.py and dashboard.py.  A raw line is known by its number; the  *)
(* filter is known by how many kept lines it releases for a raw line       *)
(* (LogFilter says which): none, the line itself, or the line with held    *)
(* context.                                                                *)
(***************************************************************************)
EXTENDS Integers, Sequences

CONSTANTS
    MaxLines,   \* max_lines
    Burst,      \* the most kept lines one feed returns
    MaxRaw      \* bound on the raw lines the stream delivers

ASSUME MaxLinesPositive == MaxLines \in Nat \ {0}
ASSUME BurstPositive    == Burst \in Nat \ {0}
ASSUME MaxRawIsNat      == MaxRaw \in Nat

VARIABLES
    delivered,  \* for each raw line delivered, how many lines the filter kept
    lines,      \* result.lines, each by the number of the raw line it came with
    full,       \* the event of the same name
    stop,       \* stop_event is set
    stream,     \* stream_task
    caller,     \* where async_capture itself is
    end_reason, \* result.end_reason
    truncated   \* result.truncated

vars == <<delivered, lines, full, stop, stream, caller, end_reason, truncated>>

\* The stream task connects, then delivers lines until it ends by itself --
\* its window passed, the peer closed, an error -- or is cancelled.
Streams == {"starting", "open", "window", "closed", "failed",
            "aborting", "cancelling", "cancelled"}
Done    == {"window", "closed", "failed", "cancelled"}
Callers == {"waiting", "winding", "returned", "raised", "cancelled"}
Over    == {"returned", "raised", "cancelled"}
Reasons == {"none", "max_lines", "window", "closed", "stopped"}

Init ==
    /\ delivered = <<>>
    /\ lines = <<>>
    /\ full = FALSE
    /\ stop \in BOOLEAN
    /\ stream = "starting"
    /\ caller = "waiting"
    /\ end_reason = "none"
    /\ truncated = FALSE

----------------------------------------------------------------------------
(* The stream task and its callback *)

\* The connection is up (connect and subscribe, or the /ws handshake).
StreamOpens ==
    /\ stream = "starting"
    /\ stream' = "open"
    /\ UNCHANGED <<delivered, lines, full, stop, caller, end_reason, truncated>>

\* The stream returns when its own deadline passes or the peer closes.
StreamEnds(how) ==
    /\ stream = "open"
    /\ stream' = how
    /\ UNCHANGED <<delivered, lines, full, stop, caller, end_reason, truncated>>

\* Connecting or reading raises.
StreamFails ==
    /\ stream \in {"starting", "open"}
    /\ stream' = "failed"
    /\ UNCHANGED <<delivered, lines, full, stop, caller, end_reason, truncated>>

\* Seeded fault: the last kept line of a burst is dropped at the limit.
KeepShort(n) ==
    IF full THEN lines
            ELSE lines \o [i \in 1..(IF Len(lines) + n > MaxLines THEN n - 1 ELSE n)
                              |-> Len(delivered) + 1]
\* Seeded fault: a full capture goes on keeping lines.
KeepAlways(n) == lines \o [i \in 1..n |-> Len(delivered) + 1]
\* A full capture ignores the raw line; otherwise every line the filter
\* releases is kept, though they may be more than max_lines has room for.
Keep(n) ==
    IF full THEN lines ELSE lines \o [i \in 1..n |-> Len(delivered) + 1]

\* _on_raw.  The device's callback may still run between the cancellation of
\* the stream task and its unsubscribing.
RawLine(n) ==
    /\ stream \in {"open", "cancelling"}
    /\ Len(delivered) < MaxRaw
    /\ delivered' = Append(delivered, n)
    /\ lines' = Keep(n)
    /\ full' = (full \/ Len(Keep(n)) >= MaxLines)
    /\ UNCHANGED <<stop, stream, caller, end_reason, truncated>>

\* The cancelled task is over: its socket is closed, its subscription ended.
\* A connect cut short may end with the client library's own error instead.
StreamUnwinds ==
    /\ \/ stream \in {"aborting", "cancelling"} /\ stream' = "cancelled"
       \/ stream = "aborting" /\ stream' = "failed"
    /\ UNCHANGED <<delivered, lines, full, stop, caller, end_reason, truncated>>

----------------------------------------------------------------------------
(* The caller *)

\* JobStatusTool with stop=true, on the same event loop.
AskStop ==
    /\ ~stop
    /\ stop' = TRUE
    /\ UNCHANGED <<delivered, lines, full, stream, caller, end_reason, truncated>>

\* What cancel() makes of a task that is not done.
Cancelled == IF stream = "starting" THEN "aborting" ELSE "cancelling"

\* Seeded fault: the caller does not wait for the task it cancelled.
LeaveStream ==
    IF stream \in Done
      THEN caller' = "returned" /\ UNCHANGED stream
      ELSE caller' = "returned" /\ stream' = Cancelled
\* Seeded fault: the stream task is left running.
ForgetStream == caller' = "winding" /\ UNCHANGED stream
\* Cancel the stream task unless it is done, and wait for it.
WindDown ==
    IF stream \in Done
      THEN caller' = "returned" /\ UNCHANGED stream
      ELSE caller' = "winding" /\ stream' = Cancelled

\* The wait is over and the kept lines reached the limit, whatever else
\* happened: a stream's result or error is not looked at.
WakeFull ==
    /\ caller = "waiting"
    /\ full
    /\ end_reason' = "max_lines"
    /\ truncated' = TRUE
    /\ WindDown
    /\ UNCHANGED <<delivered, lines, full, stop>>

Raises == stream = "failed"

\* A stream that ran to its deadline says so.
StreamTruncated == stream = "window"

\* The stream is done, and comes before a stop: its error is raised, or its
\* result says whether the window passed or the peer closed.
WakeStreamDone ==
    /\ caller = "waiting"
    /\ ~full
    /\ stream \in Done
    /\ \/ /\ Raises
          /\ caller' = "raised"
          /\ UNCHANGED <<end_reason, truncated>>
       \/ /\ ~Raises
          /\ caller' = "returned"
          /\ truncated' = StreamTruncated
          /\ end_reason' = stream
    /\ UNCHANGED <<delivered, lines, full, stop, stream>>

\* Seeded fault: a stop comes before the stream's own end.
StopFirst == ~full
StopLast  == ~full /\ stream \notin Done
\* Only the stop event can have ended the wait.
WakeStopped ==
    /\ caller = "waiting"
    /\ stop
    /\ StopLast
    /\ end_reason' = "stopped"
    /\ truncated' = TRUE
    /\ WindDown
    /\ UNCHANGED <<delivered, lines, full, stop>>

\* The stream task is over: its CancelledError is suppressed, any other error
\* is raised.
Return ==
    /\ caller = "winding"
    /\ stream \in Done
    /\ caller' = IF stream = "failed" THEN "raised" ELSE "returned"
    /\ UNCHANGED <<delivered, lines, full, stop, stream, end_reason, truncated>>

\* The task running async_capture is cancelled in its wait (a dropped request,
\* shutdown): only the waiters are cancelled, the stream task lives on.  In the
\* wind-down the cancellation is suppressed together with the stream's.
OuterCancel ==
    /\ caller = "waiting"
    /\ caller' = "cancelled"
    /\ UNCHANGED <<delivered, lines, full, stop, stream, end_reason, truncated>>

Next ==
    \/ StreamOpens
    \/ \E how \in {"window", "closed"} : StreamEnds(how)
    \/ StreamFails
    \/ \E n \in 0..Burst : RawLine(n)
    \/ StreamUnwinds
    \/ AskStop
    \/ WakeFull
    \/ WakeStreamDone
    \/ WakeStopped
    \/ Return
    \/ OuterCancel

Spec == Init /\ [][Next]_vars

\* The event loop runs whoever is ready.  Nothing is assumed of the peer: a
\* stream may stay silent, and its deadline may be far away.
Fairness ==
    /\ WF_vars(WakeFull \/ WakeStreamDone \/ WakeStopped)
    /\ WF_vars(Return)
    /\ WF_vars(StreamUnwinds)

FairSpec == Spec /\ Fairness

----------------------------------------------------------------------------
(* Properties *)

\* Every variable keeps the shape the code gives it.
TypeOK ==
    /\ delivered \in Seq(0..Burst)
    /\ lines \in Seq(1..MaxRaw)
    /\ full \in BOOLEAN
    /\ stop \in BOOLEAN
    /\ stream \in Streams
    /\ caller \in Callers
    /\ end_reason \in Reasons
    /\ truncated \in BOOLEAN

\* The kept lines pass max_lines only by what one raw line releases at once.
OvershootBounded == Len(lines) < MaxLines + Burst

\* A failed stream is reported to the caller unless the capture was full
\* already; a stop that arrives with the failure does not hide it.
FailureSurfaces ==
    stream = "failed" /\ caller = "returned" => end_reason = "max_lines" /\ full

\* The caller gets its result only when the stream task is over, so what it
\* was given cannot grow behind its back and no subscription is left open.
ReturnedMeansStreamOver == caller \in {"returned", "raised"} => stream \in Done

\* A capture reported as closed by its peer, the one untruncated outcome, has
\* everything: it was neither full nor cut off by a stop.
ClosedIsComplete ==
    caller = "returned" /\ ~truncated => end_reason = "closed" /\ stream = "closed" /\ ~full

\* A stop, or the limit, ends the capture although the stream would go on.
StopOrFullEnds == stop \/ full ~> caller \in Over

\* The capture implements the abstract one: a wind-down is still pending.
Outcome == IF caller = "returned" THEN end_reason
           ELSE IF caller \in Over THEN caller ELSE "pending"
Source == IF stream \in {"window", "closed", "failed"} THEN stream ELSE "open"
Abstract == INSTANCE BoundedCapture WITH outcome <- Outcome, source <- Source
ImplementsBoundedCapture == Abstract!Spec
============================================================================
