------------------------------- MODULE LogJob -------------------------------
(***************************************************************************)
(* One esphome_logs call (LogsTool, _capture_logs, _run_logs_job in        *)
(* llm.py): ask the dashboard which device it is, stream from the device   *)
(* if Home Assistant knows it, and from the dashboard if that fails.  The  *)
(* call waits, or runs as a background job that agents poll and stop.      *)
(*                                                                         *)
(* A capture is what BoundedCapture promises, which LogCapture implements; *)
(* its steps are composed with those of the call.  A kept line is known by *)
(* where it came from.                                                     *)
(***************************************************************************)
EXTENDS Integers, Sequences

CONSTANTS
    MaxLines,   \* max_lines
    Burst       \* the most kept lines one raw line releases

ASSUME MaxLinesPositive == MaxLines \in Nat \ {0}
ASSUME BurstPositive    == Burst \in Nat \ {0}

VARIABLES
    background,     \* the call's argument
    adopted,        \* how _match_device can find the device, if at all
    pc,             \* where the call is
    dash_client,    \* dash_client is not None
    creds,          \* the device was found in Home Assistant
    device_error,   \* device_error is not None
    fallback,       \* the dashboard was turned to
    unexpected,     \* an exception that no except clause names was raised
    lines,          \* kept lines of the capture in progress
    shown,          \* job.lines
    stop,           \* job.stop_event is set
    source,         \* the stream of the capture in progress
    outcome,        \* how that capture ended
    status,         \* the job's status, or how a waiting call answered
    mode,           \* which source the answer names
    ended_by        \* and how its capture ended

capture == <<lines, source, outcome>>
verdict == <<status, mode, ended_by>>
request == <<background, adopted>>
vars == <<request, pc, dash_client, creds, device_error, fallback, unexpected, capture,
          shown, stop, verdict>>

Capture == INSTANCE BoundedCapture

\* By the address the caller gave, or only by what the inventory says.
Adoptions == {"no", "by_address", "by_inventory"}
Phases    == {"connect", "inventory", "device", "reconnect", "dashboard", "over"}
Statuses  == {"running", "done", "error", "raised"}
Reasons   == {"max_lines", "window", "closed", "stopped"}

Init ==
    /\ background \in BOOLEAN
    /\ adopted \in Adoptions
    /\ pc = "connect"
    /\ dash_client = FALSE /\ creds = FALSE /\ device_error = FALSE
    /\ fallback = FALSE /\ unexpected = FALSE
    /\ lines = <<>> /\ source = "open" /\ outcome = "pending"
    /\ shown = <<>>
    /\ stop = FALSE
    /\ status = "running" /\ mode = "none" /\ ended_by = "none"

----------------------------------------------------------------------------
(* Endings *)

Finish(s, m, e) ==
    /\ pc' = "over"
    /\ status' = s /\ mode' = m /\ ended_by' = e

\* A fresh filter, and a capture that has kept nothing yet.
Begin(where) ==
    /\ pc' = where
    /\ lines' = <<>> /\ source' = "open" /\ outcome' = "pending"

\* A background driver reports every exception as the job's error; out of a
\* waiting call it goes to Home Assistant.
Uncaught == Finish(IF background THEN "error" ELSE "raised", "none", "none")

\* Seeded fault: a failed device is the end.
NoFallback ==
    /\ Finish("error", "none", "none")
    /\ UNCHANGED <<capture, fallback>>
\* The dashboard, if there is one, is asked for a connection once more.
UseDashboard ==
    \/ /\ dash_client
       /\ Begin("reconnect")
       /\ fallback' = TRUE
       /\ UNCHANGED verdict
    \/ /\ ~dash_client
       /\ Finish("error", "none", "none")
       /\ UNCHANGED <<capture, fallback>>

----------------------------------------------------------------------------
(* Finding the device *)

DashboardUp ==
    /\ pc = "connect"
    /\ dash_client' = TRUE
    /\ pc' = "inventory"
    /\ UNCHANGED <<request, creds, device_error, fallback, unexpected, capture, shown, stop,
                   verdict>>

\* The device first, if it was found.
Choose(found) ==
    /\ creds' = found
    /\ \/ /\ found
          /\ Begin("device")
          /\ UNCHANGED <<fallback, verdict>>
       \/ /\ ~found
          /\ UseDashboard
    /\ UNCHANGED <<request, dash_client, device_error, unexpected, shown, stop>>

\* An ESPHomeMCPError is passed over; a dashboard that answered before is kept.
DashboardFailsFirst ==
    /\ pc \in {"connect", "inventory"}
    /\ Choose(adopted = "by_address")

\* The inventory lists the configuration, with the device's name and address,
\* or it does not.
Inventoried(listed) ==
    /\ pc = "inventory"
    /\ Choose(adopted = "by_address" \/ (adopted = "by_inventory" /\ listed))

\* The TimeoutError of a request that took its total of 30 seconds is no
\* aiohttp.ClientError, and nobody turns it into an ESPHomeMCPError.
TimesOut ==
    /\ pc \in {"connect", "inventory", "reconnect"}
    /\ Uncaught
    /\ unexpected' = TRUE
    /\ UNCHANGED <<request, dash_client, creds, device_error, fallback, capture, shown, stop>>

----------------------------------------------------------------------------
(* A capture, from either source: the steps of BoundedCapture *)

Capturing == pc \in {"device", "dashboard"} /\ outcome = "pending"
calling   == <<request, pc, dash_client, creds, device_error, fallback, unexpected, verdict>>

\* One raw line.  A background job sees every kept line at once.
RawLine(n) ==
    LET kept == [i \in 1..n |-> pc]
    IN /\ Capturing
       /\ lines' = lines \o kept
       /\ shown' = IF background THEN shown \o kept ELSE shown
       /\ Capture!Collect
       /\ UNCHANGED calling

\* A device's stream fails only while it connects, before its first line.
Endings ==
    IF pc = "dashboard" THEN {"window", "closed", "failed"}
    ELSE {"window"} \cup {e \in {"failed"} : lines = <<>>}

StreamEnds ==
    /\ Capturing
    /\ source' \in Endings
    /\ Capture!SourceEnds
    /\ UNCHANGED <<calling, shown>>

\* JobStatusTool with stop, at any time of the job.
AskStop ==
    /\ background /\ pc # "over" /\ ~stop
    /\ Capture!AskStop
    /\ UNCHANGED <<calling, shown>>

\* Seeded fault: the dashboard's capture is not given the stop event.
StopOnlyDevice == (Reasons \cup {"raised"}) \ {s \in {"stopped"} : pc = "dashboard"}
CaptureOutcomes == Reasons \cup {"raised"}

CaptureEnds ==
    /\ Capturing
    /\ \E o \in CaptureOutcomes : Capture!End(o)
    /\ UNCHANGED <<calling, shown>>

----------------------------------------------------------------------------
(* Answering *)

\* _log_response for the source that delivered, device first.
Answers ==
    /\ outcome \in Reasons
    /\ pc \in {"device", "dashboard"}
    /\ Finish("done", pc, outcome)
    /\ UNCHANGED <<request, dash_client, creds, device_error, fallback, unexpected, capture,
                   shown, stop>>

\* Seeded fault: a window in which nothing ended the capture counts as failure.
FailedOrWindow == outcome \in {"raised", "window"}
DeviceFailed == outcome = "raised"

\* DeviceLogError: the dashboard is next.
DeviceFails ==
    /\ pc = "device"
    /\ DeviceFailed
    /\ device_error' = TRUE
    /\ UseDashboard
    /\ UNCHANGED <<request, dash_client, creds, unexpected, shown, stop>>

\* The second connection is up.  A classic dashboard refuses the /ws stream
\* before its first line and its legacy stream takes over, unseen here.
Reconnected ==
    /\ pc = "reconnect"
    /\ Begin("dashboard")
    /\ UNCHANGED <<request, dash_client, creds, device_error, fallback, unexpected, shown,
                   stop, verdict>>

\* An ESPHomeMCPError of the connection or of the capture, or, for a frame
\* that is no object, some other exception.
DashboardFails ==
    /\ \/ pc = "reconnect"
       \/ pc = "dashboard" /\ outcome = "raised"
    /\ \/ Finish("error", "none", "none") /\ UNCHANGED unexpected
       \/ Uncaught /\ unexpected' = TRUE
    /\ UNCHANGED <<request, dash_client, creds, device_error, fallback, capture, shown, stop>>

Next ==
    \/ DashboardUp
    \/ DashboardFailsFirst
    \/ \E listed \in BOOLEAN : Inventoried(listed)
    \/ TimesOut
    \/ \E n \in 1..Burst : RawLine(n)
    \/ StreamEnds
    \/ AskStop
    \/ CaptureEnds
    \/ Answers
    \/ DeviceFails
    \/ Reconnected
    \/ DashboardFails

Spec == Init /\ [][Next]_vars

\* A request is answered, refused or timed out; a capture that can end does,
\* which is StopOrFullEnds of LogCapture; the call goes on with its result.
\* The streams may stay silent.
Fairness ==
    /\ WF_vars(pc = "connect" /\ (DashboardUp \/ DashboardFailsFirst \/ TimesOut))
    /\ WF_vars(pc = "inventory" /\
                  ((\E listed \in BOOLEAN : Inventoried(listed)) \/ DashboardFailsFirst \/ TimesOut))
    /\ WF_vars(pc = "reconnect" /\ (Reconnected \/ DashboardFails \/ TimesOut))
    /\ WF_vars(CaptureEnds)
    /\ WF_vars(Answers \/ DeviceFails)
    /\ WF_vars(pc = "dashboard" /\ DashboardFails)

FairSpec == Spec /\ Fairness

----------------------------------------------------------------------------
(* Properties *)

\* Every variable keeps the shape the code gives it.
TypeOK ==
    /\ background \in BOOLEAN
    /\ adopted \in Adoptions
    /\ pc \in Phases
    /\ {dash_client, creds, device_error, fallback, unexpected, stop} \subseteq BOOLEAN
    /\ lines \in Seq({"device", "dashboard"})
    /\ shown \in Seq({"device", "dashboard"})
    /\ source \in Capture!Sources
    /\ outcome \in Capture!Outcomes
    /\ status \in Statuses
    /\ mode \in {"none", "device", "dashboard"}
    /\ ended_by \in Reasons \cup {"none"}

\* What a finished job was shown to have captured is what its answer was made
\* of, all of it from the source the answer names: falling back mixes nothing
\* and repeats nothing.
ShownIsReturned ==
    status = "done" /\ background =>
        shown = lines /\ \A i \in DOMAIN shown : shown[i] = mode

\* A call reports an error only after every source it has was tried and
\* failed, the device also when only its address was given and the dashboard
\* is down ("dashboard may be unreachable; device-direct can still work",
\* _capture_logs); unless an exception nobody names cut it off.
ErrorIsLastResort ==
    status = "error" /\ ~unexpected =>
        /\ creds \/ adopted = "by_address" => device_error
        /\ dash_client => fallback

\* A stopped job ends, in whichever phase the stop came, also if it came while
\* the device was being given up for the dashboard.
StopEndsJob == stop ~> pc = "over"
============================================================================
