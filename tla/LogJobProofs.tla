---------------------------- MODULE LogJobProofs ----------------------------
(***************************************************************************)
(* What a log call guarantees for every limit and burst: its types, that   *)
(* its answer is what was shown, and that an error is the last resort.     *)
(***************************************************************************)
EXTENDS LogJob, TLAPS

----------------------------------------------------------------------------
(* The inductive invariant *)

\* Every line comes from the capture in progress, and a job shows just those:
\* a source fails before its first line or is the last one.
LinesInv ==
    /\ pc \in {"connect", "inventory", "reconnect"} => lines = <<>> /\ shown = <<>>
    /\ pc \in {"device", "dashboard"} =>
         /\ \A i \in DOMAIN lines : lines[i] = pc
         /\ background => shown = lines
         /\ ~background => shown = <<>>
    /\ pc = "device" /\ source = "failed" => lines = <<>>
    /\ outcome = "raised" => source = "failed"

\* Which sources are behind the call in each phase.
TriedInv ==
    /\ pc = "device" => creds
    /\ pc \in {"reconnect", "dashboard"} =>
         fallback /\ (creds \/ adopted = "by_address" => device_error)
    /\ pc # "over" => status = "running"

IInv == TypeOK /\ LinesInv /\ TriedInv /\ ShownIsReturned /\ ErrorIsLastResort

Source == {"device", "dashboard"}

----------------------------------------------------------------------------
(* Preservation *)

USE DEF Phases, Adoptions, Statuses, Reasons, Capture!Sources, Capture!Outcomes

LEMMA Initially == Init => IInv
<1> SUFFICES ASSUME Init PROVE IInv
  OBVIOUS
<1>1. TypeOK
  <2>1. {dash_client, creds, device_error, fallback, unexpected, stop} \subseteq BOOLEAN
    BY Zenon DEF Init
  <2>2. lines \in Seq(Source) /\ shown \in Seq(Source)
    BY DEF Init
  <2>3. /\ background \in BOOLEAN /\ adopted \in Adoptions /\ pc \in Phases
        /\ source \in Capture!Sources /\ outcome \in Capture!Outcomes
        /\ status \in Statuses /\ mode \in {"none", "device", "dashboard"}
        /\ ended_by \in Reasons \cup {"none"}
    BY DEF Init
  <2> QED BY <2>1, <2>2, <2>3 DEF TypeOK, Source
<1>2. LinesInv /\ TriedInv
  BY DEF Init, LinesInv, TriedInv
<1>3. ShownIsReturned /\ ErrorIsLastResort
  BY DEF Init, ShownIsReturned, ErrorIsLastResort
<1> QED BY <1>1, <1>2, <1>3 DEF IInv

\* Turning to the dashboard, from a call that has shown nothing.
LEMMA UseDashboardKeeps ==
    ASSUME IInv, UseDashboard, pc # "over", lines = <<>>, shown = <<>>,
           creds' \in BOOLEAN, device_error' \in BOOLEAN,
           creds' \/ adopted = "by_address" => device_error',
           UNCHANGED <<request, dash_client, unexpected, shown, stop>>
    PROVE  IInv'
<1> USE DEF IInv, TypeOK, LinesInv, TriedInv, ShownIsReturned, ErrorIsLastResort, request,
            capture, verdict
<1>1. CASE dash_client
  BY <1>1 DEF UseDashboard, Begin
<1>2. CASE ~dash_client
  BY <1>2 DEF UseDashboard, Finish
<1> QED BY <1>1, <1>2

LEMMA ChooseKeeps ==
    ASSUME IInv, pc \in {"connect", "inventory"}, NEW found \in BOOLEAN, Choose(found),
           adopted = "by_address" => found
    PROVE  IInv'
<1>1. CASE found
  BY <1>1 DEF Choose, Begin, IInv, TypeOK, LinesInv, TriedInv, ShownIsReturned,
              ErrorIsLastResort, request, verdict
<1>2. CASE ~found
  <2>1. lines = <<>> /\ shown = <<>>
    BY DEF IInv, LinesInv
  <2>2. /\ creds' \in BOOLEAN /\ device_error' \in BOOLEAN /\ creds' = FALSE
        /\ adopted # "by_address"
        /\ UNCHANGED <<request, dash_client, unexpected, shown, stop>> /\ UseDashboard
    BY <1>2 DEF Choose, IInv, TypeOK
  <2> QED BY <2>1, <2>2, UseDashboardKeeps
<1> QED BY <1>1, <1>2

\* One raw line adds to both sequences alike.
LEMMA RawLineKeeps ==
    ASSUME IInv, NEW n \in 1..Burst, RawLine(n)
    PROVE  IInv'
<1> DEFINE kept == [i \in 1..n |-> pc]
<1>1. /\ pc \in Source /\ lines' = lines \o kept
      /\ shown' = (IF background THEN shown \o kept ELSE shown)
      /\ source = "open" /\ UNCHANGED <<stop, source, outcome>> /\ UNCHANGED calling
  BY DEF RawLine, Capturing, Capture!Collect, Source
<1>2. n \in Nat /\ kept \in Seq(Source) /\ Len(kept) = n /\ DOMAIN kept = 1..n
  BY <1>1, BurstPositive DEF Source
<1>3. \A i \in DOMAIN lines' : lines'[i] = pc
  <2>1. lines \in Seq(Source) /\ \A i \in DOMAIN lines : lines[i] = pc
    BY <1>1 DEF IInv, TypeOK, LinesInv, Source
  <2>2. \A i \in 1..n : kept[i] = pc
    OBVIOUS
  <2> HIDE DEF kept
  <2>3. \A i \in DOMAIN (lines \o kept) : (lines \o kept)[i] = pc
    BY <1>2, <2>1, <2>2
  <2> QED BY <1>1, <2>3
<1>4. lines' \in Seq(Source) /\ shown' \in Seq(Source)
  <2>1. lines \in Seq(Source) /\ shown \in Seq(Source)
    BY DEF IInv, TypeOK, Source
  <2> HIDE DEF kept
  <2>2. lines \o kept \in Seq(Source) /\ shown \o kept \in Seq(Source)
    BY <1>2, <2>1
  <2> QED BY <1>1, <2>1, <2>2
<1>5. (background => shown' = lines') /\ (~background => shown' = <<>>)
  BY <1>1 DEF IInv, LinesInv, Source
<1> HIDE DEF kept
<1>6. TypeOK'
  BY <1>1, <1>4 DEF IInv, TypeOK, calling, request, verdict, Source
<1>7. LinesInv' /\ TriedInv'
  BY <1>1, <1>3, <1>5 DEF IInv, LinesInv, TriedInv, calling, request, verdict, Source
<1>8. ShownIsReturned' /\ ErrorIsLastResort'
  BY <1>1 DEF IInv, TriedInv, ShownIsReturned, ErrorIsLastResort, calling, request, verdict,
              Source
<1> QED BY <1>6, <1>7, <1>8 DEF IInv

LEMMA Inductive == IInv /\ [Next]_vars => IInv'
<1> SUFFICES ASSUME IInv, [Next]_vars PROVE IInv'
  OBVIOUS
<1> USE DEF request, capture, verdict, calling
<1>1. CASE DashboardUp
  BY <1>1 DEF DashboardUp, IInv, TypeOK, LinesInv, TriedInv, ShownIsReturned, ErrorIsLastResort
<1>2. CASE DashboardFailsFirst
  BY <1>2, ChooseKeeps DEF DashboardFailsFirst
<1>3. ASSUME NEW listed \in BOOLEAN, Inventoried(listed) PROVE IInv'
  BY <1>3, ChooseKeeps DEF Inventoried
<1>4. CASE TimesOut
  BY <1>4 DEF TimesOut, Uncaught, Finish, IInv, TypeOK, LinesInv, TriedInv, ShownIsReturned,
              ErrorIsLastResort
<1>5. ASSUME NEW n \in 1..Burst, RawLine(n) PROVE IInv'
  BY <1>5, RawLineKeeps
<1>6. CASE StreamEnds
  BY <1>6 DEF StreamEnds, Capturing, Endings, Capture!SourceEnds, IInv, TypeOK, LinesInv,
              TriedInv, ShownIsReturned, ErrorIsLastResort
<1>7. CASE AskStop
  BY <1>7 DEF AskStop, Capture!AskStop, IInv, TypeOK, LinesInv, TriedInv, ShownIsReturned,
              ErrorIsLastResort
<1>8. CASE CaptureEnds
  BY <1>8 DEF CaptureEnds, CaptureOutcomes, Capturing, Capture!End, IInv, TypeOK, LinesInv,
              TriedInv, ShownIsReturned, ErrorIsLastResort
<1>9. CASE Answers
  BY <1>9 DEF Answers, Finish, IInv, TypeOK, LinesInv, TriedInv, ShownIsReturned,
              ErrorIsLastResort
<1>10. CASE DeviceFails
  <2>1. lines = <<>> /\ shown = <<>>
    BY <1>10 DEF DeviceFails, DeviceFailed, IInv, LinesInv
  <2>2. creds' \in BOOLEAN /\ device_error' = TRUE /\ UseDashboard /\ pc # "over"
    BY <1>10 DEF DeviceFails, IInv, TypeOK
  <2> QED BY <1>10, <2>1, <2>2, UseDashboardKeeps DEF DeviceFails
<1>11. CASE Reconnected
  BY <1>11 DEF Reconnected, Begin, IInv, TypeOK, LinesInv, TriedInv, ShownIsReturned,
               ErrorIsLastResort
<1>12. CASE DashboardFails
  BY <1>12 DEF DashboardFails, Uncaught, Finish, IInv, TypeOK, LinesInv, TriedInv,
               ShownIsReturned, ErrorIsLastResort
<1>13. CASE UNCHANGED vars
  BY <1>13 DEF vars, IInv, TypeOK, LinesInv, TriedInv, ShownIsReturned, ErrorIsLastResort
<1> QED BY <1>1, <1>2, <1>3, <1>4, <1>5, <1>6, <1>7, <1>8, <1>9, <1>10, <1>11, <1>12, <1>13
        DEF Next

----------------------------------------------------------------------------
(* Theorems *)

\* The invariant holds in every state.
THEOREM Invariant == Spec => []IInv
<1> QED BY Initially, Inductive, PTL DEF Spec

\* Every variable keeps the shape the code gives it.
THEOREM TypeCorrect == Spec => []TypeOK
<1>1. IInv => TypeOK
  BY DEF IInv
<1> QED BY <1>1, Invariant, PTL

\* A job's answer is made of what it showed, all from the source it names.
THEOREM AnswerIsWhatWasShown == Spec => []ShownIsReturned
<1>1. IInv => ShownIsReturned
  BY DEF IInv
<1> QED BY <1>1, Invariant, PTL

\* A call reports an error only after every source it has failed.
THEOREM EverySourceTried == Spec => []ErrorIsLastResort
<1>1. IInv => ErrorIsLastResort
  BY DEF IInv
<1> QED BY <1>1, Invariant, PTL
============================================================================
