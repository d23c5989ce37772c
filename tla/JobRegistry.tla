---------------------------- MODULE JobRegistry ----------------------------
(***************************************************************************)
(* The in-memory registry of background jobs (jobs.py), the drivers that   *)
(* run the jobs (_run_job, _run_logs_job in llm.py) and the agents that    *)
(* poll them (JobStatusTool).                                              *)
(*                                                                         *)
(* Everything runs on one event loop, so a step of this module is what a   *)
(* coroutine does between two awaits.  A driver's work is abstracted to    *)
(* how it can end; modules LogCapture and BuildRun say what it does before.*)
(***************************************************************************)
EXTENDS Integers, FiniteSets

CONSTANTS
    Job,        \* job ids; create draws a fresh uuid, so an id is used once
    Poller,     \* agents calling esphome_job_status
    MaxJobs,    \* MAX_JOBS
    JobTTL,     \* JOB_TTL_SECONDS, in clock units
    MaxTime,    \* bound on the clock
    NoTime,     \* finished_at is None
    NoJob       \* the poller is not waiting in a call

ASSUME JobsFinite    == IsFiniteSet(Job)
ASSUME MaxJobsIsNat  == MaxJobs \in Nat
ASSUME JobTTLIsNat   == JobTTL \in Nat
ASSUME MaxTimeIsNat  == MaxTime \in Nat
ASSUME NoTimeNotTime == NoTime \notin Int
ASSUME NoJobNotJob   == NoJob \notin Job

VARIABLES
    now,          \* time.time(), in clock units
    jobs,         \* the keys of JobRegistry._jobs
    kind,         \* Job.kind: "build" for compile/upload/run, or "logs"
    status,       \* Job.status
    finished_at,  \* Job.finished_at
    stop,         \* Job.stop_event is set
    task,         \* the background task driving the job
    waiting,      \* the job each poller's current call holds while it sleeps
    heard         \* per poller, the last status it was given for each job

vars == <<now, jobs, kind, status, finished_at, stop, task, waiting, heard>>

Kinds    == {"build", "logs"}
Statuses == {"running", "done", "error"}
Tasks    == {"none", "running", "ended", "lost"}
Answers  == {"nothing", "unknown"} \cup Statuses

Init ==
    /\ now = 0
    /\ jobs = {}
    /\ kind = [j \in Job |-> "build"]
    /\ status = [j \in Job |-> "running"]
    /\ finished_at = [j \in Job |-> NoTime]
    /\ stop = [j \in Job |-> FALSE]
    /\ task = [j \in Job |-> "none"]
    /\ waiting = [p \in Poller |-> NoJob]
    /\ heard = [p \in Poller |-> [j \in Job |-> "nothing"]]

----------------------------------------------------------------------------
(* Pruning *)

is_finished(j) == status[j] # "running"

\* The TTL pass looks at finished_at and never at status.
Expired == {j \in jobs : finished_at[j] # NoTime /\ now - finished_at[j] > JobTTL}

\* The cap pass chooses among the jobs whose status is final.
Evictable(K) == {j \in K : is_finished(j)}

\* Seeded fault: the sort is reversed.
NewestFirst(K, E) ==
    \A e \in E, k \in Evictable(K) \ E : finished_at[e] >= finished_at[k]
\* Evicted jobs finished no later than the ones that stay.  sorted() is stable
\* on real-valued times; equal clock units stand for instants in either order.
OldestFirst(K, E) ==
    \A e \in E, k \in Evictable(K) \ E : finished_at[e] <= finished_at[k]

\* How many entries the cap pass wants to evict from K.
Excess(K) == IF Cardinality(K) > MaxJobs THEN Cardinality(K) - MaxJobs ELSE 0

\* Seeded fault: the cap pass takes any entry.
EvictAnyEntry(K) == {E \in SUBSET K : Cardinality(E) = Excess(K)}
\* finished[: excess] -- all of them when there are fewer than the excess.
Evictions(K) ==
    {E \in SUBSET Evictable(K) :
        /\ \/ Cardinality(E) = Excess(K)
           \/ E = Evictable(K) /\ Cardinality(E) < Excess(K)
        /\ OldestFirst(K, E)}

\* The possible registries after _prune.
Pruned == LET kept == jobs \ Expired IN {kept \ E : E \in Evictions(kept)}

----------------------------------------------------------------------------
(* Jobs and their drivers *)

\* Seeded fault: an id is only known to be unused while it is registered.
ReusedId(j) == j \notin jobs
\* uuid4 never repeats an id.
FreshId(j) == task[j] = "none"

\* JobRegistry.create and the launch of the driver: prune, then insert.
Create(j, k) ==
    /\ FreshId(j)
    /\ \E kept \in Pruned : jobs' = kept \cup {j}
    /\ kind' = [kind EXCEPT ![j] = k]
    /\ status' = [status EXCEPT ![j] = "running"]
    /\ finished_at' = [finished_at EXCEPT ![j] = NoTime]
    /\ stop' = [stop EXCEPT ![j] = FALSE]
    /\ task' = [task EXCEPT ![j] = "running"]
    /\ UNCHANGED <<now, waiting, heard>>

\* Seeded fault: the expiry is stored in place of the finishing time.
FinishAtExpiry(j, s) ==
    /\ task[j] = "running"
    /\ task' = [task EXCEPT ![j] = "ended"]
    /\ status' = [status EXCEPT ![j] = s]
    /\ finished_at' = [finished_at EXCEPT ![j] = MaxTime + 1]
    /\ UNCHANGED <<now, jobs, kind, stop, waiting, heard>>
\* No await separates the assignment of status from the finally clause.
Finish(j, s) ==
    /\ task[j] = "running"
    /\ task' = [task EXCEPT ![j] = "ended"]
    /\ status' = [status EXCEPT ![j] = s]
    /\ finished_at' = [finished_at EXCEPT ![j] = now]
    /\ UNCHANGED <<now, jobs, kind, stop, waiting, heard>>

\* The command returned a result, whatever its exit code.
TaskDone(j) == Finish(j, "done")

\* A handled failure: ESPHomeMCPError of a build, any Exception of a capture.
TaskError(j) == Finish(j, "error")

\* An exception _run_job does not catch (a TimeoutError of a Supervisor
\* request, a malformed response): only the finally clause runs.
TaskCrash(j) ==
    /\ kind[j] = "build"
    /\ Finish(j, "running")

----------------------------------------------------------------------------
(* Polling *)

Reply(p, j, s) == heard' = [heard EXCEPT ![p][j] = s]

\* An agent polls an id some create returned.  A stop request for a job that
\* is not stoppable is refused and changes nothing.  A call that need not wait
\* answers at once.
PollStart(p, j, wait, stopping) ==
    /\ waiting[p] = NoJob
    /\ task[j] # "none"
    /\ \/ /\ j \notin jobs
          /\ Reply(p, j, "unknown")
          /\ UNCHANGED <<stop, waiting>>
       \/ /\ j \in jobs
          /\ stopping => kind[j] = "logs"
          /\ stop' = [stop EXCEPT ![j] = @ \/ stopping]
          /\ \/ /\ is_finished(j) \/ ~(wait \/ stopping)
                /\ Reply(p, j, status[j])
                /\ UNCHANGED waiting
             \/ /\ ~is_finished(j) /\ (wait \/ stopping)
                /\ waiting' = [waiting EXCEPT ![p] = j]
                /\ UNCHANGED heard
    /\ UNCHANGED <<now, jobs, kind, status, finished_at, task>>

\* The sleeping call wakes up, sees the job finished or its deadline passed,
\* and answers from the Job object it holds, registered or not.
PollAnswer(p) ==
    /\ waiting[p] # NoJob
    /\ Reply(p, waiting[p], status[waiting[p]])
    /\ waiting' = [waiting EXCEPT ![p] = NoJob]
    /\ UNCHANGED <<now, jobs, kind, status, finished_at, stop, task>>

----------------------------------------------------------------------------
(* Environment *)

Tick ==
    /\ now < MaxTime
    /\ now' = now + 1
    /\ UNCHANGED <<jobs, kind, status, finished_at, stop, task, waiting, heard>>

\* Home Assistant restarts: hass.data is rebuilt empty, the tasks are gone and
\* the calls in progress are cut off.
Restart ==
    /\ jobs # {}
    /\ jobs' = {}
    /\ task' = [j \in Job |-> IF task[j] = "running" THEN "lost" ELSE task[j]]
    /\ waiting' = [p \in Poller |-> NoJob]
    /\ UNCHANGED <<now, kind, status, finished_at, stop, heard>>

Next ==
    \/ \E j \in Job, k \in Kinds : Create(j, k)
    \/ \E j \in Job : TaskDone(j)
    \/ \E j \in Job : TaskError(j)
    \/ \E j \in Job : TaskCrash(j)
    \/ \E p \in Poller, j \in Job, wait, stopping \in BOOLEAN :
            PollStart(p, j, wait, stopping)
    \/ \E p \in Poller : PollAnswer(p)
    \/ Tick
    \/ Restart

Spec == Init /\ [][Next]_vars

----------------------------------------------------------------------------
(* Properties *)

\* Every variable keeps the shape the code gives it.
TypeOK ==
    /\ now \in 0..MaxTime
    /\ jobs \subseteq Job
    /\ kind \in [Job -> Kinds]
    /\ status \in [Job -> Statuses]
    /\ finished_at \in [Job -> 0..MaxTime \cup {NoTime}]
    /\ stop \in [Job -> BOOLEAN]
    /\ task \in [Job -> Tasks]
    /\ waiting \in [Poller -> Job \cup {NoJob}]
    /\ heard \in [Poller -> [Job -> Answers]]

\* A job whose driver is still working is in the registry, however many jobs
\* were created since and however long it runs: neither pass of _prune may take
\* it (jobs.py _prune; test_prune_keeps_running_jobs_regardless_of_age).
LiveJobsKept == \A j \in Job : task[j] = "running" => j \in jobs

\* "No job with id ... (it may have expired)" is told of a job only once its
\* driver is over, so an agent never gives up on work that still goes on.
UnknownOnlyWhenOver ==
    \A p \in Poller, j \in Job :
        heard[p][j] = "unknown" => task[j] \in {"ended", "lost"}

\* What one agent is told about one job only moves forward: running, then its
\* one verdict, then unknown; a verdict is never taken back or changed.
AnswersMayFollow(a, b) ==
    \/ a = b
    \/ a = "nothing"
    \/ a = "running" /\ b # "nothing"
    \/ a \in {"done", "error"} /\ b = "unknown"
AnswersNeverRegress ==
    [][\A p \in Poller, j \in Job : AnswersMayFollow(heard[p][j], heard'[p][j])]_vars

\* A create drops a job only past its TTL, or, when the registry is full, a
\* finished job that no finished job left behind preceded; and it leaves at
\* most MAX_JOBS entries besides the new one, unless all that it leaves still
\* say "running": those alone the cap cannot evict (jobs.py _prune).
PrunedRightly ==
    [][jobs' \notin {{}, jobs} =>
        /\ \A j \in jobs \ jobs' :
             \/ j \in Expired
             \/ /\ is_finished(j)
                /\ Cardinality(jobs') > MaxJobs
                /\ \A k \in jobs \cap jobs' :
                     is_finished(k) => finished_at[j] <= finished_at[k]
        /\ \/ Cardinality(jobs') <= MaxJobs + 1
           \/ \A j \in jobs \cap jobs' : ~is_finished(j)]_vars

\* A driver that has ended leaves a verdict, as the note of a started job
\* promises ("until status is 'done' or 'error'", _start_background_job).
EndedTaskHasVerdict == \A j \in Job : task[j] = "ended" => is_finished(j)
============================================================================
