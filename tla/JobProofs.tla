----------------------------- MODULE JobProofs -----------------------------
(***************************************************************************)
(* What JobRegistry guarantees for every set of jobs and pollers, every    *)
(* MAX_JOBS, TTL and clock bound, and what OutputTrim guarantees for every *)
(* output, every limit and every order of output, end and polls.           *)
(***************************************************************************)
EXTENDS JobRegistry, MCOutputTrim, Recursion, FiniteSetTheorems

USE JobsFinite, MaxJobsIsNat, JobTTLIsNat, MaxTimeIsNat, NoTimeNotTime, NoJobNotJob

----------------------------------------------------------------------------
(* The passes of _prune *)

\* What prune leaves is part of the registry, and what it takes away is over
\* its TTL or finished: an entry that is neither always stays.
LEMMA PrunedKeeps ==
    ASSUME NEW kept \in Pruned, NEW j \in jobs, j \notin Expired, ~is_finished(j)
    PROVE  j \in kept
BY DEF Pruned, Evictions, Evictable

\* Prune adds nothing.
LEMMA PrunedShrinks ==
    ASSUME NEW kept \in Pruned
    PROVE  kept \subseteq jobs
BY DEF Pruned

----------------------------------------------------------------------------
(* Types *)

\* Every variable keeps the shape the code gives it.
THEOREM TypeCorrect == Spec => []TypeOK
<1>1. Init => TypeOK
  BY DEF Init, TypeOK, Kinds, Statuses, Tasks, Answers
<1>2. TypeOK /\ [Next]_vars => TypeOK'
  <2> SUFFICES ASSUME TypeOK, [Next]_vars PROVE TypeOK'
    OBVIOUS
  <2> USE DEF TypeOK, Kinds, Statuses, Tasks, Answers
  <2>1. CASE \E j \in Job, k \in Kinds : Create(j, k)
    <3>1. PICK j \in Job, k \in Kinds : Create(j, k)
      BY <2>1
    <3>2. jobs' \subseteq Job
      BY <3>1, PrunedShrinks DEF Create
    <3> QED
      BY <3>1, <3>2 DEF Create
  <2>2. ASSUME NEW j \in Job, NEW s \in Statuses, Finish(j, s) PROVE TypeOK'
    BY <2>2 DEF Finish
  <2>3. CASE \E p \in Poller, j \in Job, wait, stopping \in BOOLEAN :
                 PollStart(p, j, wait, stopping)
    <3>1. PICK p \in Poller, j \in Job, wait \in BOOLEAN, stopping \in BOOLEAN :
                 PollStart(p, j, wait, stopping)
      BY <2>3
    <3>2. stop' \in [Job -> BOOLEAN]
      BY <3>1 DEF PollStart
    <3>3. waiting' \in [Poller -> Job \cup {NoJob}]
      BY <3>1 DEF PollStart
    <3>4. status[j] \in Answers
      OBVIOUS
    <3>5. heard' \in [Poller -> [Job -> Answers]]
      <4>1. heard' = heard \/ \E a \in Answers : Reply(p, j, a)
        BY <3>1, <3>4 DEF PollStart
      <4>2. ASSUME NEW a \in Answers, Reply(p, j, a)
            PROVE  heard' \in [Poller -> [Job -> Answers]]
        <5>1. [heard[p] EXCEPT ![j] = a] \in [Job -> Answers]
          OBVIOUS
        <5>2. heard' = [heard EXCEPT ![p] = [heard[p] EXCEPT ![j] = a]]
          BY <4>2 DEF Reply
        <5> QED BY <5>1, <5>2
      <4> QED BY <4>1, <4>2
    <3>6. UNCHANGED <<now, jobs, kind, status, finished_at, task>>
      BY <3>1 DEF PollStart
    <3> QED
      BY <3>2, <3>3, <3>5, <3>6
  <2>4. CASE \E p \in Poller : PollAnswer(p)
    <3>1. PICK p \in Poller : PollAnswer(p)
      BY <2>4
    <3>2. waiting[p] \in Job
      BY <3>1 DEF PollAnswer
    <3> QED
      BY <3>1, <3>2 DEF PollAnswer, Reply
  <2>5. CASE Tick
    BY <2>5 DEF Tick
  <2>6. CASE Restart
    BY <2>6 DEF Restart
  <2>7. CASE UNCHANGED vars
    BY <2>7 DEF vars
  <2> QED
    BY <2>1, <2>2, <2>3, <2>4, <2>5, <2>6, <2>7 DEF Next, TaskDone, TaskError, TaskCrash
<1> QED
  BY <1>1, <1>2, PTL DEF Spec

----------------------------------------------------------------------------
(* Live jobs stay registered *)

\* LiveJobsKept alone is not inductive: prune reads finished_at and status, so
\* the invariant says what a job whose driver works has in these two fields.
LiveInv ==
    \A j \in Job : task[j] = "running" =>
        j \in jobs /\ status[j] = "running" /\ finished_at[j] = NoTime

\* An agent that was told a job is unknown was told so after its driver's end.
GoneInv ==
    \A p \in Poller, j \in Job :
        heard[p][j] = "unknown" => j \notin jobs /\ task[j] \in {"ended", "lost"}

\* A verdict an agent has heard is the job's status for good; a call that
\* sleeps on a job was not given a final answer about it; a job that does not
\* exist yet has been neither polled nor awaited.
HeardInv ==
    \A p \in Poller, j \in Job :
        /\ heard[p][j] \in {"done", "error"} => status[j] = heard[p][j] /\ task[j] = "ended"
        /\ waiting[p] = j => heard[p][j] \in {"nothing", "running"} /\ task[j] # "none"
        /\ task[j] = "none" => heard[p][j] = "nothing" /\ j \notin jobs
        /\ status[j] # "running" => task[j] = "ended"

IInv == TypeOK /\ LiveInv /\ GoneInv /\ HeardInv

LEMMA InitIInv == Init => IInv
<1> SUFFICES ASSUME Init PROVE IInv
  OBVIOUS
<1>1. TypeOK
  BY DEF Init, TypeOK, Kinds, Statuses, Tasks, Answers
<1> QED
  BY <1>1 DEF Init, IInv, LiveInv, GoneInv, HeardInv

\* A create starts a job nobody has asked about and leaves the live ones.
LEMMA CreateIInv ==
    ASSUME IInv, NEW j \in Job, NEW k \in Kinds, Create(j, k)
    PROVE  LiveInv' /\ GoneInv' /\ HeardInv'
<1> USE DEF IInv, TypeOK
<1>1. PICK kept \in Pruned : jobs' = kept \cup {j}
  BY DEF Create
<1>2. ASSUME NEW i \in Job, task'[i] = "running"
      PROVE  i \in jobs' /\ status'[i] = "running" /\ finished_at'[i] = NoTime
  <2>1. CASE i = j
    BY <1>1, <2>1 DEF Create
  <2>2. CASE i # j
    <3>1. i \in jobs /\ status[i] = "running" /\ finished_at[i] = NoTime
      BY <1>2, <2>2 DEF Create, LiveInv
    <3>2. i \in kept
      BY <3>1, PrunedKeeps DEF Expired, is_finished
    <3> QED
      BY <1>1, <2>2, <3>1, <3>2 DEF Create
  <2> QED
    BY <2>1, <2>2
<1>3. GoneInv'
  BY <1>1, PrunedShrinks DEF Create, GoneInv, FreshId
<1>4. HeardInv'
  BY <1>1, PrunedShrinks DEF Create, HeardInv, FreshId
<1> QED
  BY <1>2, <1>3, <1>4 DEF LiveInv

\* A driver's end touches nothing an agent was told.
LEMMA FinishIInv ==
    ASSUME IInv, NEW j \in Job, NEW s \in Statuses, Finish(j, s)
    PROVE  LiveInv' /\ GoneInv' /\ HeardInv'
<1> USE DEF IInv, TypeOK, Finish
<1>1. LiveInv'
  BY DEF LiveInv
<1>2. GoneInv'
  BY DEF GoneInv
<1>3. HeardInv'
  BY DEF HeardInv
<1> QED
  BY <1>1, <1>2, <1>3

\* A call answers with the truth of the moment.
LEMMA PollIInv ==
    ASSUME IInv, NEW p \in Poller,
           \/ \E j \in Job, wait, stopping \in BOOLEAN : PollStart(p, j, wait, stopping)
           \/ PollAnswer(p)
    PROVE  LiveInv' /\ GoneInv' /\ HeardInv'
<1> USE DEF IInv, TypeOK
<1>1. LiveInv'
  BY DEF LiveInv, PollStart, PollAnswer
<1>2. ASSUME NEW j \in Job, NEW wait \in BOOLEAN, NEW stopping \in BOOLEAN,
             PollStart(p, j, wait, stopping)
      PROVE  GoneInv' /\ HeardInv'
  <2>1. CASE j \notin jobs
    <3>1. task[j] \in {"ended", "lost"}
      BY <1>2, <2>1 DEF PollStart, LiveInv, Tasks
    <3>2. /\ heard' = [heard EXCEPT ![p][j] = "unknown"]
          /\ UNCHANGED <<jobs, status, task, waiting>>
          /\ waiting[p] = NoJob
      BY <1>2, <2>1 DEF PollStart, Reply
    <3>3. GoneInv'
      BY <2>1, <3>1, <3>2 DEF GoneInv
    <3>4. HeardInv'
      BY <3>1, <3>2 DEF HeardInv
    <3> QED
      BY <3>3, <3>4
  <2>2. CASE j \in jobs /\ heard' = [heard EXCEPT ![p][j] = status[j]] /\ UNCHANGED waiting
    <3>1. UNCHANGED <<jobs, status, task>> /\ waiting[p] = NoJob /\ task[j] # "none"
      BY <1>2 DEF PollStart
    <3>2. status[j] \in Statuses
      OBVIOUS
    <3>3. GoneInv'
      BY <2>2, <3>1, <3>2 DEF GoneInv, Statuses
    <3>4. HeardInv'
      BY <2>2, <3>1, <3>2 DEF HeardInv, Statuses
    <3> QED
      BY <3>3, <3>4
  <2>3. CASE j \in jobs /\ waiting' = [waiting EXCEPT ![p] = j] /\ UNCHANGED heard
    <3>1. UNCHANGED <<jobs, status, task>> /\ ~is_finished(j) /\ task[j] # "none"
      BY <1>2, <2>3 DEF PollStart, Reply
    <3>2. GoneInv'
      BY <2>3, <3>1 DEF GoneInv
    <3>3. heard[p][j] \in {"nothing", "running"}
      BY <2>3, <3>1 DEF GoneInv, HeardInv, is_finished, Answers, Statuses
    <3>4. HeardInv'
      BY <2>3, <3>1, <3>3 DEF HeardInv
    <3> QED
      BY <3>2, <3>4
  <2> QED
    BY <1>2, <2>1, <2>2, <2>3 DEF PollStart, Reply
<1>3. ASSUME PollAnswer(p) PROVE GoneInv' /\ HeardInv'
  <2>1. PICK j \in Job : j = waiting[p]
    BY <1>3 DEF PollAnswer
  <2>2. /\ heard' = [heard EXCEPT ![p][j] = status[j]]
        /\ waiting' = [waiting EXCEPT ![p] = NoJob]
        /\ UNCHANGED <<jobs, status, task>>
        /\ task[j] # "none"
    BY <1>3, <2>1 DEF PollAnswer, Reply, HeardInv
  <2>3. status[j] \in Statuses
    OBVIOUS
  <2>4. GoneInv'
    BY <2>2, <2>3 DEF GoneInv, Statuses
  <2>5. HeardInv'
    BY <2>2, <2>3 DEF HeardInv, Statuses
  <2> QED
    BY <2>4, <2>5
<1> QED
  BY <1>1, <1>2, <1>3

LEMMA NextIInv == TypeOK' /\ IInv /\ [Next]_vars => IInv'
<1> SUFFICES ASSUME TypeOK', IInv, [Next]_vars PROVE LiveInv' /\ GoneInv' /\ HeardInv'
  BY DEF IInv
<1>1. CASE \E j \in Job, k \in Kinds : Create(j, k)
  BY <1>1, CreateIInv
<1>2. ASSUME NEW j \in Job, TaskDone(j) \/ TaskError(j) \/ TaskCrash(j)
      PROVE  LiveInv' /\ GoneInv' /\ HeardInv'
  BY <1>2, FinishIInv DEF TaskDone, TaskError, TaskCrash, Statuses
<1>3. ASSUME NEW p \in Poller,
             \/ \E j \in Job, wait, stopping \in BOOLEAN : PollStart(p, j, wait, stopping)
             \/ PollAnswer(p)
      PROVE  LiveInv' /\ GoneInv' /\ HeardInv'
  BY <1>3, PollIInv
<1>4. CASE Tick
  BY <1>4 DEF Tick, IInv, LiveInv, GoneInv, HeardInv
<1>5. CASE Restart
  <2> USE <1>5 DEF Restart, IInv, TypeOK
  <2>1. LiveInv'
    BY DEF LiveInv
  <2>2. GoneInv'
    BY DEF GoneInv
  <2>3. HeardInv'
    BY DEF HeardInv
  <2> QED
    BY <2>1, <2>2, <2>3
<1>6. CASE UNCHANGED vars
  BY <1>6 DEF vars, IInv, LiveInv, GoneInv, HeardInv, is_finished
<1> QED
  BY <1>1, <1>2, <1>3, <1>4, <1>5, <1>6 DEF Next

\* A job whose driver works is registered and running, one that is gone is over,
\* and what an agent has heard agrees with it.
THEOREM InvariantHolds == Spec => []IInv
<1>1. TypeOK /\ TypeOK' /\ IInv /\ [Next]_vars => IInv'
  BY NextIInv
<1> QED
  BY <1>1, InitIInv, TypeCorrect, PTL DEF Spec

\* No create, however many, drops a job whose driver works.
THEOREM LiveJobsAlwaysKept == Spec => []LiveJobsKept
<1>1. IInv => LiveJobsKept
  BY DEF IInv, LiveInv, LiveJobsKept
<1> QED
  BY <1>1, InvariantHolds, PTL

\* An agent is told "no such job" only of work that is over.
THEOREM UnknownMeansOver == Spec => []UnknownOnlyWhenOver
<1>1. IInv => UnknownOnlyWhenOver
  BY DEF IInv, GoneInv, UnknownOnlyWhenOver
<1> QED
  BY <1>1, InvariantHolds, PTL

\* What an agent is told of a job only moves forward.
THEOREM NoAnswerTakenBack == Spec => AnswersNeverRegress
<1> DEFINE Forward == \A p \in Poller, j \in Job : AnswersMayFollow(heard[p][j], heard'[p][j])
<1>1. IInv /\ [Next]_vars => [Forward]_vars
  <2> SUFFICES ASSUME IInv, Next PROVE Forward
    OBVIOUS
  <2> USE DEF IInv, TypeOK
  <2>1. CASE UNCHANGED heard
    BY <2>1 DEF AnswersMayFollow
  <2>2. ASSUME NEW p \in Poller, NEW j \in Job, NEW wait \in BOOLEAN, NEW stopping \in BOOLEAN,
               PollStart(p, j, wait, stopping)
        PROVE  Forward
    <3>1. CASE j \notin jobs
      BY <2>2, <3>1 DEF PollStart, Reply, AnswersMayFollow, Answers, Statuses
    <3>2. CASE j \in jobs
      <4>1. heard[p][j] # "unknown"
        BY <3>2 DEF GoneInv
      <4>2. heard[p][j] \in {"done", "error"} => status[j] = heard[p][j]
        BY DEF HeardInv
      <4>3. AnswersMayFollow(heard[p][j], status[j])
        BY <4>1, <4>2 DEF AnswersMayFollow, Answers, Statuses
      <4> QED
        BY <2>2, <3>2, <4>3 DEF PollStart, Reply, AnswersMayFollow
    <3> QED
      BY <3>1, <3>2
  <2>3. ASSUME NEW p \in Poller, PollAnswer(p) PROVE Forward
    <3>1. PICK j \in Job : j = waiting[p]
      BY <2>3 DEF PollAnswer
    <3>2. AnswersMayFollow(heard[p][j], status[j])
      BY <3>1 DEF HeardInv, AnswersMayFollow, Statuses
    <3> QED
      BY <2>3, <3>1, <3>2 DEF PollAnswer, Reply, AnswersMayFollow
  <2> QED
    BY <2>1, <2>2, <2>3 DEF Next, Create, Finish, TaskDone, TaskError, TaskCrash, Tick, Restart
<1> QED
  BY <1>1, InvariantHolds, PTL DEF Spec, AnswersNeverRegress

\* The sizes a pass of the cap leaves behind.
LEMMA CapSizes ==
    ASSUME NEW K \in SUBSET Job, NEW E \in Evictions(K)
    PROVE  /\ IsFiniteSet(K \ E) /\ Cardinality(K \ E) \in Nat
           /\ E # {} => Cardinality(K \ E) >= MaxJobs
           /\ Cardinality(K \ E) <= MaxJobs \/ E = Evictable(K)
<1>1. E \subseteq K
  BY DEF Evictions, Evictable
<1>2. /\ IsFiniteSet(K) /\ IsFiniteSet(E) /\ IsFiniteSet(K \ E)
      /\ Cardinality(K) \in Nat /\ Cardinality(E) \in Nat /\ Cardinality(K \ E) \in Nat
  BY <1>1, FS_Subset, FS_Difference, FS_CardinalityType
<1>3. Cardinality(K \ E) = Cardinality(K) - Cardinality(E)
  <2>1. K \cap E = E
    BY <1>1
  <2> QED BY <1>2, <2>1, FS_Difference
<1>4. E # {} => Cardinality(E) >= 1
  BY <1>2, FS_EmptySet
<1>5. \/ Cardinality(E) = Excess(K)
      \/ E = Evictable(K) /\ Cardinality(E) < Excess(K)
  BY DEF Evictions
<1> QED BY <1>2, <1>3, <1>4, <1>5 DEF Excess

\* An id no create has returned is not registered.
FreshInv == \A j \in Job : task[j] = "none" => j \notin jobs

LEMMA FreshHolds == Spec => []FreshInv
<1>1. Init => FreshInv
  BY DEF Init, FreshInv
<1>2. TypeOK /\ FreshInv /\ [Next]_vars => FreshInv'
  <2> SUFFICES ASSUME TypeOK, FreshInv, [Next]_vars PROVE FreshInv'
    OBVIOUS
  <2> USE DEF TypeOK, FreshInv
  <2>1. ASSUME NEW j \in Job, NEW k \in Kinds, Create(j, k) PROVE FreshInv'
    <3>1. jobs' \subseteq jobs \cup {j}
      BY <2>1, PrunedShrinks DEF Create
    <3> QED BY <2>1, <3>1 DEF Create
  <2>2. ASSUME NEW j \in Job, NEW s \in Statuses, Finish(j, s) PROVE FreshInv'
    BY <2>2 DEF Finish
  <2>3. CASE UNCHANGED <<jobs, task>>
    BY <2>3
  <2>4. CASE Restart
    BY <2>4 DEF Restart
  <2> QED
    BY <2>1, <2>2, <2>3, <2>4
       DEF Next, TaskDone, TaskError, TaskCrash, PollStart, PollAnswer, Tick, vars, Statuses
<1> QED
  BY <1>1, <1>2, TypeCorrect, PTL DEF Spec

\* A create drops only what it may, and leaves no more than it must, for every
\* MAX_JOBS and TTL and however many jobs are registered.
THEOREM AlwaysPrunedRightly == Spec => PrunedRightly
<1> DEFINE Rightly ==
      jobs' \notin {{}, jobs} =>
        /\ \A j \in jobs \ jobs' :
             \/ j \in Expired
             \/ /\ is_finished(j)
                /\ Cardinality(jobs') > MaxJobs
                /\ \A k \in jobs \cap jobs' :
                     is_finished(k) => finished_at[j] <= finished_at[k]
        /\ \/ Cardinality(jobs') <= MaxJobs + 1
           \/ \A j \in jobs \cap jobs' : ~is_finished(j)
<1>1. ASSUME TypeOK, FreshInv, NEW i \in Job, NEW s \in Kinds, Create(i, s) PROVE Rightly
  <2> DEFINE K == jobs \ Expired
  <2>1. i \notin jobs /\ K \in SUBSET Job
    BY <1>1 DEF TypeOK, FreshInv, Create, FreshId
  <2>2. PICK E \in Evictions(K) : jobs' = (K \ E) \cup {i}
    BY <1>1 DEF Create, Pruned
  <2>3. /\ IsFiniteSet(K \ E) /\ Cardinality(K \ E) \in Nat
        /\ E # {} => Cardinality(K \ E) >= MaxJobs
        /\ Cardinality(K \ E) <= MaxJobs \/ E = Evictable(K)
    <3> HIDE DEF K
    <3> QED BY <2>1, CapSizes
  <2>4. Cardinality(jobs') = Cardinality(K \ E) + 1
    BY <2>1, <2>2, <2>3, FS_AddElement
  <2>5. E \subseteq Evictable(K) /\ OldestFirst(K, E)
    BY DEF Evictions
  <2>6. ASSUME NEW j \in jobs \ jobs', j \notin Expired
        PROVE  /\ is_finished(j)
               /\ Cardinality(jobs') > MaxJobs
               /\ \A k \in jobs \cap jobs' :
                    is_finished(k) => finished_at[j] <= finished_at[k]
    <3>1. j \in E
      BY <2>2, <2>6
    <3>2. Cardinality(jobs') > MaxJobs
      BY <2>3, <2>4, <3>1
    <3>3. \A k \in jobs \cap jobs' : is_finished(k) => k \in Evictable(K) \ E
      BY <2>1, <2>2 DEF Evictable
    <3> QED BY <2>5, <3>1, <3>2, <3>3 DEF OldestFirst, Evictable
  <2>7. \/ Cardinality(jobs') <= MaxJobs + 1
        \/ \A j \in jobs \cap jobs' : ~is_finished(j)
    <3>1. CASE Cardinality(K \ E) <= MaxJobs
      BY <2>3, <2>4, <3>1
    <3>2. CASE E = Evictable(K)
      BY <2>1, <2>2, <3>2 DEF Evictable
    <3> QED BY <2>3, <3>1, <3>2
  <2> QED BY <2>6, <2>7
<1>2. ASSUME jobs' \in {{}, jobs} PROVE Rightly
  BY <1>2
<1>3. TypeOK /\ FreshInv /\ [Next]_vars => [Rightly]_vars
  <2> SUFFICES ASSUME TypeOK, FreshInv, Next PROVE Rightly
    OBVIOUS
  <2>1. (\E i \in Job, s \in Kinds : Create(i, s)) \/ jobs' \in {{}, jobs}
    BY DEF Next, Finish, TaskDone, TaskError, TaskCrash, PollStart, PollAnswer, Tick, Restart
  <2> HIDE DEF Rightly
  <2> QED BY <1>1, <1>2, <2>1
<1> QED
  BY <1>3, TypeCorrect, FreshHolds, PTL DEF Spec, PrunedRightly

----------------------------------------------------------------------------
(* The rest is about OutputTrim.  What a trimmer computes is a recursive    *)
(* function of the lines; the lemmas restate it as a condition on them,    *)
(* which is what the properties and the proofs about them use.             *)

\* Any class of line.
Class == UNION {Classes(k) : k \in Commands}

----------------------------------------------------------------------------
(* The recursive functions of the trimmers *)

\* The section after each line, from its recursion.
LEMMA SectionIs ==
    ASSUME NEW ls \in Seq(Class), NEW s, s = Section(ls)
    PROVE  /\ s \in [0..Len(ls) -> {"dump", "details", "failure"}]
           /\ s[0] = "dump"
           /\ \A i \in 1..Len(ls) :
                s[i] = IF s[i - 1] = "failure" \/ ls[i] = "failed" THEN "failure"
                       ELSE AfterError(ls[i], s[i - 1])
<1> DEFINE V == {"dump", "details", "failure"}
           n == Len(ls)
           Upon(i, v) == IF v = "failure" \/ ls[i] = "failed" THEN "failure"
                         ELSE AfterError(ls[i], v)
           step == [i \in 1..n |-> [v \in V |-> Upon(i, v)]]
           Eq(f) == f = [i \in 0..n |-> IF i = 0 THEN "dump" ELSE Upon(i, f[i - 1])]
<1>1. \A i \in 1..n, v \in V : Upon(i, v) \in V
  BY DEF AfterError
<1>2. n \in Nat /\ "dump" \in V
  OBVIOUS
<1>3. s = CHOOSE g : Eq(g)
  BY DEF Section
<1> HIDE DEF V, Upon, n
<1>4. step \in Steps(n, V)
  BY <1>1 DEF Steps
<1>5. PICK f \in [0..n -> V] : Runs(f, n, "dump", step)
  <2> HIDE DEF step
  <2> QED BY <1>2, <1>4, RecursionHolds
<1>6. \A i \in 1..n : f[i] = Upon(i, f[i - 1])
  <2> SUFFICES ASSUME NEW i \in 1..n
               PROVE  f[i] = Upon(i, f[i - 1])
    OBVIOUS
  <2>1. i - 1 \in 0..n
    BY <1>2
  <2>2. f[i - 1] \in V
    BY <2>1
  <2> QED BY <1>5, <2>2 DEF Runs
<1>7. Eq(f)
  BY <1>2, <1>5, <1>6 DEF Runs
<1>8. Eq(s)
  <2> HIDE DEF Eq
  <2> QED BY <1>3, <1>7
<1>9. s[0] = "dump" /\ \A i \in 1..n : s[i] = Upon(i, s[i - 1])
  BY <1>2, <1>8
<1>10. \A i \in 0..n : s[i] \in V
  <2>1. \A i \in 1..n : s[i - 1] \in V => s[i] \in V
    BY <1>1, <1>9
  <2> QED BY <1>2, <1>9, <2>1, RecursionKeeps
<1>11. s \in [0..n -> V]
  <2>1. s = [i \in 0..n |-> s[i]]
    BY <1>8
  <2> HIDE DEF Eq
  <2> QED BY <1>10, <2>1
<1> QED BY <1>9, <1>11 DEF V, Upon, n

\* The same of in_excerpt.
LEMMA InExcerptIs ==
    ASSUME NEW ls \in Seq(Class), NEW s, s = InExcerpt(ls)
    PROVE  /\ s \in [0..Len(ls) -> BOOLEAN]
           /\ ~s[0]
           /\ \A i \in 1..Len(ls) :
                s[i] = (ls[i] = "diag" \/ (s[i - 1] /\ ls[i] \in Excerpts))
<1> DEFINE n == Len(ls)
           Upon(i, v) == ls[i] = "diag" \/ (v /\ ls[i] \in Excerpts)
           step == [i \in 1..n |-> [v \in BOOLEAN |-> Upon(i, v)]]
           Eq(f) == f = [i \in 0..n |-> i > 0 /\ Upon(i, f[i - 1])]
<1>1. \A i \in 1..n, v \in BOOLEAN : Upon(i, v) \in BOOLEAN
  OBVIOUS
<1>2. n \in Nat /\ FALSE \in BOOLEAN
  OBVIOUS
<1>3. s = CHOOSE g : Eq(g)
  BY DEF InExcerpt
<1> HIDE DEF Upon, n
<1>4. step \in Steps(n, BOOLEAN)
  BY <1>1 DEF Steps
<1>5. PICK f \in [0..n -> BOOLEAN] : Runs(f, n, FALSE, step)
  <2> HIDE DEF step
  <2> QED BY <1>2, <1>4, RecursionHolds
<1>6. \A i \in 1..n : f[i] = Upon(i, f[i - 1])
  <2> SUFFICES ASSUME NEW i \in 1..n
               PROVE  f[i] = Upon(i, f[i - 1])
    OBVIOUS
  <2>1. i - 1 \in 0..n
    BY <1>2
  <2>2. f[i - 1] \in BOOLEAN
    BY <2>1
  <2> QED BY <1>5, <2>2 DEF Runs
<1>7. Eq(f)
  <2>1. ASSUME NEW i \in 0..n
        PROVE  f[i] = (i > 0 /\ Upon(i, f[i - 1]))
    <3>1. CASE i = 0
      BY <1>5, <3>1 DEF Runs
    <3>2. CASE i # 0
      <4>1. i \in 1..n /\ i > 0
        BY <1>2, <3>2
      <4>2. f[i] = Upon(i, f[i - 1]) /\ f[i] \in BOOLEAN
        BY <1>6, <4>1
      <4> QED BY <4>1, <4>2
    <3> QED BY <3>1, <3>2
  <2> QED BY <1>2, <2>1
<1>8. Eq(s)
  <2> HIDE DEF Eq
  <2> QED BY <1>3, <1>7
<1>9. s[0] = FALSE /\ \A i \in 1..n : s[i] = Upon(i, s[i - 1])
  <2>1. s[0] = FALSE
    <3>1. 0 \in 0..n /\ ~(0 > 0)
      BY <1>2
    <3>2. s[0] = (0 > 0 /\ Upon(0, s[0 - 1]))
      BY <1>8, <3>1, Zenon
    <3> QED BY <3>1, <3>2
  <2>2. ASSUME NEW i \in 1..n
        PROVE  s[i] = Upon(i, s[i - 1])
    <3>1. i \in 0..n /\ i > 0
      BY <1>2
    <3>2. Upon(i, s[i - 1]) \in BOOLEAN
      BY DEF Upon
    <3> QED BY <1>8, <3>1, <3>2
  <2> QED BY <2>1, <2>2
<1>10. s \in [0..n -> BOOLEAN]
  <2>1. \A i \in 0..n : (i > 0 /\ Upon(i, s[i - 1])) \in BOOLEAN
    OBVIOUS
  <2> QED BY <1>8, <2>1
<1> QED BY <1>9, <1>10 DEF Upon, n

\* The same of _cleaned.
LEMMA WithoutBlanksIs ==
    ASSUME NEW ls \in Seq(Class)
    PROVE  \E f \in [0..Len(ls) -> Seq(Class)] :
              /\ WithoutBlanks(ls) = f[Len(ls)]
              /\ f[0] = <<>>
              /\ \A i \in 1..Len(ls) :
                   f[i] = IF ls[i] = "blank" THEN f[i - 1] ELSE Append(f[i - 1], ls[i])
<1> DEFINE V == Seq(Class)
           n == Len(ls)
           Upon(i, v) == IF ls[i] = "blank" THEN v ELSE Append(v, ls[i])
           step == [i \in 1..n |-> [v \in V |-> Upon(i, v)]]
           Eq(f) == f = [i \in 0..n |-> IF i = 0 THEN <<>> ELSE Upon(i, f[i - 1])]
           s == CHOOSE g : Eq(g)
<1>1. \A i \in 1..n, v \in V : Upon(i, v) \in V
  OBVIOUS
<1>2. n \in Nat /\ <<>> \in V
  OBVIOUS
<1>3. WithoutBlanks(ls) = s[n]
  BY DEF WithoutBlanks
<1> HIDE DEF V, Upon, n
<1>4. step \in Steps(n, V)
  BY <1>1 DEF Steps
<1>5. PICK f \in [0..n -> V] : Runs(f, n, <<>>, step)
  <2> HIDE DEF step
  <2> QED BY <1>2, <1>4, RecursionHolds
<1>6. \A i \in 1..n : f[i] = Upon(i, f[i - 1])
  <2> SUFFICES ASSUME NEW i \in 1..n
               PROVE  f[i] = Upon(i, f[i - 1])
    OBVIOUS
  <2>1. i - 1 \in 0..n
    BY <1>2
  <2>2. f[i - 1] \in V
    BY <2>1
  <2> QED BY <1>5, <2>2 DEF Runs
<1>7. Eq(f)
  BY <1>2, <1>5, <1>6 DEF Runs
<1>8. Eq(s)
  <2> HIDE DEF Eq
  <2> QED BY <1>7
<1>9. s[0] = <<>> /\ \A i \in 1..n : s[i] = Upon(i, s[i - 1])
  <2> HIDE DEF s
  <2> QED BY <1>2, <1>8
<1>10. \A i \in 0..n : s[i] \in V
  <2> HIDE DEF s
  <2>1. \A i \in 1..n : s[i - 1] \in V => s[i] \in V
    BY <1>1, <1>9
  <2> QED BY <1>2, <1>9, <2>1, RecursionKeeps
<1>11. s \in [0..n -> V]
  <2> HIDE DEF s
  <2>1. s = [i \in 0..n |-> s[i]]
    BY <1>8
  <2> HIDE DEF Eq
  <2> QED BY <1>10, <2>1
<1> HIDE DEF s
<1> QED BY <1>3, <1>9, <1>11 DEF V, Upon, n

----------------------------------------------------------------------------
(* What they compute *)

\* A line is after a failure if "Failed config" was printed up to it, and in
\* an error's details if since the last ERROR there was no other log line.
LEMMA SectionMeans ==
    ASSUME NEW ls \in Seq(Class), NEW s, s = Section(ls), NEW i \in 0..Len(ls)
    PROVE  /\ s[i] = "failure" <=> \E f \in 1..i : ls[f] = "failed"
           /\ s[i] = "details" <=>
                /\ \A f \in 1..i : ls[f] # "failed"
                /\ \E e \in 1..i : ls[e] = "error" /\ \A k \in e..i : ls[k] # "log"
<1> DEFINE n == Len(ls)
           Failed(j) == \E f \in 1..j : ls[f] = "failed"
           Open(j) == \E e \in 1..j : ls[e] = "error" /\ \A k \in e..j : ls[k] # "log"
           V == {"dump", "details", "failure"}
           Means(j) == /\ s[j] = "failure" <=> Failed(j)
                       /\ s[j] = "details" <=> ~Failed(j) /\ Open(j)
           S == {j \in Nat : j <= n => Means(j)}
<1>1. /\ n \in Nat /\ s \in [0..n -> V] /\ s[0] = "dump"
      /\ \A j \in 1..n : s[j] = IF s[j - 1] = "failure" \/ ls[j] = "failed" THEN "failure"
                                ELSE AfterError(ls[j], s[j - 1])
  BY SectionIs
<1>2. 0 \in S
  BY <1>1
<1>3. ASSUME NEW m \in Nat, m \in S
      PROVE  m + 1 \in S
  <2> SUFFICES ASSUME m + 1 <= n
               PROVE  Means(m + 1)
    OBVIOUS
  <2> DEFINE j == m + 1
  <2>1. Means(m)
    BY <1>1, <1>3
  <2>2. j \in 1..n /\ j - 1 = m /\ s[m] \in V /\ s[j] \in V
    <3>1. j \in 1..n /\ j - 1 = m
      BY <1>1
    <3>2. j \in 0..n /\ m \in 0..n
      BY <1>1, <3>1
    <3> HIDE DEF V, j
    <3> QED BY <1>1, <3>1, <3>2
  <2>3. s[j] = IF s[m] = "failure" \/ ls[j] = "failed" THEN "failure"
               ELSE AfterError(ls[j], s[m])
    BY <1>1, <2>2
  <2>4. Failed(j) <=> Failed(m) \/ ls[j] = "failed"
    BY <2>2
  <2>5. Open(j) <=> ls[j] = "error" \/ (Open(m) /\ ls[j] # "log")
    <3>1. ASSUME ls[j] = "error"
          PROVE  Open(j)
      <4>1. \A k \in j..j : ls[k] # "log"
        BY <3>1, <2>2
      <4> QED BY <3>1, <4>1, <2>2
    <3>2. ASSUME Open(m), ls[j] # "log"
          PROVE  Open(j)
      <4>1. PICK e \in 1..m : ls[e] = "error" /\ \A k \in e..m : ls[k] # "log"
        BY <3>2
      <4>2. e \in 1..j /\ \A k \in e..j : k \in e..m \/ k = j
        BY <2>2
      <4> QED BY <3>2, <4>1, <4>2
    <3>3. ASSUME Open(j), ls[j] # "error"
          PROVE  Open(m) /\ ls[j] # "log"
      <4>1. PICK e \in 1..j : ls[e] = "error" /\ \A k \in e..j : ls[k] # "log"
        BY <3>3
      <4>2. e \in 1..m /\ j \in e..j /\ \A k \in e..m : k \in e..j
        BY <2>2, <3>3, <4>1
      <4> QED BY <4>1, <4>2
    <3> QED BY <3>1, <3>2, <3>3
  <2> HIDE DEF Failed, Open, j
  <2>6. Means(j)
    BY <2>1, <2>2, <2>3, <2>4, <2>5 DEF AfterError
  <2> QED BY <2>6 DEF j
<1>4. \A j \in Nat : j \in S
  <2> HIDE DEF S
  <2> QED BY <1>2, <1>3, Induction
<1> QED BY <1>1, <1>4

\* A line is in an excerpt if it is a diagnostic, or since the last diagnostic
\* all lines can be parts of one.
LEMMA InExcerptMeans ==
    ASSUME NEW ls \in Seq(Class), NEW s, s = InExcerpt(ls), NEW i \in 0..Len(ls)
    PROVE  s[i] <=> \E d \in 1..i : ls[d] = "diag" /\ \A k \in d + 1..i : ls[k] \in Excerpts
<1> DEFINE n == Len(ls)
           Under(j) == \E d \in 1..j : ls[d] = "diag" /\ \A k \in d + 1..j : ls[k] \in Excerpts
           S == {j \in Nat : j <= n => (s[j] <=> Under(j))}
<1>1. /\ n \in Nat /\ s \in [0..n -> BOOLEAN] /\ ~s[0]
      /\ \A j \in 1..n : s[j] = (ls[j] = "diag" \/ (s[j - 1] /\ ls[j] \in Excerpts))
  BY InExcerptIs
<1>2. 0 \in S
  BY <1>1
<1>3. ASSUME NEW m \in Nat, m \in S
      PROVE  m + 1 \in S
  <2> SUFFICES ASSUME m + 1 <= n
               PROVE  s[m + 1] <=> Under(m + 1)
    OBVIOUS
  <2> DEFINE j == m + 1
  <2>1. s[m] <=> Under(m)
    BY <1>1, <1>3
  <2>2. j \in 1..n /\ j - 1 = m
    BY <1>1
  <2>3. s[j] = (ls[j] = "diag" \/ (s[m] /\ ls[j] \in Excerpts))
    BY <1>1, <2>2
  <2>4. Under(j) <=> ls[j] = "diag" \/ (Under(m) /\ ls[j] \in Excerpts)
    <3>1. ASSUME ls[j] = "diag"
          PROVE  Under(j)
      BY <3>1, <2>2
    <3>2. ASSUME Under(m), ls[j] \in Excerpts
          PROVE  Under(j)
      <4>1. PICK d \in 1..m : ls[d] = "diag" /\ \A k \in d + 1..m : ls[k] \in Excerpts
        BY <3>2
      <4>2. d \in 1..j /\ \A k \in d + 1..j : k \in d + 1..m \/ k = j
        BY <2>2
      <4> QED BY <3>2, <4>1, <4>2
    <3>3. ASSUME Under(j), ls[j] # "diag"
          PROVE  Under(m) /\ ls[j] \in Excerpts
      <4>1. PICK d \in 1..j : ls[d] = "diag" /\ \A k \in d + 1..j : ls[k] \in Excerpts
        BY <3>3
      <4>2. d \in 1..m /\ j \in d + 1..j /\ \A k \in d + 1..m : k \in d + 1..j
        BY <2>2, <3>3, <4>1
      <4> QED BY <4>1, <4>2
    <3> QED BY <3>1, <3>2, <3>3
  <2> HIDE DEF Under, j
  <2>5. s[j] <=> Under(j)
    BY <2>1, <2>3, <2>4
  <2> QED BY <2>5 DEF j
<1>4. \A j \in Nat : j \in S
  <2> HIDE DEF S
  <2> QED BY <1>2, <1>3, Induction
<1> QED BY <1>1, <1>4

\* t is s, with more after it.
Extends(s, t) == Len(s) <= Len(t) /\ \A i \in 1..Len(s) : t[i] = s[i]

\* Cleaning adds no lines, and more output only adds to what was cleaned.
LEMMA WithoutBlanksShort ==
    ASSUME NEW ls \in Seq(Class)
    PROVE  WithoutBlanks(ls) \in Seq(Class) /\ Len(WithoutBlanks(ls)) <= Len(ls)
<1>1. PICK f \in [0..Len(ls) -> Seq(Class)] :
             /\ WithoutBlanks(ls) = f[Len(ls)]
             /\ f[0] = <<>>
             /\ \A i \in 1..Len(ls) :
                  f[i] = IF ls[i] = "blank" THEN f[i - 1] ELSE Append(f[i - 1], ls[i])
  BY WithoutBlanksIs
<1> DEFINE n == Len(ls)
           S == {j \in Nat : j <= n => Len(f[j]) <= j}
<1>2. n \in Nat
  OBVIOUS
<1>3. 0 \in S
  BY <1>1
<1>4. ASSUME NEW m \in Nat, m \in S
      PROVE  m + 1 \in S
  <2> SUFFICES ASSUME m + 1 <= n
               PROVE  Len(f[m + 1]) <= m + 1
    OBVIOUS
  <2>1. m + 1 \in 1..n /\ (m + 1) - 1 = m /\ m \in 0..n
    OBVIOUS
  <2>2. f[m] \in Seq(Class) /\ Len(f[m]) <= m
    BY <1>4, <2>1
  <2>3. f[m + 1] = IF ls[m + 1] = "blank" THEN f[m] ELSE Append(f[m], ls[m + 1])
    BY <1>1, <2>1
  <2>4. ls[m + 1] \in Class
    BY <2>1
  <2> QED BY <2>2, <2>3, <2>4
<1>5. n \in S
  <2> HIDE DEF S
  <2> QED BY <1>2, <1>3, <1>4, Induction
<1> QED BY <1>1, <1>2, <1>5

LEMMA WithoutBlanksGrows ==
    ASSUME NEW ls \in Seq(Class), NEW more \in Seq(Class)
    PROVE  Extends(WithoutBlanks(ls), WithoutBlanks(ls \o more))
<1> DEFINE n == Len(ls)
           all == ls \o more
<1>1. all \in Seq(Class) /\ Len(all) = n + Len(more) /\ \A i \in 1..n : all[i] = ls[i]
  OBVIOUS
<1>2. n \in Nat /\ Len(more) \in Nat
  OBVIOUS
<1> HIDE DEF all
<1>3. PICK f \in [0..n -> Seq(Class)] :
             /\ WithoutBlanks(ls) = f[n]
             /\ f[0] = <<>>
             /\ \A i \in 1..n :
                  f[i] = IF ls[i] = "blank" THEN f[i - 1] ELSE Append(f[i - 1], ls[i])
  BY WithoutBlanksIs
<1>4. PICK g \in [0..Len(all) -> Seq(Class)] :
             /\ WithoutBlanks(all) = g[Len(all)]
             /\ g[0] = <<>>
             /\ \A i \in 1..Len(all) :
                  g[i] = IF all[i] = "blank" THEN g[i - 1] ELSE Append(g[i - 1], all[i])
  BY <1>1, WithoutBlanksIs
<1>5. f[n] = g[n]
  <2> DEFINE S == {j \in Nat : j <= n => f[j] = g[j]}
  <2>1. 0 \in S
    BY <1>3, <1>4
  <2>2. ASSUME NEW m \in Nat, m \in S
        PROVE  m + 1 \in S
    <3> SUFFICES ASSUME m + 1 <= n
                 PROVE  f[m + 1] = g[m + 1]
      OBVIOUS
    <3>1. m + 1 \in 1..n /\ m + 1 \in 1..Len(all) /\ (m + 1) - 1 = m
      BY <1>1, <1>2
    <3>2. f[m] = g[m]
      BY <1>2, <2>2
    <3>3. f[m + 1] = IF ls[m + 1] = "blank" THEN f[m] ELSE Append(f[m], ls[m + 1])
      BY <1>3, <3>1
    <3>4. g[m + 1] = IF all[m + 1] = "blank" THEN g[m] ELSE Append(g[m], all[m + 1])
      BY <1>4, <3>1
    <3> QED BY <1>1, <3>1, <3>2, <3>3, <3>4
  <2>3. n \in S
    <3> HIDE DEF S
    <3> QED BY <1>2, <2>1, <2>2, Induction
  <2> QED BY <2>3
<1> DEFINE S == {j \in Nat : j <= Len(more) => Extends(g[n], g[n + j])}
<1>6. \A j \in 0..Len(more) : g[n + j] \in Seq(Class)
  <2>1. \A j \in 0..Len(more) : n + j \in 0..Len(all)
    BY <1>1, <1>2
  <2> QED BY <2>1
<1>7. 0 \in S
  <2>1. g[n] \in Seq(Class) /\ n + 0 = n
    BY <1>1, <1>2
  <2> QED BY <2>1 DEF Extends
<1>8. ASSUME NEW m \in Nat, m \in S
      PROVE  m + 1 \in S
  <2> SUFFICES ASSUME m + 1 <= Len(more)
               PROVE  Extends(g[n], g[n + (m + 1)])
    OBVIOUS
  <2> DEFINE j == n + (m + 1)
  <2>1. j \in 1..Len(all) /\ j - 1 = n + m /\ m \in 0..Len(more)
    BY <1>1, <1>2
  <2>2. Extends(g[n], g[n + m]) /\ g[n + m] \in Seq(Class) /\ g[n] \in Seq(Class)
    BY <1>1, <1>2, <1>6, <1>8, <2>1
  <2>3. g[j] = g[n + m] \/ g[j] = Append(g[n + m], all[j])
    BY <1>4, <2>1
  <2>4. all[j] \in Class
    BY <1>1, <2>1
  <2>5. CASE g[j] = g[n + m]
    BY <2>2, <2>5 DEF j
  <2>6. CASE g[j] = Append(g[n + m], all[j])
    <3>1. Extends(g[n + m], g[j])
      BY <2>2, <2>4, <2>6 DEF Extends
    <3> HIDE DEF j
    <3>2. Extends(g[n], g[j])
      BY <2>2, <3>1 DEF Extends
    <3> QED BY <3>2 DEF j
  <2> QED BY <2>3, <2>5, <2>6
<1>9. Len(more) \in S
  <2> HIDE DEF S
  <2> QED BY <1>2, <1>7, <1>8, Induction
<1> QED BY <1>1, <1>2, <1>3, <1>4, <1>5, <1>9 DEF all

\* More output takes no line out of a build's answer, and neither does the end
\* of the command.
LEMMA TrimBuildGrows ==
    ASSUME NEW c \in Seq(Class), NEW d \in Seq(Class), Extends(c, d), NEW failed
    PROVE  TrimBuild(c, FALSE) \subseteq TrimBuild(d, FALSE)
           /\ TrimBuild(c, FALSE) \subseteq TrimBuild(c, failed)
<1> DEFINE x == InExcerpt(c)
           y == InExcerpt(d)
<1>1. \A i \in 1..Len(c) : i \in 1..Len(d) /\ c[i] = d[i]
  BY DEF Extends
<1>2. ASSUME NEW i \in 1..Len(c), x[i]
      PROVE  y[i]
  <2>1. PICK k \in 1..i : c[k] = "diag" /\ \A m \in k + 1..i : c[m] \in Excerpts
    <3>1. i \in 0..Len(c)
      OBVIOUS
    <3> QED BY <1>2, <3>1, InExcerptMeans
  <2>2. d[k] = "diag" /\ \A m \in k + 1..i : d[m] \in Excerpts
    <3>1. k \in 1..Len(c) /\ \A m \in k + 1..i : m \in 1..Len(c)
      OBVIOUS
    <3> QED BY <1>1, <2>1, <3>1
  <2>3. i \in 0..Len(d)
    BY <1>1
  <2> QED BY <2>2, <2>3, InExcerptMeans
<1> HIDE DEF x, y
<1>3. DOMAIN c = 1..Len(c) /\ DOMAIN d = 1..Len(d)
  OBVIOUS
<1>4. TrimBuild(c, FALSE) = {i \in DOMAIN c : x[i] \/ c[i] \notin {"noise", "graph"}}
  BY DEF TrimBuild, x
<1>5. TrimBuild(d, FALSE) = {i \in DOMAIN d : y[i] \/ d[i] \notin {"noise", "graph"}}
  BY DEF TrimBuild, y
<1>6. TrimBuild(c, failed) = {i \in DOMAIN c :
         \/ failed /\ i > Len(c) - FailedTail
         \/ x[i]
         \/ c[i] \notin {"noise", "graph"}}
  BY DEF TrimBuild, x
<1> QED BY <1>1, <1>2, <1>3, <1>4, <1>5, <1>6

\* A line that the window leaves out has a full window of later lines after it.
LEMMA WindowFull ==
    ASSUME NEW n \in Nat, NEW K \in SUBSET (1..n), NEW i \in K \ Window(K)
    PROVE  Cardinality(Window(K)) = MaxShown /\ \A k \in Window(K) : k > i
<1> DEFINE From(a) == {k \in K : k >= a}
           S == {a \in Nat : Cardinality(From(a)) <= MaxShown}
<1>0. K \subseteq Nat /\ i \in K /\ \A k \in K : k <= n
  OBVIOUS
<1>1. Window(K) = {k \in K : Cardinality(From(k)) <= MaxShown}
  BY DEF Window
<1>2. \A a \in Nat : IsFiniteSet(From(a)) /\ Cardinality(From(a)) \in Nat
  <2> TAKE a \in Nat
  <2>1. From(a) \in SUBSET (1..n)
    OBVIOUS
  <2>2. IsFiniteSet(1..n)
    BY FS_Interval
  <2> HIDE DEF From
  <2> QED BY <2>1, <2>2, FS_Subset, FS_CardinalityType
<1>3. \A a, b \in Nat : a <= b => Cardinality(From(b)) <= Cardinality(From(a))
  <2> TAKE a, b \in Nat
  <2> HAVE a <= b
  <2>1. \A k \in K : k >= b => k >= a
    BY <1>0
  <2>2. From(b) \in SUBSET From(a)
    BY <2>1
  <2> HIDE DEF From
  <2> QED BY <1>2, <2>2, FS_Subset
<1>5. ~(Cardinality(From(i)) <= MaxShown)
  <2> HIDE DEF From
  <2> QED BY <1>1, <1>0
<1>6. n + 1 \in S
  <2>1. From(n + 1) = {}
    <3>1. \A k \in K : ~(k >= n + 1)
      BY <1>0
    <3> QED BY <3>1
  <2>2. Cardinality(From(n + 1)) = 0
    BY <2>1, FS_EmptySet
  <2> HIDE DEF From
  <2> QED BY <2>2, TailShort
<1> HIDE DEF From
<1>7. PICK a \in S : \A b \in S : a <= b
  <2>1. S \subseteq Nat /\ S # {}
    BY <1>6
  <2> HIDE DEF S
  <2> QED BY <2>1, LeastNat
<1>8. a \in Nat /\ i < a
  <2>1. CASE a <= i
    BY <1>2, <1>3, <1>0, <1>5, <1>7, <2>1, TailShort
  <2> QED BY <1>0, <1>7, <2>1
<1>9. Window(K) = From(a)
  <2>1. ASSUME NEW k \in K
        PROVE  Cardinality(From(k)) <= MaxShown <=> k >= a
    <3>1. CASE k >= a
      BY <1>2, <1>3, <1>0, <1>7, <3>1, TailShort
    <3>2. CASE ~(k >= a)
      BY <1>0, <1>7, <1>8, <3>2
    <3> QED BY <3>1, <3>2
  <2> QED BY <1>1, <2>1 DEF From
<1>10. Cardinality(From(a)) = MaxShown
  <2>1. a - 1 \in Nat /\ a - 1 < a
    BY <1>0, <1>8
  <2>2. ~(Cardinality(From(a - 1)) <= MaxShown)
    BY <1>7, <1>8, <2>1
  <2>3. From(a - 1) \in SUBSET (From(a) \cup {a - 1})
    <3>1. \A k \in K : k >= a - 1 => k >= a \/ k = a - 1
      BY <1>0, <1>8
    <3> QED BY <3>1 DEF From
  <2>4. /\ IsFiniteSet(From(a) \cup {a - 1})
        /\ Cardinality(From(a) \cup {a - 1}) <= Cardinality(From(a)) + 1
        /\ Cardinality(From(a) \cup {a - 1}) \in Nat
    <3>1. IsFiniteSet(From(a)) /\ Cardinality(From(a)) \in Nat
      BY <1>2, <1>8
    <3>2. /\ IsFiniteSet(From(a) \cup {a - 1})
          /\ Cardinality(From(a) \cup {a - 1}) =
               IF a - 1 \in From(a) THEN Cardinality(From(a)) ELSE Cardinality(From(a)) + 1
      BY <3>1, FS_AddElement
    <3> QED BY <3>1, <3>2
  <2>5. Cardinality(From(a - 1)) <= Cardinality(From(a) \cup {a - 1})
    BY <2>3, <2>4, FS_Subset
  <2>6. Cardinality(From(a)) <= MaxShown
    BY <1>7
  <2> QED BY <1>2, <1>8, <2>1, <2>2, <2>4, <2>5, <2>6, TailShort
<1>11. \A k \in From(a) : k > i
  <2>1. \A k \in K : k >= a => k > i
    BY <1>0, <1>8
  <2> QED BY <2>1 DEF From
<1> QED BY <1>9, <1>10, <1>11

----------------------------------------------------------------------------
(* The inductive invariant *)

\* Every variable keeps the shape the code gives it.
TrimTypeOK ==
    /\ command \in Commands
    /\ lines \in Seq(Class)
    /\ chunks \in Nat
    /\ over \in BOOLEAN
    /\ verbose \in BOOLEAN

\* What was last shown is kept still: a job's answers come from output that has
\* only grown, any other command's from output that is complete.
ShownInv ==
    /\ ~over => exit_code = "none"
    /\ command = "job" => shown \subseteq Trimmed(verbose)
    /\ command # "job" => shown = {} \/ (over /\ shown = Trimmed(verbose))

TrimInv == TrimTypeOK /\ ShownInv

\* The cleaned lines are lines, no more than there were.
LEMMA CleanedType ==
    ASSUME TrimTypeOK
    PROVE  /\ Cleaned \in Seq(Class)
           /\ Len(Cleaned) <= Len(lines)
           /\ DOMAIN Cleaned = 1..Len(Cleaned)
<1>1. Cleaned \in Seq(Class) /\ Len(Cleaned) <= Len(lines)
  BY WithoutBlanksShort DEF TrimTypeOK, Cleaned
<1> QED BY <1>1

\* What is kept is among the cleaned lines.
LEMMA TrimmedType ==
    ASSUME TrimTypeOK, NEW v \in BOOLEAN
    PROVE  Trimmed(v) \subseteq 1..Len(Cleaned)
<1>1. CASE v
  BY <1>1, CleanedType DEF Trimmed
<1>2. CASE ~v /\ command = "validate"
  BY <1>2, CleanedType DEF Trimmed, TrimValidate
<1>3. CASE ~v /\ command # "validate"
  BY <1>3, CleanedType DEF Trimmed, TrimBuild
<1> QED BY <1>1, <1>2, <1>3

LEMMA InitTrimInv == TrimInit => TrimInv
<1> SUFFICES ASSUME TrimInit PROVE TrimInv
  OBVIOUS
<1>1. TrimTypeOK
  <2>1. <<>> \in Seq(Class)
    OBVIOUS
  <2> QED BY <2>1 DEF TrimInit, TrimTypeOK
<1>2. ShownInv
  BY DEF TrimInit, ShownInv
<1> QED BY <1>1, <1>2 DEF TrimInv

\* More output of a job that still runs takes back nothing.
LEMMA OutputTrimInv ==
    ASSUME TrimInv, Output
    PROVE  TrimInv'
<1>1. PICK piece \in {<<c>> : c \in Classes(command)} \cup (Classes(command) \X Classes(command)) :
         lines' = lines \o piece
  BY DEF Output
<1>2. piece \in Seq(Class)
  <2>1. Classes(command) \subseteq Class
    BY DEF TrimInv, TrimTypeOK, Class
  <2>2. CASE piece \in {<<c>> : c \in Classes(command)}
    <3>1. PICK c \in Class : piece = <<c>>
      BY <2>1, <2>2
    <3> QED BY <3>1
  <2>3. CASE piece \in Classes(command) \X Classes(command)
    <3>1. PICK c \in Class, d \in Class : piece = <<c, d>>
      BY <2>1, <2>3
    <3> QED BY <3>1
  <2> QED BY <2>2, <2>3
<1>3. TrimTypeOK'
  BY <1>1, <1>2 DEF Output, TrimInv, TrimTypeOK
<1>4. ShownInv'
  <2>1. /\ ~over /\ exit_code = "none"
        /\ UNCHANGED <<command, over, exit_code, verbose, shown>>
    BY DEF Output, TrimInv, ShownInv
  <2>2. CASE command = "job"
    <3>1. Cleaned \in Seq(Class) /\ Cleaned' \in Seq(Class) /\ Extends(Cleaned, Cleaned')
      BY <1>1, <1>2, <1>3, WithoutBlanksShort, WithoutBlanksGrows
         DEF TrimInv, TrimTypeOK, Cleaned
    <3>2. shown \subseteq Trimmed(verbose)
      BY <2>2 DEF TrimInv, ShownInv
    <3>3. CASE verbose
      <4>1. DOMAIN Cleaned \subseteq DOMAIN Cleaned'
        BY <3>1 DEF Extends
      <4> QED BY <2>1, <2>2, <3>2, <3>3, <4>1 DEF ShownInv, Trimmed
    <3>4. CASE ~verbose
      <4>1. TrimBuild(Cleaned, FALSE) \subseteq TrimBuild(Cleaned', FALSE)
        BY <3>1, TrimBuildGrows
      <4>2. Trimmed(verbose) = TrimBuild(Cleaned, FALSE)
        BY <2>1, <2>2, <3>4 DEF Trimmed
      <4>3. Trimmed(verbose)' = TrimBuild(Cleaned', FALSE)
        BY <2>1, <2>2, <3>4 DEF Trimmed
      <4> QED BY <2>1, <2>2, <3>2, <4>1, <4>2, <4>3 DEF ShownInv
    <3> QED BY <3>3, <3>4
  <2>3. CASE command # "job"
    BY <2>1, <2>3 DEF TrimInv, ShownInv
  <2> QED BY <2>2, <2>3
<1> QED BY <1>3, <1>4 DEF TrimInv

\* Nor does the exit code: a build that failed keeps more.
LEMMA EndsTrimInv ==
    ASSUME TrimInv, Ends
    PROVE  TrimInv'
<1>1. /\ ~over /\ exit_code = "none" /\ over' = TRUE
      /\ UNCHANGED <<command, lines, chunks, verbose, shown, Cleaned>>
  BY DEF Ends, TrimInv, ShownInv, Cleaned
<1>2. TrimTypeOK'
  BY <1>1 DEF TrimInv, TrimTypeOK
<1>3. ShownInv'
  <2>1. CASE command = "job"
    <3>1. shown \subseteq Trimmed(verbose)
      BY <2>1 DEF TrimInv, ShownInv
    <3>2. CASE verbose
      BY <1>1, <2>1, <3>1, <3>2 DEF ShownInv, Trimmed
    <3>3. CASE ~verbose
      <4>1. Cleaned \in Seq(Class) /\ Extends(Cleaned, Cleaned)
        BY CleanedType DEF TrimInv, TrimTypeOK, Extends
      <4>2. TrimBuild(Cleaned, FALSE) \subseteq TrimBuild(Cleaned, exit_code' = "bad")
        BY <4>1, TrimBuildGrows
      <4>3. Trimmed(verbose) = TrimBuild(Cleaned, FALSE)
        BY <1>1, <2>1, <3>3 DEF Trimmed
      <4>4. Trimmed(verbose)' = TrimBuild(Cleaned, exit_code' = "bad")
        BY <1>1, <2>1, <3>3 DEF Trimmed
      <4> QED BY <1>1, <2>1, <3>1, <4>2, <4>3, <4>4 DEF ShownInv
    <3> QED BY <3>2, <3>3
  <2>2. CASE command # "job"
    BY <1>1, <2>2 DEF TrimInv, ShownInv
  <2> QED BY <2>1, <2>2
<1> QED BY <1>2, <1>3 DEF TrimInv

\* An answer shows what is kept at the time.
LEMMA AnswerTrimInv ==
    ASSUME TrimInv, Poll \/ Result
    PROVE  TrimInv'
<1>1. verbose' \in BOOLEAN /\ UNCHANGED <<command, lines, chunks, over, exit_code, Cleaned>>
  BY DEF Poll, Result, Cleaned
<1>2. Trimmed(verbose') = Trimmed(verbose)'
  BY <1>1 DEF Trimmed
<1>3. TrimTypeOK'
  BY <1>1 DEF TrimInv, TrimTypeOK
<1>4. CASE Poll
  BY <1>1, <1>2, <1>3, <1>4 DEF Poll, TrimInv, ShownInv, Window
<1>5. CASE Result
  BY <1>1, <1>2, <1>3, <1>5 DEF Result, TrimInv, ShownInv
<1> QED BY <1>4, <1>5

LEMMA NextTrimInv == TrimInv /\ [TrimNext]_trim_vars => TrimInv'
<1> SUFFICES ASSUME TrimInv, [TrimNext]_trim_vars PROVE TrimInv'
  OBVIOUS
<1>1. CASE UNCHANGED trim_vars
  BY <1>1 DEF trim_vars, TrimInv, TrimTypeOK, ShownInv, Trimmed, Cleaned
<1> QED BY <1>1, OutputTrimInv, EndsTrimInv, AnswerTrimInv DEF TrimNext

\* The invariant holds for every output and every order of polls.
THEOREM TrimInvariant == TrimSpec => []TrimInv
BY InitTrimInv, NextTrimInv, PTL DEF TrimSpec

----------------------------------------------------------------------------
(* What an agent is shown *)

\* For every output of a validation the answer has what it should, and no more.
THEOREM ValidateRight == TrimSpec => []ValidateKeepsDiagnostics
<1> SUFFICES ASSUME TrimInv, command = "validate"
             PROVE  Trimmed(FALSE) = {i \in DOMAIN Cleaned :
                       \/ Cleaned[i] \in {"log", "error"}
                       \/ Details(i)
                       \/ \E f \in 1..i : Cleaned[f] = "failed"}
  BY TrimInvariant, PTL DEF ValidateKeepsDiagnostics
<1> DEFINE c == Cleaned
           s == Section(c)
<1>1. c \in Seq(Class) /\ DOMAIN c = 1..Len(c)
  BY CleanedType DEF TrimInv
<1>2. Trimmed(FALSE) = {i \in DOMAIN c : s[i] # "dump" \/ c[i] \in {"log", "error"}}
  BY DEF Trimmed, TrimValidate
<1>3. ASSUME NEW i \in 1..Len(c)
      PROVE  s[i] # "dump" \/ c[i] \in {"log", "error"} <=>
             \/ c[i] \in {"log", "error"}
             \/ Details(i)
             \/ \E f \in 1..i : c[f] = "failed"
  <2> HIDE DEF c, s
  <2>0. s = Section(c) /\ c \in Seq(Class)
    BY <1>1 DEF s
  <2>1. i \in 0..Len(c) /\ s[i] \in {"dump", "details", "failure"}
    BY <2>0, SectionIs
  <2>2. s[i] = "failure" <=> \E f \in 1..i : c[f] = "failed"
    BY <2>0, <2>1, SectionMeans
  <2>3. s[i] = "details" <=>
          /\ \A f \in 1..i : c[f] # "failed"
          /\ \E e \in 1..i : c[e] = "error" /\ \A k \in e..i : c[k] # "log"
    BY <2>0, <2>1, SectionMeans
  <2>4. Details(i) <=> \E e \in 1..i - 1 : c[e] = "error" /\ \A k \in e..i : c[k] # "log"
    BY DEF Details, c
  <2>5. CASE c[i] = "error"
    BY <2>5
  <2>6. CASE c[i] # "error"
    <3>1. \A e \in 1..i : c[e] = "error" => e \in 1..i - 1
      BY <2>6
    <3>2. Details(i) <=> \E e \in 1..i : c[e] = "error" /\ \A k \in e..i : c[k] # "log"
      BY <2>4, <3>1
    <3> QED BY <2>1, <2>2, <2>3, <3>2
  <2> QED BY <2>5, <2>6
<1> QED BY <1>1, <1>2, <1>3

\* For every output of a build that runs or reported its exit code the answer
\* lacks noise, and only noise.
THEOREM BuildRight == TrimSpec => []BuildLeavesOutOnlyNoise
<1> SUFFICES ASSUME TrimInv, command # "validate", over => exit_code # "none"
             PROVE  DOMAIN Cleaned \ Trimmed(FALSE) = {i \in DOMAIN Cleaned :
                       /\ Cleaned[i] \in {"noise", "graph"}
                       /\ ~UnderDiagnostic(i)
                       /\ exit_code = "bad" => i <= Len(Cleaned) - FailedTail}
  BY TrimInvariant, PTL DEF BuildLeavesOutOnlyNoise
<1> DEFINE c == Cleaned
           x == InExcerpt(c)
<1>1. c \in Seq(Class) /\ DOMAIN c = 1..Len(c)
  BY CleanedType DEF TrimInv
<1>2. Trimmed(FALSE) = {i \in DOMAIN c :
          \/ exit_code = "bad" /\ i > Len(c) - FailedTail
          \/ x[i]
          \/ c[i] \notin {"noise", "graph"}}
  BY DEF Trimmed, TrimBuild
<1>3. ASSUME NEW i \in 1..Len(c), c[i] \in {"noise", "graph"}
      PROVE  x[i] <=> UnderDiagnostic(i)
  <2> HIDE DEF c, x
  <2>1. i \in 0..Len(c)
    BY <1>1
  <2>2. x[i] <=> \E d \in 1..i : c[d] = "diag" /\ \A k \in d + 1..i : c[k] \in Excerpts
    BY <1>1, <2>1, InExcerptMeans DEF x
  <2>3. UnderDiagnostic(i) <=>
          \E d \in 1..i - 1 : c[d] = "diag" /\ \A k \in d + 1..i : c[k] \in Excerpts
    BY DEF UnderDiagnostic, Excerpts, c
  <2>4. \A d \in 1..i : c[d] = "diag" => d \in 1..i - 1
    BY <1>3
  <2> QED BY <2>2, <2>3, <2>4
<1>4. \A i \in 1..Len(c) : i <= Len(c) - FailedTail <=> ~(i > Len(c) - FailedTail)
  <2> HIDE DEF c
  <2> QED BY <1>1, TailShort
<1> QED BY <1>1, <1>2, <1>3, <1>4

\* Whatever the limit and the output, a job's answer that was cut says so.
THEOREM CutTold == TrimSpec => []CutIsTold
<1> SUFFICES ASSUME TrimInv PROVE CutIsTold
  BY TrimInvariant, PTL
<1> SUFFICES ASSUME chunks = Len(lines),
                    NEW v \in BOOLEAN, Window(Trimmed(v)) # Trimmed(v)
             PROVE  SaysCut
  BY DEF CutIsTold
<1> DEFINE K == Trimmed(v)
           n == Len(Cleaned)
<1>1. K \in SUBSET (1..n) /\ n \in Nat /\ n <= Len(lines) /\ Len(lines) \in Nat
  BY CleanedType, TrimmedType DEF TrimInv, TrimTypeOK
<1>2. PICK i \in K : ~(Cardinality({k \in K : k >= i}) <= MaxShown)
  BY DEF Window
<1> HIDE DEF K, n
<1>3. {k \in K : k >= i} \in SUBSET (1..n)
  BY <1>1
<1>4. /\ Cardinality({k \in K : k >= i}) \in Nat
      /\ Cardinality({k \in K : k >= i}) <= n
  <2>1. IsFiniteSet(1..n) /\ Cardinality(1..n) = n
    BY <1>1, FS_Interval
  <2> QED BY <1>3, <2>1, FS_Subset, FS_CardinalityType
<1> QED BY <1>1, <1>2, <1>4, TailShort DEF SaysCut

\* From one answer of a job to the next, a line is lost only to a full window
\* of newer ones.
THEOREM PollsAdd == TrimSpec => PollsOnlyAdd
<1> DEFINE A == verbose' = verbose =>
                  \A i \in shown \ shown' :
                    Cardinality(shown') = MaxShown /\ \A k \in shown' : k > i
<1>1. TrimInv /\ [TrimNext]_trim_vars => [A]_trim_vars
  <2> SUFFICES ASSUME TrimInv, TrimNext, verbose' = verbose, NEW i \in shown \ shown'
               PROVE  Cardinality(shown') = MaxShown /\ \A k \in shown' : k > i
    BY DEF trim_vars
  <2>1. CASE Output \/ Ends
    BY <2>1 DEF Output, Ends
  <2>2. CASE Poll
    <3>1. shown \subseteq Trimmed(verbose) /\ shown' = Window(Trimmed(verbose))
      BY <2>2 DEF Poll, TrimInv, ShownInv
    <3>2. Trimmed(verbose) \in SUBSET (1..Len(Cleaned)) /\ Len(Cleaned) \in Nat
      BY CleanedType, TrimmedType DEF TrimInv, TrimTypeOK
    <3> QED BY <3>1, <3>2, WindowFull
  <2>3. CASE Result
    BY <2>3 DEF Result, TrimInv, ShownInv
  <2> QED BY <2>1, <2>2, <2>3 DEF TrimNext
<1> QED BY <1>1, TrimInvariant, PTL DEF TrimSpec, PollsOnlyAdd
============================================================================
