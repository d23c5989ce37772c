--------------------------- MODULE MCJobRegistry ---------------------------
(* Small instances of JobRegistry for TLC. *)
EXTENDS JobRegistry, TLC

JobSymmetry == Permutations(Job)

\* Bound: an agent follows one job.  Polling a job has no effect on another, so
\* what one agent hears of several jobs is what several such agents hear.
OneJobEach ==
    \A p \in Poller :
        Cardinality({j \in Job : heard[p][j] # "nothing" \/ waiting[p] = j}) <= 1
============================================================================
