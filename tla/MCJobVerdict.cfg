CONSTANTS
    Job = {j1, j2, j3}
    Poller = {p1}
    MaxJobs = 2
    JobTTL = 1
    MaxTime = 2
    NoTime = NoTime
    NoJob = NoJob
SPECIFICATION Spec
INVARIANT EndedTaskHasVerdict
CHECK_DEADLOCK FALSE
