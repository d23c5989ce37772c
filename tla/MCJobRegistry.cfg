CONSTANTS
    Job = {j1, j2, j3, j4}
    Poller = {p1}
    MaxJobs = 1
    JobTTL = 1
    MaxTime = 2
    NoTime = NoTime
    NoJob = NoJob
SPECIFICATION Spec
CONSTRAINT OneJobEach
SYMMETRY JobSymmetry
INVARIANTS TypeOK LiveJobsKept UnknownOnlyWhenOver
PROPERTIES PrunedRightly AnswersNeverRegress
CHECK_DEADLOCK FALSE
