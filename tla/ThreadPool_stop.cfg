\* Two workers, up to two jobs, one of them possibly scheduled by a job.
\* After Stop() returns the program ends, so a final state is not a
\* deadlock; a worker blocked for ever shows as StopReturns failing.
CONSTANTS
    w1 = w1
    w2 = w2
    Workers <- MCWorkers
    MainThread = MainThread
    None = None
    MaxJobs = 2
SPECIFICATION Spec
PROPERTY StopReturns
CHECK_DEADLOCK FALSE
