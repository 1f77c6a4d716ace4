\* Two nodes, one file, two requests each, each link handled in TCP order
\* (a subset of the code's orders).  OnReceiveRequest reads state_ outside
\* state_mutex_, so the client thread may run RunWithMutualExclusion
\* between that read and the Reply.  The same gap also loses a deferred
\* Request (a node then waits forever) or throws at line 155, so deadlock
\* is not what this run asks about.
CONSTANTS
    f1 = f1
    f2 = f2
    N = 2
    Files = {f1}
    MaxRequests = 2
    OrderedHandling = TRUE
SPECIFICATION Spec
INVARIANT MutualExclusion
CHECK_DEADLOCK FALSE
