\* Three nodes, one file, one request each, handlers of a link in any
\* order: the Replies of two peers are handled on two pool threads, and
\* each calls CheckForMutualExclusion after its locked section.  A node may
\* wait forever on a lost Request, so deadlock is not what this run asks.
CONSTANTS
    f1 = f1
    f2 = f2
    N = 3
    Files = {f1}
    MaxRequests = 1
    OrderedHandling = FALSE
SPECIFICATION Spec
INVARIANT OperationInvokedOnce
CHECK_DEADLOCK FALSE
