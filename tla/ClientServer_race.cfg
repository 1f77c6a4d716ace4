\* Two clients, two servers, one file, two operations per client; the
\* callbacks of a fan-out run concurrently on the thread pool.  A client
\* whose request a second `done` erased waits forever, so deadlock is not
\* what this run is about.
CONSTANTS
    c1 = c1
    c2 = c2
    s1 = s1
    s2 = s2
    f1 = f1
    Clients <- MCClients
    Servers <- MCServers
    Files <- MCFiles
    MaxOps = 2
    IoFailures = FALSE
SPECIFICATION Spec
INVARIANT ReplicaPrefix
CHECK_DEADLOCK FALSE
