\* One connection to a server whose root is any of MCRootDirs.  The
\* followed file holds at most one character to begin with and takes up
\* to three appends of "a", "b" or "ab".  The client
\* sends any request for any of MCNames, or closes.  The connection stops
\* for good once its machine has stopped: that final state is no deadlock.
CONSTANTS
    NL = "\n"
    Chars = {"a", "b", "\n"}
    MaxInitial = 1
    Lines <- MCLines
    MaxAppends = 3
    RootDirs <- MCRootDirs
    Names <- MCNames
    FileName <- MCFileName
SPECIFICATION Spec
INVARIANT TypeOK
INVARIANT AccessConfined
INVARIANT OneReplyPerRequest
PROPERTY ConnectionEnds
CHECK_DEADLOCK FALSE
