\* A socket's input buffer of capacity 3 (scaled from 1024), read by the
\* message parser: Socket::Receive reserves the whole capacity, get() takes
\* header bytes and get_many() the body.
CONSTANTS
    Garbage = Garbage
    InitCap = 3
    MaxCap = 6
    MaxBytes = 6
    Amounts = {1, 2}
    ReserveSize = 3
    Ops <- MCInputOps
SPECIFICATION InputSpec
PROPERTY ImplementsByteQueue
CHECK_DEADLOCK FALSE
