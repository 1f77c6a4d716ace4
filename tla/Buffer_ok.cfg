\* Capacity 3 growing to 6, up to 7 bytes, callers moving 1 or 2 bytes at a
\* time and Socket::Receive reserving the default capacity.
CONSTANTS
    Garbage = Garbage
    InitCap = 3
    MaxCap = 6
    MaxBytes = 9
    Amounts = {1, 2}
    ReserveSize = 3
    Ops <- MCAllOps
SPECIFICATION Spec
INVARIANT TypeOK
INVARIANT SizeConserved
PROPERTY UnreadBytesKept
\* The process ends on an uncaught buffer_exception, and MaxBytes bounds the
\* writes, so behaviours stop.
CHECK_DEADLOCK FALSE
