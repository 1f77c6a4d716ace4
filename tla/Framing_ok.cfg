\* Two writers, chunks of two bytes, three messages of the three shapes
\* (a Request, a Reply and a two-chunk FileTransfer), two writes, so that
\* each pair of shapes is filled and sent interleaved.  Each ::write may
\* accept all of a view, one byte, or nothing, and at most two calls of a
\* view accept bytes.  The constraint stops at the first Send that wrote
\* more or other than it reported (Framing_partial.cfg goes on from
\* there); after it the reader may wait forever, so deadlock is not what
\* this run asks about.
CONSTANTS
    w1 = w1
    w2 = w2
    Writers <- MCWriters
    ChunkSize = 2
    Msgs <- MCMsgs
    MaxWrites = 2
    ShortWrites = {1}
    MaxWriteCalls = 2
SPECIFICATION Spec
CONSTRAINT CleanStreams
INVARIANT TypeOK
INVARIANT ReassemblesCleanStream
CHECK_DEADLOCK FALSE
