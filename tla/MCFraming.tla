---------------------------- MODULE MCFraming ----------------------------
EXTENDS Framing, TLC

CONSTANTS w1, w2

MCWriters == {w1, w2}

\* A Request and a Reply of the mutex protocol (opcodes 100 and 101) with
\* one-byte bodies, and a FileTransfer whose file fills whole chunks.
MCRequest == [op |-> 100, body |-> <<1>>, file |-> <<>>]
MCReply   == [op |-> 101, body |-> <<>>, file |-> <<>>]
MCTransferWhole == [op |-> kFileTransfer, body |-> <<2>>, file |-> <<7, 8>>]
MCMsgs == {MCRequest, MCReply, MCTransferWhole}

\* The two one-frame messages: two writes of these show the resend of
\* socket.cc:203.
MCMsgsFrames == {MCRequest, MCReply}
\* Successors of a state reached by an unclean Send are not explored where
\* this constraint is given: ReassemblesCleanStream says nothing of them,
\* and clean never becomes TRUE again.
CleanStreams == clean
=============================================================================
