------------------------------ MODULE Framing ------------------------------
(***************************************************************************)
(* The framed message codec over one direction of a connection:           *)
(* net::proto::AsyncMessageService (src/src/net/proto/async_message_      *)
(* service.cc) on both ends and net::Socket::Send/Receive between them.   *)
(*                                                                         *)
(* A frame is a one-byte opcode, the body length as four little-endian    *)
(* bytes, and the body.  A FileTransfer is compound: its frame, one        *)
(* TransmitData frame per chunk of the file, and a Finished frame.  A     *)
(* message is a record [op, body, file]; file is the content of the file  *)
(* a FileTransfer sends (<<>> for the other opcodes).  Bytes are integers  *)
(* in 0..255.                                                              *)
(*                                                                         *)
(* Writers are threads that call WriteMessage on the same service; the    *)
(* reader is the ScheduleNextRead loop, which calls ReadMessage again as  *)
(* soon as a message is delivered.  Filling the output buffer is one step *)
(* (util::buffer is not synchronised; the model does not split its       *)
(* appends).                                                               *)
(***************************************************************************)
EXTENDS Integers, Sequences, SequencesExt, FiniteSets

CONSTANTS
    Msgs,           \* the messages a writer may write
    Writers,        \* the threads that call WriteMessage
    MaxWrites,      \* bound on the number of WriteMessage calls
    ChunkSize,      \* bytes per TransmitData chunk (200 server, 100 client)
    ShortWrites,    \* bound: the lengths a short ::write may accept
    MaxWriteCalls   \* bound: ::write calls of one view that accept bytes

ASSUME ShortWrites \subseteq Nat \ {0} /\ MaxWriteCalls \in Nat \ {0}

kFileTransfer == 4
kTransmitData == 5
kFinished == 6
None == -1

-----------------------------------------------------------------------------
(* Encoding.                                                               *)

\* util::bytes::insert<n>: least significant byte first.
RECURSIVE LittleEndian(_, _)
LittleEndian(x, n) ==
    IF n = 0 THEN <<>> ELSE <<x % 256>> \o LittleEndian(x \div 256, n - 1)

\* util::bytes::extract<4> of the body size into a uint32_t.
RECURSIVE FromLittleEndian(_)
FromLittleEndian(bs) ==
    IF bs = <<>> THEN 0 ELSE Head(bs) + 256 * FromLittleEndian(Tail(bs))

\* PutMessageInOutputBuffer: opcode, body size, body.
Frame(op, body) == <<op>> \o LittleEndian(Len(body), 4) \o body

\* The chunk loop of FillOutputBuffer: readsome of at most ChunkSize bytes
\* into a TransmitDataMessage whose data was resized to ChunkSize, so a
\* short last chunk keeps the zero bytes after what was read; a read of
\* zero bytes ends the loop before a chunk is put.
RECURSIVE Chunks(_)
Chunks(file) ==
    IF file = <<>> THEN <<>>
    ELSE LET k    == IF Len(file) < ChunkSize THEN Len(file) ELSE ChunkSize
             data == SubSeq(file, 1, k) \o [i \in 1..(ChunkSize - k) |-> 0]
         IN  Frame(kTransmitData, data)
             \o (IF k < ChunkSize THEN <<>>
                 ELSE Chunks(SubSeq(file, k + 1, Len(file))))

\* FillOutputBuffer: the bytes a WriteMessage puts in the output buffer.
Encode(m) ==
    IF m.op = kFileTransfer
    THEN Frame(kFileTransfer, m.body) \o Chunks(m.file)
         \o Frame(kFinished, <<>>)
    ELSE Frame(m.op, m.body)

-----------------------------------------------------------------------------
(* Socket::Send: for each view of the circular output buffer,           *)
(* ::write(view.data, view.size) is called until the bytes it reports     *)
(* reach view.size; EWOULDBLOCK ends that view's loop and the next view is *)
(* sent.  Each call writes from the start of the view again.  The socket *)
(* is non-blocking (socket.cc:24, 49): the kernel accepts all it is given *)
(* or part of it (a length in ShortWrites), or nothing (EWOULDBLOCK).     *)
(* The result is the set of [wire |-> bytes written, n |-> bytes          *)
(* reported] outcomes;                                                     *)
(* consume(n) then drops n bytes from the front of the buffer.            *)

Accepts(size) == {size} \cup {r \in ShortWrites : r < size}

\* The inner while loop for one view, sent bytes reported so far and
\* calls the calls that may still accept bytes (after MaxWriteCalls of
\* them the kernel answers EWOULDBLOCK).
RECURSIVE WriteLoopN(_, _, _)
WriteLoopN(view, sent, calls) ==
    IF sent >= Len(view) THEN {[wire |-> <<>>, n |-> sent]}
    ELSE {[wire |-> <<>>, n |-> sent]}
         \cup IF calls = 0 THEN {}
               ELSE UNION {{[wire |-> SubSeq(view, 1, r) \o o.wire, n |-> o.n] :
                              o \in WriteLoopN(view, sent + r, calls - 1)} :
                             r \in Accepts(Len(view))}

WriteLoop(view, sent) == WriteLoopN(view, sent, MaxWriteCalls)

\* The for loop over the views.
RECURSIVE SendViews(_)
SendViews(views) ==
    IF views = <<>> THEN {[wire |-> <<>>, n |-> 0]}
    ELSE {[wire |-> a.wire \o b.wire, n |-> a.n + b.n] :
            a \in WriteLoop(Head(views), 0), b \in SendViews(Tail(views))}

\* buffer::view: one view, or two when the data circles round the end of
\* the storage.  Where it circles depends on the buffer's history, so any
\* split may occur.
Views(buf) ==
    {<<buf>>} \cup {<<SubSeq(buf, 1, k), SubSeq(buf, k + 1, Len(buf))>> :
                      k \in 1..(Len(buf) - 1)}

\* Socket::Send.
Send(buf) == UNION {SendViews(v) : v \in Views(buf)}

-----------------------------------------------------------------------------
(* The reader's parse state: opcode_ and expected_ (None when unset),     *)
(* body_, the compound parent (None when there is none), finished_compound_,*)
(* the content of the transfer file, and an error of the parse.            *)

NoParent == [op |-> None, body |-> <<>>]

EmptyReader == [op |-> None, exp |-> None, body |-> <<>>, parent |-> NoParent,
                fin |-> FALSE, file |-> <<>>, err |-> FALSE]

\* ResetCurrentMessage.
ResetCurrent(r) == [r EXCEPT !.op = None, !.exp = None, !.body = <<>>]

\* ResetCompoundMessage.
ResetCompound(r) ==
    [ResetCurrent(r) EXCEPT !.parent = NoParent, !.fin = FALSE]

FinishedReadingCurrentMessage(r) ==
    r.op # None /\ r.exp # None /\ r.exp = Len(r.body)

\* FinishedReading: the compound message is finished, or the current one.
FinishedReading(r) ==
    (r.parent # NoParent /\ r.fin) \/ FinishedReadingCurrentMessage(r)

\* GetReturnedMessage: the compound parent, with the transfer file's
\* content, or the current message.
Returned(r) ==
    IF r.parent # NoParent
    THEN [op |-> r.parent.op, body |-> r.parent.body, file |-> r.file]
    ELSE [op |-> r.op, body |-> r.body, file |-> <<>>]

\* ProcessBytesIntoCurrentMessage: the opcode when there is a byte, the
\* body size when there are four, then as much of the body as is there.
\* Progress is FALSE when the opcode or the size is still incomplete.
ProcessBytesIntoCurrentMessage(r, in) ==
    IF r.op = None /\ Len(in) < 1
    THEN [r |-> r, in |-> in, progress |-> FALSE]
    ELSE
    LET r1 == IF r.op = None THEN [r EXCEPT !.op = Head(in)] ELSE r
        i1 == IF r.op = None THEN Tail(in) ELSE in
    IN  IF r1.exp = None /\ Len(i1) < 4
        THEN [r |-> r1, in |-> i1, progress |-> FALSE]
        ELSE
        LET r2 == IF r1.exp = None
                  THEN [r1 EXCEPT !.exp = FromLittleEndian(SubSeq(i1, 1, 4))]
                  ELSE r1
            i2 == IF r1.exp = None THEN SubSeq(i1, 5, Len(i1)) ELSE i1
            k  == IF r2.exp > Len(r2.body)
                  THEN IF Len(i2) < r2.exp - Len(r2.body) THEN Len(i2)
                                                          ELSE r2.exp - Len(r2.body)
                  ELSE 0
        IN  [r |-> [r2 EXCEPT !.body = @ \o SubSeq(i2, 1, k)],
             in |-> SubSeq(i2, k + 1, Len(i2)), progress |-> TRUE]

\* Mutant: a TransmitData frame is written to the file but the current
\* message is not reset.
ProcessBytesNoReset(r, in) ==
    LET s == ProcessBytesIntoCurrentMessage(r, in)
        c == s.r
    IN  IF ~FinishedReadingCurrentMessage(c) THEN s
        ELSE IF c.op = kFileTransfer
        THEN [s EXCEPT !.r = ResetCurrent([c EXCEPT !.parent = [op |-> c.op, body |-> c.body],
                                                    !.file = <<>>])]
        ELSE IF c.parent # NoParent
        THEN [s EXCEPT !.r =
                CASE c.op = kTransmitData -> [c EXCEPT !.file = @ \o c.body]
                  [] c.op = kFinished     -> ResetCurrent([c EXCEPT !.fin = TRUE])
                  [] OTHER                -> [c EXCEPT !.err = TRUE]]
        ELSE s

\* ProcessBytes: a completed FileTransfer frame opens a new transfer file
\* and becomes the compound parent; a completed frame inside a compound
\* appends a TransmitData body to the file or, for Finished, ends the
\* compound, and any other opcode is an error.
ProcessBytes(r, in) ==
    LET s == ProcessBytesIntoCurrentMessage(r, in)
        c == s.r
    IN  IF ~FinishedReadingCurrentMessage(c) THEN s
        ELSE IF c.op = kFileTransfer
        THEN [s EXCEPT !.r = ResetCurrent([c EXCEPT !.parent = [op |-> c.op, body |-> c.body],
                                                    !.file = <<>>])]
        ELSE IF c.parent # NoParent
        THEN [s EXCEPT !.r =
                CASE c.op = kTransmitData -> ResetCurrent([c EXCEPT !.file = @ \o c.body])
                  [] c.op = kFinished     -> ResetCurrent([c EXCEPT !.fin = TRUE])
                  [] OTHER                -> [c EXCEPT !.err = TRUE]]
        ELSE s

\* ProcessAllBytes: process while there are bytes, progress is made and
\* no message is finished; an error ends it.  (Each step's result is bound
\* by a set map, so that it is computed once also under ENABLED.)
RECURSIVE ProcessAllBytes(_, _)
ProcessAllBytes(r, in) ==
    IF r.err \/ FinishedReading(r) \/ in = <<>> THEN [r |-> r, in |-> in]
    ELSE CHOOSE x \in {IF s.progress /\ ~s.r.err THEN ProcessAllBytes(s.r, s.in)
                                               ELSE [r |-> s.r, in |-> s.in] :
                        s \in {ProcessBytes(r, in)}} : TRUE

-----------------------------------------------------------------------------
VARIABLES
    output,      \* the writing socket's output buffer
    attempting,  \* attempting_to_send_ of the writing service
    wpc,         \* wpc[w]: "Idle", or "Send" while w's WriteMessage runs
    writes,      \* WriteMessage calls so far
    sent,        \* the messages written, in the order they were filled
    wire,        \* bytes written to the connection and not yet received
    input,       \* the reading socket's input buffer
    rd,          \* the reader's parse state
    reading,     \* a ReadMessage is waiting for bytes (PollForRead)
    delivered,   \* the messages the reader delivered, in order
    crashed,     \* an exception ended the process
    clean        \* ghost: every Send so far wrote exactly the bytes it
                 \*   reported, from the front of the buffer

vars == <<output, attempting, wpc, writes, sent, wire, input, rd, reading,
          delivered, crashed, clean>>

Init ==
    /\ output = <<>> /\ attempting = 0
    /\ wpc = [w \in Writers |-> "Idle"] /\ writes = 0 /\ sent = <<>>
    /\ wire = <<>> /\ input = <<>> /\ rd = EmptyReader
    /\ reading = FALSE /\ delivered = <<>> /\ crashed = FALSE
    /\ clean = TRUE

\* WriteMessage: FillOutputBuffer resets attempting_to_send_ and adds the
\* frames' length.
WriteMessage(w, m) ==
    /\ ~crashed /\ wpc[w] = "Idle" /\ writes < MaxWrites
    /\ output' = output \o Encode(m)
    /\ attempting' = Len(Encode(m))
    /\ sent' = Append(sent, m)
    /\ wpc' = [wpc EXCEPT ![w] = "Send"]
    /\ writes' = writes + 1
    /\ UNCHANGED <<wire, input, rd, reading, delivered, crashed, clean>>

\* Mutant: the subtraction is not clamped at zero.
RemainingUnclamped(att, n) == att - n

\* attempting_to_send_ after Send reported n bytes: 0 when n exceeds it.
Remaining(att, n) == IF n > att THEN 0 ELSE att - n

\* SendBytes (first from WriteMessage, then after each PollForWrite): done
\* when attempting_to_send_ is 0; otherwise Socket::Send and subtract what
\* it reports.  consume() of more than the buffer holds throws, and the
\* exception ends the process.
SendBytes(w) ==
    /\ ~crashed /\ wpc[w] = "Send"
    /\ IF attempting = 0
       THEN /\ wpc' = [wpc EXCEPT ![w] = "Idle"]
            /\ UNCHANGED <<output, attempting, wire, crashed, clean>>
       ELSE \E o \in Send(output) :
              /\ wire' = wire \o o.wire
              /\ clean' = (clean /\ o.n <= Len(output)
                                   /\ o.wire = SubSeq(output, 1, o.n))
              /\ IF o.n > Len(output)
                 THEN /\ crashed' = TRUE
                      /\ UNCHANGED <<output, attempting, wpc>>
                 ELSE LET left == Remaining(attempting, o.n)
                      IN  /\ output' = SubSeq(output, o.n + 1, Len(output))
                          /\ attempting' = left
                          /\ wpc' = [wpc EXCEPT ![w] = IF left = 0 THEN "Idle"
                                                                   ELSE "Send"]
                          /\ UNCHANGED crashed
    /\ UNCHANGED <<writes, sent, input, rd, reading, delivered>>

\* The end of ReceiveBytes after ProcessAllBytes: an error is handed to the
\* callback and ends the read loop (running_ = false); a finished message
\* is delivered and ScheduleNextRead queues the next ReadMessage; otherwise
\* PollForRead waits for more bytes.
Settle(p) ==
    /\ rd' = p.r
    /\ input' = p.in
    /\ IF ~p.r.err /\ FinishedReading(p.r)
       THEN /\ delivered' = Append(delivered, Returned(p.r))
            /\ reading' = FALSE
       ELSE /\ reading' = ~p.r.err
            /\ UNCHANGED delivered

\* Socket::Receive(1024): what is in the connection, k bytes of it, moves
\* to the input buffer.  The messages here are shorter than 1024 bytes.
Receive(k) ==
    /\ wire' = SubSeq(wire, k + 1, Len(wire))

\* ReadMessage: ResetCompoundMessage, ProcessAllBytes on what is left in
\* the input buffer, then ReceiveBytes: deliver if finished, else receive
\* what is there (EWOULDBLOCK receives nothing) and process it.
ReadMessage ==
    \* (\E p \in {e} binds the parse result once; it is e.)
    /\ ~crashed /\ ~reading /\ ~rd.err
    /\ \E p \in {ProcessAllBytes(ResetCompound(rd), input)} :
           IF p.r.err \/ FinishedReading(p.r)
           THEN Settle(p) /\ UNCHANGED wire
           ELSE \E k \in 0..Len(wire) :
                \E q \in {ProcessAllBytes(p.r, p.in \o SubSeq(wire, 1, k))} :
                  /\ Receive(k)
                  /\ Settle(q)
    /\ UNCHANGED <<output, attempting, wpc, writes, sent, crashed, clean>>

\* PollForRead found bytes and ReceiveBytes runs: receive, process, settle.
ReceiveBytes ==
    /\ ~crashed /\ reading /\ wire # <<>>
    /\ \E k \in 1..Len(wire) :
       \E q \in {ProcessAllBytes(rd, input \o SubSeq(wire, 1, k))} :
         /\ Receive(k)
         /\ Settle(q)
    /\ UNCHANGED <<output, attempting, wpc, writes, sent, crashed, clean>>

Next ==
    \/ \E w \in Writers, m \in Msgs : WriteMessage(w, m)
    \/ \E w \in Writers : SendBytes(w)
    \/ ReadMessage
    \/ ReceiveBytes

\* The thread pool runs every scheduled SendBytes, ReadMessage and
\* ReceiveBytes; a writer calls WriteMessage only when it has a message.
Fairness ==
    /\ \A w \in Writers : WF_vars(SendBytes(w))
    /\ WF_vars(ReadMessage)
    /\ WF_vars(ReceiveBytes)

Spec == Init /\ [][Next]_vars /\ Fairness

-----------------------------------------------------------------------------
Bytes == 0..255

TypeOK ==
    /\ output \in Seq(Bytes) /\ wire \in Seq(Bytes) /\ input \in Seq(Bytes)
    /\ attempting \in Nat
    /\ wpc \in [Writers -> {"Idle", "Send"}]
    /\ writes \in 0..MaxWrites
    /\ sent \in Seq(Msgs) /\ delivered \in Seq([op : Bytes, body : Seq(Bytes),
                                                  file : Seq(Bytes)])
    /\ reading \in BOOLEAN /\ crashed \in BOOLEAN /\ clean \in BOOLEAN

\* Framing is transparent: the messages the reader delivers are the ones
\* the writers' WriteMessage calls put in the output buffer, in that order,
\* file content included; the reader never fails on the byte stream; and
\* Socket::Send never reports more bytes than the buffer holds.
FramesIntact ==
    /\ IsPrefix(delivered, sent)
    /\ ~rd.err
    /\ ~crashed

\* The reader reassembles the stream: as long as every Send wrote exactly
\* the bytes it reported, whatever the split of the stream into writes,
\* receives and views, and however the two writers' fills and sends
\* interleave, framing is transparent.
ReassemblesCleanStream == clean => FramesIntact
=============================================================================
