---------------------------- MODULE ClientServer ----------------------------
(***************************************************************************)
(* The client workload driver (net/client/impl/project2_client.cc) and the *)
(* server dispatcher (net/server/impl/project2_service.cc) of every node,  *)
(* over one TCP connection per (client, server) pair.  The distributed     *)
(* mutex is taken to be an ideal per-file lock (holder), better than the   *)
(* engine is (DistributedMutex): RunWithMutualExclusion records the        *)
(* request and Grant runs the operation once the file is free.  What goes *)
(* wrong here goes wrong in the client itself.                             *)
(*                                                                         *)
(* A fan-out callback (a WriteMessage completion in SendWrite, an Ok read  *)
(* in ReceiveWriteResponse) sets its server's flag, then checks all flags  *)
(* under the client's mutex_: two steps.  The callbacks of one fan-out run *)
(* concurrently on the thread pool (ReadMessage and WriteMessage complete  *)
(* on pool threads), so these steps of different servers interleave.      *)
(***************************************************************************)
EXTENDS Integers, Sequences, SequencesExt, FiniteSets

CONSTANTS Clients,       \* the client roles
          Servers,       \* the servers listed in the "servers" property
          Files,         \* the files under every server's root
          MaxOps,        \* bound: reads and writes issued per client
          IoFailures     \* may a Write to a server fail?

LOCAL FS == INSTANCE FileService WITH NL <- "\n"

NoFile == "none"
NoHolder == "free"

VARIABLES
    pc,          \* the client state machine's current_state_
    connected,   \* servers_: the servers connected to so far
    curServer,   \* current_server_
    curFile,     \* current_file_name_
    fileNames,   \* file_names_, from the Enquiry response
    opSent,      \* opSent[c][s]: servers_[s].operation_sent
    performed,   \* performed[c][s]: servers_[s].performed_write
    sentCb,      \* sentCb[c][s]: the WriteMessage callback of a Write fan-out
    perfCb,      \* perfCb[c][s]: the ReadMessage callback awaiting an Ok
    sentDone,    \* the SendWrite state already moved on (one `called` copy)
    perfDone,    \* the ReceiveWriteResponse state already moved on
    dupAdvance,  \* how often a second callback copy advanced a state
    ops,         \* operations started per client (bounded)
    req,         \* the engine's my_request_: the file requested, or NoFile
    holder,      \* holder[f]: the client in the critical section for f
    toServer,    \* toServer[c][s]: frames in flight from client c to server s
    toClient,    \* toClient[s][c]: frames in flight from server s to client c
    spc,         \* spc[s][c]: server s's state machine for client c
    last,        \* last[s][c]: its last_received_ message
    files        \* files[s][f]: the lines of file f at server s

clientVars == <<pc, connected, curServer, curFile, fileNames, opSent,
                performed, sentCb, perfCb, sentDone, perfDone, dupAdvance, ops>>
lockVars == <<req, holder>>
serverVars == <<spc, last, files>>
vars == <<clientVars, lockVars, toServer, toClient, serverVars>>

\* Frames of the project 2 protocol (net/proto/messages.cc), with the data
\* the properties tell apart.  A line is <<client, operation number>>.
EnquiryMsg == [op |-> "Enquiry"]
ReadMsg(f) == [op |-> "Read", file |-> f]
WriteMsg(f, l) == [op |-> "Write", file |-> f, line |-> l]
ResponseMsg(v) == [op |-> "Response", val |-> v]
OkMsg == [op |-> "Ok"]

Line == Clients \X (1..MaxOps)

Init ==
    /\ pc = [c \in Clients |-> "ConnectToServers"]
    /\ connected = [c \in Clients |-> {}]
    /\ curServer = [c \in Clients |-> CHOOSE s \in Servers : TRUE]
    /\ curFile = [c \in Clients |-> NoFile]
    /\ fileNames = [c \in Clients |-> {}]
    /\ opSent = [c \in Clients |-> [s \in Servers |-> FALSE]]
    /\ performed = [c \in Clients |-> [s \in Servers |-> FALSE]]
    /\ sentCb = [c \in Clients |-> [s \in Servers |-> "none"]]
    /\ perfCb = [c \in Clients |-> [s \in Servers |-> "none"]]
    /\ sentDone = [c \in Clients |-> FALSE]
    /\ perfDone = [c \in Clients |-> FALSE]
    /\ dupAdvance = [c \in Clients |-> 0]
    /\ ops = [c \in Clients |-> 0]
    /\ req = [c \in Clients |-> NoFile]
    /\ holder = [f \in Files |-> NoHolder]
    /\ toServer = [c \in Clients |-> [s \in Servers |-> <<>>]]
    /\ toClient = [s \in Servers |-> [c \in Clients |-> <<>>]]
    /\ spc = [s \in Servers |-> [c \in Clients |-> "AwaitMessage"]]
    /\ last = [s \in Servers |-> [c \in Clients |-> EnquiryMsg]]
    /\ files = [s \in Servers |-> [f \in Files |-> <<>>]]

\* The engine's `done` continuation, ReleaseMutualExclusion: my_request_ is
\* reset and whatever file the client holds becomes free.
Release(c) ==
    /\ req' = [req EXCEPT ![c] = NoFile]
    /\ holder' = [f \in Files |-> IF holder[f] = c THEN NoHolder ELSE holder[f]]

\* ConnectToServers: the NewConnection callback of server s adds it to
\* servers_; the one that completes the list moves the client on.
ConnectToServers(c, s) ==
    /\ pc[c] = "ConnectToServers"
    /\ s \notin connected[c]
    /\ connected' = [connected EXCEPT ![c] = @ \cup {s}]
    /\ pc' = [pc EXCEPT ![c] = IF connected'[c] = Servers THEN "SendEnquiry"
                                                          ELSE @]
    /\ UNCHANGED <<curServer, curFile, fileNames, opSent, performed, sentCb,
                   perfCb, sentDone, perfDone, dupAdvance, ops, lockVars,
                   toServer, toClient, serverVars>>

\* SendEnquiry: ChangeServer picks a server, which is sent an Enquiry.
SendEnquiry(c, s) ==
    /\ pc[c] = "SendEnquiry"
    /\ curServer' = [curServer EXCEPT ![c] = s]
    /\ toServer' = [toServer EXCEPT ![c][s] = Append(@, EnquiryMsg)]
    /\ pc' = [pc EXCEPT ![c] = "ReceiveEnquiryResponse"]
    /\ UNCHANGED <<connected, curFile, fileNames, opSent, performed, sentCb,
                   perfCb, sentDone, perfDone, dupAdvance, ops, lockVars,
                   toClient, serverVars>>

\* ReceiveEnquiryResponse: the Response lists the file names; none is an
\* error that stops the client.
ReceiveEnquiryResponse(c) ==
    LET s == curServer[c] IN
    /\ pc[c] = "ReceiveEnquiryResponse"
    /\ toClient[s][c] # <<>>
    /\ Head(toClient[s][c]).op = "Response"
    /\ toClient' = [toClient EXCEPT ![s][c] = Tail(@)]
    /\ fileNames' = [fileNames EXCEPT ![c] = Head(toClient[s][c]).val]
    /\ pc' = [pc EXCEPT ![c] = IF fileNames'[c] = {} THEN "Stop" ELSE "Wait"]
    /\ UNCHANGED <<connected, curServer, curFile, opSent, performed, sentCb,
                   perfCb, sentDone, perfDone, dupAdvance, ops, lockVars,
                   toServer, serverVars>>

\* Wait picks read or write, a server and a file; the run loop then enters
\* SendRead or SendWrite, whose handler clears operation_sent and calls
\* RunWithMutualExclusion (my_request_ is empty here, so no "already in
\* progress" error).
Wait(c, write, s, f) ==
    /\ pc[c] = "Wait"
    /\ ops[c] < MaxOps
    /\ f \in fileNames[c]
    /\ req[c] = NoFile
    /\ curServer' = [curServer EXCEPT ![c] = s]
    /\ curFile' = [curFile EXCEPT ![c] = f]
    /\ opSent' = [opSent EXCEPT ![c] = [t \in Servers |-> FALSE]]
    /\ req' = [req EXCEPT ![c] = f]
    /\ pc' = [pc EXCEPT ![c] = IF write THEN "SendWrite" ELSE "SendRead"]
    /\ ops' = [ops EXCEPT ![c] = @ + 1]
    /\ sentDone' = [sentDone EXCEPT ![c] = FALSE]
    /\ UNCHANGED <<connected, fileNames, performed, sentCb, perfCb, perfDone,
                   dupAdvance, holder, toServer, toClient, serverVars>>

\* The engine grants the file (CheckForMutualExclusion) and runs the
\* operation callback: SendRead writes Read to the current server, and
\* SendWrite writes the same Write line (id, Timestamp()) to every server.
Grant(c) ==
    LET f == req[c] IN
    /\ f # NoFile
    /\ holder[f] = NoHolder
    /\ pc[c] \in {"SendRead", "SendWrite"}
    /\ holder' = [holder EXCEPT ![f] = c]
    /\ IF pc[c] = "SendRead"
       THEN /\ toServer' = [toServer EXCEPT ![c][curServer[c]] =
                                Append(@, ReadMsg(f))]
            /\ pc' = [pc EXCEPT ![c] = "ReceiveReadResponse"]
            /\ UNCHANGED sentCb
       ELSE /\ toServer' = [toServer EXCEPT ![c] =
                 [s \in Servers |-> Append(@[s], WriteMsg(f, <<c, ops[c]>>))]]
            /\ sentCb' = [sentCb EXCEPT ![c] = [s \in Servers |-> "pending"]]
            /\ UNCHANGED pc
    /\ UNCHANGED <<connected, curServer, curFile, fileNames, opSent, performed,
                   perfCb, sentDone, perfDone, dupAdvance, ops, req,
                   toClient, serverVars>>

\* SendWrite, the WriteMessage callback of server s, first half: the Write
\* is out, and operation_sent is set without the mutex.
WriteSent(c, s) ==
    /\ sentCb[c][s] = "pending"
    /\ opSent' = [opSent EXCEPT ![c][s] = TRUE]
    /\ sentCb' = [sentCb EXCEPT ![c][s] = "flagged"]
    /\ UNCHANGED <<pc, connected, curServer, curFile, fileNames, performed,
                   perfCb, sentDone, perfDone, dupAdvance, ops, lockVars,
                   toServer, toClient, serverVars>>

\* The same callback when the write failed: the client stops with the
\* error and, as the code's comment says, does not call `done`.  The frame
\* may or may not have reached the server.
WriteFails(c, s) ==
    /\ IoFailures
    /\ sentCb[c][s] = "pending"
    /\ sentCb' = [sentCb EXCEPT ![c][s] = "none"]
    /\ pc' = [pc EXCEPT ![c] = "Stop"]
    /\ \/ toServer' = [toServer EXCEPT ![c][s] =
                        SelectSeq(@, LAMBDA m : m.op # "Write")]
       \/ UNCHANGED toServer
    /\ UNCHANGED <<connected, curServer, curFile, fileNames, opSent, performed,
                   perfCb, sentDone, perfDone, dupAdvance, ops, lockVars,
                   toClient, serverVars>>

\* Second half, under mutex_: if every operation_sent is set the callback
\* moves the state machine on.  Each callback holds its own copy of the
\* state machine's `called` guard, so a second copy that finds every flag
\* set advances it again (the second run loop is not followed).  The
\* first advance runs ReceiveWriteResponse's handler: clear performed_write
\* and read a reply from every server.
WriteSentCheck(c, s) ==
    /\ sentCb[c][s] = "flagged"
    /\ sentCb' = [sentCb EXCEPT ![c][s] = "none"]
    /\ IF pc[c] = "Stop" \/ \E t \in Servers : ~opSent[c][t]
       THEN UNCHANGED <<pc, performed, perfCb, sentDone, perfDone, dupAdvance>>
       ELSE IF sentDone[c]
       THEN /\ dupAdvance' = [dupAdvance EXCEPT ![c] = @ + 1]
            /\ UNCHANGED <<pc, performed, perfCb, sentDone, perfDone>>
       ELSE /\ pc' = [pc EXCEPT ![c] = "ReceiveWriteResponse"]
            /\ sentDone' = [sentDone EXCEPT ![c] = TRUE]
            /\ performed' = [performed EXCEPT ![c] = [t \in Servers |-> FALSE]]
            /\ perfCb' = [perfCb EXCEPT ![c] = [t \in Servers |-> "pending"]]
            /\ perfDone' = [perfDone EXCEPT ![c] = FALSE]
            /\ UNCHANGED dupAdvance
    /\ UNCHANGED <<connected, curServer, curFile, fileNames, opSent, ops,
                   lockVars, toServer, toClient, serverVars>>

\* ReceiveWriteResponse, the ReadMessage callback of server s, first half:
\* an Ok arrived, and performed_write is set without the mutex.
OkReceived(c, s) ==
    /\ perfCb[c][s] = "pending"
    /\ toClient[s][c] # <<>>
    /\ Head(toClient[s][c]).op = "Ok"
    /\ toClient' = [toClient EXCEPT ![s][c] = Tail(@)]
    /\ performed' = [performed EXCEPT ![c][s] = TRUE]
    /\ perfCb' = [perfCb EXCEPT ![c][s] = "flagged"]
    /\ UNCHANGED <<pc, connected, curServer, curFile, fileNames, opSent,
                   sentCb, sentDone, perfDone, dupAdvance, ops, lockVars,
                   toServer, serverVars>>

\* Second half, under mutex_: if every performed_write is set, release the
\* mutex (`done`) and go back to Wait.  A second callback copy that finds
\* every flag set calls `done` again.
OkCheck(c, s) ==
    /\ perfCb[c][s] = "flagged"
    /\ perfCb' = [perfCb EXCEPT ![c][s] = "none"]
    /\ IF \E t \in Servers : ~performed[c][t]
       THEN UNCHANGED <<pc, perfDone, dupAdvance, lockVars>>
       ELSE IF perfDone[c]
       THEN /\ dupAdvance' = [dupAdvance EXCEPT ![c] = @ + 1]
            /\ Release(c)
            /\ UNCHANGED <<pc, perfDone>>
       ELSE /\ Release(c)
            /\ pc' = [pc EXCEPT ![c] = "Wait"]
            /\ perfDone' = [perfDone EXCEPT ![c] = TRUE]
            /\ UNCHANGED dupAdvance
    /\ UNCHANGED <<connected, curServer, curFile, fileNames, opSent, performed,
                   sentCb, sentDone, ops, toServer, toClient, serverVars>>

\* ReceiveReadResponse: the Response carries the last line; release the
\* mutex and go back to Wait.
ReceiveReadResponse(c) ==
    LET s == curServer[c] IN
    /\ pc[c] = "ReceiveReadResponse"
    /\ toClient[s][c] # <<>>
    /\ Head(toClient[s][c]).op = "Response"
    /\ toClient' = [toClient EXCEPT ![s][c] = Tail(@)]
    /\ Release(c)
    /\ pc' = [pc EXCEPT ![c] = "Wait"]
    /\ UNCHANGED <<connected, curServer, curFile, fileNames, opSent, performed,
                   sentCb, perfCb, sentDone, perfDone, dupAdvance, ops,
                   toServer, serverVars>>

\* AwaitMessage: the ReadMessage callback stores last_received_ and picks
\* the handler state by opcode.
ServerReceive(s, c) ==
    /\ spc[s][c] = "AwaitMessage"
    /\ toServer[c][s] # <<>>
    /\ last' = [last EXCEPT ![s][c] = Head(toServer[c][s])]
    /\ spc' = [spc EXCEPT ![s][c] = "Handle" \o Head(toServer[c][s]).op]
    /\ toServer' = [toServer EXCEPT ![c][s] = Tail(@)]
    /\ UNCHANGED <<clientVars, lockVars, toClient, files>>

\* HandleEnquiry: respond with GetFiles(), every non-hidden file.
HandleEnquiry(s, c) ==
    /\ spc[s][c] = "HandleEnquiry"
    /\ toClient' = [toClient EXCEPT ![s][c] = Append(@, ResponseMsg(Files))]
    /\ spc' = [spc EXCEPT ![s][c] = "AwaitMessage"]
    /\ UNCHANGED <<clientVars, lockVars, toServer, last, files>>

\* HandleRead: respond with ReadLastLine of the file, which for a file made
\* by appends is FileService's ServedLastLine of its lines.
HandleRead(s, c) ==
    /\ spc[s][c] = "HandleRead"
    /\ toClient' = [toClient EXCEPT ![s][c] =
         Append(@, ResponseMsg(FS!ServedLastLine(files[s][last[s][c].file])))]
    /\ spc' = [spc EXCEPT ![s][c] = "AwaitMessage"]
    /\ UNCHANGED <<clientVars, lockVars, toServer, last, files>>

\* HandleWrite: AppendLine, then respond Ok.
HandleWrite(s, c) ==
    LET m == last[s][c] IN
    /\ spc[s][c] = "HandleWrite"
    /\ files' = [files EXCEPT ![s][m.file] = Append(@, m.line)]
    /\ toClient' = [toClient EXCEPT ![s][c] = Append(@, OkMsg)]
    /\ spc' = [spc EXCEPT ![s][c] = "AwaitMessage"]
    /\ UNCHANGED <<clientVars, lockVars, toServer, last>>

\* Every client has used up its operations, or one has stopped on an error
\* (which ends the node), and nothing is in flight.
Finished ==
    /\ \/ \E c \in Clients : pc[c] = "Stop"
       \/ /\ \A c \in Clients : pc[c] = "Wait" /\ ops[c] = MaxOps
          /\ \A c \in Clients, s \in Servers : toServer[c][s] = <<>>
    /\ UNCHANGED vars

Next ==
    \/ \E c \in Clients, s \in Servers :
          \/ ConnectToServers(c, s)
          \/ SendEnquiry(c, s)
          \/ WriteSent(c, s)
          \/ WriteFails(c, s)
          \/ WriteSentCheck(c, s)
          \/ OkReceived(c, s)
          \/ OkCheck(c, s)
    \/ \E c \in Clients : ReceiveEnquiryResponse(c) \/ Grant(c)
                          \/ ReceiveReadResponse(c)
    \/ \E c \in Clients, w \in BOOLEAN, s \in Servers :
          \E f \in fileNames[c] : Wait(c, w, s, f)
    \/ \E s \in Servers, c \in Clients :
          \/ ServerReceive(s, c)
          \/ HandleEnquiry(s, c)
          \/ HandleRead(s, c)
          \/ HandleWrite(s, c)
    \/ Finished

Spec == Init /\ [][Next]_vars

-----------------------------------------------------------------------------
CbStage == {"none", "pending", "flagged"}

TypeOK ==
    /\ pc \in [Clients -> {"ConnectToServers", "SendEnquiry",
                "ReceiveEnquiryResponse", "Wait", "SendRead",
                "ReceiveReadResponse", "SendWrite", "ReceiveWriteResponse",
                "Stop"}]
    /\ connected \in [Clients -> SUBSET Servers]
    /\ curServer \in [Clients -> Servers]
    /\ curFile \in [Clients -> Files \cup {NoFile}]
    /\ opSent \in [Clients -> [Servers -> BOOLEAN]]
    /\ performed \in [Clients -> [Servers -> BOOLEAN]]
    /\ sentCb \in [Clients -> [Servers -> CbStage]]
    /\ perfCb \in [Clients -> [Servers -> CbStage]]
    /\ ops \in [Clients -> 0..MaxOps]
    /\ req \in [Clients -> Files \cup {NoFile}]
    /\ holder \in [Files -> Clients \cup {NoHolder}]
    /\ \A s \in Servers, f \in Files : files[s][f] \in Seq(Line)

\* spec.md: every node that stores a file applies the same sequence of
\* appends.  At any moment one server's lines of a file are a prefix of
\* another's.
ReplicaPrefix ==
    \A f \in Files, s, t \in Servers :
        IsPrefix(files[s][f], files[t][f]) \/ IsPrefix(files[t][f], files[s][f])

=============================================================================
