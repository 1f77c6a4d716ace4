-------------------------- MODULE ServerConnection --------------------------
(***************************************************************************)
(* One accepted client connection of a server: the Project2Service state  *)
(* machine (src/src/net/server/impl/project2_service.cc) run by            *)
(* util::state_machine (module StateMachine), its handlers calling the    *)
(* file service (module FileService) on the server's root.  One file is   *)
(* followed byte by byte: the one FileName names under the root; a name   *)
(* that normalises to the same path reaches the same file.  The client    *)
(* sends any request, and may close the connection at any moment (so may *)
(* Server::CleanUp's CloseAll): a read or write issued after that fails.  *)
(***************************************************************************)
EXTENDS FileService

CONSTANTS Chars,        \* the bytes a file may hold, NL among them
          MaxInitial,   \* bound: length of the content the file starts with
          Lines,        \* lines a client appends (non-empty, no NL)
          MaxAppends,   \* bound: appends to the followed file
          RootDirs,     \* root_dir values, as written
          Names,        \* file names a request may carry
          FileName      \* the name of the followed file

ASSUME FileName \in Names
ASSUME NL \in Chars /\ \A l \in Lines : l # <<>> /\ NL \notin ToSet(l)

\* The states of project2_service.h and their IMPL_NEXT_STATE lines.
P2States == {"AwaitMessage", "HandleEnquiry", "HandleRead", "HandleWrite",
             "HandleInvalidOpcode", "Stop"}
P2Next == [[s \in P2States |-> "AwaitMessage"]
              EXCEPT !["HandleInvalidOpcode"] = "Stop", !["Stop"] = "Stop"]

VARIABLES running, current, forced, lastResult, loop, runCalls,
          io,          \* the message_service_ operation in flight
          last,        \* last_received_
          answered,    \* replies written for last_received_
          errorSent,   \* an Error message has been written
          peerClosed,  \* the connection is closed under the machine
          content,     \* the followed file's bytes
          initial,     \* the bytes it started with
          appended,    \* the lines appended to it, in order
          root,        \* root_, the normalised root
          access       \* the access check's results on root_

SM == INSTANCE StateMachine WITH States <- P2States,
                                 AsyncStates <- P2States \ {"Stop"},
                                 StopStates <- {"Stop"},
                                 InitialState <- "AwaitMessage",
                                 NextState <- P2Next

smVars == <<running, current, forced, lastResult, loop, runCalls>>
fileVars == <<content, initial, appended, root, access>>
vars == <<smVars, io, last, answered, errorSent, peerClosed, fileVars>>

\* Messages a client may send (net/proto/messages.cc), with the data the
\* properties tell apart: any opcode other than the three requests is
\* "Other".
NoRequest == [op |-> "none", name |-> <<>>, line |-> <<>>]
Requests ==
    {[op |-> "Enquiry", name |-> <<>>, line |-> <<>>],
     [op |-> "Other", name |-> <<>>, line |-> <<>>]} \cup
    [op : {"Read"}, name : Names, line : {<<>>}] \cup
    [op : {"Write"}, name : Names, line : Lines]

\* No operation in flight; a reply written by a handler, and whether its
\* completion forces the Stop state.
NoIO == [op |-> "none", reply |-> "none", toStop |-> FALSE]
WriteIO(kind, toStop) == [op |-> "write", reply |-> kind, toStop |-> toStop]

\* The outcomes of an operation on the socket: once the connection is
\* closed it may fail (a write may still land in the kernel's buffer).
Outcomes == IF peerClosed THEN {"ok", "err"} ELSE {"ok"}

\* The file service's access check on root_ for every name: a function of
\* root_ alone, kept beside it so that it is worked out once per root.
AccessOf(r) == [n \in Names |->
                  [read   |-> ReadAllowed(r, n),
                   append |-> AppendAllowed(r, n),
                   full   |-> FullPath(r, n)]]

\* A name reaches the followed file when it normalises to its path.
Followed(name) == access[name].full = access[FileName].full

TypeOK ==
    /\ SM!SMTypeOK
    /\ io \in {NoIO} \cup {[op |-> "read", reply |-> "none", toStop |-> FALSE]}
              \cup [op : {"write"}, reply : {"Response", "Ok", "Error"},
                    toStop : BOOLEAN]
    /\ last \in Requests \cup {NoRequest}
    /\ answered \in 0..1 /\ errorSent \in BOOLEAN /\ peerClosed \in BOOLEAN
    /\ appended \in Seq(Lines)

Init ==
    /\ SM!SMInit
    /\ io = NoIO
    /\ last = NoRequest
    /\ answered = 0
    /\ errorSent = FALSE
    /\ peerClosed = FALSE
    /\ content \in BoundedSeq(Chars, MaxInitial)
    /\ initial = content
    /\ appended = <<>>
    /\ root \in {Initialize(r) : r \in RootDirs}
    /\ access = AccessOf(root)

-----------------------------------------------------------------------------
(* The connection's life.                                                  *)

\* BaseConnectionHandler::Start schedules BaseService::Start on the pool,
\* which calls Run(): start() with the run callback (BaseService::Stop).
Run ==
    /\ SM!Start
    /\ UNCHANGED <<io, last, answered, errorSent, peerClosed, fileVars>>

\* The client closes its socket, or the server's CleanUp closes them all.
PeerClose ==
    /\ ~peerClosed
    /\ peerClosed' = TRUE
    /\ UNCHANGED <<smVars, io, last, answered, errorSent, fileVars>>

\* AwaitMessage: ReadMessage is issued and run() returns.
AwaitMessage ==
    /\ SM!AtTop /\ current = "AwaitMessage"
    /\ SM!Suspend
    /\ io' = [NoIO EXCEPT !.op = "read"]
    /\ UNCHANGED <<last, answered, errorSent, peerClosed, fileVars>>

\* The read fails: the callback is called with the error.
ReadFails ==
    /\ io.op = "read" /\ peerClosed
    /\ io' = NoIO
    /\ SM!Callback("err", forced)
    /\ UNCHANGED <<last, answered, errorSent, peerClosed, fileVars>>

\* A request arrives: it becomes last_received_, its opcode picks the next
\* state with set_next_state, and the callback is called with ok.
Dispatch(m) == CASE m.op = "Enquiry" -> "HandleEnquiry"
                 [] m.op = "Read"    -> "HandleRead"
                 [] m.op = "Write"   -> "HandleWrite"
                 [] OTHER            -> "HandleInvalidOpcode"

ReceiveRequest ==
    /\ io.op = "read" /\ ~peerClosed
    /\ \E m \in Requests :
          /\ m.op = "Write" /\ Followed(m.name) => Len(appended) < MaxAppends
          /\ last' = m
          /\ answered' = 0
          /\ io' = NoIO
          /\ SM!Callback("ok", Dispatch(m))
    /\ UNCHANGED <<errorSent, peerClosed, fileVars>>

\* The first step of every handler but AwaitMessage: PeerName() fails only
\* on a connection the peer has torn down; the callback then gets the
\* error and no reply is written.
PeerNameFails(state) ==
    /\ SM!AtTop /\ current = state /\ peerClosed
    /\ SM!Callback("err", SM!Null)
    /\ UNCHANGED <<io, last, answered, errorSent, peerClosed, fileVars>>

\* A handler writes its reply and run() returns.
Reply(kind, toStop) ==
    /\ SM!Suspend
    /\ io' = WriteIO(kind, toStop)
    /\ answered' = answered + 1
    /\ errorSent' = (errorSent \/ kind = "Error")
    /\ UNCHANGED <<last, peerClosed>>

\* HandleEnquiry: GetFiles, then a Response with the names.  The listing
\* fails only if the root has gone since Initialize listed it; the
\* callback then gets the error.
HandleEnquiry ==
    /\ SM!AtTop /\ current = "HandleEnquiry"
    /\ \/ Reply("Response", FALSE)
       \/ SM!Callback("err", SM!Null) /\ UNCHANGED <<io, last, answered, errorSent, peerClosed>>
    /\ UNCHANGED fileVars

\* HandleRead: ReadLastLine(name).  The followed file exists; another
\* file that passes the check may not.  An error is answered with an
\* Error message whose completion forces Stop.
HandleRead ==
    /\ SM!AtTop /\ current = "HandleRead"
    /\ LET n == last.name IN
       IF access[n].read /\ Followed(n) THEN Reply("Response", FALSE)
       ELSE IF access[n].read
       THEN \E k \in {"Response", "Error"} : Reply(k, k = "Error")
       ELSE Reply("Error", TRUE)
    /\ UNCHANGED fileVars

\* HandleWrite: AppendLine(name, line), then Ok, or an Error message whose
\* completion forces Stop.  An append outside the followed file may fail
\* to open its file.
HandleWrite ==
    /\ SM!AtTop /\ current = "HandleWrite"
    /\ LET n == last.name IN
       IF access[n].append /\ Followed(n)
       THEN /\ content' = AppendLine(content, last.line)
            /\ appended' = Append(appended, last.line)
            /\ Reply("Ok", FALSE)
       ELSE /\ IF access[n].append
               THEN \E k \in {"Ok", "Error"} : Reply(k, k = "Error")
               ELSE Reply("Error", TRUE)
            /\ UNCHANGED <<content, appended>>
    /\ UNCHANGED <<initial, root, access>>

\* HandleInvalidOpcode: an Error message; the next state is Stop.
HandleInvalidOpcode ==
    /\ SM!AtTop /\ current = "HandleInvalidOpcode"
    /\ Reply("Error", FALSE)
    /\ UNCHANGED fileVars

\* The reply's WriteMessage completes.  After an Error reply of HandleRead
\* or HandleWrite the completion ignores the result, sets Stop and calls
\* back with ok; otherwise the result is passed on.
WriteDone ==
    /\ io.op = "write"
    /\ \E res \in Outcomes :
          IF io.toStop THEN SM!Callback("ok", "Stop")
          ELSE SM!Callback(res, forced)
    /\ io' = NoIO
    /\ UNCHANGED <<last, answered, errorSent, peerClosed, fileVars>>

\* Stop: a synchronous stop state with an empty handler, so the machine
\* stops with ok.
StopState ==
    /\ SM!AtTop /\ current = "Stop"
    /\ SM!SyncDone("ok", SM!Null)
    /\ UNCHANGED <<io, last, answered, errorSent, peerClosed, fileVars>>

Next ==
    \/ Run \/ PeerClose
    \/ AwaitMessage \/ ReadFails \/ ReceiveRequest
    \/ \E s \in P2States \ {"AwaitMessage", "Stop"} : PeerNameFails(s)
    \/ HandleEnquiry \/ HandleRead \/ HandleWrite \/ HandleInvalidOpcode
    \/ WriteDone \/ StopState

\* The thread pool runs every scheduled task and I/O completion (spec.md
\* section 5: a work-conserving pool).  Whether the client sends another
\* request, or closes, is its own choice: neither is fair.
Fairness ==
    /\ WF_vars(Run) /\ WF_vars(AwaitMessage) /\ WF_vars(ReadFails)
    /\ WF_vars(HandleEnquiry) /\ WF_vars(HandleRead) /\ WF_vars(HandleWrite)
    /\ WF_vars(HandleInvalidOpcode) /\ WF_vars(WriteDone)
    /\ WF_vars(StopState)

Spec == Init /\ [][Next]_vars /\ Fairness

-----------------------------------------------------------------------------
(* Properties.                                                             *)

\* The reference resolution of a path: its non-empty segments with "."
\* dropped and ".." cancelling the segment before it (at the top of an
\* absolute path it stays there; at the top of a relative one it is kept).
Segments(s) ==
    LET cuts == <<0>> \o SelectSeq([i \in 1..Len(s) |-> i],
                                   LAMBDA i : s[i] = Sep) \o <<Len(s) + 1>>
        segs == [k \in 1..Len(cuts) - 1 |-> SubSeq(s, cuts[k] + 1, cuts[k + 1] - 1)]
    IN  SelectSeq(segs, LAMBDA g : g # <<>>)

ResolveStep(abs, stack, g) ==
    IF g = <<Dot>> THEN stack
    ELSE IF g = DotDot
         THEN IF stack # <<>> /\ Last(stack) # DotDot THEN Front(stack)
              ELSE IF abs THEN stack ELSE Append(stack, DotDot)
    ELSE Append(stack, g)

Resolve(s) ==
    FoldLeft(LAMBDA st, g : ResolveStep(HasRootDirectory(s), st, g),
             <<>>, Segments(s))

\* spec.md 4.5, HandleRead and HandleWrite: a file is opened only when
\* `root / name` names a file whose parent is the root.  Whatever the root
\* as configured and whatever name a client sends, a request that passes
\* the code's lexical check (lexically_normal, lexically_relative) opens
\* a path that resolves to the root's resolution plus one name.
AccessConfined ==
    LET n    == last.name
        full == access[n].full
        ok   == \/ last.op = "Read" /\ access[n].read
                \/ last.op = "Write" /\ access[n].append
    IN  ok =>
            /\ HasRootDirectory(full) = HasRootDirectory(root)
            /\ Len(Resolve(full)) = Len(Resolve(root)) + 1
            /\ SubSeq(Resolve(full), 1, Len(Resolve(root))) = Resolve(root)
            /\ Last(Resolve(full)) # DotDot

\* spec.md 4.5: every request read gets one reply before the next is
\* read, and after an Error reply the connection reads nothing more.  This
\* is what the state machine's dispatch gives the handlers: the opcode's
\* set_next_state, forced_next_state_ reset at the top of every loop, the
\* forced Stop after an Error, and one callback per state.
OneReplyPerRequest ==
    /\ answered <= 1
    /\ io.op = "read" /\ last # NoRequest => answered = 1
    /\ errorSent => io.op # "read"

\* Once the connection is closed, by the client or by the server's
\* CleanUp, the machine stops and calls its run callback (BaseService::
\* Stop, which closes the socket and removes the handler), whatever state
\* it was in and whatever operation was in flight.
ConnectionEnds == peerClosed ~> runCalls > 0
=============================================================================
