---------------------------- MODULE PeerNetwork ----------------------------
(***************************************************************************)
(* Bring-up of the peer mesh: net::peer::PeerNetworkManager               *)
(* (src/src/net/peer/peer_network_manager.cc) with its PeerConnector and  *)
(* PeerAcceptor, the two handshake state machines                          *)
(* (service/send_handshake_service.cc, receive_handshake_service.cc) and  *)
(* the connect retry loop of ConnectableSocket::Connect.                   *)
(*                                                                         *)
(* cs[n][m] is the state of n's SendHandshakeService towards peer m, and  *)
(* ss[m][n] the state of m's ReceiveHandshakeService for the connection   *)
(* n opened.  A handshake message is "sent" when the sender's state has   *)
(* moved past the step that writes it; TCP keeps the three messages of a  *)
(* handshake in order, so a reader's guard is on the writer's state.      *)
(* A node that is Closed takes no further step of its own: its shutdown   *)
(* closes its sockets, which its peers observe as a failed read.           *)
(*                                                                         *)
(* cb[n] is the connected callback the mutex engine registers with        *)
(* AwaitConnected before it starts the manager                            *)
(* (distributed_mutual_exclusion_service.cc:33-43).                        *)
(***************************************************************************)
EXTENDS Integers, Sequences, SequencesExt, FiniteSets

CONSTANTS
    Nodes,      \* the peer nodes
    Order,      \* the `clients' property: a sequence of all the nodes
    Addr,       \* Addr[n]: the IP address n connects from
    Retries     \* the `retries' argument of ConnectableSocket::Connect

ASSUME IsInjective(Order) /\ ToSet(Order) = Nodes /\ Retries \in Nat

\* SetUp: the peer locations in property order, without the node itself.
Peers(n) == SelectSeq(Order, LAMBDA m : m # n)
NumPeers == Cardinality(Nodes) - 1

ClientStates == {"Idle", "Connect", "SendHandshake", "ReceiveHandshake",
                 "SendOk", "Done", "Failed"}
ServerStates == {"None", "Backlog", "Rejected", "AwaitHandshake",
                 "SendResponse", "ReceiveOk", "Done", "Failed"}

VARIABLES
    boot,       \* boot[n]: steps of OnStart taken (0 = not started)
    allowed,    \* allowed[n]: PeerAcceptor::allowed_, a set of addresses
    cs,         \* cs[n][m]: n's SendHandshakeService towards m
    att,        \* att[n][m]: refused connect attempts so far
    ss,         \* ss[m][n]: m's ReceiveHandshakeService for n's connection
    in,         \* in[n]: peers with a managed inbound connection
    out,        \* out[n]: peers with a managed outbound connection
    state,      \* state[n]: PeerNetworkManager::state_
    cb          \* cb[n]: what the engine's connected callback was given

vars == <<boot, allowed, cs, att, ss, in, out, state, cb>>

Init ==
    /\ boot = [n \in Nodes |-> 0]
    /\ allowed = [n \in Nodes |-> {}]
    /\ cs = [n \in Nodes |-> [m \in Nodes |-> "Idle"]]
    /\ att = [n \in Nodes |-> [m \in Nodes |-> 0]]
    /\ ss = [m \in Nodes |-> [n \in Nodes |-> "None"]]
    /\ in = [n \in Nodes |-> {}]
    /\ out = [n \in Nodes |-> {}]
    /\ state = [n \in Nodes |-> "Initializing"]
    /\ cb = [n \in Nodes |-> "Waiting"]

Live(n) == state[n] # "Closed"

\* A node's listening socket accepts connections once its acceptor has
\* started and until its shutdown.
Listening(n) == boot[n] >= 1 /\ Live(n)

-----------------------------------------------------------------------------
(* UpdateState with its callbacks.  Only Initializing, Connected and      *)
(* Closed are reachable: ReportError, the only way to Broken, has no      *)
(* caller.                                                                 *)

\* UpdateState(kClosed), from SignalStopWithError or OnStop, of a node that
\* is not Closed (every caller is a step of a live node): every waiting
\* callback is given the error.
Close(n) ==
    /\ state' = [state EXCEPT ![n] = "Closed"]
    /\ cb' = [cb EXCEPT ![n] = IF @ = "Waiting" THEN "Error" ELSE @]

\* IsConnectedImpl over the managed connections: every entry has both
\* halves, and every peer location was seen (an entry's location is set
\* by its outbound half).
IsConnectedImpl(n, i, o) ==
    /\ \A e \in i \cup o : e \in i /\ e \in o
    /\ ToSet(Peers(n)) \subseteq o

\* CheckIfConnected after a new connection: UpdateState(kConnected) from
\* Initializing runs the connected callbacks.
CheckIfConnected(n, i, o) ==
    IF IsConnectedImpl(n, i, o) /\ state[n] = "Initializing"
    THEN /\ state' = [state EXCEPT ![n] = "Connected"]
         /\ cb' = [cb EXCEPT ![n] = IF @ = "Waiting" THEN "Success" ELSE @]
    ELSE UNCHANGED <<state, cb>>

\* A handshake that ends in an error: the callback of the connector or the
\* acceptor calls SignalStopWithError.
FailLink(n) == Close(n) /\ UNCHANGED <<in, out>>

\* OnClientConnection with a completed handshake to m: the outbound half of
\* the entry of m's id, then CheckIfConnected under connections_mutex_.
OnClientConnection(n, m) ==
    /\ out' = [out EXCEPT ![n] = @ \cup {m}]
    /\ CheckIfConnected(n, in[n], out'[n])
    /\ UNCHANGED in

\* OnServerConnection with a completed handshake from n: the inbound half.
OnServerConnection(m, n) ==
    /\ in' = [in EXCEPT ![m] = @ \cup {n}]
    /\ CheckIfConnected(m, in'[m], out[m])
    /\ UNCHANGED out

-----------------------------------------------------------------------------
(* OnStart, run by the thread that starts the manager: acceptor_.Start(), *)
(* connector_.Start(), then Connect and AwaitConnectionFrom for each peer *)
(* location in turn.  boot[n] = 1 + 2k after the k-th AwaitConnectionFrom. *)

StartAcceptor(n) ==
    /\ boot[n] = 0 /\ Live(n)
    /\ boot' = [boot EXCEPT ![n] = 1]
    /\ UNCHANGED <<allowed, cs, att, ss, in, out, state, cb>>

\* PeerConnector::Connect(location): the handshake service is scheduled on
\* the thread pool (peer locations are distinct, so the emplace succeeds).
ConnectPeer(n) ==
    /\ Live(n) /\ boot[n] % 2 = 1 /\ boot[n] < 2 * NumPeers + 1
    /\ LET m == Peers(n)[(boot[n] + 1) \div 2]
       IN  cs' = [cs EXCEPT ![n][m] = "Connect"]
    /\ boot' = [boot EXCEPT ![n] = @ + 1]
    /\ UNCHANGED <<allowed, att, ss, in, out, state, cb>>

\* PeerAcceptor::AwaitConnectionFrom(location): allow its address.
AwaitConnectionFrom(n) ==
    /\ Live(n) /\ boot[n] % 2 = 0 /\ boot[n] >= 2
    /\ allowed' = [allowed EXCEPT ![n] = @ \cup {Addr[Peers(n)[boot[n] \div 2]]}]
    /\ boot' = [boot EXCEPT ![n] = @ + 1]
    /\ UNCHANGED <<cs, att, ss, in, out, state, cb>>

\* OnStop: UpdateState(kClosed) when the node is stopped from outside.
Stop(n) ==
    /\ Live(n)
    /\ Close(n)
    /\ UNCHANGED <<boot, allowed, cs, att, ss, in, out>>

-----------------------------------------------------------------------------
(* SendHandshakeService of n towards m, on the thread pool.               *)

\* Mutant: one attempt more than `retries' + 1 before giving up.
TryConnectExtraAttempt(n, m) ==
    /\ cs[n][m] = "Connect" /\ Live(n)
    /\ \/ /\ Listening(m)
          /\ cs' = [cs EXCEPT ![n][m] = "SendHandshake"]
          /\ ss' = [ss EXCEPT ![m][n] = "Backlog"]
          /\ UNCHANGED <<att, state, cb, in, out>>
       \/ /\ ~Listening(m) /\ att[n][m] <= Retries
          /\ att' = [att EXCEPT ![n][m] = @ + 1]
          /\ UNCHANGED <<cs, ss, state, cb, in, out>>
    /\ UNCHANGED <<boot, allowed>>

\* Mutant: the connector passes kInfiniteRetries; a refused connect is
\* retried for ever.
TryConnectForever(n, m) ==
    /\ cs[n][m] = "Connect" /\ Live(n)
    /\ \/ /\ Listening(m)
          /\ cs' = [cs EXCEPT ![n][m] = "SendHandshake"]
          /\ ss' = [ss EXCEPT ![m][n] = "Backlog"]
          /\ UNCHANGED <<att, state, cb, in, out>>
       \/ /\ ~Listening(m) /\ att[n][m] < Retries
          /\ att' = [att EXCEPT ![n][m] = @ + 1]
          /\ UNCHANGED <<cs, ss, state, cb, in, out>>
    /\ UNCHANGED <<boot, allowed>>

\* Connect state: ::connect succeeds once m listens (the kernel queues the
\* connection until m's acceptor accepts it); ECONNREFUSED is retried after
\* retry_timeout, Retries times, and then reported to OnClientConnection.
TryConnect(n, m) ==
    /\ cs[n][m] = "Connect" /\ Live(n)
    /\ \/ /\ Listening(m)
          /\ cs' = [cs EXCEPT ![n][m] = "SendHandshake"]
          /\ ss' = [ss EXCEPT ![m][n] = "Backlog"]
          /\ UNCHANGED <<att, state, cb, in, out>>
       \/ /\ ~Listening(m) /\ att[n][m] < Retries
          /\ att' = [att EXCEPT ![n][m] = @ + 1]
          /\ UNCHANGED <<cs, ss, state, cb, in, out>>
       \/ /\ ~Listening(m) /\ att[n][m] = Retries
          /\ cs' = [cs EXCEPT ![n][m] = "Failed"]
          /\ FailLink(n)
          /\ UNCHANGED <<att, ss>>
    /\ UNCHANGED <<boot, allowed>>

\* SendHandshake state: EstablishConnection{id, password} is written.  A
\* write to a connection m has already closed may fail.
SendHandshake(n, m) ==
    /\ cs[n][m] = "SendHandshake" /\ Live(n)
    /\ \/ /\ cs' = [cs EXCEPT ![n][m] = "ReceiveHandshake"]
          /\ UNCHANGED <<state, cb, in, out>>
       \/ /\ ss[m][n] = "Rejected" \/ ~Live(m)
          /\ cs' = [cs EXCEPT ![n][m] = "Failed"]
          /\ FailLink(n)
    /\ UNCHANGED <<boot, allowed, att, ss>>

\* ReceiveHandshake state: the response EstablishConnection arrives once m
\* has sent it; the read fails when m closed the connection, or times out
\* (the socket keeps its poll timeout) while no response has come.
ReceiveHandshake(n, m) ==
    /\ cs[n][m] = "ReceiveHandshake" /\ Live(n)
    /\ \/ /\ ss[m][n] \in {"ReceiveOk", "Done"}
          /\ cs' = [cs EXCEPT ![n][m] = "SendOk"]
          /\ UNCHANGED <<state, cb, in, out>>
       \/ /\ ss[m][n] \notin {"ReceiveOk", "Done"}
          /\ cs' = [cs EXCEPT ![n][m] = "Failed"]
          /\ FailLink(n)
    /\ UNCHANGED <<boot, allowed, att, ss>>

\* SendOk state, then the connector's callback erases the pending service
\* and calls OnClientConnection.
SendOk(n, m) ==
    /\ cs[n][m] = "SendOk" /\ Live(n)
    /\ cs' = [cs EXCEPT ![n][m] = "Done"]
    /\ OnClientConnection(n, m)
    /\ UNCHANGED <<boot, allowed, att, ss>>

-----------------------------------------------------------------------------
(* PeerAcceptor of m and its ReceiveHandshakeService for n's connection.  *)

\* OnAccept: a connection from an address not in allowed_ is closed;
\* otherwise a ReceiveHandshakeService is started, whose Initialize state
\* finds the password property.
OnAccept(m, n) ==
    /\ ss[m][n] = "Backlog" /\ Live(m)
    /\ ss' = [ss EXCEPT ![m][n] = IF Addr[n] \in allowed[m]
                                  THEN "AwaitHandshake" ELSE "Rejected"]
    /\ UNCHANGED <<boot, allowed, cs, att, in, out, state, cb>>

\* The client wrote its EstablishConnection.
HandshakeSent(n, m) == cs[n][m] \in {"ReceiveHandshake", "SendOk", "Done"}

\* AwaitHandshake state: read EstablishConnection (the password matches:
\* every node reads it from the same properties file); the read fails if
\* n closed the connection before writing it.
AwaitHandshake(m, n) ==
    /\ ss[m][n] = "AwaitHandshake" /\ Live(m)
    /\ \/ /\ HandshakeSent(n, m)
          /\ ss' = [ss EXCEPT ![m][n] = "SendResponse"]
          /\ UNCHANGED <<state, cb, in, out>>
       \/ /\ ~HandshakeSent(n, m) /\ ~Live(n)
          /\ ss' = [ss EXCEPT ![m][n] = "Failed"]
          /\ FailLink(m)
    /\ UNCHANGED <<boot, allowed, cs, att>>

\* SendResponse state: EstablishConnection{m's id} is written.
SendResponse(m, n) ==
    /\ ss[m][n] = "SendResponse" /\ Live(m)
    /\ ss' = [ss EXCEPT ![m][n] = "ReceiveOk"]
    /\ UNCHANGED <<boot, allowed, cs, att, in, out, state, cb>>

\* ReceiveOk state, then the acceptor's callback erases the pending
\* service and calls OnServerConnection.  The accepted socket has no poll
\* timeout: the read fails only when n closes.
ReceiveOk(m, n) ==
    /\ ss[m][n] = "ReceiveOk" /\ Live(m)
    /\ \/ /\ cs[n][m] = "Done"
          /\ ss' = [ss EXCEPT ![m][n] = "Done"]
          /\ OnServerConnection(m, n)
       \/ /\ cs[n][m] # "Done" /\ ~Live(n)
          /\ ss' = [ss EXCEPT ![m][n] = "Failed"]
          /\ FailLink(m)
    /\ UNCHANGED <<boot, allowed, cs, att>>

-----------------------------------------------------------------------------
Next ==
    \/ \E n \in Nodes :
          \/ StartAcceptor(n) \/ ConnectPeer(n) \/ AwaitConnectionFrom(n)
          \/ Stop(n)
    \/ \E n, m \in Nodes :
          \/ TryConnect(n, m) \/ SendHandshake(n, m) \/ ReceiveHandshake(n, m)
          \/ SendOk(n, m)
          \/ OnAccept(n, m) \/ AwaitHandshake(n, m) \/ SendResponse(n, m)
          \/ ReceiveOk(n, m)

\* Every thread that has work runs it: OnStart runs to its end, the pool
\* runs every scheduled handshake step, and the acceptor thread accepts.
\* Starting a node (StartAcceptor) and stopping one are up to the operator.
Fairness ==
    /\ \A n \in Nodes : WF_vars(ConnectPeer(n)) /\ WF_vars(AwaitConnectionFrom(n))
    /\ \A n, m \in Nodes :
          /\ WF_vars(TryConnect(n, m)) /\ WF_vars(SendHandshake(n, m))
          /\ WF_vars(ReceiveHandshake(n, m)) /\ WF_vars(SendOk(n, m))
          /\ WF_vars(OnAccept(n, m)) /\ WF_vars(AwaitHandshake(n, m))
          /\ WF_vars(SendResponse(n, m)) /\ WF_vars(ReceiveOk(n, m))

Spec == Init /\ [][Next]_vars /\ Fairness

-----------------------------------------------------------------------------
TypeOK ==
    /\ boot \in [Nodes -> 0..(2 * NumPeers + 1)]
    /\ allowed \in [Nodes -> SUBSET {Addr[n] : n \in Nodes}]
    /\ cs \in [Nodes -> [Nodes -> ClientStates]]
    /\ att \in [Nodes -> [Nodes -> 0..Retries]]
    /\ ss \in [Nodes -> [Nodes -> ServerStates]]
    /\ in \in [Nodes -> SUBSET Nodes] /\ out \in [Nodes -> SUBSET Nodes]
    /\ state \in [Nodes -> {"Initializing", "Connected", "Closed"}]
    /\ cb \in [Nodes -> {"Waiting", "Success", "Error"}]

\* Every outbound connection the connector starts settles: its handshake
\* completes or fails, or its node stops (the retry loop is bounded).
LinksSettle ==
    \A n, m \in Nodes :
        cs[n][m] = "Connect" ~> (cs[n][m] \in {"Done", "Failed"} \/ ~Live(n))

\* A started node's connected callback is eventually called, with the
\* network or with an error: the engine neither starts nor stops otherwise.
NetworkAnswers ==
    \A n \in Nodes : boot[n] >= 1 ~> cb[n] # "Waiting"
=============================================================================
