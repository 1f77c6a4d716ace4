-------------------------- MODULE DistributedMutex --------------------------
(***************************************************************************)
(* The distributed mutual exclusion engine of the client role:            *)
(* net::mutex::DistributedMutualExclusionService                          *)
(* (src/src/net/mutex/distributed_mutual_exclusion_service.cc), Ricart-   *)
(* Agrawala keyed by file name with the Roucairol-Carvalho optimisation   *)
(* (permissions received in a Reply are retained until surrendered).      *)
(*                                                                         *)
(* Each node is one engine.  chan[p][n] holds the Request and Reply        *)
(* messages p has written to its outbound peer connection towards n and   *)
(* that n's engine has not handled yet.  A step is what the code does     *)
(* between two points where another thread may act: a section under       *)
(* state_mutex_, or an unlocked read or write of state_, my_request_ or   *)
(* the permission sets.                                                    *)
(*                                                                         *)
(*   OnReceiveRequest   clock update under the lock; the switch on state_ *)
(*                      (unlocked); in kRequesting, my_request_.value()   *)
(*                      (unlocked); then the erase, Reply or queueing     *)
(*   OnReceiveMessage,  clock and permission under the lock; then         *)
(*     kReply           CheckForMutualExclusion, unlocked                 *)
(*   done               ReleaseMutualExclusion (unlocked writes), then    *)
(*                      DeliverDelayedRequests, one OnReceiveRequest per  *)
(*                      queued request, on the thread that called done    *)
(*                                                                         *)
(* RunWithMutualExclusion holds the lock throughout and is one step.  The *)
(* queue delayed_requests_ is pushed under the lock by readers and read   *)
(* and popped without it by DeliverDelayedRequests; each of those         *)
(* operations is taken to be atomic.                                       *)
(*                                                                         *)
(* OrderedHandling selects how messages of one link reach the engine.     *)
(* MutualExclusionService::ScheduleNextRead schedules the read of the     *)
(* next message before it runs the callback of the current one, so on the *)
(* 8-thread pool the handlers of consecutive messages of one link can run *)
(* in any order: FALSE models that.  TRUE keeps the TCP order, a subset   *)
(* of those behaviours.                                                    *)
(*                                                                         *)
(* The client's operation inside the critical section (the fan-out of     *)
(* Read/Write to the servers) is abstracted to "eventually calls done";   *)
(* ClientServer models it.                                                 *)
(***************************************************************************)
EXTENDS Integers, Sequences, SequencesExt, FiniteSets

CONSTANTS
    N,                \* number of peer nodes; node ids are 1..N
    Files,            \* file names the clients enumerate
    MaxRequests,      \* bound: RunWithMutualExclusion calls per node
    OrderedHandling   \* TRUE: a link's messages are handled in send order

ASSUME N \in Nat \ {0} /\ Files # {} /\ MaxRequests \in Nat
ASSUME OrderedHandling \in BOOLEAN

Node == 1..N

\* my_request_ is a util::optional; NoRequest stands for none.
NoRequest == [file |-> "none", ts |-> -1]

\* Where a handler of OnReceiveRequest stands: before the switch, before
\* my_request_.value() (kRequesting), or on its way to reply, to reply
\* keeping the permission (line 166), or to queue the request.
Stage == {"switch", "mine", "reply", "concede", "defer"}

VARIABLES
    timestamp,          \* timestamp_: the Lamport clock
    state,              \* state_: "waiting" | "requesting" | "cs"
    myRequest,          \* my_request_: [file, ts] or NoRequest
    havePermissionFor,  \* havePermissionFor[n][p]: entry.have_permission_for
                        \*   of n's entry for peer p
    delayed,            \* delayed_requests_: FIFO of [from, ts, file]
    chan,               \* chan[p][n]: messages from p not yet handled by n
    opCalls,            \* times the critical-section operation was invoked
                        \*   for the current request (PerformCriticalSection)
    fault,              \* the bad_optional_access throws: [node, at], at
                        \*   "check" (line 289) or "mine" (line 155)
    issued,             \* RunWithMutualExclusion calls made (bounded)
    inflight,           \* inflight[n]: OnReceiveRequest handlers under way,
                        \*   [from, ts, file, at, by]; by "reader" or "done"
    checks,             \* checks[n]: Reply handlers between their locked
                        \*   section and CheckForMutualExclusion
    delivering          \* delivering[n]: done is in DeliverDelayedRequests

vars == <<timestamp, state, myRequest, havePermissionFor, delayed, chan,
          opCalls, fault, issued, inflight, checks, delivering>>

Msg == [type : {"Request", "Reply"}, ts : Nat, file : Files]

Peers(n) == Node \ {n}

MaxOf(a, b) == IF a >= b THEN a ELSE b

TypeOK ==
    /\ timestamp \in [Node -> Nat]
    /\ state \in [Node -> {"waiting", "requesting", "cs"}]
    /\ myRequest \in [Node -> [file : Files, ts : Nat] \cup {NoRequest}]
    /\ havePermissionFor \in [Node -> [Node -> SUBSET Files]]
    /\ delayed \in [Node -> Seq([from : Node, ts : Nat, file : Files])]
    /\ chan \in [Node -> [Node -> Seq(Msg)]]
    /\ opCalls \in [Node -> Nat]
    /\ fault \subseteq [node : Node, at : {"check", "mine"}]
    /\ issued \in [Node -> 0..MaxRequests]
    /\ inflight \in [Node -> SUBSET [from : Node, ts : Nat, file : Files,
                                     at : Stage, by : {"reader", "done"}]]
    /\ checks \in [Node -> Nat]
    /\ delivering \in [Node -> BOOLEAN]
    \* my_request_ holds a value exactly when state_ is not kWaiting, which
    \* CheckForMutualExclusion's my_request_.value() relies on
    /\ \A n \in Node : (myRequest[n] = NoRequest) <=> (state[n] = "waiting")

\* Constructor: timestamp_(0), state_(kWaiting), empty permission sets.
Init ==
    /\ timestamp = [n \in Node |-> 0]
    /\ state = [n \in Node |-> "waiting"]
    /\ myRequest = [n \in Node |-> NoRequest]
    /\ havePermissionFor = [n \in Node |-> [p \in Node |-> {}]]
    /\ delayed = [n \in Node |-> <<>>]
    /\ chan = [p \in Node |-> [n \in Node |-> <<>>]]
    /\ opCalls = [n \in Node |-> 0]
    /\ fault = {}
    /\ issued = [n \in Node |-> 0]
    /\ inflight = [n \in Node |-> {}]
    /\ checks = [n \in Node |-> 0]
    /\ delivering = [n \in Node |-> FALSE]

\* Nothing catches bad_optional_access: it terminates the process; the
\* peers' readers then fail and ReportError breaks the whole network, so
\* no engine moves again.
Running == fault = {}

-----------------------------------------------------------------------------
(* Helpers *)

\* The indices of chan[p][n] whose message n's engine may handle next.
Deliverable(p, n) ==
    IF OrderedHandling THEN (IF chan[p][n] = <<>> THEN {} ELSE {1})
    ELSE DOMAIN chan[p][n]

\* CheckForMutualExclusion's condition, over a permission table.
HasAllPermissions(n, perm, f) == \A p \in Peers(n) : f \in perm[p]

\* Sending a message on n's outbound link to p.
Send(c, n, p, m) == [c EXCEPT ![n][p] = Append(@, m)]

\* The clock update of a Request or a Reply with timestamp ts (lines 106,
\* 130).
Tick(n, ts) == [timestamp EXCEPT ![n] = MaxOf(ts + 1, @ + 1)]

\* The case of OnReceiveRequest's switch on state_ (line 133).
SwitchCase(n) ==
    CASE state[n] = "waiting"    -> "reply"
      [] state[n] = "cs"         -> "defer"
      [] OTHER                   -> "mine"

\* The kRequesting case (lines 155-184) for a Request [ts, f] from p, on
\* my_request_.value(): another file is answered, a same-file request with
\* priority over mine is answered without the erase, mine is kept.
MineCase(n, p, ts, f) ==
    CASE myRequest[n] = NoRequest                     -> "throw"
      [] myRequest[n].file # f                        -> "reply"
      [] \/ myRequest[n].ts > ts
         \/ myRequest[n].ts = ts /\ n > p             -> "concede"
      [] OTHER                                        -> "defer"

-----------------------------------------------------------------------------
(* Actions *)

\* RunWithMutualExclusion(file_name, op), all under state_mutex_, called by
\* the client's SendRead or SendWrite state once the previous done has
\* returned: record my_request_ with the current timestamp_ (the clock is
\* not advanced), RequestMutualExclusion sets kRequesting and sends a
\* Request to every peer whose permission is not retained, then
\* CheckForMutualExclusion may enter the critical section at once.  The
\* "already in progress" early return is not reachable from the client,
\* which calls this only from the waiting state.
RunWithMutualExclusion(n, f) ==
    /\ Running
    /\ issued[n] < MaxRequests /\ ~delivering[n]
    /\ myRequest[n] = NoRequest /\ state[n] = "waiting"
    /\ LET req == [file |-> f, ts |-> timestamp[n]]
           missing == {p \in Peers(n) : f \notin havePermissionFor[n][p]}
           enter == missing = {}
       IN /\ myRequest' = [myRequest EXCEPT ![n] = req]
          /\ chan' = [chan EXCEPT ![n] =
                [p \in Node |-> IF p \in missing
                                THEN Append(chan[n][p],
                                       [type |-> "Request", ts |-> req.ts,
                                        file |-> f])
                                ELSE chan[n][p]]]
          /\ state' = [state EXCEPT ![n] = IF enter THEN "cs"
                                                    ELSE "requesting"]
          /\ opCalls' = [opCalls EXCEPT ![n] = IF enter THEN @ + 1 ELSE @]
    /\ issued' = [issued EXCEPT ![n] = @ + 1]
    /\ UNCHANGED <<timestamp, havePermissionFor, delayed, fault, inflight,
                   checks, delivering>>

\* OnReceiveMessage, kReply, under state_mutex_: advance the clock past the
\* Reply and retain the permission.  CheckForMutualExclusion follows
\* after the unlock.
ReceiveReply(n, p) ==
    /\ Running
    /\ \E i \in Deliverable(p, n) :
        LET m == chan[p][n][i]
        IN /\ m.type = "Reply"
           /\ chan' = [chan EXCEPT ![p][n] = RemoveAt(@, i)]
           /\ timestamp' = Tick(n, m.ts)
           /\ havePermissionFor' =
                 [havePermissionFor EXCEPT ![n][p] = @ \cup {m.file}]
    /\ checks' = [checks EXCEPT ![n] = @ + 1]
    /\ UNCHANGED <<state, myRequest, delayed, opCalls, fault, issued,
                   inflight, delivering>>

\* CheckForMutualExclusion from a Reply handler, without the lock:
\* my_request_.value() throws when there is no request; otherwise, when
\* every permission is held, state_ = kInCriticalSection and
\* PerformCriticalSection invokes the operation, whatever state_ was.
CheckForMutualExclusion(n) ==
    /\ Running
    /\ checks[n] > 0
    /\ checks' = [checks EXCEPT ![n] = @ - 1]
    /\ IF myRequest[n] = NoRequest
       THEN /\ fault' = {[node |-> n, at |-> "check"]}
            /\ UNCHANGED <<state, opCalls>>
       ELSE /\ UNCHANGED fault
            /\ IF HasAllPermissions(n, havePermissionFor[n], myRequest[n].file)
               THEN /\ state' = [state EXCEPT ![n] = "cs"]
                    /\ opCalls' = [opCalls EXCEPT ![n] = @ + 1]
               ELSE UNCHANGED <<state, opCalls>>
    /\ UNCHANGED <<timestamp, myRequest, havePermissionFor, delayed, chan,
                   issued, inflight, delivering>>

\* A handler h of OnReceiveRequest starts: advance the clock past the
\* Request under state_mutex_.  A reader starts it for a Request from p.
ReceiveRequest(n, p) ==
    /\ Running
    /\ \E i \in Deliverable(p, n) :
        LET m == chan[p][n][i]
        IN /\ m.type = "Request"
           /\ chan' = [chan EXCEPT ![p][n] = RemoveAt(@, i)]
           /\ timestamp' = Tick(n, m.ts)
           /\ inflight' = [inflight EXCEPT ![n] = @ \cup
                 {[from |-> p, ts |-> m.ts, file |-> m.file, at |-> "switch",
                   by |-> "reader"]}]
    /\ UNCHANGED <<state, myRequest, havePermissionFor, delayed, opCalls,
                   fault, issued, checks, delivering>>

\* Handler h reads state_, without the lock, and takes that case.
SwitchState(n, h) ==
    /\ Running
    /\ h \in inflight[n] /\ h.at = "switch"
    /\ inflight' = [inflight EXCEPT ![n] =
                      (@ \ {h}) \cup {[h EXCEPT !.at = SwitchCase(n)]}]
    /\ UNCHANGED <<timestamp, state, myRequest, havePermissionFor, delayed,
                   chan, opCalls, fault, issued, checks, delivering>>

\* Handler h, in kRequesting, reads my_request_.value(), without the lock:
\* it throws when the request is gone, else picks the branch.
ReadMine(n, h) ==
    /\ Running
    /\ h \in inflight[n] /\ h.at = "mine"
    /\ LET c == MineCase(n, h.from, h.ts, h.file)
       IN IF c = "throw"
          THEN /\ fault' = {[node |-> n, at |-> "mine"]}
               /\ inflight' = [inflight EXCEPT ![n] = @ \ {h}]
          ELSE /\ inflight' = [inflight EXCEPT ![n] =
                                 (@ \ {h}) \cup {[h EXCEPT !.at = c]}]
               /\ UNCHANGED fault
    /\ UNCHANGED <<timestamp, state, myRequest, havePermissionFor, delayed,
                   chan, opCalls, issued, checks, delivering>>

\* Handler h ends in its branch: "reply" surrenders the permission (erase
\* under the lock) and sends a Reply; "concede" sends a Reply and leaves
\* have_permission_for alone; "defer" queues the request under the lock.
\* The Reply carries timestamp_ as it is when it is sent.
RequestHandled(n, h) ==
    /\ Running
    /\ h \in inflight[n] /\ h.at \in {"reply", "concede", "defer"}
    /\ LET reply == [type |-> "Reply", ts |-> timestamp[n], file |-> h.file]
       IN  /\ chan' = IF h.at = "defer" THEN chan
                      ELSE Send(chan, n, h.from, reply)
           /\ havePermissionFor' =
                IF h.at = "reply"
                THEN [havePermissionFor EXCEPT ![n][h.from] = @ \ {h.file}]
                ELSE havePermissionFor
           /\ delayed' =
                IF h.at = "defer"
                THEN [delayed EXCEPT ![n] =
                        Append(@, [from |-> h.from, ts |-> h.ts, file |-> h.file])]
                ELSE delayed
    /\ inflight' = [inflight EXCEPT ![n] = @ \ {h}]
    /\ UNCHANGED <<timestamp, state, myRequest, opCalls, fault, issued,
                   checks, delivering>>

\* The done continuation handed to the operation, first part:
\* ReleaseMutualExclusion, without the lock: my_request_.reset() and
\* state_ = kWaiting.  The client calls done once its Read or Write round
\* trip has completed.
Release(n) ==
    /\ Running
    /\ state[n] = "cs" /\ ~delivering[n]
    /\ myRequest' = [myRequest EXCEPT ![n] = NoRequest]
    /\ state' = [state EXCEPT ![n] = "waiting"]
    /\ opCalls' = [opCalls EXCEPT ![n] = 0]
    /\ delivering' = [delivering EXCEPT ![n] = TRUE]
    /\ UNCHANGED <<timestamp, havePermissionFor, delayed, chan, fault,
                   issued, inflight, checks>>

\* DeliverDelayedRequests, one turn of its loop once the previous
\* OnReceiveRequest has returned: when delayed_requests_ is empty the loop
\* ends and done calls back the client; otherwise the front request starts
\* an OnReceiveRequest handler on this thread (its clock update) and is
\* popped.  Readers may still push behind it.
DeliverDelayedRequests(n) ==
    /\ Running
    /\ delivering[n]
    /\ \A h \in inflight[n] : h.by # "done"
    /\ IF delayed[n] = <<>>
       THEN /\ delivering' = [delivering EXCEPT ![n] = FALSE]
            /\ UNCHANGED <<timestamp, delayed, inflight>>
       ELSE LET d == Head(delayed[n])
            IN  /\ timestamp' = Tick(n, d.ts)
                /\ inflight' = [inflight EXCEPT ![n] = @ \cup
                      {[from |-> d.from, ts |-> d.ts, file |-> d.file,
                        at |-> "switch", by |-> "done"]}]
                /\ delayed' = [delayed EXCEPT ![n] = Tail(@)]
                /\ UNCHANGED delivering
    /\ UNCHANGED <<state, myRequest, havePermissionFor, chan, opCalls, fault,
                   issued, checks>>

\* The workload bound is used up and every message handled, or an engine
\* has terminated the process: the model stops here.
Finished ==
    /\ \/ ~Running
       \/ /\ \A n \in Node : issued[n] = MaxRequests /\ state[n] = "waiting"
          /\ \A p, n \in Node : chan[p][n] = <<>>
          /\ \A n \in Node : inflight[n] = {} /\ checks[n] = 0
                             /\ ~delivering[n]
    /\ UNCHANGED vars

Next ==
    \/ \E n \in Node, f \in Files : RunWithMutualExclusion(n, f)
    \/ \E n \in Node, p \in Node : n # p /\ ReceiveReply(n, p)
    \/ \E n \in Node : CheckForMutualExclusion(n)
    \/ \E n \in Node, p \in Node : n # p /\ ReceiveRequest(n, p)
    \/ \E n \in Node : \E h \in inflight[n] :
          SwitchState(n, h) \/ ReadMine(n, h) \/ RequestHandled(n, h)
    \/ \E n \in Node : Release(n) \/ DeliverDelayedRequests(n)
    \/ Finished

Spec == Init /\ [][Next]_vars

-----------------------------------------------------------------------------
(* Properties *)

\* Mutual exclusion (spec section 8, invariant 1): two engines are never in
\* the critical section for the same file at once.
MutualExclusion ==
    \A n, m \in Node :
        n # m /\ state[n] = "cs" /\ state[m] = "cs"
            => myRequest[n].file # myRequest[m].file

\* The operation of one request is invoked once (spec section 4.3: the
\* engine runs the operation when it enters the critical section): two
\* Reply handlers that both find every permission held, or a Reply handled
\* in the critical section, must not run it again.
OperationInvokedOnce == \A n \in Node : opCalls[n] <= 1

=============================================================================
