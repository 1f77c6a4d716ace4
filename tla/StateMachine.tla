---------------------------- MODULE StateMachine ----------------------------
(***************************************************************************)
(* util::state_machine<T> (src/src/util/state_machine.h): the run loop of  *)
(* synchronous and asynchronous states that the client, the server's      *)
(* connections and the handshakes are built on.  A machine using it       *)
(* supplies its states and IMPL_NEXT_STATE as constants, and its handlers *)
(* as actions that conjoin the operators below.                            *)
(*                                                                         *)
(* `loop` is TRUE while a call of run() is at the top of its while loop;  *)
(* an asynchronous state's handle() breaks out of it, and the callback    *)
(* the handler was given calls run() again.  The callback is a            *)
(* std::function copied into the handler's completion: each copy carries  *)
(* its own `called` flag, so a machine whose handlers complete once per   *)
(* state (one copy, called once) never has two loops at a time.           *)
(***************************************************************************)
EXTENDS Naturals

CONSTANTS States,        \* the singleton states of the machine
          AsyncStates,   \* those defined with DEFINE_ASYNC_STATE
          StopStates,    \* those whose should_stop() returns true
          InitialState,  \* the state given to the constructor
          NextState      \* NextState[s]: IMPL_NEXT_STATE of s

ASSUME /\ AsyncStates \subseteq States /\ StopStates \subseteq States
       /\ InitialState \in States /\ NextState \in [States -> States]

\* forced_next_state_ == nullptr.
Null == "null"

VARIABLES running,     \* running_
          current,     \* current_state_
          forced,      \* forced_next_state_
          lastResult,  \* result_of_last_run_: "ok" or "err"
          loop,        \* a run() is at the top of its loop
          runCalls     \* how often run_callback_ has been called

smVars == <<running, current, forced, lastResult, loop, runCalls>>

SMTypeOK ==
    /\ running \in BOOLEAN /\ loop \in BOOLEAN
    /\ current \in States /\ forced \in States \cup {Null}
    /\ lastResult \in {"ok", "err"} /\ runCalls \in Nat

\* The constructor: not running, at the initial state.
SMInit ==
    /\ running = FALSE
    /\ current = InitialState
    /\ forced = Null
    /\ lastResult = "ok"
    /\ loop = FALSE
    /\ runCalls = 0

\* start(callback): running_ and result_of_last_run_ are set, then run().
Start ==
    /\ ~running /\ ~loop /\ runCalls = 0
    /\ running' = TRUE
    /\ lastResult' = "ok"
    /\ loop' = TRUE
    /\ UNCHANGED <<current, forced, runCalls>>

\* stop(): under stop_mutex_, nothing if the machine is not running;
\* otherwise running_ is cleared and run_callback_ is called with
\* result_of_last_run_ (the thread_blocker is then released).
StopMachine ==
    /\ running' = FALSE
    /\ runCalls' = IF running THEN runCalls + 1 ELSE runCalls

\* stop_with_result(result): result_of_last_run_ = result, then stop().
StopWithResult(res) ==
    /\ lastResult' = res
    /\ StopMachine

\* Mutant: goto_next_state() that always takes IMPL_NEXT_STATE.
GotoNextStateIgnoreForced(f) == current' = NextState[current]

\* goto_next_state(): the forced state if a handler set one, else the
\* state's IMPL_NEXT_STATE.
GotoNextState(f) == current' = IF f # Null THEN f ELSE NextState[current]

\* The top of run()'s loop on a running machine: forced_next_state_ is
\* reset before the current state's handler runs.
AtTop == loop /\ running

\* Mutant: forced_next_state_ is not reset at the top of the loop.
SuspendKeepForced ==
    /\ UNCHANGED forced
    /\ loop' = FALSE
    /\ UNCHANGED <<running, current, lastResult, runCalls>>

\* An asynchronous state's handle() has issued its operation: run()
\* breaks out of its loop.
Suspend ==
    /\ forced' = Null
    /\ loop' = FALSE
    /\ UNCHANGED <<running, current, lastResult, runCalls>>

\* The callback run_current_state gave an asynchronous state, called once
\* with `res` after the handler left forced_next_state_ at `f`: an error
\* stops the machine with it; a stop state stops it; otherwise the machine
\* moves on and run() starts a loop again.
Callback(res, f) ==
    /\ forced' = f
    /\ IF res = "err"
       THEN StopWithResult(res) /\ loop' = FALSE /\ UNCHANGED current
       ELSE IF current \in StopStates
       THEN StopMachine /\ loop' = FALSE /\ UNCHANGED <<current, lastResult>>
       ELSE /\ GotoNextState(f)
            /\ loop' = TRUE
            /\ UNCHANGED <<running, lastResult, runCalls>>

\* Mutant: the synchronous branch does not consult should_stop().
SyncDoneIgnoreStop(res, f) ==
    /\ forced' = f
    /\ IF res = "err"
       THEN StopWithResult(res) /\ loop' = FALSE /\ UNCHANGED current
       ELSE /\ GotoNextState(f)
            /\ UNCHANGED <<running, lastResult, runCalls, loop>>

\* A synchronous state's handler returned with `res` (ok if it never
\* called its callback) and forced_next_state_ at `f`: on an error or in
\* a stop state the machine stops with that result and run() breaks;
\* otherwise the loop goes on in the next state.
SyncDone(res, f) ==
    /\ forced' = f
    /\ IF res = "err" \/ current \in StopStates
       THEN StopWithResult(res) /\ loop' = FALSE /\ UNCHANGED current
       ELSE /\ GotoNextState(f)
            /\ UNCHANGED <<running, lastResult, runCalls, loop>>
=============================================================================
