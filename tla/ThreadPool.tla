----------------------------- MODULE ThreadPool -----------------------------
(***************************************************************************)
(* thread::ThreadPool (src/src/thread/thread_pool.cc): a fixed set of      *)
(* worker threads taking jobs from one queue under jobs_mutex_, woken      *)
(* through cv_.  main() starts the pool before it runs the client or the   *)
(* server and stops it from the main thread (Server::CleanUp,              *)
(* Client::CleanUp, then main.cc:76, which finds running_ false).  Jobs    *)
(* are scheduled by the main thread while the services start and by jobs  *)
(* themselves (every completion schedules the next read or callback).     *)
(*                                                                         *)
(* cv_.wait(lock, pred) is `while (!pred()) wait(lock)`: the predicate is  *)
(* read with jobs_mutex_ held, and wait() releases the mutex and blocks    *)
(* in one step.  Stop() writes running_ and calls notify_all() without     *)
(* jobs_mutex_, so it can fall between a worker's read of the predicate    *)
(* and its block.  running_ is a plain bool written and read by different *)
(* threads; each read sees the value of some earlier write, which is what *)
(* the interleaving of the steps below gives.  Spurious wake-ups are not  *)
(* modelled: nothing in the program relies on them.                       *)
(***************************************************************************)
EXTENDS Naturals, Sequences

CONSTANTS Workers,     \* the threads_ of the pool
          MainThread,  \* the thread running main()
          None,        \* no thread holds jobs_mutex_
          MaxJobs      \* bound on the jobs scheduled in a behaviour

ASSUME MainThread \notin Workers /\ None \notin Workers \cup {MainThread}
ASSUME MaxJobs \in Nat

Threads == Workers \cup {MainThread}

VARIABLES running,    \* running_
          jobs,       \* jobs_: the queue of job numbers
          mutex,      \* the holder of jobs_mutex_, or None
          pc,         \* pc[t]: where thread t is
          scheduled,  \* the number of jobs pushed so far
          ran         \* the jobs a worker has taken from the queue

vars == <<running, jobs, mutex, pc, scheduled, ran>>

WorkerPcs == {"lock", "towait", "waiting", "job", "push", "notify", "done"}
MainPcs   == {"run", "push", "notify", "notifyAll", "join", "stopped"}

TypeOK ==
    /\ running \in BOOLEAN
    /\ jobs \in Seq(1..MaxJobs)
    /\ mutex \in Threads \cup {None}
    /\ \A w \in Workers : pc[w] \in WorkerPcs
    /\ pc[MainThread] \in MainPcs
    /\ scheduled \in 0..MaxJobs
    /\ ran \in SUBSET (1..MaxJobs)

\* Start(): running_ is set before the threads are created, and each
\* thread enters ThreadLoop; nothing has been scheduled yet.
Init ==
    /\ running = TRUE
    /\ jobs = <<>>
    /\ mutex = None
    /\ pc = [t \in Threads |-> IF t = MainThread THEN "run" ELSE "lock"]
    /\ scheduled = 0
    /\ ran = {}

Waiting == {w \in Workers : pc[w] = "waiting"}

\* Where a thread goes once its Schedule() has returned.
AfterSchedule(t) == IF t = MainThread THEN "run" ELSE "lock"

-----------------------------------------------------------------------------
(* Schedule(job).                                                          *)

\* A thread calls Schedule: the main thread while the services start, a
\* worker from inside the job it runs.
CallSchedule(t) ==
    /\ pc[t] = IF t = MainThread THEN "run" ELSE "job"
    /\ scheduled < MaxJobs
    /\ pc' = [pc EXCEPT ![t] = "push"]
    /\ UNCHANGED <<running, jobs, mutex, scheduled, ran>>

\* CRITICAL_SECTION(jobs_mutex_, jobs_.push(job)).
Push(t) ==
    /\ pc[t] = "push" /\ mutex = None
    /\ jobs' = Append(jobs, scheduled + 1)
    /\ scheduled' = scheduled + 1
    /\ pc' = [pc EXCEPT ![t] = "notify"]
    /\ UNCHANGED <<running, mutex, ran>>

\* cv_.notify_one() after the mutex is released: one blocked worker, if
\* any, is woken and goes back to take jobs_mutex_.
NotifyOne(t) ==
    /\ pc[t] = "notify"
    /\ \/ \E w \in Waiting :
              pc' = [pc EXCEPT ![t] = AfterSchedule(t), ![w] = "lock"]
       \/ Waiting = {} /\ pc' = [pc EXCEPT ![t] = AfterSchedule(t)]
    /\ UNCHANGED <<running, jobs, mutex, scheduled, ran>>

-----------------------------------------------------------------------------
(* ThreadLoop().                                                           *)

\* The worker takes jobs_mutex_ (at the top of the loop, or again after a
\* wake-up) and reads the predicate: with running_ false it returns; with
\* a job queued it pops it and leaves the critical section; otherwise it
\* keeps the mutex and goes on to wait().
Lock(w) ==
    /\ pc[w] = "lock" /\ mutex = None
    /\ IF ~running
       THEN pc' = [pc EXCEPT ![w] = "done"] /\ UNCHANGED <<jobs, ran>>
       ELSE IF jobs # <<>>
       THEN /\ jobs' = Tail(jobs)
            /\ ran' = ran \cup {Head(jobs)}
            /\ pc' = [pc EXCEPT ![w] = "job"]
       ELSE pc' = [pc EXCEPT ![w] = "towait"] /\ UNCHANGED <<jobs, ran>>
    /\ mutex' = IF ~running \/ jobs # <<>> THEN None ELSE w
    /\ UNCHANGED <<running, scheduled>>

\* wait(lock): release jobs_mutex_ and block, in one step.
Wait(w) ==
    /\ pc[w] = "towait"
    /\ mutex' = None
    /\ pc' = [pc EXCEPT ![w] = "waiting"]
    /\ UNCHANGED <<running, jobs, scheduled, ran>>

\* job() returns without scheduling anything more.
JobDone(w) ==
    /\ pc[w] = "job"
    /\ pc' = [pc EXCEPT ![w] = "lock"]
    /\ UNCHANGED <<running, jobs, mutex, scheduled, ran>>

-----------------------------------------------------------------------------
(* Stop(), called on the main thread with stop_mutex_ (which no other     *)
(* thread takes) held and running_ true.                                   *)

StopRunning ==
    /\ pc[MainThread] = "run"
    /\ running' = FALSE
    /\ pc' = [pc EXCEPT ![MainThread] = "notifyAll"]
    /\ UNCHANGED <<jobs, mutex, scheduled, ran>>

\* cv_.notify_all(): every worker blocked at that moment is woken.
NotifyAll ==
    /\ pc[MainThread] = "notifyAll"
    /\ pc' = [t \in Threads |->
                 IF t = MainThread THEN "join"
                 ELSE IF pc[t] = "waiting" THEN "lock" ELSE pc[t]]
    /\ UNCHANGED <<running, jobs, mutex, scheduled, ran>>

\* thread.join() for each thread, then threads_.clear(): Stop() returns
\* once every worker has left ThreadLoop.
Join ==
    /\ pc[MainThread] = "join"
    /\ \A w \in Workers : pc[w] = "done"
    /\ pc' = [pc EXCEPT ![MainThread] = "stopped"]
    /\ UNCHANGED <<running, jobs, mutex, scheduled, ran>>

-----------------------------------------------------------------------------

Next ==
    \/ \E t \in Threads : CallSchedule(t) \/ Push(t) \/ NotifyOne(t)
    \/ \E w \in Workers : Lock(w) \/ Wait(w) \/ JobDone(w)
    \/ StopRunning \/ NotifyAll \/ Join

\* Every thread that can take a step eventually does; a thread waiting
\* for jobs_mutex_ gets it when it is free again and again (the mutex is
\* held only for a push or a pop).  Calling Schedule or Stop is up to the
\* program, so CallSchedule carries no fairness; Stop is called once the
\* program ends, which StopRunning's fairness stands for.
Fairness ==
    /\ \A t \in Threads : SF_vars(Push(t)) /\ WF_vars(NotifyOne(t))
    /\ \A w \in Workers : SF_vars(Lock(w)) /\ WF_vars(Wait(w))
                          /\ WF_vars(JobDone(w))
    /\ WF_vars(StopRunning) /\ WF_vars(NotifyAll) /\ WF_vars(Join)

Spec == Init /\ [][Next]_vars /\ Fairness

-----------------------------------------------------------------------------

\* Stop() returns: once the main thread has cleared running_, every worker
\* eventually leaves ThreadLoop and the joins complete (the header says
\* Stop "stops all threads"; main() returns only after it).
StopReturns == pc[MainThread] = "notifyAll" ~> pc[MainThread] = "stopped"
=============================================================================
