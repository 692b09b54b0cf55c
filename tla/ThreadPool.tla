------------------------------ MODULE ThreadPool ------------------------------
(***************************************************************************)
(* The class template threadPool<T> of src/threadPool/threadPool.h: a      *)
(* bounded deque guarded by m_mutex, the condition variables m_not_empty   *)
(* and m_not_full, and the threads that execute run().                     *)
(*                                                                         *)
(* Grain.  A critical section of m_mutex, from the acquisition of the lock *)
(* to its release or to the wait that releases it, is one action: nothing  *)
(* it touches is touched outside the mutex.  m_running is read without the *)
(* mutex, by append() and by run(), and each such read is an action of its *)
(* own.  A thread woken in wait(ul, pred) locks and evaluates pred again,  *)
(* exactly what it did when it arrived, so waking it means putting it back *)
(* to the state before the critical section.                               *)
(***************************************************************************)
EXTENDS Integers, Sequences, FiniteSets

CONSTANTS
  Workers,      \* the m_thread_nums threads that start() creates
  Callers,      \* the threads that call append()
  Owner,        \* the caller that starts and destroys the pool
  Tasks,        \* the pointers that may be appended
  NULL,         \* the null pointer
  MaxRequests   \* m_max_requests

\* The condition under which start() does not throw, and the use of the class.
ASSUME PoolAssumption ==
  /\ IsFiniteSet(Workers) /\ Workers # {}
  /\ IsFiniteSet(Callers) /\ Owner \in Callers
  /\ MaxRequests \in Nat \ {0}

VARIABLES
  m_running,
  m_threads,    \* the threads created so far
  m_queue,
  wpc,          \* where each worker is in run() and take()
  task,         \* the local t of run()
  cpc,          \* where each caller is in start(), append() or stop()
  arg           \* the parameter t of append()

vars == <<m_running, m_threads, m_queue, wpc, task, cpc, arg>>

\* "unborn": not created; "loop": at while(m_running); "take": about to lock
\* in take(); "wait": blocked on m_not_empty; "run": has its task;
\* "exit": returned from run().
WorkerStates == {"unborn", "loop", "take", "wait", "run", "exit"}

\* "idle": outside the pool; "spawn": in the loop of start(); "append": about
\* to lock in append(); "wait": blocked on m_not_full; "join": in the joins of
\* stop(); "stopped": stop() returned; "threw": append() threw.
CallerStates == {"idle", "spawn", "append", "wait", "join", "stopped", "threw"}

TypeOK ==
  /\ m_running \in BOOLEAN
  /\ m_threads \in SUBSET Workers
  /\ m_queue \in Seq(Tasks) /\ Len(m_queue) <= MaxRequests
  /\ wpc \in [Workers -> WorkerStates]
  /\ task \in [Workers -> Tasks \union {NULL}]
  /\ cpc \in [Callers -> CallerStates]
  /\ arg \in [Callers -> Tasks \union {NULL}]
  /\ \A c \in Callers : cpc[c] \in {"append", "wait"} => arg[c] \in Tasks

Init ==
  /\ m_running = FALSE
  /\ m_threads = {}
  /\ m_queue = <<>>
  /\ wpc = [w \in Workers |-> "unborn"]
  /\ task = [w \in Workers |-> NULL]
  /\ cpc = [c \in Callers |-> "idle"]
  /\ arg = [c \in Callers |-> NULL]

-----------------------------------------------------------------------------
(* Condition variables.                                                    *)

\* m_not_empty.notify_one(): one of the threads blocked on it, if any, wakes.
NotifyNotEmpty ==
  \/ /\ \A w \in Workers : wpc[w] # "wait"
     /\ UNCHANGED wpc
  \/ \E w \in Workers :
       /\ wpc[w] = "wait"
       /\ wpc' = [wpc EXCEPT ![w] = "take"]

\* m_not_full.notify_one().
NotifyNotFull ==
  \/ /\ \A c \in Callers : cpc[c] # "wait"
     /\ UNCHANGED cpc
  \/ \E c \in Callers :
       /\ cpc[c] = "wait"
       /\ cpc' = [cpc EXCEPT ![c] = "append"]

\* A condition variable may also wake a thread that nobody notified.
SpuriousWakeWorker(w) ==
  /\ wpc[w] = "wait"
  /\ wpc' = [wpc EXCEPT ![w] = "take"]
  /\ UNCHANGED <<m_running, m_threads, m_queue, task, cpc, arg>>

SpuriousWakeCaller(c) ==
  /\ cpc[c] = "wait"
  /\ cpc' = [cpc EXCEPT ![c] = "append"]
  /\ UNCHANGED <<m_running, m_threads, m_queue, wpc, task, arg>>

-----------------------------------------------------------------------------
(* start(): m_running is set before the first thread exists.               *)

Start ==
  /\ cpc[Owner] = "idle"
  /\ ~m_running
  /\ m_threads = {}
  /\ m_running' = TRUE
  /\ cpc' = [cpc EXCEPT ![Owner] = "spawn"]
  /\ UNCHANGED <<m_threads, m_queue, wpc, task, arg>>

Spawn(w) ==
  /\ cpc[Owner] = "spawn"
  /\ w \notin m_threads
  /\ m_threads' = m_threads \union {w}
  /\ wpc' = [wpc EXCEPT ![w] = "loop"]
  /\ cpc' = [cpc EXCEPT ![Owner] = IF m_threads' = Workers THEN "idle" ELSE "spawn"]
  /\ UNCHANGED <<m_running, m_queue, task, arg>>

-----------------------------------------------------------------------------
(* append(t).                                                              *)

\* The test of m_running and m_threads, before the lock.
AppendCall(c, t) ==
  /\ cpc[c] = "idle"
  /\ m_running /\ m_threads # {}
  /\ cpc' = [cpc EXCEPT ![c] = "append"]
  /\ arg' = [arg EXCEPT ![c] = t]
  /\ UNCHANGED <<m_running, m_threads, m_queue, wpc, task>>

AppendThrow(c) ==
  /\ cpc[c] = "idle"
  /\ ~m_running \/ m_threads = {}
  /\ cpc' = [cpc EXCEPT ![c] = "threw"]
  /\ UNCHANGED <<m_running, m_threads, m_queue, wpc, task, arg>>

Push(c) ==
  /\ cpc[c] = "append"
  /\ m_queue' = Append(m_queue, arg[c])
  /\ cpc' = [cpc EXCEPT ![c] = "idle"]
  /\ arg' = [arg EXCEPT ![c] = NULL]
  /\ UNCHANGED <<m_running, m_threads, task>>

\* Mutants of AppendPush: a worker is woken only when the queue was empty, or
\* not at all; the queue takes one task too many.
AppendPushNotifyOnEmpty(c) ==
  Len(m_queue) < MaxRequests /\ Push(c) /\ IF m_queue = <<>> THEN NotifyNotEmpty ELSE UNCHANGED wpc
AppendPushSilent(c) == Len(m_queue) < MaxRequests /\ Push(c) /\ UNCHANGED wpc
AppendPushOffByOne(c) == Len(m_queue) <= MaxRequests /\ Push(c) /\ NotifyNotEmpty

\* The predicate of m_not_full holds: push and notify.
AppendPush(c) == Len(m_queue) < MaxRequests /\ Push(c) /\ NotifyNotEmpty

\* The queue is full: release the mutex and block on m_not_full.
AppendWait(c) ==
  /\ cpc[c] = "append"
  /\ ~(Len(m_queue) < MaxRequests)
  /\ cpc' = [cpc EXCEPT ![c] = "wait"]
  /\ UNCHANGED <<m_running, m_threads, m_queue, wpc, task, arg>>

-----------------------------------------------------------------------------
(* run() and take().                                                       *)

\* Mutant of RunCheck: while(true).
RunCheckForever(w) ==
  /\ wpc[w] = "loop"
  /\ wpc' = [wpc EXCEPT ![w] = "take"]
  /\ UNCHANGED <<m_running, m_threads, m_queue, task, cpc, arg>>

\* while(m_running): read without the mutex.
RunCheck(w) ==
  /\ wpc[w] = "loop"
  /\ wpc' = [wpc EXCEPT ![w] = IF m_running THEN "take" ELSE "exit"]
  /\ UNCHANGED <<m_running, m_threads, m_queue, task, cpc, arg>>

TakeWait(w) ==
  /\ wpc[w] = "take"
  /\ m_queue = <<>>
  /\ wpc' = [wpc EXCEPT ![w] = "wait"]
  /\ UNCHANGED <<m_running, m_threads, m_queue, task, cpc, arg>>

Pop(w) ==
  /\ wpc[w] = "take"
  /\ m_queue' = Tail(m_queue)
  /\ wpc' = [wpc EXCEPT ![w] = "run"]
  /\ UNCHANGED <<m_running, m_threads, arg>>

\* Mutants of TakePop: no m_not_full.notify_one(); back() for front().
TakePopSilent(w) ==
  Len(m_queue) > 0 /\ Pop(w) /\ task' = [task EXCEPT ![w] = Head(m_queue)] /\ UNCHANGED cpc
TakePopBack(w) ==
  Len(m_queue) > 0 /\ Pop(w) /\ task' = [task EXCEPT ![w] = m_queue[Len(m_queue)]] /\ NotifyNotFull

\* The predicate of m_not_empty holds: front(), pop_front() and notify.
TakePop(w) ==
  Len(m_queue) > 0 /\ Pop(w) /\ task' = [task EXCEPT ![w] = Head(m_queue)] /\ NotifyNotFull

\* if(!t) continue; else t->process(): either way back to while(m_running).
RunTask(w) ==
  /\ wpc[w] = "run"
  /\ wpc' = [wpc EXCEPT ![w] = "loop"]
  /\ task' = [task EXCEPT ![w] = NULL]
  /\ UNCHANGED <<m_running, m_threads, m_queue, cpc, arg>>

-----------------------------------------------------------------------------
(* ~threadPool() and stop().                                               *)

\* The critical section of stop(): notify_all on m_not_empty only.
Stop ==
  /\ cpc[Owner] = "idle"
  /\ m_running
  /\ m_running' = FALSE
  /\ wpc' = [w \in Workers |-> IF wpc[w] = "wait" THEN "take" ELSE wpc[w]]
  /\ cpc' = [cpc EXCEPT ![Owner] = "join"]
  /\ UNCHANGED <<m_threads, m_queue, task, arg>>

\* The last join() returns once every thread has left run().
Join ==
  /\ cpc[Owner] = "join"
  /\ \A w \in m_threads : wpc[w] = "exit"
  /\ cpc' = [cpc EXCEPT ![Owner] = "stopped"]
  /\ UNCHANGED <<m_running, m_threads, m_queue, wpc, task, arg>>

-----------------------------------------------------------------------------

Worker(w) == RunCheck(w) \/ TakeWait(w) \/ TakePop(w) \/ RunTask(w)

Next ==
  \/ Start \/ Stop \/ Join
  \/ \E w \in Workers : Spawn(w) \/ Worker(w) \/ SpuriousWakeWorker(w)
  \/ \E c \in Callers :
       \/ \E t \in Tasks : AppendCall(c, t)
       \/ AppendThrow(c) \/ AppendPush(c) \/ AppendWait(c)
       \/ SpuriousWakeCaller(c)

Spec == Init /\ [][Next]_vars

\* A thread that can run does run, m_mutex starves nobody and process()
\* returns.  Nobody is obliged to call append() or to destroy the pool.
Fairness ==
  /\ \A w \in Workers : WF_vars(Worker(w)) /\ WF_vars(Spawn(w))
  /\ \A c \in Callers : WF_vars(AppendPush(c) \/ AppendWait(c))
  /\ WF_vars(Join)

FairSpec == Spec /\ Fairness

-----------------------------------------------------------------------------
(* Properties.                                                             *)

Takers == {w \in Workers : wpc[w] = "take"}
SleepingWorkers == {w \in Workers : wpc[w] = "wait"}
Appenders == {c \in Callers : cpc[c] = "append"}
SleepingCallers == {c \in Callers : cpc[c] = "wait"}

\* No wake-up of m_not_empty is lost: while some worker sleeps in take(),
\* every task in the queue has a worker of its own that is awake and about to
\* look at the queue (the notify_one() of append()).
NotEmptyWakeups ==
  SleepingWorkers # {} => Len(m_queue) <= Cardinality(Takers)

\* No wake-up of m_not_full is lost: while some caller sleeps in append(),
\* every free slot of the queue is matched by a caller that is awake and
\* about to push (the notify_one() of take()).
NotFullWakeups ==
  SleepingCallers # {} => MaxRequests <= Len(m_queue) + Cardinality(Appenders)

\* Locks, wake-ups and shutdown are invisible: seen through the queue and the
\* tasks in the workers' hands, the pool is the bounded FIFO of TaskQueue.
Held == [w \in Workers |-> IF wpc[w] = "run" THEN <<task[w]>> ELSE <<>>]

Abstract == INSTANCE TaskQueue WITH queue <- m_queue, held <- Held

ImplementsTaskQueue == Abstract!Spec

\* Every appended task reaches a worker unless the pool is stopped first.
TaskServed ==
  \A t \in Tasks :
    (\E i \in 1..Len(m_queue) : m_queue[i] = t)
      ~> (~m_running \/ \E w \in Workers : wpc[w] = "run" /\ task[w] = t)

\* append() returns, however full the queue was: the main thread of the server
\* never stays blocked in it.  (With several callers, newcomers may overtake a
\* woken caller for ever: std::condition_variable does not queue its waiters.)
AppendReturns ==
  \A c \in Callers : (cpc[c] \in {"append", "wait"}) ~> (cpc[c] = "idle")

\* A worker that is busy when stop() is called finishes its task and leaves
\* run(): it looks at m_running before it looks at the queue again.
BusyWorkersExit ==
  \A w \in Workers :
    (cpc[Owner] = "join" /\ wpc[w] = "run") ~> (wpc[w] = "exit")

\* stop() "stops the thread pool": it returns.
StopReturns == (cpc[Owner] = "join") ~> (cpc[Owner] = "stopped")

=============================================================================
