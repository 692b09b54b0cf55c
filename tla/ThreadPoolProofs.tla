--------------------------- MODULE ThreadPoolProofs ---------------------------
(***************************************************************************)
(* Theorems about ThreadPool for every finite set of workers and callers,  *)
(* every set of tasks and every capacity.                                  *)
(***************************************************************************)
EXTENDS ThreadPool, TLAPS, FiniteSetTheorems

-----------------------------------------------------------------------------
(* Type correctness.                                                       *)

\* A wake-up leaves a state of run() or append() in place of another.
LEMMA NotifyTypes ==
  ASSUME TypeOK
  PROVE  /\ NotifyNotEmpty => wpc' \in [Workers -> WorkerStates]
         /\ NotifyNotFull =>
              /\ cpc' \in [Callers -> CallerStates]
              /\ \A c \in Callers : cpc'[c] \in {"append", "wait"} =>
                                    cpc[c] \in {"append", "wait"}
<1>1. NotifyNotEmpty => wpc' \in [Workers -> WorkerStates]
  BY DEF TypeOK, NotifyNotEmpty, WorkerStates
<1>2. NotifyNotFull => cpc' \in [Callers -> CallerStates]
  BY DEF TypeOK, NotifyNotFull, CallerStates
<1>3. NotifyNotFull =>
        \A c \in Callers : cpc'[c] \in {"append", "wait"} =>
                           cpc[c] \in {"append", "wait"}
  BY DEF TypeOK, NotifyNotFull
<1>4. QED
  BY <1>1, <1>2, <1>3

\* The variables keep their types, and append() has a task to push whenever it
\* is about to lock or waits (the parameter t of append()).
THEOREM TypeCorrect == Spec => []TypeOK
<1>1. Init => TypeOK
  <2> SUFFICES ASSUME Init
               PROVE  TypeOK
    OBVIOUS
  <2>1. m_running \in BOOLEAN /\ m_threads \in SUBSET Workers
    BY DEF Init
  <2>2. m_queue \in Seq(Tasks) /\ Len(m_queue) <= MaxRequests
    BY PoolAssumption DEF Init
  <2>3. wpc \in [Workers -> WorkerStates] /\ cpc \in [Callers -> CallerStates]
    BY DEF Init, WorkerStates, CallerStates
  <2>4. /\ task \in [Workers -> Tasks \union {NULL}]
        /\ arg \in [Callers -> Tasks \union {NULL}]
    BY DEF Init
  <2>5. \A c \in Callers : cpc[c] \notin {"append", "wait"}
    BY DEF Init
  <2>6. QED
    BY <2>1, <2>2, <2>3, <2>4, <2>5 DEF TypeOK
<1>2. TypeOK /\ [Next]_vars => TypeOK'
  <2> SUFFICES ASSUME TypeOK, [Next]_vars
               PROVE  TypeOK'
    OBVIOUS
  <2> USE PoolAssumption
  <2>1. CASE Start
    BY <2>1 DEF Start, TypeOK, CallerStates
  <2>2. CASE Stop
    BY <2>2 DEF Stop, TypeOK, WorkerStates, CallerStates
  <2>3. CASE Join
    BY <2>3 DEF Join, TypeOK, CallerStates
  <2>4. ASSUME NEW w \in Workers, Spawn(w)
        PROVE  TypeOK'
    BY <2>4 DEF Spawn, TypeOK, WorkerStates, CallerStates
  <2>5. ASSUME NEW w \in Workers, RunCheck(w)
        PROVE  TypeOK'
    BY <2>5 DEF RunCheck, TypeOK, WorkerStates
  <2>6. ASSUME NEW w \in Workers, TakeWait(w)
        PROVE  TypeOK'
    BY <2>6 DEF TakeWait, TypeOK, WorkerStates
  <2>7. ASSUME NEW w \in Workers, TakePop(w)
        PROVE  TypeOK'
    <3>1. /\ m_queue' \in Seq(Tasks) /\ Len(m_queue') <= MaxRequests
          /\ Head(m_queue) \in Tasks
      BY <2>7 DEF TakePop, Pop, TypeOK
    <3>2. wpc' \in [Workers -> WorkerStates]
      BY <2>7 DEF TakePop, Pop, TypeOK, WorkerStates
    <3>3. task' \in [Workers -> Tasks \union {NULL}]
      BY <2>7, <3>1 DEF TakePop, Pop, TypeOK
    <3>4. QED
      BY <2>7, <3>1, <3>2, <3>3, NotifyTypes DEF TakePop, Pop, TypeOK
  <2>8. ASSUME NEW w \in Workers, RunTask(w)
        PROVE  TypeOK'
    BY <2>8 DEF RunTask, TypeOK, WorkerStates
  <2>9. ASSUME NEW w \in Workers, SpuriousWakeWorker(w)
        PROVE  TypeOK'
    BY <2>9 DEF SpuriousWakeWorker, TypeOK, WorkerStates
  <2>10. ASSUME NEW c \in Callers, NEW t \in Tasks, AppendCall(c, t)
         PROVE  TypeOK'
    BY <2>10 DEF AppendCall, TypeOK, CallerStates
  <2>11. ASSUME NEW c \in Callers, AppendThrow(c)
         PROVE  TypeOK'
    BY <2>11 DEF AppendThrow, TypeOK, CallerStates
  <2>12. ASSUME NEW c \in Callers, AppendPush(c)
         PROVE  TypeOK'
    <3>1. m_queue' \in Seq(Tasks) /\ Len(m_queue') <= MaxRequests
      BY <2>12 DEF AppendPush, Push, TypeOK
    <3>2. cpc' \in [Callers -> CallerStates]
      BY <2>12 DEF AppendPush, Push, TypeOK, CallerStates
    <3>3. arg' \in [Callers -> Tasks \union {NULL}]
      BY <2>12 DEF AppendPush, Push, TypeOK
    <3>4. \A d \in Callers : cpc'[d] \in {"append", "wait"} => arg'[d] \in Tasks
      BY <2>12 DEF AppendPush, Push, TypeOK
    <3>5. QED
      BY <2>12, <3>1, <3>2, <3>3, <3>4, NotifyTypes DEF AppendPush, Push, TypeOK
  <2>13. ASSUME NEW c \in Callers, AppendWait(c)
         PROVE  TypeOK'
    BY <2>13 DEF AppendWait, TypeOK, CallerStates
  <2>14. ASSUME NEW c \in Callers, SpuriousWakeCaller(c)
         PROVE  TypeOK'
    BY <2>14 DEF SpuriousWakeCaller, TypeOK, CallerStates
  <2>15. CASE UNCHANGED vars
    BY <2>15 DEF vars, TypeOK
  <2>16. QED
    BY <2>1, <2>2, <2>3, <2>4, <2>5, <2>6, <2>7, <2>8, <2>9, <2>10, <2>11,
       <2>12, <2>13, <2>14, <2>15 DEF Next, Worker
<1>3. QED
  BY <1>1, <1>2, PTL DEF Spec

-----------------------------------------------------------------------------
(* Lost wake-ups.                                                          *)

\* The awake threads can be counted.
LEMMA AwakeFinite ==
  /\ IsFiniteSet(Takers) /\ Cardinality(Takers) \in Nat
  /\ IsFiniteSet(Appenders) /\ Cardinality(Appenders) \in Nat
<1>1. Takers \subseteq Workers /\ Appenders \subseteq Callers
  BY DEF Takers, Appenders
<1>2. QED
  BY <1>1, PoolAssumption, FS_Subset, FS_CardinalityType

\* A task more is matched by the worker that notify_one() wakes.
LEMMA NotifyNotEmptyCounts ==
  ASSUME TypeOK, NotifyNotEmpty
  PROVE  \/ SleepingWorkers' = {}
         \/ /\ SleepingWorkers # {}
            /\ Cardinality(Takers') = Cardinality(Takers) + 1
<1>1. CASE (\A w \in Workers : wpc[w] # "wait") /\ UNCHANGED wpc
  BY <1>1 DEF SleepingWorkers
<1>2. ASSUME NEW w \in Workers, wpc[w] = "wait",
             wpc' = [wpc EXCEPT ![w] = "take"]
      PROVE  SleepingWorkers # {} /\ Cardinality(Takers') = Cardinality(Takers) + 1
  <2>1. Takers' = Takers \union {w} /\ w \notin Takers
    BY <1>2 DEF Takers, TypeOK
  <2>2. Cardinality(Takers') = Cardinality(Takers) + 1
    BY <2>1, AwakeFinite, FS_AddElement
  <2>3. QED
    BY <2>2, <1>2 DEF SleepingWorkers
<1>3. QED
  BY <1>1, <1>2 DEF NotifyNotEmpty

\* A free slot more is matched by the caller that notify_one() wakes.
LEMMA NotifyNotFullCounts ==
  ASSUME TypeOK, NotifyNotFull
  PROVE  \/ SleepingCallers' = {}
         \/ /\ SleepingCallers # {}
            /\ Cardinality(Appenders') = Cardinality(Appenders) + 1
<1>1. CASE (\A c \in Callers : cpc[c] # "wait") /\ UNCHANGED cpc
  BY <1>1 DEF SleepingCallers
<1>2. ASSUME NEW c \in Callers, cpc[c] = "wait",
             cpc' = [cpc EXCEPT ![c] = "append"]
      PROVE  SleepingCallers # {} /\ Cardinality(Appenders') = Cardinality(Appenders) + 1
  <2>1. Appenders' = Appenders \union {c} /\ c \notin Appenders
    BY <1>2 DEF Appenders, TypeOK
  <2>2. Cardinality(Appenders') = Cardinality(Appenders) + 1
    BY <2>1, AwakeFinite, FS_AddElement
  <2>3. QED
    BY <2>2, <1>2 DEF SleepingCallers
<1>3. QED
  BY <1>1, <1>2 DEF NotifyNotFull

\* A step that puts no worker to sleep and takes none away from the queue.
LEMMA MoreTakers ==
  ASSUME TypeOK, NotEmptyWakeups, UNCHANGED m_queue,
         Takers \subseteq Takers', SleepingWorkers' \subseteq SleepingWorkers
  PROVE  NotEmptyWakeups'
<1>1. IsFiniteSet(Takers') /\ Cardinality(Takers') \in Nat
  <2>1. Takers' \subseteq Workers
    BY DEF Takers
  <2>2. QED
    BY <2>1, PoolAssumption, FS_Subset, FS_CardinalityType
<1>2. Cardinality(Takers) <= Cardinality(Takers')
  BY <1>1, FS_Subset
<1>3. Len(m_queue) \in Nat
  BY DEF TypeOK
<1>4. QED
  BY <1>1, <1>2, <1>3, AwakeFinite DEF NotEmptyWakeups

\* A step that puts no caller to sleep and takes no free slot's caller away.
LEMMA MoreAppenders ==
  ASSUME TypeOK, NotFullWakeups, UNCHANGED m_queue,
         Appenders \subseteq Appenders', SleepingCallers' \subseteq SleepingCallers
  PROVE  NotFullWakeups'
<1>1. IsFiniteSet(Appenders') /\ Cardinality(Appenders') \in Nat
  <2>1. Appenders' \subseteq Callers
    BY DEF Appenders
  <2>2. QED
    BY <2>1, PoolAssumption, FS_Subset, FS_CardinalityType
<1>2. Cardinality(Appenders) <= Cardinality(Appenders')
  BY <1>1, FS_Subset
<1>3. Len(m_queue) \in Nat /\ MaxRequests \in Nat
  BY PoolAssumption DEF TypeOK
<1>4. QED
  BY <1>1, <1>2, <1>3, AwakeFinite DEF NotFullWakeups

\* A worker is somewhere in run() exactly when start() has created its thread.
Created == \A w \in Workers : wpc[w] = "unborn" <=> w \notin m_threads

\* Only start() creates threads, and each one once.
LEMMA CreatedInvariant == Spec => []Created
<1>1. Init => Created
  BY DEF Init, Created
<1>2. TypeOK /\ Created /\ [Next]_vars => Created'
  <2> SUFFICES ASSUME TypeOK, Created, [Next]_vars
               PROVE  Created'
    OBVIOUS
  <2> USE DEF TypeOK, Created
  <2>1. CASE UNCHANGED <<wpc, m_threads>>
    BY <2>1
  <2>2. CASE Stop
    BY <2>2 DEF Stop
  <2>3. ASSUME NEW w \in Workers, Spawn(w)
        PROVE  Created'
    BY <2>3 DEF Spawn
  <2>4. ASSUME NEW w \in Workers, Worker(w) \/ SpuriousWakeWorker(w),
               wpc' # wpc
        PROVE  Created'
    <3>1. \E s \in {"loop", "take", "wait", "run", "exit"} :
            wpc' = [wpc EXCEPT ![w] = s]
      BY <2>4 DEF Worker, RunCheck, TakeWait, TakePop, Pop, RunTask, SpuriousWakeWorker
    <3>2. wpc[w] # "unborn" /\ UNCHANGED m_threads
      BY <2>4 DEF Worker, RunCheck, TakeWait, TakePop, Pop, RunTask, SpuriousWakeWorker
    <3>3. QED
      BY <3>1, <3>2
  <2>5. ASSUME NEW c \in Callers, AppendPush(c)
        PROVE  Created'
    BY <2>5 DEF AppendPush, Push, NotifyNotEmpty
  <2>6. QED
    BY <2>1, <2>2, <2>3, <2>4, <2>5
    DEF Next, vars, Start, Join, Worker, RunCheck, TakeWait, TakePop, Pop, RunTask,
        SpuriousWakeWorker, AppendCall, AppendThrow, AppendWait, SpuriousWakeCaller
<1>3. QED
  BY <1>1, <1>2, TypeCorrect, PTL DEF Spec

\* No wake-up of m_not_empty is lost: append()'s notify_one() gives every task
\* in the queue an awake worker of its own while another worker sleeps.
THEOREM NoLostNotEmptyWakeup == Spec => []NotEmptyWakeups
<1>1. Init => NotEmptyWakeups
  BY DEF Init, NotEmptyWakeups, SleepingWorkers
<1>2. TypeOK /\ Created /\ NotEmptyWakeups /\ [Next]_vars => NotEmptyWakeups'
  <2> SUFFICES ASSUME TypeOK, Created, NotEmptyWakeups, [Next]_vars
               PROVE  NotEmptyWakeups'
    OBVIOUS
  <2>1. CASE UNCHANGED <<wpc, m_queue>>
    BY <2>1 DEF NotEmptyWakeups, SleepingWorkers, Takers
  <2>2. CASE Stop
    BY <2>2 DEF Stop, NotEmptyWakeups, SleepingWorkers
  <2>3. ASSUME NEW w \in Workers,
               Spawn(w) \/ RunCheck(w) \/ RunTask(w) \/ SpuriousWakeWorker(w)
        PROVE  NotEmptyWakeups'
    <3>1. UNCHANGED m_queue /\ wpc[w] # "take"
      BY <2>3 DEF Spawn, RunCheck, RunTask, SpuriousWakeWorker, Created
    <3>2. \E s \in WorkerStates \ {"wait"} : wpc' = [wpc EXCEPT ![w] = s]
      BY <2>3 DEF Spawn, RunCheck, RunTask, SpuriousWakeWorker, WorkerStates
    <3>3. Takers \subseteq Takers' /\ SleepingWorkers' \subseteq SleepingWorkers
      BY <3>1, <3>2 DEF Takers, SleepingWorkers, TypeOK
    <3>4. QED
      BY <3>1, <3>3, MoreTakers
  <2>4. ASSUME NEW w \in Workers, TakeWait(w)
        PROVE  NotEmptyWakeups'
    <3>1. Len(m_queue') = 0
      BY <2>4 DEF TakeWait
    <3>2. Cardinality(Takers') \in Nat
      <4>1. Takers' \subseteq Workers
        BY DEF Takers
      <4>2. QED
        BY <4>1, PoolAssumption, FS_Subset, FS_CardinalityType
    <3>3. QED
      BY <3>1, <3>2 DEF NotEmptyWakeups
  <2>5. ASSUME NEW w \in Workers, TakePop(w)
        PROVE  NotEmptyWakeups'
    <3>1. Takers' = Takers \ {w} /\ w \in Takers
      BY <2>5 DEF TakePop, Pop, Takers, TypeOK
    <3>2. Cardinality(Takers') = Cardinality(Takers) - 1
      BY <3>1, AwakeFinite, FS_RemoveElement
    <3>3. SleepingWorkers' = SleepingWorkers
      BY <2>5 DEF TakePop, Pop, SleepingWorkers, TypeOK
    <3>4. Len(m_queue) \in Nat /\ Len(m_queue') = Len(m_queue) - 1
      BY <2>5 DEF TakePop, Pop, TypeOK
    <3>5. QED
      BY <3>2, <3>3, <3>4, AwakeFinite DEF NotEmptyWakeups
  <2>6. ASSUME NEW c \in Callers, AppendPush(c)
        PROVE  NotEmptyWakeups'
    <3>1. Len(m_queue) \in Nat /\ Len(m_queue') = Len(m_queue) + 1
      BY <2>6 DEF AppendPush, Push, TypeOK
    <3>2. NotifyNotEmpty
      BY <2>6 DEF AppendPush, Push
    <3>3. QED
      BY <3>1, <3>2, NotifyNotEmptyCounts, AwakeFinite DEF NotEmptyWakeups
  <2>7. QED
    BY <2>1, <2>2, <2>3, <2>4, <2>5, <2>6
    DEF Next, vars, Start, Join, Worker,
        AppendCall, AppendThrow, AppendWait, SpuriousWakeCaller
<1>3. QED
  BY <1>1, <1>2, TypeCorrect, CreatedInvariant, PTL DEF Spec

\* No wake-up of m_not_full is lost: take()'s notify_one() gives every free
\* slot of the queue an awake caller of its own while another caller sleeps.
THEOREM NoLostNotFullWakeup == Spec => []NotFullWakeups
<1>1. Init => NotFullWakeups
  BY DEF Init, NotFullWakeups, SleepingCallers
<1>2. TypeOK /\ NotFullWakeups /\ [Next]_vars => NotFullWakeups'
  <2> SUFFICES ASSUME TypeOK, NotFullWakeups, [Next]_vars
               PROVE  NotFullWakeups'
    OBVIOUS
  <2>1. CASE UNCHANGED <<cpc, m_queue>>
    BY <2>1 DEF NotFullWakeups, SleepingCallers, Appenders
  <2>2. ASSUME NEW c \in Callers, NEW s \in CallerStates \ {"wait"},
               cpc[c] # "append", cpc' = [cpc EXCEPT ![c] = s],
               UNCHANGED m_queue
        PROVE  NotFullWakeups'
    <3>1. Appenders \subseteq Appenders' /\ SleepingCallers' \subseteq SleepingCallers
      BY <2>2 DEF Appenders, SleepingCallers, TypeOK
    <3>2. QED
      BY <2>2, <3>1, MoreAppenders
  <2>3. ASSUME NEW c \in Callers, AppendPush(c)
        PROVE  NotFullWakeups'
    <3>1. Appenders' = Appenders \ {c} /\ c \in Appenders
      BY <2>3 DEF AppendPush, Push, Appenders, TypeOK
    <3>2. Cardinality(Appenders') = Cardinality(Appenders) - 1
      BY <3>1, AwakeFinite, FS_RemoveElement
    <3>3. SleepingCallers' = SleepingCallers
      BY <2>3 DEF AppendPush, Push, SleepingCallers, TypeOK
    <3>4. Len(m_queue) \in Nat /\ Len(m_queue') = Len(m_queue) + 1
      BY <2>3 DEF AppendPush, Push, TypeOK
    <3>5. QED
      BY <3>2, <3>3, <3>4, AwakeFinite, PoolAssumption DEF NotFullWakeups
  <2>4. ASSUME NEW c \in Callers, AppendWait(c)
        PROVE  NotFullWakeups'
    <3>1. MaxRequests <= Len(m_queue')
      BY <2>4, PoolAssumption DEF AppendWait, TypeOK
    <3>2. Cardinality(Appenders') \in Nat
      <4>1. Appenders' \subseteq Callers
        BY DEF Appenders
      <4>2. QED
        BY <4>1, PoolAssumption, FS_Subset, FS_CardinalityType
    <3>3. Len(m_queue') \in Nat
      BY <2>4 DEF AppendWait, TypeOK
    <3>4. QED
      BY <3>1, <3>2, <3>3, PoolAssumption DEF NotFullWakeups
  <2>5. ASSUME NEW w \in Workers, TakePop(w)
        PROVE  NotFullWakeups'
    <3>1. Len(m_queue) \in Nat /\ Len(m_queue') = Len(m_queue) - 1
      BY <2>5 DEF TakePop, Pop, TypeOK
    <3>2. NotifyNotFull
      BY <2>5 DEF TakePop, Pop
    <3>3. QED
      BY <3>1, <3>2, NotifyNotFullCounts, AwakeFinite, PoolAssumption
      DEF NotFullWakeups
  <2>6. CASE Start
    BY <2>2, <2>6, PoolAssumption DEF Start, CallerStates
  <2>7. CASE Stop
    BY <2>2, <2>7, PoolAssumption DEF Stop, CallerStates
  <2>8. CASE Join
    BY <2>2, <2>8, PoolAssumption DEF Join, CallerStates
  <2>9. ASSUME NEW w \in Workers, Spawn(w)
        PROVE  NotFullWakeups'
    BY <2>2, <2>9, PoolAssumption DEF Spawn, CallerStates
  <2>10. ASSUME NEW c \in Callers,
                (\E t \in Tasks : AppendCall(c, t)) \/ AppendThrow(c)
                  \/ SpuriousWakeCaller(c)
         PROVE  NotFullWakeups'
    BY <2>2, <2>10 DEF AppendCall, AppendThrow, SpuriousWakeCaller, CallerStates
  <2>11. QED
    BY <2>1, <2>3, <2>4, <2>5, <2>6, <2>7, <2>8, <2>9, <2>10
    DEF Next, vars, Worker, RunCheck, TakeWait, RunTask, SpuriousWakeWorker
<1>3. QED
  BY <1>1, <1>2, TypeCorrect, PTL DEF Spec

-----------------------------------------------------------------------------
(* The pool implements the bounded FIFO.                                   *)

\* What a step of worker w does to the tasks in the workers' hands.
LEMMA HeldStep ==
  ASSUME TypeOK, NEW w \in Workers
  PROVE  /\ \A s \in WorkerStates \ {"run"} :
              (wpc[w] # "run" /\ wpc' = [wpc EXCEPT ![w] = s] /\ task' = task)
                => Held' = Held
         /\ (wpc' = [wpc EXCEPT ![w] = "run"] /\ task' = [task EXCEPT ![w] = Head(m_queue)])
              => Held' = [Held EXCEPT ![w] = <<Head(m_queue)>>]
         /\ (wpc' = [wpc EXCEPT ![w] = "loop"] /\ task' = [task EXCEPT ![w] = NULL])
              => Held' = [Held EXCEPT ![w] = <<>>]
BY DEF Held, TypeOK

\* append() and take(), with all that mutexes, wake-ups and shutdown do around
\* them, are the Put and the Take of TaskQueue: first in first out, never more
\* than m_max_requests, every task to one worker.
THEOREM PoolImplementsTaskQueue == Spec => ImplementsTaskQueue
<1>1. Init => Abstract!Init
  BY DEF Init, Abstract!Init, Held
<1>2. TypeOK /\ Created /\ [Next]_vars => [Abstract!Next]_Abstract!vars
  <2> SUFFICES ASSUME TypeOK, Created, [Next]_vars
               PROVE  Abstract!Next \/ UNCHANGED <<m_queue, Held>>
    BY DEF Abstract!vars
  <2>1. CASE UNCHANGED <<m_queue, wpc, task>>
    BY <2>1 DEF Held
  <2>2. CASE Stop
    <3>1. \A w \in Workers : wpc'[w] = "run" <=> wpc[w] = "run"
      BY <2>2 DEF Stop, TypeOK
    <3>2. QED
      BY <2>2, <3>1 DEF Stop, Held
  <2>3. ASSUME NEW w \in Workers,
               Spawn(w) \/ RunCheck(w) \/ TakeWait(w) \/ SpuriousWakeWorker(w)
        PROVE  UNCHANGED <<m_queue, Held>>
    <3>1. UNCHANGED <<m_queue, task>> /\ wpc[w] # "run"
      BY <2>3 DEF Spawn, RunCheck, TakeWait, SpuriousWakeWorker, Created
    <3>2. \E s \in WorkerStates \ {"run"} : wpc' = [wpc EXCEPT ![w] = s]
      BY <2>3 DEF Spawn, RunCheck, TakeWait, SpuriousWakeWorker, WorkerStates
    <3>3. QED
      BY <3>1, <3>2, HeldStep
  <2>4. ASSUME NEW w \in Workers, TakePop(w)
        PROVE  Abstract!Take(w)
    <3>1. m_queue # <<>> /\ Held[w] = <<>> /\ m_queue' = Tail(m_queue)
      BY <2>4 DEF TakePop, Pop, TypeOK, Held
    <3>2. Held' = [Held EXCEPT ![w] = <<Head(m_queue)>>]
      BY <2>4, HeldStep DEF TakePop, Pop
    <3>3. QED
      BY <3>1, <3>2 DEF Abstract!Take
  <2>5. ASSUME NEW w \in Workers, RunTask(w)
        PROVE  Abstract!Finish(w)
    <3>1. Held[w] # <<>> /\ UNCHANGED m_queue
      BY <2>5 DEF RunTask, Held
    <3>2. Held' = [Held EXCEPT ![w] = <<>>]
      BY <2>5, HeldStep DEF RunTask
    <3>3. QED
      BY <3>1, <3>2 DEF Abstract!Finish
  <2>6. ASSUME NEW c \in Callers, AppendPush(c)
        PROVE  Abstract!Put(arg[c])
    <3>1. Len(m_queue) < MaxRequests /\ m_queue' = Append(m_queue, arg[c])
      BY <2>6 DEF AppendPush, Push
    <3>2. \A w \in Workers : wpc'[w] = "run" <=> wpc[w] = "run"
      BY <2>6 DEF AppendPush, Push, NotifyNotEmpty, TypeOK
    <3>3. Held' = Held
      BY <2>6, <3>2 DEF AppendPush, Push, Held
    <3>4. QED
      BY <3>1, <3>3 DEF Abstract!Put
  <2>7. ASSUME NEW c \in Callers, AppendPush(c)
        PROVE  arg[c] \in Tasks
    BY <2>7 DEF AppendPush, Push, TypeOK
  <2>8. QED
    BY <2>1, <2>2, <2>3, <2>4, <2>5, <2>6, <2>7
    DEF Next, vars, Worker, Start, Join, Abstract!Next,
        AppendCall, AppendThrow, AppendWait, SpuriousWakeCaller
<1>3. QED
  BY <1>1, <1>2, TypeCorrect, CreatedInvariant, PTL
  DEF Spec, ImplementsTaskQueue, Abstract!Spec

=============================================================================
