------------------------------ MODULE TaskQueue ------------------------------
(***************************************************************************)
(* What a thread pool promises to the thread that feeds it: a bounded      *)
(* first-in first-out queue of tasks.  A task that was put is handed to    *)
(* exactly one worker, in the order of the puts, and a worker holds one    *)
(* task at a time.  Mutexes, condition variables and shutdown are not      *)
(* visible at this level.                                                  *)
(*                                                                         *)
(* ThreadPool.tla implements this specification; ReactorServer.tla uses    *)
(* its actions as the interface between the main thread and the workers.   *)
(***************************************************************************)
EXTENDS Integers, Sequences

CONSTANTS
  Workers,      \* the threads of m_threads
  Tasks,        \* the values of type T that may be appended
  MaxRequests   \* m_max_requests, the capacity of the queue

VARIABLES
  queue,   \* the tasks waiting, oldest first
  held     \* held[w] = <<t>> while worker w works on task t, <<>> otherwise

vars == <<queue, held>>

Init ==
  /\ queue = <<>>
  /\ held = [w \in Workers |-> <<>>]

Put(t) ==
  /\ Len(queue) < MaxRequests
  /\ queue' = Append(queue, t)
  /\ UNCHANGED held

Take(w) ==
  /\ queue # <<>>
  /\ held[w] = <<>>
  /\ held' = [held EXCEPT ![w] = <<Head(queue)>>]
  /\ queue' = Tail(queue)

Finish(w) ==
  /\ held[w] # <<>>
  /\ held' = [held EXCEPT ![w] = <<>>]
  /\ UNCHANGED queue

Next ==
  \/ \E t \in Tasks : Put(t)
  \/ \E w \in Workers : Take(w) \/ Finish(w)

Spec == Init /\ [][Next]_vars

=============================================================================
