-------------------------------- MODULE Queues --------------------------------
(***************************************************************************)
(* Who waits in a std::queue: the task queue of the thread pool and the    *)
(* fd_con_queue of an event loop, as sequences.                            *)
(***************************************************************************)
EXTENDS Integers, Sequences

InSeq(seq, x) == \E i \in 1..Len(seq) : seq[i] = x

\* x is not in the queue twice.
Once(seq, x) == \A i, j \in 1..Len(seq) : seq[i] = x /\ seq[j] = x => i = j

=============================================================================
