----------------------------- MODULE MCEventLoop -----------------------------
(* Small instances of EventLoop for TLC. *)
EXTENDS EventLoop, TLC

\* Descriptors are interchangeable.
Symmetry == Permutations(Fds)

=============================================================================
