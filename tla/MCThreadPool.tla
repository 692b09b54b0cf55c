----------------------------- MODULE MCThreadPool -----------------------------
(* Small instances of ThreadPool for TLC. *)
EXTENDS ThreadPool, TLC

\* Workers are interchangeable, and so are the tasks other than NULL.
Symmetry == Permutations(Workers) \union Permutations(Tasks \ {NULL})

=============================================================================
