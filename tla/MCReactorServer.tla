--------------------------- MODULE MCReactorServer ---------------------------
(* Small instances of ReactorServer for TLC. *)
EXTENDS ReactorServer, TLC

=============================================================================
