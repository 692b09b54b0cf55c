------------------------------ MODULE MCHttpConn ------------------------------
(* A small instance of HttpConn with the clients of MCHttpParser. *)
EXTENDS HttpConn, MCHttpParser

=============================================================================
