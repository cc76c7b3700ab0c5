------------------------------- MODULE MCServer -------------------------------
(* Server for model checking: a connection and two sending threads.          *)
EXTENDS Server, TLC
=============================================================================
