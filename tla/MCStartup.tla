------------------------------- MODULE MCStartup -------------------------------
(***************************************************************************)
(* Two API requests at the optimizer at once; both processes, all          *)
(* databases and both ports.                                               *)
(***************************************************************************)
EXTENDS Startup

MCRequests == {"q1", "q2"}
================================================================================
