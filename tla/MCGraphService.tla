---------------------------- MODULE MCGraphService ----------------------------
(***************************************************************************)
(* Two nodes joined by one edge, one reload request beside the reload      *)
(* task, two readers.                                                      *)
(***************************************************************************)
EXTENDS GraphService

MCNodes == {"n1", "n2"}

MCEdges == {"e12"}

MCEnds == [e \in MCEdges |-> <<"n1", "n2">>]

MCOperators == {"op"}

MCReaders == {"r1", "r2"}
===============================================================================
