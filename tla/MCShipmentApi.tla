------------------------------ MODULE MCShipmentApi ------------------------------
(***************************************************************************)
(* Three requests, enough for two that overlap and one before or after     *)
(* them, on two shipments and three routes.                                *)
(***************************************************************************)
EXTENDS ShipmentApi, TLC

Symmetry == Permutations(Requests) \cup Permutations(Shipments) \cup Permutations(Routes)
================================================================================
