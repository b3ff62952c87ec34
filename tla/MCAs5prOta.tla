------------------------------ MODULE MCAs5prOta ------------------------------
(***************************************************************************)
(* The instances of As5prOta that TLC checks.  Two runs, so that a request *)
(* of the first can meet the second; two faults, so that a lost answer can *)
(* be followed by a restart or a second loss; a bus and a receive buffer   *)
(* of two, so that a late answer is in front of the expected one; an App   *)
(* of two blocks under a sequence counter that wraps after two, so that    *)
(* two requests in flight carry the same number and the counter wraps      *)
(* within a transfer.                                                      *)
(***************************************************************************)
EXTENDS As5prOta
===============================================================================
