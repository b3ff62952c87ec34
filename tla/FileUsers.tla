------------------------------- MODULE FileUsers -------------------------------
(***************************************************************************)
(* The processes that run release operations on one machine's files.       *)
(***************************************************************************)
EXTENDS Naturals

CONSTANT Users
===============================================================================
