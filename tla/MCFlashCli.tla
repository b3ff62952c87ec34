------------------------------ MODULE MCFlashCli ------------------------------
(***************************************************************************)
(* FlashCli for TLC: a driver of one block, an App of more blocks than the *)
(* sequence counter tells apart.                                           *)
(***************************************************************************)
EXTENDS FlashCli

MCBlocks == [driver |-> 1, app |-> 3]
===============================================================================
