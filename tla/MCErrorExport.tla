------------------------------ MODULE MCErrorExport ------------------------------
(* A struct of either version beside one stream; blocks for each of them and *)
(* two to leak.                                                              *)
EXTENDS ErrorExport

MCBlocks == 1..7

=============================================================================
