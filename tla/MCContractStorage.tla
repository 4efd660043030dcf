-------------------------- MODULE MCContractStorage -------------------------
(***************************************************************************)
(* ContractStorage with one static cell and blocks of two, so that block 0 *)
(* is part static and part in its storage account, as in the code.         *)
(***************************************************************************)
EXTENDS ContractStorage

CONSTANTS x1, zero, written
=============================================================================
