------------------------------ MODULE Callers ------------------------------
(***************************************************************************)
(* What a ledger needs of the programs that append to it: "`sovereign:*'   *)
(* names are reserved".  `append' does not check it; what becomes of a     *)
(* ledger whose callers use them is looked at with Ledger alone.           *)
(***************************************************************************)
EXTENDS Ledger

ASSUME CallersAssumption == SEAL_EVENT \notin EventTypes
=============================================================================
