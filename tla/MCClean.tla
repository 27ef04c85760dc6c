------------------------------- MODULE MCClean -------------------------------
(***************************************************************************)
(* An instance of Clean for TLC: a disk that is backed up first, a         *)
(* resource group whose delete takes its contents along, a capacity        *)
(* reservation of two slots, and a virtual network that has no cleaner.    *)
(* One whose DELETE is sent as found is left out: its steps are those of   *)
(* the group, and nothing is said of what it may be in use by.             *)
(***************************************************************************)
EXTENDS Clean, TLC

CONSTANTS disk, group, reservation, vnet

MCFindings == {disk, group, reservation, vnet}
MCCleaner ==
  (disk :> "backup") @@ (group :> "recheck") @@ (reservation :> "shrink")
  @@ (vnet :> "none")
MCCapacity ==
  (disk :> 1) @@ (group :> 1) @@ (reservation :> 2) @@ (vnet :> 0)
=============================================================================
