---------------------------- MODULE MCCredential ----------------------------
(***************************************************************************)
(* Instances of Credential for TLC.  Tenant tA holds the known             *)
(* subscriptions a1 and a2 (a1 represents it), tenant tB the known b1 and  *)
(* the subscription x, which `az account list` has never seen.             *)
(***************************************************************************)
EXTENDS Credential, TLC

CONSTANTS tA, tB, a1, a2, b1, x

MCTenants == {tA, tB}
MCSubs == {a1, a2, b1, x}
MCKnown == {a1, a2, b1}
MCHome == (a1 :> tA) @@ (a2 :> tA) @@ (b1 :> tB) @@ (x :> tB)
MCRepresentative == (tA :> a1) @@ (tB :> b1)
=============================================================================
