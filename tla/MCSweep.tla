------------------------------- MODULE MCSweep -------------------------------
(***************************************************************************)
(* An instance of Sweep for TLC: one resource of each kind, two addresses  *)
(* (b of a prefix, so free) and a second subnet whose name is Azure's.     *)
(* Compute and networking start apart, each with every set of links its    *)
(* resources can have.                                                     *)
(***************************************************************************)
EXTENDS Sweep

CONSTANTS vm, disk, nic, ip, free, lb, nat, net, other, sub, gws, nsg, snap, img

MCNetworkOf == [s \in {sub, gws} |-> IF s = sub THEN net ELSE other]
MCSourceOf == [z \in {snap} |-> disk]
MCBootedFrom == [m \in {vm} |-> img]

Compute == {<<vm, disk>>, <<vm, nic>>, <<nic, ip>>, <<nic, free>>, <<lb, ip>>, <<lb, nic>>,
            <<lb, Elsewhere>>, <<Elsewhere, disk>>, <<Elsewhere, nic>>, <<Elsewhere, ip>>}
Networking == {<<nat, ip>>, <<nat, free>>, <<sub, nat>>, <<gws, nat>>, <<sub, nsg>>, <<nic, sub>>,
               <<nic, nsg>>, <<Elsewhere, sub>>}
MCLinks == Compute \cup Networking

\* Every way a set of things can be linked, and the VM's power.
Built(things, links, powers) ==
  {[exists |-> things, uses |-> l, power |-> [m \in {vm} |-> p]] :
     l \in {l \in SUBSET links : Exclusive(l)}, p \in powers}

MCStarts ==
  Built({vm, disk, nic, ip, free, lb, img}, Compute, {"running", "deallocated"})
    \cup Built({nic, ip, free, nat, net, other, sub, gws, nsg, snap}, Networking, {"running"})

Everything == <<"unattached_disk", "orphaned_nic", "unused_public_ip", "deallocated_vm",
                "idle_load_balancer", "idle_nat_gateway", "empty_vnet", "unused_subnet",
                "unused_nsg", "orphaned_snapshot", "unused_image">>

MCScopes == {[checks |-> Everything, changes |-> 0]}
  \cup {[checks |-> <<c>>, changes |-> 1] : c \in {"deallocated_vm", "idle_load_balancer"}}

\* Snapshots alone, while a disk is made and backed up.
SnapshotStarts == {[exists |-> {vm}, uses |-> {}, power |-> [m \in {vm} |-> "running"]]}
SnapshotScopes == {[checks |-> <<"orphaned_snapshot">>, changes |-> 2]}
=============================================================================
