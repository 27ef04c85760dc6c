--------------------------------- MODULE Sweep ---------------------------------
(***************************************************************************)
(* The network and compute checks of the core pack over a changing         *)
(* inventory: each check reads its lists one after the other, other people *)
(* change things in between, and a cleanup then deletes what was found.    *)
(* A subscription is scanned and cleaned again and again, as the notes of  *)
(* the findings assume ("reports them on the next scan").                  *)
(***************************************************************************)
EXTENDS Inventory, FiniteSets

CONSTANTS
  Scopes,      \* what is run: the checks selected, and how often other
               \* people change something meanwhile
  AzureNamed   \* the subnets whose names Azure reserves for its gateways

VARIABLES
  scope,       \* one of Scopes
  budget,      \* changes other people may still make
  phase,       \* "scanning" or "cleaning"
  queue,       \* the checks still to run, the current one first
  views,       \* what the current check has read: one inventory per list
  report,      \* the findings of this scan
  todo,        \* those the cleanup has not come to
  touched      \* what other people changed since the scan began

sweepVars == <<scope, budget, phase, queue, views, report, todo, touched>>
vars == <<inventoryVars, sweepVars>>

AllChecks == {"unattached_disk", "orphaned_nic", "unused_public_ip", "deallocated_vm",
              "idle_load_balancer", "idle_nat_gateway", "empty_vnet", "unused_subnet",
              "unused_nsg", "orphaned_snapshot", "unused_image"}

ASSUME SweepAssumption ==
  /\ \A s \in Scopes : s.checks \in Seq(AllChecks) /\ s.checks # <<>> /\ s.changes \in Nat
  /\ AzureNamed \subseteq Subnets

\* A finding names a resource and carries the charges its cost adds up.
Finding(c, id, charges) == [check |-> c, id |-> id, carries |-> charges]
Findings == [check : AllChecks, id : Resources, carries : SUBSET Resources]

----------------------------------------------------------------------------
(* The checks.  v[i] is the inventory at the moment of the i-th list.      *)

Listed(view, kind) == view.exists \cap kind

\* An address of a prefix, or a dynamic Basic one, costs nothing.
PublicIpMonthlyCost(a) == IF a \in Unbilled THEN {} ELSE {a}

PublicIpsById(view) == Listed(view, Addresses)

\* The charges of the addresses ids names, those the list still has.
HeldPublicIps(ids, addresses) ==
  UNION {PublicIpMonthlyCost(a) : a \in ids \cap addresses}

\* Mutant: managedBy is not looked at.
UnattachedDisk_Managed(v) ==
  {Finding("unattached_disk", d, {d}) :
     d \in {d \in Listed(v[1], Disks) : UsersOf(v[1], d) \cap VMs = {}}}

\* Unattached, and not managed by anything that is no VM.
UnattachedDisk(v) ==
  {Finding("unattached_disk", d, {d}) :
     d \in {d \in Listed(v[1], Disks) :
              /\ UsersOf(v[1], d) \cap VMs = {}
              /\ Elsewhere \notin UsersOf(v[1], d)}}

\* Neither a VM, a private endpoint nor a private link service has it.
Orphans(v) == {n \in Listed(v[1], Nics) : UsersOf(v[1], n) \cap (VMs \cup {Elsewhere}) = {}}

OrphanedNic(v) ==
  {Finding("orphaned_nic", n, HeldPublicIps(UsesOf(v[1], n), PublicIpsById(v[2]))) :
     n \in Orphans(v)}

UnusedPublicIp(v) ==
  {Finding("unused_public_ip", a, PublicIpMonthlyCost(a)) :
     a \in {a \in Listed(v[1], Addresses) : UsersOf(v[1], a) = {}}}

IdleStates == {"stopped", "deallocated"}

IdleVMs(v) == {m \in Listed(v[2], VMs) : v[2].power[m] \in IdleStates}

\* Mutant: the addresses of the VM's cards are left out.
VmCharges_NoAddresses(v, m) == UsesOf(v[2], m) \cap Listed(v[1], Disks)

\* The disks of the VM the first list had, and the addresses whose holder is
\* one of its cards when they are listed.
VmCharges(v, m) ==
  (UsesOf(v[2], m) \cap Listed(v[1], Disks))
    \cup HeldPublicIps(UNION {UsesOf(v[3], n) : n \in UsesOf(v[2], m) \cap Nics},
                       PublicIpsById(v[3]))

DeallocatedVm(v) == {Finding("deallocated_vm", m, VmCharges(v, m)) : m \in IdleVMs(v)}

\* Mutant: only the network cards of a pool count, not explicit addresses.
IdleBalancers_CardsOnly(v) ==
  {b \in Listed(v[1], Balancers) : UsesOf(v[1], b) \cap Nics = {}}

IdleBalancers(v) ==
  {b \in Listed(v[1], Balancers) : UsesOf(v[1], b) \cap (Nics \cup {Elsewhere}) = {}}

\* Only the Standard one is charged for; its frontends are charged for anyway.
IdleLoadBalancer(v) ==
  {Finding("idle_load_balancer", b,
           ({b} \ Unbilled) \cup HeldPublicIps(UsesOf(v[1], b), PublicIpsById(v[2]))) :
     b \in IdleBalancers(v)}

\* The gateway alone: its addresses are left to unused_public_ip.
IdleNatGateway(v) ==
  {Finding("idle_nat_gateway", g, {g}) :
     g \in {g \in Listed(v[1], Gateways) : UsersOf(v[1], g) = {}}}

SubnetsOf(view, w) == {s \in Listed(view, Subnets) : NetworkOf[s] = w}

\* No network card in any subnet; the gateways the first list attached to
\* those subnets are its cost.
EmptyVnet(v) ==
  {Finding("empty_vnet", w,
           {g \in Listed(v[1], Gateways) :
              UsersOf(v[1], g) \cap SubnetsOf(v[2], w) # {}}) :
     w \in {w \in Listed(v[2], Networks) :
              \A s \in SubnetsOf(v[2], w) : UsersOf(v[2], s) \cap Nics = {}}}

UnusedSubnet(v) ==
  {Finding("unused_subnet", s, {}) :
     s \in {s \in Listed(v[1], Subnets) \ AzureNamed :
              UsersOf(v[1], s) = {} /\ UsesOf(v[1], s) \cap Gateways = {}}}

UnusedNsg(v) ==
  {Finding("unused_nsg", q, {}) :
     q \in {q \in Listed(v[1], Nsgs) : UsersOf(v[1], q) = {}}}

\* Of a disk the first list did not have; one made from no disk has none.
OrphanedSnapshot(v) ==
  {Finding("orphaned_snapshot", z, {z}) :
     z \in {z \in Listed(v[2], Snapshots) :
              SourceOf[z] # None /\ SourceOf[z] \notin Listed(v[1], Disks)}}

UnusedImage(v) ==
  {Finding("unused_image", i, {i}) :
     i \in {i \in Listed(v[2], Images) : \A m \in Listed(v[1], VMs) : BootedFrom[m] # i}}

----------------------------------------------------------------------------
(* The scan.                                                               *)

\* Whether check c asks for another list after those in v: a second one, but
\* that of addresses only when something may hold one, and a third.
AsksAgain(c, v) ==
  \/ /\ Len(v) = 1
     /\ \/ c \in {"deallocated_vm", "empty_vnet", "orphaned_snapshot", "unused_image"}
        \/ c = "orphaned_nic" /\ Orphans(v) # {}
        \/ c = "idle_load_balancer" /\ IdleBalancers(v) # {}
  \/ Len(v) = 2 /\ c = "deallocated_vm" /\ IdleVMs(v) # {}

Found(c, v) ==
  CASE c = "unattached_disk" -> UnattachedDisk(v)
    [] c = "orphaned_nic" -> IF Len(v) = 1 THEN {} ELSE OrphanedNic(v)
    [] c = "unused_public_ip" -> UnusedPublicIp(v)
    [] c = "deallocated_vm" -> IF Len(v) = 2 THEN {} ELSE DeallocatedVm(v)
    [] c = "idle_load_balancer" -> IF Len(v) = 1 THEN {} ELSE IdleLoadBalancer(v)
    [] c = "idle_nat_gateway" -> IdleNatGateway(v)
    [] c = "empty_vnet" -> EmptyVnet(v)
    [] c = "unused_subnet" -> UnusedSubnet(v)
    [] c = "unused_nsg" -> UnusedNsg(v)
    [] c = "orphaned_snapshot" -> OrphanedSnapshot(v)
    [] c = "unused_image" -> UnusedImage(v)

\* A list that is not the check's last.
Read ==
  /\ phase = "scanning"
  /\ queue # <<>>
  /\ AsksAgain(Head(queue), Append(views, Now))
  /\ views' = Append(views, Now)
  /\ UNCHANGED <<inventoryVars, scope, budget, phase, queue, report, todo, touched>>

\* The check's last list, and its findings.
ReadLast ==
  /\ phase = "scanning"
  /\ queue # <<>>
  /\ ~AsksAgain(Head(queue), Append(views, Now))
  /\ report' = report \cup Found(Head(queue), Append(views, Now))
  /\ queue' = Tail(queue)
  /\ views' = <<>>
  /\ UNCHANGED <<inventoryVars, scope, budget, phase, todo, touched>>

StartCleaning ==
  /\ phase = "scanning"
  /\ queue = <<>>
  /\ phase' = "cleaning"
  /\ todo' = report
  /\ UNCHANGED <<inventoryVars, scope, budget, queue, views, report, touched>>

----------------------------------------------------------------------------
(* The cleanup: clean --apply --yes, one finding after the other.          *)

\* What is only reported: the pack says why it has no cleaner for it.
Uncleanable == {"empty_vnet", "unused_image"}

\* A DELETE of what is gone is answered as done; a refused one fails.
Delete(x) ==
  IF x \in exists /\ ~Refused(x) THEN Removed(x) ELSE UNCHANGED inventoryVars

\* Snapshot, then delete; without a disk the snapshot fails and nothing follows.
CleanUnattachedDisk(d) ==
  IF d \notin exists THEN UNCHANGED inventoryVars
  ELSE \E z \in {z \in Snapshots : SourceOf[z] = d} :
         /\ exists' = IF Refused(d) THEN exists \cup {z} ELSE (exists \cup {z}) \ {d}
         /\ UNCHANGED <<uses, power>>

Clean(f) ==
  /\ phase = "cleaning"
  /\ f \in todo
  /\ todo' = todo \ {f}
  /\ IF f.check \in Uncleanable THEN UNCHANGED inventoryVars
     ELSE IF f.check = "unattached_disk" THEN CleanUnattachedDisk(f.id)
     ELSE Delete(f.id)
  /\ UNCHANGED <<scope, budget, phase, queue, views, report, touched>>

Rescan ==
  /\ phase = "cleaning"
  /\ todo = {}
  /\ phase' = "scanning"
  /\ queue' = scope.checks
  /\ report' = {}
  /\ touched' = {}
  /\ UNCHANGED <<inventoryVars, scope, budget, views, todo>>

----------------------------------------------------------------------------
(* Other people.                                                           *)

Touch(things) ==
  /\ budget > 0
  /\ budget' = budget - 1
  /\ touched' = touched \cup things
  /\ UNCHANGED <<scope, phase, queue, views, report, todo>>

OthersCreate == \E x \in Resources : Create(x) /\ Touch({x})
OthersRemove == \E x \in Resources : Remove(x) /\ Touch({x})
OthersAttach == \E l \in Links : Attach(l[1], l[2]) /\ Touch({l[1], l[2]} \ {Elsewhere})
OthersDetach == \E l \in Links : Detach(l[1], l[2]) /\ Touch({l[1], l[2]} \ {Elsewhere})
OthersPower == \E m \in VMs : Power(m) /\ Touch({m})

Others == OthersCreate \/ OthersRemove \/ OthersAttach \/ OthersDetach \/ OthersPower

Init ==
  /\ InventoryInit
  /\ scope \in Scopes
  /\ budget = scope.changes
  /\ phase = "scanning"
  /\ queue = scope.checks
  /\ views = <<>>
  /\ report = {}
  /\ todo = {}
  /\ touched = {}

Scan == Read \/ ReadLast \/ StartCleaning \/ Rescan
Next == Scan \/ (\E f \in todo : Clean(f)) \/ Others

Spec == Init /\ [][Next]_vars

\* The tool, once run, reads its next list and comes to its next finding.
FairSpec == Spec /\ WF_vars(Scan) /\ WF_vars(\E f \in todo : Clean(f))

----------------------------------------------------------------------------
(* Properties.                                                             *)

\* Type correctness; in particular no check reads more than three lists, and
\* the cleanup goes through findings of this scan only (engine.py, clean.py).
TypeOK ==
  /\ Now \in Inventories
  /\ scope \in Scopes
  /\ budget \in 0..scope.changes
  /\ phase \in {"scanning", "cleaning"}
  /\ queue \in Seq(AllChecks)
  /\ views \in Seq(Inventories) /\ Len(views) <= 2
  /\ report \subseteq Findings /\ todo \subseteq report
  /\ touched \subseteq Resources

\* A scan of everything has ended, and nobody has changed anything since it began.
FullScope == {scope.checks[i] : i \in 1..Len(scope.checks)} = AllChecks
Settled == phase = "cleaning" /\ todo = report /\ touched = {}

\* Who has it: a disk's VM, an address's balancer or gateway, or the VM of its card.
HoldersOf(x) == UsersOf(Now, x) \ (IF x \in Nics THEN Balancers ELSE {})
OwnersOf(x) ==
  LET last(y) == IF HoldersOf(y) = {} THEN {y} ELSE HoldersOf(y)
  IN IF HoldersOf(x) = {} THEN {x} ELSE UNION {last(y) : y \in HoldersOf(x)}

\* Of a scan nobody disturbed, the cost of a disk and of an address is carried
\* by exactly one finding if what has it is reported (or has nobody), and by
\* none otherwise; addresses of a NAT gateway wait for the gateway to go.  No
\* gateway or balancer is counted twice.  helpers.py:251: the holder's finding
\* carries its cost instead, or nothing would; unattached_disk.py:31: so the
\* disk is not counted twice; orphaned_nic.py:107: the only finding that does.
CarriedOnce ==
  Settled /\ FullScope =>
    /\ \A r \in (exists \cap (Disks \cup Addresses)) \ Unbilled :
         Cardinality({f \in report : r \in f.carries})
           = IF OwnersOf(r) \subseteq {f.id : f \in report} \ Gateways THEN 1 ELSE 0
    /\ \A r \in exists \cap (Gateways \cup Balancers) :
         Cardinality({f \in report : r \in f.carries}) <= 1

\* What works for somebody: a running VM, a balancer with something behind it.
Serves(x) ==
  \/ x \in VMs /\ power[x] = "running"
  \/ x \in Balancers /\ UsesOf(Now, x) \cap (Nics \cup {Elsewhere}) # {}

\* ARM does not refuse the delete of a VM or a balancer that works, and the
\* cleaner does not look again (cleaners.py:84, 336): a serving one is only
\* lost if somebody put it to work after the scan began.
OnlyWhatCameBackIsLost ==
  [][\A x \in VMs \cup Balancers :
       x \in exists \ exists' /\ Serves(x) => x \in touched']_vars

\* Repeated sweeps clean up: what a finding that can be cleaned carries is
\* gone some day, though its own delete leaves it behind and the next scan has
\* to report it (deallocated_vm.py:162, idle_load_balancer.py:108,
\* orphaned_nic.py:125, idle_nat_gateway.py:69).
WasteGoes ==
  \A r \in UNION {Disks, Addresses, Balancers, Gateways, Snapshots} :
    (FullScope /\ phase = "cleaning"
       /\ \E f \in report : f.check \notin Uncleanable /\ r \in f.carries)
      ~> r \notin exists

\* "Its source disk is already gone -- that is what made it a finding -- so
\* this is the last copy of whatever was on that disk" (cleaners.py:290).  Does
\* not hold: the disks are listed before the snapshots, and a disk that is made
\* and backed up in between is missing from the first list only.
SourceIsGone ==
  [][ReadLast /\ Head(queue) = "orphaned_snapshot"
       => \A f \in report' \ report : SourceOf[f.id] \notin exists]_vars
=============================================================================
