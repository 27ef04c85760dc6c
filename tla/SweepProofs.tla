------------------------------ MODULE SweepProofs ------------------------------
(***************************************************************************)
(* Proofs about Sweep, for any resources, links between them, checks and   *)
(* number of changes.                                                      *)
(***************************************************************************)
EXTENDS Sweep, FiniteSetTheorems, TLAPS

USE DEF inventoryVars

LEMMA TypesFacts ==
  /\ \A x \in VMs : x \notin UNION {Disks, Nics, Addresses, Balancers, Gateways, Networks,
                                    Subnets, Nsgs, Snapshots, Images}
  /\ \A x \in Balancers : x \notin UNION {VMs, Disks, Nics, Addresses, Gateways, Networks,
                                          Subnets, Nsgs, Snapshots, Images}
  <1>. DEFINE Differ(i, j) == Types[i] \cap Types[j] = {}
  <1>1. \A j \in 2..11 : Differ(1, j)
    BY InventoryAssumption
  <1>2. \A j \in (1..11) \ {5} : Differ(5, j)
    BY InventoryAssumption
  <1>3. /\ Differ(1, 2) /\ Differ(1, 3) /\ Differ(1, 4) /\ Differ(1, 5) /\ Differ(1, 6)
        /\ Differ(1, 7) /\ Differ(1, 8) /\ Differ(1, 9) /\ Differ(1, 10) /\ Differ(1, 11)
    BY <1>1
  <1>4. /\ Differ(5, 1) /\ Differ(5, 2) /\ Differ(5, 3) /\ Differ(5, 4) /\ Differ(5, 6)
        /\ Differ(5, 7) /\ Differ(5, 8) /\ Differ(5, 9) /\ Differ(5, 10) /\ Differ(5, 11)
    BY <1>2
  <1>. QED BY <1>3, <1>4 DEF Types

LEMMA ResourceFacts ==
  /\ VMs \subseteq Resources /\ Disks \subseteq Resources /\ Nics \subseteq Resources
  /\ Addresses \subseteq Resources /\ Balancers \subseteq Resources
  /\ Gateways \subseteq Resources /\ Networks \subseteq Resources
  /\ Subnets \subseteq Resources /\ Nsgs \subseteq Resources
  /\ Snapshots \subseteq Resources /\ Images \subseteq Resources
  BY DEF Resources

LEMMA ChargeFacts ==
  ASSUME NEW ids, NEW view
  PROVE  HeldPublicIps(ids, PublicIpsById(view)) \subseteq Addresses
  BY DEF HeldPublicIps, PublicIpMonthlyCost, PublicIpsById, Listed

\* What a check finds is of the types it looks for, and so is what it charges.
LEMMA FoundIsTyped ==
  ASSUME NEW c \in AllChecks, NEW v
  PROVE  Found(c, v) \subseteq Findings
  <1>. USE ResourceFacts DEF Finding, Findings, Found, Listed
  <1>1. CASE c = "unattached_disk"
    BY <1>1 DEF UnattachedDisk
  <1>2. CASE c = "orphaned_nic"
    BY <1>2, ChargeFacts DEF OrphanedNic, Orphans
  <1>3. CASE c = "unused_public_ip"
    BY <1>3 DEF UnusedPublicIp, PublicIpMonthlyCost
  <1>4. CASE c = "deallocated_vm"
    <2>1. \A m : VmCharges(v, m) \subseteq Resources
      BY ChargeFacts DEF VmCharges
    <2>2. IdleVMs(v) \subseteq VMs
      BY DEF IdleVMs
    <2>. QED BY <1>4, <2>1, <2>2 DEF DeallocatedVm
  <1>5. CASE c = "idle_load_balancer"
    BY <1>5, ChargeFacts DEF IdleLoadBalancer, IdleBalancers
  <1>6. CASE c = "idle_nat_gateway"
    BY <1>6 DEF IdleNatGateway
  <1>7. CASE c = "empty_vnet"
    BY <1>7 DEF EmptyVnet
  <1>8. CASE c = "unused_subnet"
    BY <1>8 DEF UnusedSubnet
  <1>9. CASE c = "unused_nsg"
    BY <1>9 DEF UnusedNsg
  <1>10. CASE c = "orphaned_snapshot"
    BY <1>10 DEF OrphanedSnapshot
  <1>11. CASE c = "unused_image"
    BY <1>11 DEF UnusedImage
  <1>. QED BY <1>1, <1>2, <1>3, <1>4, <1>5, <1>6, <1>7, <1>8, <1>9, <1>10, <1>11 DEF AllChecks

\* A VM is found by the check of idle ones, a balancer by that of idle ones.
LEMMA FoundToBeIdle ==
  ASSUME NEW c \in AllChecks, NEW v, NEW f \in Found(c, v)
  PROVE  /\ f.id \in VMs => c = "deallocated_vm" /\ f.id \in IdleVMs(v)
         /\ f.id \in Balancers => c = "idle_load_balancer" /\ f.id \in IdleBalancers(v)
  <1>. USE TypesFacts DEF Finding, Found, Listed
  <1>1. CASE c \in {"unattached_disk", "orphaned_nic"}
    BY <1>1 DEF UnattachedDisk, OrphanedNic, Orphans
  <1>2. CASE c \in {"unused_public_ip", "idle_nat_gateway"}
    BY <1>2 DEF UnusedPublicIp, IdleNatGateway
  <1>3. CASE c = "deallocated_vm"
    BY <1>3 DEF DeallocatedVm, IdleVMs
  <1>4. CASE c = "idle_load_balancer"
    BY <1>4 DEF IdleLoadBalancer, IdleBalancers
  <1>5. CASE c \in {"empty_vnet", "unused_subnet", "unused_nsg"}
    BY <1>5 DEF EmptyVnet, UnusedSubnet, UnusedNsg
  <1>6. CASE c \in {"orphaned_snapshot", "unused_image"}
    BY <1>6 DEF OrphanedSnapshot, UnusedImage
  <1>. QED BY <1>1, <1>2, <1>3, <1>4, <1>5, <1>6 DEF AllChecks

----------------------------------------------------------------------------
(* Type correctness.                                                       *)

LEMMA RemovedType ==
  ASSUME Now \in Inventories, NEW x, Removed(x)
  PROVE  /\ Now' \in Inventories
         /\ uses' \subseteq uses /\ power' = power
         /\ \A y \in exists \ exists' : y = x \/ y \in Subnets
  BY DEF Now, Inventories, Removed, With

\* What a step of the cleanup may do to the inventory.
LEMMA CleanFacts ==
  ASSUME Now \in Inventories, NEW f \in Findings, Clean(f)
  PROVE  /\ Now' \in Inventories
         /\ uses' \subseteq uses /\ power' = power
         /\ \A y \in exists \ exists' : y = f.id \/ y \in Subnets \cup Disks
  <1>1. CASE UNCHANGED inventoryVars
    BY <1>1 DEF Now
  <1>2. CASE Delete(f.id)
    BY <1>1, <1>2, RemovedType DEF Delete
  <1>3. CASE CleanUnattachedDisk(f.id)
    BY <1>1, <1>3, ResourceFacts DEF CleanUnattachedDisk, Now, Inventories
  <1>. QED BY <1>1, <1>2, <1>3 DEF Clean

LEMMA LinkFacts ==
  ASSUME NEW l \in Links
  PROVE  l = <<l[1], l[2]>> /\ {l[1], l[2]} \subseteq Resources \cup {Elsewhere}
  <1>1. l \in Kinds
    BY InventoryAssumption
  <1>2. \E A, B \in SUBSET (Resources \cup {Elsewhere}) : l \in A \X B
    <2>1. \E P \in {VMs \X (Disks \cup Nics), Nics \X (Addresses \cup Subnets \cup Nsgs),
                    Balancers \X (Addresses \cup Nics \cup {Elsewhere}),
                    Gateways \X Addresses, Subnets \X (Gateways \cup Nsgs),
                    {Elsewhere} \X (Disks \cup Nics \cup Addresses \cup Subnets)} : l \in P
      BY <1>1 DEF Kinds
    <2>. DEFINE All == SUBSET (Resources \cup {Elsewhere})
    <2>2. /\ VMs \in All /\ Nics \in All /\ Balancers \in All /\ Gateways \in All
          /\ Subnets \in All /\ {Elsewhere} \in All /\ Addresses \in All
          /\ (Disks \cup Nics) \in All /\ (Addresses \cup Subnets \cup Nsgs) \in All
          /\ (Addresses \cup Nics \cup {Elsewhere}) \in All /\ (Gateways \cup Nsgs) \in All
          /\ (Disks \cup Nics \cup Addresses \cup Subnets) \in All
      BY ResourceFacts
    <2>. HIDE DEF All
    <2>3. \E A, B \in All : l \in A \X B
      BY <2>1, <2>2
    <2>. QED BY <2>3 DEF All
  <1>. QED BY <1>2

\* What other people may do: what they put to work, or take away, is touched.
LEMMA OthersFacts ==
  ASSUME TypeOK, Others
  PROVE  /\ Now' \in Inventories
         /\ budget' \in 0..scope.changes
         /\ touched' \subseteq Resources /\ touched \subseteq touched'
         /\ UNCHANGED <<scope, phase, queue, views, report, todo>>
         /\ \A x \in VMs \ touched' : power'[x] = power[x]
         /\ \A b \in Balancers \ touched' : \A y : <<b, y>> \in uses' => <<b, y>> \in uses
         /\ \A y \in exists \ exists' : y \in touched' \/ y \in Subnets
  <1>0. Now \in Inventories /\ scope.changes \in Nat /\ budget \in 0..scope.changes
          /\ touched \subseteq Resources /\ Elsewhere \notin Resources
    BY SweepAssumption, InventoryAssumption DEF TypeOK
  <1>1. ASSUME NEW things \in SUBSET Resources, Touch(things)
        PROVE  /\ budget' \in 0..scope.changes
               /\ touched' \subseteq Resources /\ touched' = touched \cup things
               /\ UNCHANGED <<scope, phase, queue, views, report, todo>>
    BY <1>0, <1>1 DEF Touch
  <1>2. CASE OthersCreate
    <2>1. PICK x \in Resources : Create(x) /\ Touch({x})
      BY <1>2 DEF OthersCreate
    <2>2. Now' \in Inventories /\ exists \subseteq exists' /\ UNCHANGED <<uses, power>>
      BY <1>0, <2>1 DEF Create, Now, Inventories
    <2>. QED BY <1>1, <2>1, <2>2
  <1>3. CASE OthersRemove
    <2>1. PICK x \in Resources : Remove(x) /\ Touch({x})
      BY <1>3 DEF OthersRemove
    <2>2. Removed(x)
      BY <2>1 DEF Remove
    <2>. QED BY <1>0, <1>1, <2>1, <2>2, RemovedType
  <1>4. CASE OthersAttach
    <2>1. PICK l \in Links : Attach(l[1], l[2]) /\ Touch({l[1], l[2]} \ {Elsewhere})
      BY <1>4 DEF OthersAttach
    <2>2. {l[1], l[2]} \ {Elsewhere} \subseteq Resources
      BY LinkFacts
    <2>3. Now' \in Inventories /\ uses' = uses \cup {<<l[1], l[2]>>} /\ UNCHANGED <<exists, power>>
      BY <1>0, <2>1 DEF Attach, Now, Inventories
    <2>4. touched' = touched \cup ({l[1], l[2]} \ {Elsewhere})
      BY <1>1, <2>1, <2>2
    <2>5. \A b \in Balancers \ touched' : \A y : <<b, y>> \in uses' => <<b, y>> \in uses
      BY <1>0, <2>3, <2>4, ResourceFacts
    <2>. QED BY <1>1, <2>1, <2>2, <2>3, <2>4, <2>5
  <1>5. CASE OthersDetach
    <2>1. PICK l \in Links : Detach(l[1], l[2]) /\ Touch({l[1], l[2]} \ {Elsewhere})
      BY <1>5 DEF OthersDetach
    <2>2. {l[1], l[2]} \ {Elsewhere} \subseteq Resources
      BY LinkFacts
    <2>3. Now' \in Inventories /\ uses' \subseteq uses /\ UNCHANGED <<exists, power>>
      BY <1>0, <2>1 DEF Detach, Now, Inventories
    <2>. QED BY <1>1, <2>1, <2>2, <2>3
  <1>6. CASE OthersPower
    <2>1. PICK m \in VMs : Power(m) /\ Touch({m})
      BY <1>6 DEF OthersPower
    <2>2. {m} \in SUBSET Resources
      BY ResourceFacts
    <2>3. Now' \in Inventories /\ UNCHANGED <<exists, uses>>
            /\ \A x \in VMs \ {m} : power'[x] = power[x]
      BY <1>0, <2>1 DEF Power, Now, Inventories
    <2>. QED BY <1>1, <2>1, <2>2, <2>3
  <1>. QED BY <1>2, <1>3, <1>4, <1>5, <1>6 DEF Others

LEMMA InitTypeOK == Init => TypeOK
  <1>. SUFFICES ASSUME Init PROVE TypeOK
    OBVIOUS
  <1>1. Now \in Inventories
    BY InventoryAssumption DEF Init, InventoryInit, Inventories, Now
  <1>2. scope \in Scopes /\ scope.checks \in Seq(AllChecks) /\ scope.changes \in Nat
    BY SweepAssumption DEF Init
  <1>. QED BY <1>1, <1>2 DEF Init, TypeOK

LEMMA HeadFacts ==
  ASSUME TypeOK, queue # <<>>
  PROVE  Head(queue) \in AllChecks /\ Tail(queue) \in Seq(AllChecks)
  BY DEF TypeOK

LEMMA NextTypeOK == TypeOK /\ [Next]_vars => TypeOK'
  <1>. SUFFICES ASSUME TypeOK, [Next]_vars PROVE TypeOK'
    OBVIOUS
  <1>. USE DEF vars, sweepVars
  <1>0. /\ Now \in Inventories /\ views \in Seq(Inventories) /\ Len(views) \in Nat
        /\ <<>> \in Seq(Inventories) /\ Len(<<>>) = 0
        /\ scope.checks \in Seq(AllChecks)
    BY SweepAssumption DEF TypeOK
  <1>1. CASE Read
    <2>1. Append(views, Now) \in Seq(Inventories) /\ Len(Append(views, Now)) = Len(views) + 1
      BY <1>0
    <2>2. Len(Append(views, Now)) <= 2
      BY <1>1, <2>1 DEF Read, AsksAgain
    <2>. QED BY <1>1, <2>1, <2>2 DEF Read, TypeOK, Now
  <1>2. CASE ReadLast
    <2>1. Found(Head(queue), Append(views, Now)) \subseteq Findings
      BY <1>2, HeadFacts, FoundIsTyped DEF ReadLast
    <2>2. Tail(queue) \in Seq(AllChecks)
      BY <1>2, HeadFacts DEF ReadLast
    <2>. QED BY <1>0, <1>2, <2>1, <2>2 DEF ReadLast, TypeOK, Now
  <1>3. CASE StartCleaning
    BY <1>3 DEF StartCleaning, TypeOK, Now
  <1>4. CASE Rescan
    BY <1>0, <1>4 DEF Rescan, TypeOK, Now
  <1>5. ASSUME NEW f \in todo, Clean(f)
        PROVE  TypeOK'
    <2>1. Now' \in Inventories
      BY <1>5, CleanFacts DEF TypeOK
    <2>. QED BY <1>5, <2>1 DEF Clean, TypeOK
  <1>6. CASE Others
    BY <1>6, OthersFacts DEF TypeOK
  <1>7. CASE UNCHANGED vars
    BY <1>7 DEF TypeOK, Now
  <1>. QED BY <1>1, <1>2, <1>3, <1>4, <1>5, <1>6, <1>7 DEF Next, Scan

\* The variables hold what the code keeps in them; a check reads at most three
\* lists, and the cleanup takes its findings from this scan (engine.py:126-149,
\* clean.py:83-101).
THEOREM TypeCorrect == Spec => []TypeOK
  BY InitTypeOK, NextTypeOK, PTL DEF Spec

----------------------------------------------------------------------------
(* What serves is kept.                                                    *)

\* What nobody touched since the scan began serves now only if it did when the
\* lists were read, and what is reported as idle does not.
IdleInv ==
  /\ phase = "cleaning" \/ queue = <<>> => views = <<>>
  /\ \A i \in 1..Len(views) :
       /\ \A x \in VMs \ touched : views[i].power[x] = power[x]
       /\ \A b \in Balancers \ touched : \A y : <<b, y>> \in uses => <<b, y>> \in views[i].uses
  /\ \A f \in report : f.id \in VMs \cup Balancers => f.id \in touched \/ ~Serves(f.id)

LEMMA ServesFacts ==
  ASSUME NEW x \in VMs \cup Balancers
  PROVE  /\ x \in VMs => (Serves(x) <=> power[x] = "running")
         /\ x \in Balancers => (Serves(x) <=> \E y \in Nics \cup {Elsewhere} : <<x, y>> \in uses)
  <1>1. Nics \cup {Elsewhere} \subseteq Resources \cup {Elsewhere}
    BY ResourceFacts
  <1>2. (\E y \in UsesOf(Now, x) : y \in Nics \cup {Elsewhere})
          <=> \E y \in Nics \cup {Elsewhere} : <<x, y>> \in uses
    BY <1>1 DEF UsesOf, Now
  <1>. QED BY <1>2, TypesFacts DEF Serves

\* A step that starts no VM and puts nothing behind a balancer.
LEMMA StaysIdle ==
  ASSUME NEW x \in VMs \cup Balancers,
         x \in VMs => power'[x] = power[x],
         x \in Balancers => \A y : <<x, y>> \in uses' => <<x, y>> \in uses,
         Serves(x)'
  PROVE  Serves(x)
  <1>1. CASE x \in VMs
    <2>1. power'[x] = "running"
      BY <1>1, TypesFacts DEF Serves
    <2>. QED BY <1>1, <2>1, ServesFacts
  <1>2. CASE x \in Balancers
    <2>1. \E y \in Nics \cup {Elsewhere} : <<x, y>> \in uses'
      BY <1>2, TypesFacts, ResourceFacts DEF Serves, UsesOf, Now
    <2>. QED BY <1>2, <2>1, ServesFacts
  <1>. QED BY <1>1, <1>2

LEMMA InitIdle == Init => IdleInv
  BY DEF Init, IdleInv

\* Findings of VMs and balancers nobody touched are right.
LEMMA FoundIsIdle ==
  ASSUME TypeOK, IdleInv, ReadLast, NEW f \in Found(Head(queue), Append(views, Now)),
         f.id \in VMs \cup Balancers, f.id \notin touched
  PROVE  ~Serves(f.id)
  <1>. DEFINE v == Append(views, Now)
  <1>0. /\ views \in Seq(Inventories) /\ Len(views) \in Nat
        /\ Head(queue) \in AllChecks /\ ~AsksAgain(Head(queue), v)
    BY HeadFacts DEF ReadLast, TypeOK
  <1>1. Len(v) = Len(views) + 1 /\ \A i \in 1..Len(v) : v[i] = IF i <= Len(views) THEN views[i] ELSE Now
    BY <1>0
  <1>2. \A i \in 1..Len(v) :
          /\ f.id \in VMs => v[i].power[f.id] = power[f.id]
          /\ f.id \in Balancers => \A y : <<f.id, y>> \in uses => <<f.id, y>> \in v[i].uses
    BY <1>0, <1>1 DEF IdleInv, Now
  <1>. HIDE DEF v
  <1>3. CASE f.id \in VMs
    <2>1. Head(queue) = "deallocated_vm" /\ f.id \in IdleVMs(v)
      BY <1>0, <1>3, FoundToBeIdle DEF v
    <2>2. Len(v) >= 2
      BY <1>0, <1>1, <2>1 DEF AsksAgain
    <2>3. v[2].power[f.id] # "running"
      BY <2>1 DEF IdleVMs, IdleStates
    <2>. QED BY <1>0, <1>1, <1>2, <1>3, <2>2, <2>3, ServesFacts
  <1>4. CASE f.id \in Balancers
    <2>1. UsesOf(v[1], f.id) \cap (Nics \cup {Elsewhere}) = {}
      BY <1>0, <1>4, FoundToBeIdle DEF v, IdleBalancers
    <2>2. \A y \in Nics \cup {Elsewhere} : <<f.id, y>> \notin v[1].uses
      BY <2>1, ResourceFacts DEF UsesOf
    <2>3. 1 \in 1..Len(v)
      BY <1>0, <1>1
    <2>. QED BY <1>2, <1>4, <2>2, <2>3, ServesFacts
  <1>. QED BY <1>3, <1>4

LEMMA NextIdle == TypeOK /\ IdleInv /\ [Next]_vars => IdleInv'
  <1>. SUFFICES ASSUME TypeOK, IdleInv, [Next]_vars PROVE IdleInv'
    OBVIOUS
  <1>. USE DEF vars, sweepVars
  <1>0. views \in Seq(Inventories) /\ Len(views) \in Nat /\ Len(<<>>) = 0
    BY DEF TypeOK
  <1>1. CASE Read
    <2>1. \A i \in 1..Len(Append(views, Now)) :
            Append(views, Now)[i] = IF i <= Len(views) THEN views[i] ELSE Now
      BY <1>0
    <2>2. UNCHANGED <<inventoryVars, phase, queue, report, touched>>
            /\ phase = "scanning" /\ queue # <<>> /\ views' = Append(views, Now)
      BY <1>1 DEF Read
    <2>3. \A i \in 1..Len(views') :
            /\ \A x \in VMs \ touched : views'[i].power[x] = power[x]
            /\ \A b \in Balancers \ touched : \A y : <<b, y>> \in uses => <<b, y>> \in views'[i].uses
      BY <1>0, <2>1, <2>2 DEF IdleInv, Now
    <2>. QED BY <2>2, <2>3 DEF IdleInv, Serves, UsesOf, Now
  <1>2. CASE ReadLast
    <2>1. UNCHANGED <<inventoryVars, phase, touched>> /\ views' = <<>>
            /\ report' = report \cup Found(Head(queue), Append(views, Now))
      BY <1>2 DEF ReadLast
    <2>2. \A f \in report' : f.id \in VMs \cup Balancers => f.id \in touched \/ ~Serves(f.id)
      BY <1>2, <2>1, FoundIsIdle DEF IdleInv
    <2>3. \A x : Serves(x)' = Serves(x)
      BY <2>1 DEF Serves, UsesOf, Now
    <2>4. 1..Len(views') = {}
      BY <1>0, <2>1
    <2>. QED BY <2>1, <2>2, <2>3, <2>4 DEF IdleInv
  <1>3. CASE StartCleaning
    BY <1>3 DEF StartCleaning, IdleInv, Serves, UsesOf, Now
  <1>4. CASE Rescan
    BY <1>0, <1>4 DEF Rescan, IdleInv
  <1>5. ASSUME NEW f \in todo, Clean(f)
        PROVE  IdleInv'
    <2>1. uses' \subseteq uses /\ power' = power
      BY <1>5, CleanFacts DEF TypeOK
    <2>2. UNCHANGED <<phase, queue, views, report, touched>> /\ views = <<>>
      BY <1>5 DEF Clean, IdleInv
    <2>3. \A x \in VMs \cup Balancers : Serves(x)' => Serves(x)
      BY <2>1, StaysIdle
    <2>. QED BY <1>0, <2>2, <2>3 DEF IdleInv
  <1>6. CASE Others
    <2>1. \A x \in (VMs \cup Balancers) \ touched' : Serves(x)' => Serves(x)
      BY <1>6, OthersFacts, StaysIdle
    <2>2. \A i \in 1..Len(views) :
            /\ \A x \in VMs \ touched' : views[i].power[x] = power'[x]
            /\ \A b \in Balancers \ touched' : \A y : <<b, y>> \in uses' => <<b, y>> \in views[i].uses
      BY <1>6, OthersFacts DEF IdleInv
    <2>. QED BY <1>6, <2>1, <2>2, OthersFacts DEF IdleInv
  <1>7. CASE UNCHANGED vars
    BY <1>7 DEF IdleInv, Serves, UsesOf, Now
  <1>. QED BY <1>1, <1>2, <1>3, <1>4, <1>5, <1>6, <1>7 DEF Next, Scan

\* A running VM, and a balancer with something behind it, is deleted only when
\* somebody put it to work after the scan began (cleaners.py:84, 336).
THEOREM ServingIsKept == Spec => OnlyWhatCameBackIsLost
  <1>1. TypeOK /\ IdleInv /\ [Next]_vars
          => [\A x \in VMs \cup Balancers :
                x \in exists \ exists' /\ Serves(x) => x \in touched']_vars
    <2>. SUFFICES ASSUME TypeOK, IdleInv, Next, NEW x \in VMs \cup Balancers,
                         x \in exists \ exists', Serves(x)
                  PROVE  x \in touched'
      OBVIOUS
    <2>0. x \notin Subnets \cup Disks
      BY TypesFacts
    <2>1. CASE Scan
      BY <2>1 DEF Scan, Read, ReadLast, StartCleaning, Rescan
    <2>2. ASSUME NEW f \in todo, Clean(f)
          PROVE  x \in touched'
      <3>1. x = f.id /\ f \in report /\ touched' = touched
        BY <2>0, <2>2, CleanFacts DEF TypeOK, Clean
      <3>. QED BY <3>1 DEF IdleInv
    <2>3. CASE Others
      BY <2>0, <2>3, OthersFacts
    <2>. QED BY <2>1, <2>2, <2>3 DEF Next
  <1>. QED BY <1>1, InitTypeOK, NextTypeOK, InitIdle, NextIdle, PTL DEF Spec, OnlyWhatCameBackIsLost

----------------------------------------------------------------------------
(* Every charge is carried once.                                           *)

KindOf(x) == CHOOSE i \in 1..11 : x \in Types[i]

\* The types are apart.
LEMMA KindFacts ==
  /\ \A x \in VMs : KindOf(x) = 1
  /\ \A x \in Disks : KindOf(x) = 2
  /\ \A x \in Nics : KindOf(x) = 3
  /\ \A x \in Addresses : KindOf(x) = 4
  /\ \A x \in Balancers : KindOf(x) = 5
  /\ \A x \in Gateways : KindOf(x) = 6
  /\ \A x \in Networks : KindOf(x) = 7
  /\ \A x \in Subnets : KindOf(x) = 8
  /\ \A x \in Nsgs : KindOf(x) = 9
  /\ \A x \in Snapshots : KindOf(x) = 10
  /\ \A x \in Images : KindOf(x) = 11
  <1>1. \A i \in 1..11 : \A x \in Types[i] : KindOf(x) = i
    <2>. SUFFICES ASSUME NEW i \in 1..11, NEW x \in Types[i] PROVE KindOf(x) = i
      OBVIOUS
    <2>1. \A j \in 1..11 : x \in Types[j] => i = j
      BY InventoryAssumption
    <2>2. KindOf(x) \in 1..11 /\ x \in Types[KindOf(x)]
      BY DEF KindOf
    <2>. QED BY <2>1, <2>2
  <1>. QED BY <1>1 DEF Types

\* Who may use what.
LEMMA UseFacts ==
  ASSUME Now \in Inventories, NEW x, NEW y, <<x, y>> \in uses
  PROVE  /\ y \in Disks => x \in VMs \cup {Elsewhere}
         /\ y \in Addresses => x \in UNION {Nics, Balancers, Gateways, {Elsewhere}}
         /\ y \in Nics => x \in UNION {VMs, Balancers, {Elsewhere}}
         /\ y \in Gateways => x \in Subnets
         /\ y = Elsewhere => x \in Balancers
         /\ y \notin VMs \cup Balancers
         /\ {x, y} \subseteq Resources \cup {Elsewhere}
  <1>1. <<x, y>> \in Links /\ <<x, y>> \in Kinds
    BY InventoryAssumption DEF Inventories, Now
  <1>2. \/ x \in VMs /\ y \in Disks \cup Nics
        \/ x \in Nics /\ y \in Addresses \cup Subnets \cup Nsgs
        \/ x \in Balancers /\ y \in Addresses \cup Nics \cup {Elsewhere}
        \/ x \in Gateways /\ y \in Addresses
        \/ x \in Subnets /\ y \in Gateways \cup Nsgs
        \/ x = Elsewhere /\ y \in Disks \cup Nics \cup Addresses \cup Subnets
    BY <1>1 DEF Kinds
  <1>3. Elsewhere \notin Resources
    BY InventoryAssumption
  <1>. QED BY <1>2, <1>3, KindFacts, ResourceFacts

\* A disk or an address has one holder, a card one besides balancers.
LEMMA OneHolder ==
  ASSUME Now \in Inventories, Exclusive(uses), NEW x, NEW y, NEW r,
         <<x, r>> \in uses, <<y, r>> \in uses
  PROVE  /\ r \in Disks \cup Addresses => x = y
         /\ r \in Nics /\ x \notin Balancers /\ y \notin Balancers => x = y
         /\ r \in Gateways => NetworkOf[x] = NetworkOf[y]
  <1>. DEFINE l == <<x, r>>  m == <<y, r>>
  <1>1. l \in uses /\ m \in uses /\ l[1] = x /\ l[2] = r /\ m[1] = y /\ m[2] = r
    OBVIOUS
  <1>2. l # m => x # y
    OBVIOUS
  <1>3. x # y => l # m
    OBVIOUS
  <1>. HIDE DEF l, m
  <1>. QED BY <1>1, <1>2, <1>3, KindFacts DEF Exclusive

\* What check c finds when nothing changes while it reads.
AtOnce(c) == Found(c, <<Now, Now, Now>>)

IdleNow == {m \in exists \cap VMs : power[m] \in IdleStates}
OrphansNow == {n \in exists \cap Nics : \A x \in VMs \cup {Elsewhere} : <<x, n>> \notin uses}
\* The gateways of network w's subnets.
AttachedNow(w) == {g \in exists \cap Gateways : UsersOf(Now, g) \cap SubnetsOf(Now, w) # {}}
UnusedNow == {b \in exists \cap Balancers : \A y \in Nics \cup {Elsewhere} : <<b, y>> \notin uses}

LEMMA NowFacts ==
  ASSUME Now \in Inventories
  PROVE  LET v == <<Now, Now, Now>>
         IN /\ v[1] = Now /\ v[2] = Now /\ v[3] = Now
            /\ \A kind : Listed(Now, kind) = exists \cap kind
            /\ IdleVMs(v) = IdleNow /\ Orphans(v) = OrphansNow /\ IdleBalancers(v) = UnusedNow
            /\ \A x, y : y \in UsesOf(Now, x) <=> <<x, y>> \in uses
            /\ \A x, y : x \in UsersOf(Now, y) <=> <<x, y>> \in uses
            /\ \A x, a : a \in HeldPublicIps(UsesOf(Now, x), PublicIpsById(Now))
                 <=> a \in (exists \cap Addresses) \ Unbilled /\ <<x, a>> \in uses
  <1>. DEFINE v == <<Now, Now, Now>>
  <1>1. v[1] = Now /\ v[2] = Now /\ v[3] = Now
    OBVIOUS
  <1>. HIDE DEF v
  <1>2. \A kind : Listed(Now, kind) = exists \cap kind
    BY DEF Listed, Now
  <1>3. \A x, y : (y \in UsesOf(Now, x) <=> <<x, y>> \in uses)
                    /\ (x \in UsersOf(Now, y) <=> <<x, y>> \in uses)
    <2>1. \A x, y : <<x, y>> \in uses => {x, y} \subseteq Resources \cup {Elsewhere}
      BY UseFacts
    <2>. QED BY <2>1 DEF UsesOf, UsersOf, Now
  <1>4. IdleVMs(v) = IdleNow
    BY <1>1, <1>2 DEF IdleVMs, IdleNow, Now
  <1>5. Orphans(v) = OrphansNow
    BY <1>1, <1>2, <1>3 DEF Orphans, OrphansNow
  <1>6. IdleBalancers(v) = UnusedNow
    BY <1>1, <1>2, <1>3 DEF IdleBalancers, UnusedNow
  <1>7. \A x, a : a \in HeldPublicIps(UsesOf(Now, x), PublicIpsById(Now))
                 <=> a \in (exists \cap Addresses) \ Unbilled /\ <<x, a>> \in uses
    BY <1>2, <1>3 DEF HeldPublicIps, PublicIpsById, PublicIpMonthlyCost
  <1>. QED BY <1>1, <1>2, <1>3, <1>4, <1>5, <1>6, <1>7 DEF v

\* The checks, when nothing changes while they read.
LEMMA AtOnceFacts ==
  ASSUME Now \in Inventories
  PROVE  LET v == <<Now, Now, Now>>
         IN /\ AtOnce("unattached_disk") =
                 {Finding("unattached_disk", d, {d}) :
                    d \in {d \in exists \cap Disks :
                             \A x \in VMs \cup {Elsewhere} : <<x, d>> \notin uses}}
            /\ AtOnce("orphaned_nic") =
                 {Finding("orphaned_nic", n, HeldPublicIps(UsesOf(Now, n), PublicIpsById(Now))) :
                    n \in OrphansNow}
            /\ AtOnce("unused_public_ip") =
                 {Finding("unused_public_ip", a, PublicIpMonthlyCost(a)) :
                    a \in {a \in exists \cap Addresses : UsersOf(Now, a) = {}}}
            /\ AtOnce("deallocated_vm") =
                 {Finding("deallocated_vm", m, VmCharges(v, m)) : m \in IdleNow}
            /\ AtOnce("idle_load_balancer") =
                 {Finding("idle_load_balancer", b,
                          ({b} \ Unbilled) \cup HeldPublicIps(UsesOf(Now, b), PublicIpsById(Now))) :
                    b \in UnusedNow}
            /\ AtOnce("idle_nat_gateway") =
                 {Finding("idle_nat_gateway", g, {g}) :
                    g \in {g \in exists \cap Gateways : UsersOf(Now, g) = {}}}
            /\ AtOnce("empty_vnet") \subseteq
                 {Finding("empty_vnet", w, AttachedNow(w)) : w \in Networks}
            /\ AtOnce("unused_subnet") \subseteq
                 {Finding("unused_subnet", s, {}) :
                    s \in {s \in Subnets : \A g \in Gateways : <<s, g>> \notin uses}}
            /\ AtOnce("unused_nsg") \subseteq {Finding("unused_nsg", q, {}) : q \in Nsgs}
            /\ AtOnce("orphaned_snapshot") \subseteq
                 {Finding("orphaned_snapshot", z, {z}) : z \in Snapshots}
            /\ AtOnce("unused_image") \subseteq {Finding("unused_image", i, {i}) : i \in Images}
  <1>. DEFINE v == <<Now, Now, Now>>
  <1>0. /\ v[1] = Now /\ v[2] = Now /\ v[3] = Now /\ Len(v) = 3
        /\ \A kind : Listed(Now, kind) = exists \cap kind
        /\ IdleVMs(v) = IdleNow /\ Orphans(v) = OrphansNow /\ IdleBalancers(v) = UnusedNow
        /\ \A x, y : y \in UsesOf(Now, x) <=> <<x, y>> \in uses
        /\ \A x, y : x \in UsersOf(Now, y) <=> <<x, y>> \in uses
    BY NowFacts
  <1>1. \A c : AtOnce(c) = Found(c, v)
    BY DEF AtOnce
  <1>. HIDE DEF v
  <1>. USE <1>0, <1>1 DEF Found
  <1>2. AtOnce("unattached_disk") =
          {Finding("unattached_disk", d, {d}) :
             d \in {d \in exists \cap Disks : \A x \in VMs \cup {Elsewhere} : <<x, d>> \notin uses}}
    <2>1. \A d : UsersOf(Now, d) \cap VMs = {} /\ Elsewhere \notin UsersOf(Now, d)
                   <=> \A x \in VMs \cup {Elsewhere} : <<x, d>> \notin uses
      OBVIOUS
    <2>2. {d \in exists \cap Disks : UsersOf(Now, d) \cap VMs = {} /\ Elsewhere \notin UsersOf(Now, d)}
            = {d \in exists \cap Disks : \A x \in VMs \cup {Elsewhere} : <<x, d>> \notin uses}
      BY <2>1
    <2>3. AtOnce("unattached_disk") = UnattachedDisk(v)
      OBVIOUS
    <2>4. UnattachedDisk(v) =
            {Finding("unattached_disk", d, {d}) :
               d \in {d \in exists \cap Disks :
                        UsersOf(Now, d) \cap VMs = {} /\ Elsewhere \notin UsersOf(Now, d)}}
      BY DEF UnattachedDisk
    <2>. HIDE <1>0, <1>1
    <2>. QED BY <2>2, <2>3, <2>4
  <1>3. AtOnce("orphaned_nic") =
          {Finding("orphaned_nic", n, HeldPublicIps(UsesOf(Now, n), PublicIpsById(Now))) :
             n \in OrphansNow}
    BY DEF OrphanedNic
  <1>4. AtOnce("unused_public_ip") =
          {Finding("unused_public_ip", a, PublicIpMonthlyCost(a)) :
             a \in {a \in exists \cap Addresses : UsersOf(Now, a) = {}}}
    BY DEF UnusedPublicIp
  <1>5. AtOnce("deallocated_vm") = {Finding("deallocated_vm", m, VmCharges(v, m)) : m \in IdleNow}
    BY DEF DeallocatedVm
  <1>6. AtOnce("idle_load_balancer") =
          {Finding("idle_load_balancer", b,
                   ({b} \ Unbilled) \cup HeldPublicIps(UsesOf(Now, b), PublicIpsById(Now))) :
             b \in UnusedNow}
    <2>1. AtOnce("idle_load_balancer") = IdleLoadBalancer(v)
      OBVIOUS
    <2>. QED BY <2>1 DEF IdleLoadBalancer
  <1>7. AtOnce("idle_nat_gateway") =
          {Finding("idle_nat_gateway", g, {g}) :
             g \in {g \in exists \cap Gateways : UsersOf(Now, g) = {}}}
    BY DEF IdleNatGateway
  <1>8. AtOnce("empty_vnet") \subseteq
          {Finding("empty_vnet", w, AttachedNow(w)) : w \in Networks}
    <2>1. ASSUME NEW f \in AtOnce("empty_vnet")
          PROVE  \E w \in Networks : f = Finding("empty_vnet", w, AttachedNow(w))
      <3>1. f \in EmptyVnet(v)
        BY <2>1
      <3>2. PICK w \in Listed(v[2], Networks) :
              f = Finding("empty_vnet", w,
                          {g \in Listed(v[1], Gateways) :
                             UsersOf(v[1], g) \cap SubnetsOf(v[2], w) # {}})
        BY <3>1 DEF EmptyVnet
      <3>3. w \in Networks /\ v[1] = Now /\ v[2] = Now /\ Listed(v[1], Gateways) = exists \cap Gateways
        OBVIOUS
      <3>4. f = Finding("empty_vnet", w,
                        {g \in Listed(v[1], Gateways) :
                           UsersOf(Now, g) \cap SubnetsOf(Now, w) # {}})
        BY <3>2, <3>3
      <3>. HIDE <1>0, <1>1
      <3>5. f = Finding("empty_vnet", w, AttachedNow(w))
        BY <3>3, <3>4 DEF AttachedNow
      <3>. QED BY <3>3, <3>5
    <2>. QED BY <2>1
  <1>9. AtOnce("unused_subnet") \subseteq
          {Finding("unused_subnet", s, {}) :
             s \in {s \in Subnets : \A g \in Gateways : <<s, g>> \notin uses}}
    BY DEF UnusedSubnet
  <1>10. AtOnce("unused_nsg") \subseteq {Finding("unused_nsg", q, {}) : q \in Nsgs}
    BY DEF UnusedNsg
  <1>11. AtOnce("orphaned_snapshot") \subseteq {Finding("orphaned_snapshot", z, {z}) : z \in Snapshots}
    BY DEF OrphanedSnapshot
  <1>12. AtOnce("unused_image") \subseteq {Finding("unused_image", i, {i}) : i \in Images}
    BY DEF UnusedImage
  <1>. QED BY <1>2, <1>3, <1>4, <1>5, <1>6, <1>7, <1>8, <1>9, <1>10, <1>11, <1>12 DEF v

LEMMA VmChargesFacts ==
  ASSUME Now \in Inventories, NEW m, NEW r \in VmCharges(<<Now, Now, Now>>, m)
  PROVE  \/ r \in exists \cap Disks /\ <<m, r>> \in uses
         \/ /\ r \in (exists \cap Addresses) \ Unbilled
            /\ \E n \in Nics : <<m, n>> \in uses /\ <<n, r>> \in uses
  <1>. DEFINE v == <<Now, Now, Now>>
  <1>1. v[1] = Now /\ v[2] = Now /\ v[3] = Now
    OBVIOUS
  <1>2. r \in VmCharges(v, m)
    OBVIOUS
  <1>. HIDE DEF v
  <1>3. \/ r \in UsesOf(Now, m) \cap Listed(Now, Disks)
        \/ r \in HeldPublicIps(UNION {UsesOf(Now, n) : n \in UsesOf(Now, m) \cap Nics},
                               PublicIpsById(Now))
    BY <1>1, <1>2 DEF VmCharges
  <1>4. CASE r \in UsesOf(Now, m) \cap Listed(Now, Disks)
    BY <1>4, NowFacts
  <1>5. CASE r \in HeldPublicIps(UNION {UsesOf(Now, n) : n \in UsesOf(Now, m) \cap Nics},
                                 PublicIpsById(Now))
    <2>1. PICK a \in (UNION {UsesOf(Now, n) : n \in UsesOf(Now, m) \cap Nics}) \cap Listed(Now, Addresses) :
            r \in PublicIpMonthlyCost(a)
      BY <1>5 DEF HeldPublicIps, PublicIpsById
    <2>2. r = a /\ a \notin Unbilled
      BY <2>1 DEF PublicIpMonthlyCost
    <2>3. PICK n \in UsesOf(Now, m) \cap Nics : a \in UsesOf(Now, n)
      BY <2>1
    <2>. QED BY <2>1, <2>2, <2>3, NowFacts
  <1>. QED BY <1>3, <1>4, <1>5

LEMMA VmChargesAll ==
  ASSUME Now \in Inventories, NEW m
  PROVE  /\ \A d \in exists \cap Disks :
              <<m, d>> \in uses => d \in VmCharges(<<Now, Now, Now>>, m)
         /\ \A a \in (exists \cap Addresses) \ Unbilled : \A n \in Nics :
              <<m, n>> \in uses /\ <<n, a>> \in uses => a \in VmCharges(<<Now, Now, Now>>, m)
  <1>. DEFINE v == <<Now, Now, Now>>
  <1>1. v[1] = Now /\ v[2] = Now /\ v[3] = Now
    OBVIOUS
  <1>. HIDE DEF v
  <1>2. ASSUME NEW d \in exists \cap Disks, <<m, d>> \in uses
        PROVE  d \in VmCharges(v, m)
    <2>1. d \in UsesOf(Now, m) \cap Listed(Now, Disks)
      BY <1>2, NowFacts
    <2>. QED BY <1>1, <2>1 DEF VmCharges
  <1>3. ASSUME NEW a \in (exists \cap Addresses) \ Unbilled, NEW n \in Nics,
               <<m, n>> \in uses, <<n, a>> \in uses
        PROVE  a \in VmCharges(v, m)
    <2>1. n \in UsesOf(Now, m) \cap Nics /\ a \in UsesOf(Now, n) /\ a \in Listed(Now, Addresses)
      BY <1>3, NowFacts
    <2>2. a \in UNION {UsesOf(Now, y) : y \in UsesOf(Now, m) \cap Nics}
      BY <2>1
    <2>3. a \in PublicIpMonthlyCost(a)
      BY DEF PublicIpMonthlyCost
    <2>4. a \in HeldPublicIps(UNION {UsesOf(Now, y) : y \in UsesOf(Now, m) \cap Nics},
                              PublicIpsById(Now))
      BY <2>1, <2>2, <2>3 DEF HeldPublicIps, PublicIpsById
    <2>. QED BY <1>1, <2>4 DEF VmCharges
  <1>. QED BY <1>2, <1>3 DEF v

\* Which check a finding is of says what it carries.
LEMMA Carriers ==
  ASSUME Now \in Inventories, NEW c \in AllChecks, NEW f \in AtOnce(c), NEW r \in f.carries
  PROVE  /\ r \in Disks =>
              \/ /\ f = Finding("unattached_disk", r, {r})
                 /\ \A x \in VMs \cup {Elsewhere} : <<x, r>> \notin uses
              \/ \E m \in IdleNow :
                   <<m, r>> \in uses
                     /\ f = Finding("deallocated_vm", m, VmCharges(<<Now, Now, Now>>, m))
         /\ r \in Addresses =>
              \/ f = Finding("unused_public_ip", r, PublicIpMonthlyCost(r)) /\ UsersOf(Now, r) = {}
              \/ \E n \in OrphansNow :
                   <<n, r>> \in uses
                     /\ f = Finding("orphaned_nic", n,
                                    HeldPublicIps(UsesOf(Now, n), PublicIpsById(Now)))
              \/ \E m \in IdleNow, n \in Nics :
                   <<m, n>> \in uses /\ <<n, r>> \in uses
                     /\ f = Finding("deallocated_vm", m, VmCharges(<<Now, Now, Now>>, m))
              \/ \E b \in UnusedNow :
                   <<b, r>> \in uses
                     /\ f = Finding("idle_load_balancer", b,
                                    ({b} \ Unbilled)
                                      \cup HeldPublicIps(UsesOf(Now, b), PublicIpsById(Now)))
         /\ r \in Balancers =>
              f = Finding("idle_load_balancer", r,
                          ({r} \ Unbilled) \cup HeldPublicIps(UsesOf(Now, r), PublicIpsById(Now)))
         /\ r \in Gateways =>
              \/ f = Finding("idle_nat_gateway", r, {r}) /\ UsersOf(Now, r) = {}
              \/ \E w \in Networks :
                   /\ UsersOf(Now, r) \cap SubnetsOf(Now, w) # {}
                   /\ f = Finding("empty_vnet", w, AttachedNow(w))
  <1>. DEFINE v == <<Now, Now, Now>>
              held(x) == HeldPublicIps(UsesOf(Now, x), PublicIpsById(Now))
  <1>0. \A x, a : a \in held(x) <=> a \in (exists \cap Addresses) \ Unbilled /\ <<x, a>> \in uses
    BY NowFacts
  <1>1. CASE c = "unattached_disk"
    <2>1. PICK d \in {d \in exists \cap Disks : \A x \in VMs \cup {Elsewhere} : <<x, d>> \notin uses} :
            f = Finding("unattached_disk", d, {d})
      BY <1>1, AtOnceFacts
    <2>. QED BY <2>1, KindFacts DEF Finding
  <1>2. CASE c = "orphaned_nic"
    <2>1. PICK n \in OrphansNow : f = Finding("orphaned_nic", n, held(n))
      BY <1>2, AtOnceFacts
    <2>2. r \in held(n)
      BY <2>1 DEF Finding
    <2>3. r \in Addresses /\ <<n, r>> \in uses
      BY <1>0, <2>2
    <2>. QED BY <2>1, <2>3, KindFacts
  <1>3. CASE c = "unused_public_ip"
    <2>1. PICK a \in {a \in exists \cap Addresses : UsersOf(Now, a) = {}} :
            f = Finding("unused_public_ip", a, PublicIpMonthlyCost(a))
      BY <1>3, AtOnceFacts
    <2>2. r = a
      BY <2>1 DEF Finding, PublicIpMonthlyCost
    <2>. QED BY <2>1, <2>2, KindFacts
  <1>4. CASE c = "deallocated_vm"
    <2>1. PICK m \in IdleNow : f = Finding("deallocated_vm", m, VmCharges(v, m))
      BY <1>4, AtOnceFacts
    <2>2. r \in VmCharges(v, m)
      BY <2>1 DEF Finding
    <2>3. \/ r \in Disks /\ <<m, r>> \in uses
          \/ r \in Addresses /\ \E n \in Nics : <<m, n>> \in uses /\ <<n, r>> \in uses
      BY <2>2, VmChargesFacts
    <2>. QED BY <2>1, <2>3, KindFacts
  <1>5. CASE c = "idle_load_balancer"
    <2>1. PICK b \in UnusedNow : f = Finding("idle_load_balancer", b, ({b} \ Unbilled) \cup held(b))
      BY <1>5, AtOnceFacts
    <2>2. r = b \/ r \in held(b)
      BY <2>1 DEF Finding
    <2>3. b \in Balancers
      BY DEF UnusedNow
    <2>4. CASE r = b
      BY <2>1, <2>3, <2>4, KindFacts
    <2>5. CASE r \in held(b)
      <3>1. r \in Addresses /\ <<b, r>> \in uses
        BY <1>0, <2>5
      <3>2. r \notin UNION {Disks, Balancers, Gateways}
        BY <3>1, KindFacts
      <3>3. \E x \in UnusedNow :
              <<x, r>> \in uses
                /\ f = Finding("idle_load_balancer", x, ({x} \ Unbilled) \cup held(x))
        BY <2>1, <3>1
      <3>. QED BY <3>2, <3>3
    <2>. QED BY <2>2, <2>4, <2>5
  <1>6. CASE c = "idle_nat_gateway"
    <2>1. PICK g \in {g \in exists \cap Gateways : UsersOf(Now, g) = {}} :
            f = Finding("idle_nat_gateway", g, {g})
      BY <1>6, AtOnceFacts
    <2>. QED BY <2>1, KindFacts DEF Finding
  <1>7. CASE c = "empty_vnet"
    <2>1. PICK w \in Networks : f = Finding("empty_vnet", w, AttachedNow(w))
      BY <1>7, AtOnceFacts
    <2>2. r \in Gateways /\ UsersOf(Now, r) \cap SubnetsOf(Now, w) # {}
      BY <2>1 DEF Finding, AttachedNow
    <2>3. r \notin UNION {Disks, Balancers, Addresses}
      BY <2>2, KindFacts
    <2>. QED BY <2>1, <2>2, <2>3
  <1>8. CASE c \in {"unused_subnet", "unused_nsg"}
    <2>1. f.carries = {}
      BY <1>8, AtOnceFacts DEF Finding
    <2>. QED BY <2>1
  <1>9. CASE c \in {"orphaned_snapshot", "unused_image"}
    <2>1. r \in Snapshots \cup Images
      BY <1>9, AtOnceFacts DEF Finding
    <2>. QED BY <2>1, KindFacts
  <1>. QED BY <1>1, <1>2, <1>3, <1>4, <1>5, <1>6, <1>7, <1>8, <1>9 DEF AllChecks

\* What is reported of each type.
LEMMA ReportedFacts ==
  ASSUME Now \in Inventories, NEW c \in AllChecks, NEW f \in AtOnce(c)
  PROVE  /\ f.id \in Resources
         /\ f.id \in Disks => \A x \in VMs \cup {Elsewhere} : <<x, f.id>> \notin uses
         /\ f.id \in Nics => f.id \in OrphansNow
         /\ f.id \in Addresses => UsersOf(Now, f.id) = {}
         /\ f.id \in VMs => f.id \in IdleNow
         /\ f.id \in Balancers => f.id \in UnusedNow
         /\ f.id \in Subnets => \A g \in Gateways : <<f.id, g>> \notin uses
  <1>. USE KindFacts, ResourceFacts DEF Finding
  <1>1. CASE c = "unattached_disk"
    BY <1>1, AtOnceFacts
  <1>2. CASE c = "orphaned_nic"
    BY <1>2, AtOnceFacts DEF OrphansNow
  <1>3. CASE c = "unused_public_ip"
    BY <1>3, AtOnceFacts
  <1>4. CASE c = "deallocated_vm"
    BY <1>4, AtOnceFacts DEF IdleNow
  <1>5. CASE c = "idle_load_balancer"
    BY <1>5, AtOnceFacts DEF UnusedNow
  <1>6. CASE c = "idle_nat_gateway"
    BY <1>6, AtOnceFacts
  <1>7. CASE c = "empty_vnet"
    BY <1>7, AtOnceFacts
  <1>8. CASE c = "unused_subnet"
    BY <1>8, AtOnceFacts
  <1>9. CASE c \in {"unused_nsg", "orphaned_snapshot", "unused_image"}
    BY <1>9, AtOnceFacts
  <1>. QED BY <1>1, <1>2, <1>3, <1>4, <1>5, <1>6, <1>7, <1>8, <1>9 DEF AllChecks

LEMMA OwnersFacts ==
  ASSUME Now \in Inventories, NEW x
  PROVE  /\ \A y : y \in HoldersOf(x) <=> <<y, x>> \in uses /\ (x \in Nics => y \notin Balancers)
         /\ HoldersOf(x) = {} => OwnersOf(x) = {x}
         /\ \A y : HoldersOf(x) = {y} =>
              OwnersOf(x) = IF HoldersOf(y) = {} THEN {y} ELSE HoldersOf(y)
  <1>1. \A y : y \in HoldersOf(x) <=> <<y, x>> \in uses /\ (x \in Nics => y \notin Balancers)
    BY NowFacts DEF HoldersOf
  <1>. DEFINE last(y) == IF HoldersOf(y) = {} THEN {y} ELSE HoldersOf(y)
  <1>2. OwnersOf(x) = IF HoldersOf(x) = {} THEN {x} ELSE UNION {last(y) : y \in HoldersOf(x)}
    BY DEF OwnersOf
  <1>. HIDE DEF last
  <1>3. \A y : HoldersOf(x) = {y} => OwnersOf(x) = last(y)
    BY <1>2
  <1>. QED BY <1>1, <1>2, <1>3 DEF last

\* A holder that is none of the tool's business is never reported.
LEMMA ElsewhereIsNobody ==
  ASSUME Now \in Inventories,
         \A f \in report : \E c \in AllChecks : f \in AtOnce(c)
  PROVE  ~((IF HoldersOf(Elsewhere) = {} THEN {Elsewhere} ELSE HoldersOf(Elsewhere))
             \subseteq {f.id : f \in report} \ Gateways)
  <1>0. Elsewhere \notin Resources
    BY InventoryAssumption
  <1>1. Elsewhere \notin {f.id : f \in report}
    BY <1>0, ReportedFacts
  <1>2. ASSUME NEW b \in HoldersOf(Elsewhere), b \in {f.id : f \in report}
        PROVE  FALSE
    <2>1. <<b, Elsewhere>> \in uses
      BY OwnersFacts
    <2>2. b \in Balancers
      BY <2>1, UseFacts
    <2>3. b \in UnusedNow
      BY <1>2, <2>2, ReportedFacts
    <2>. QED BY <2>1, <2>3 DEF UnusedNow
  <1>. QED BY <1>1, <1>2

LEMMA CountFacts ==
  /\ \A S : S = {} => Cardinality(S) = 0
  /\ \A S, x : S = {x} => Cardinality(S) = 1
  /\ \A S : (\A x, y \in S : x = y) => Cardinality(S) <= 1
  <1>1. Cardinality({}) = 0 /\ \A x : Cardinality({x}) = 1
    BY FS_EmptySet, FS_Singleton
  <1>2. ASSUME NEW S, \A x, y \in S : x = y
        PROVE  Cardinality(S) <= 1
    <2>1. CASE S = {}
      BY <1>1, <2>1
    <2>2. CASE S # {}
      <3>1. PICK x : x \in S
        BY <2>2
      <3>2. S = {x}
        BY <1>2, <3>1
      <3>3. Cardinality(S) = 1
        BY <1>1, <3>2
      <3>. QED BY <3>3
    <2>. QED BY <2>1, <2>2
  <1>. QED BY <1>1, <1>2

\* The report is what all the checks find at once.
Whole == \A f : f \in report <=> \E c \in AllChecks : f \in AtOnce(c)

Carrying(r) == {f \in report : r \in f.carries}
Reported == {f.id : f \in report}

\* A disk is carried by its own finding or by that of its VM.
LEMMA DiskOnce ==
  ASSUME Now \in Inventories, Exclusive(uses), Whole, NEW d \in exists \cap Disks
  PROVE  Cardinality(Carrying(d)) = IF OwnersOf(d) \subseteq Reported \ Gateways THEN 1 ELSE 0
  <1>. DEFINE v == <<Now, Now, Now>>
  <1>0. /\ d \notin Gateways /\ d \notin Nics
        /\ \A f \in report : \E c \in AllChecks : f \in AtOnce(c)
    BY KindFacts DEF Whole
  <1>1. ASSUME NEW f \in Carrying(d)
        PROVE  \/ /\ f = Finding("unattached_disk", d, {d})
                  /\ \A x \in VMs \cup {Elsewhere} : <<x, d>> \notin uses
               \/ \E m \in IdleNow :
                    <<m, d>> \in uses /\ f = Finding("deallocated_vm", m, VmCharges(v, m))
    BY <1>0, Carriers DEF Carrying
  <1>. HIDE DEF v
  <1>2. CASE \A x : <<x, d>> \notin uses
    <2>. DEFINE own == Finding("unattached_disk", d, {d})
    <2>1. own \in AtOnce("unattached_disk")
      BY <1>2, AtOnceFacts
    <2>2. own \in report /\ own.id = d /\ d \in own.carries
      BY <2>1 DEF Whole, AllChecks, Finding
    <2>3. Carrying(d) = {own}
      BY <1>1, <1>2, <2>2 DEF Carrying
    <2>4. OwnersOf(d) = {d}
      BY <1>2, OwnersFacts
    <2>5. d \in Reported
      BY <2>2 DEF Reported
    <2>6. Cardinality(Carrying(d)) = 1
      BY <2>3, CountFacts
    <2>. QED BY <1>0, <2>4, <2>5, <2>6
  <1>3. ASSUME NEW m \in VMs, <<m, d>> \in uses
        PROVE  Cardinality(Carrying(d)) = IF OwnersOf(d) \subseteq Reported \ Gateways THEN 1 ELSE 0
    <2>1. \A x : <<x, d>> \in uses => x = m
      BY <1>3, OneHolder
    <2>2. HoldersOf(d) = {m}
      BY <1>0, <1>3, <2>1, OwnersFacts
    <2>3. HoldersOf(m) = {}
      BY UseFacts, OwnersFacts
    <2>4. OwnersOf(d) = {m} /\ m \notin Gateways
      BY <2>2, <2>3, OwnersFacts, KindFacts
    <2>5. CASE m \in IdleNow
      <3>. DEFINE own == Finding("deallocated_vm", m, VmCharges(v, m))
      <3>1. own \in AtOnce("deallocated_vm")
        BY <2>5, AtOnceFacts DEF v
      <3>2. d \in VmCharges(v, m)
        BY <1>3, VmChargesAll DEF v
      <3>3. own \in report /\ own.id = m /\ d \in own.carries
        BY <3>1, <3>2 DEF Whole, AllChecks, Finding
      <3>4. Carrying(d) = {own}
        BY <1>1, <1>3, <2>1, <3>3 DEF Carrying
      <3>5. m \in Reported
        BY <3>3 DEF Reported
      <3>6. Cardinality(Carrying(d)) = 1
        BY <3>4, CountFacts
      <3>. QED BY <2>4, <3>5, <3>6
    <2>6. CASE m \notin IdleNow
      <3>1. Carrying(d) = {}
        BY <1>1, <1>3, <2>1, <2>6
      <3>2. m \notin Reported
        BY <1>0, <2>6, ReportedFacts DEF Reported
      <3>. QED BY <2>4, <3>1, <3>2, CountFacts
    <2>. QED BY <2>5, <2>6
  <1>4. CASE <<Elsewhere, d>> \in uses
    <2>1. \A x : <<x, d>> \in uses => x = Elsewhere
      BY <1>4, OneHolder
    <2>2. HoldersOf(d) = {Elsewhere}
      BY <1>0, <1>4, <2>1, OwnersFacts
    <2>3. ~(OwnersOf(d) \subseteq Reported \ Gateways)
      BY <1>0, <2>2, OwnersFacts, ElsewhereIsNobody DEF Reported
    <2>4. Elsewhere \notin VMs
      BY InventoryAssumption, ResourceFacts
    <2>5. Carrying(d) = {}
      BY <1>1, <1>4, <2>1, <2>4 DEF IdleNow
    <2>. QED BY <2>3, <2>5, CountFacts
  <1>. QED BY <1>2, <1>3, <1>4, UseFacts

\* An address is carried by its own finding, or by that of the card, the VM or
\* the balancer that has it.
LEMMA AddressOnce ==
  ASSUME Now \in Inventories, Exclusive(uses), Whole, NEW a \in (exists \cap Addresses) \ Unbilled
  PROVE  Cardinality(Carrying(a)) = IF OwnersOf(a) \subseteq Reported \ Gateways THEN 1 ELSE 0
  <1>. DEFINE v == <<Now, Now, Now>>
              held(x) == HeldPublicIps(UsesOf(Now, x), PublicIpsById(Now))
              Goal == Cardinality(Carrying(a))
                        = IF OwnersOf(a) \subseteq Reported \ Gateways THEN 1 ELSE 0
  <1>0. /\ a \notin Gateways /\ a \notin Nics /\ a \in Resources
        /\ \A f \in report : \E c \in AllChecks : f \in AtOnce(c)
        /\ \A x : <<x, a>> \in uses => a \in held(x)
    BY KindFacts, ResourceFacts, NowFacts DEF Whole
  <1>1. ASSUME NEW f \in Carrying(a)
        PROVE  \/ f = Finding("unused_public_ip", a, PublicIpMonthlyCost(a)) /\ UsersOf(Now, a) = {}
               \/ \E n \in OrphansNow :
                    <<n, a>> \in uses /\ f = Finding("orphaned_nic", n, held(n))
               \/ \E m \in IdleNow, n \in Nics :
                    <<m, n>> \in uses /\ <<n, a>> \in uses
                      /\ f = Finding("deallocated_vm", m, VmCharges(v, m))
               \/ \E b \in UnusedNow :
                    <<b, a>> \in uses
                      /\ f = Finding("idle_load_balancer", b, ({b} \ Unbilled) \cup held(b))
    BY <1>0, Carriers DEF Carrying
  <1>2. \A x : x \in UsersOf(Now, a) <=> <<x, a>> \in uses
    BY NowFacts
  <1>. HIDE DEF v, held, Goal
  <1>3. ASSUME NEW f \in report, a \in f.carries, OwnersOf(a) = {f.id}, f.id \notin Gateways,
               \A g \in Carrying(a) : g = f
        PROVE  Goal
    <2>1. Carrying(a) = {f} /\ f.id \in Reported
      BY <1>3 DEF Carrying, Reported
    <2>2. Cardinality(Carrying(a)) = 1
      BY <2>1, CountFacts
    <2>. QED BY <1>3, <2>1, <2>2 DEF Goal
  <1>4. ASSUME \A f \in Carrying(a) : FALSE, ~(OwnersOf(a) \subseteq Reported \ Gateways)
        PROVE  Goal
    <2>1. Carrying(a) = {}
      BY <1>4
    <2>. QED BY <1>4, <2>1, CountFacts DEF Goal
  <1>5. ASSUME \A x : <<x, a>> \notin uses
        PROVE  Goal
    <2>. DEFINE own == Finding("unused_public_ip", a, PublicIpMonthlyCost(a))
    <2>1. UsersOf(Now, a) = {}
      BY <1>2, <1>5
    <2>2. own \in AtOnce("unused_public_ip")
      BY <2>1, AtOnceFacts
    <2>3. own \in report /\ own.id = a /\ a \in own.carries
      BY <2>2 DEF Whole, AllChecks, Finding, PublicIpMonthlyCost
    <2>4. OwnersOf(a) = {a}
      BY <1>5, OwnersFacts
    <2>5. \A g \in Carrying(a) : g = own
      BY <1>1, <1>5
    <2>6. OwnersOf(a) = {own.id} /\ own.id \notin Gateways
      BY <1>0, <2>3, <2>4
    <2>. HIDE DEF own
    <2>. QED BY <1>3, <2>3, <2>5, <2>6
  <1>6. ASSUME NEW n \in Nics, <<n, a>> \in uses
        PROVE  Goal
    <2>1. \A x : <<x, a>> \in uses => x = n
      BY <1>6, OneHolder
    <2>2. HoldersOf(a) = {n}
      BY <1>0, <1>6, <2>1, OwnersFacts
    <2>3. n \notin VMs /\ n \notin Balancers /\ n \notin Gateways
      BY KindFacts
    <2>4. UsersOf(Now, a) # {}
      BY <1>2, <1>6
    <2>5. \A x : x \in HoldersOf(n) <=> <<x, n>> \in uses /\ x \notin Balancers
      BY OwnersFacts
    <2>6. ASSUME NEW f \in Carrying(a)
          PROVE  \/ n \in OrphansNow /\ f = Finding("orphaned_nic", n, held(n))
                 \/ \E m \in IdleNow :
                      <<m, n>> \in uses /\ f = Finding("deallocated_vm", m, VmCharges(v, m))
      BY <1>1, <2>1, <2>3, <2>4 DEF UnusedNow
    <2>7. CASE HoldersOf(n) = {}
      <3>1. OwnersOf(a) = {n}
        BY <2>2, <2>7, OwnersFacts
      <3>2. \A m \in IdleNow : <<m, n>> \notin uses
        BY <2>5, <2>7, KindFacts DEF IdleNow
      <3>3. CASE n \in OrphansNow
        <4>. DEFINE own == Finding("orphaned_nic", n, held(n))
        <4>1. own \in AtOnce("orphaned_nic")
          BY <3>3, AtOnceFacts DEF held
        <4>2. own \in report /\ own.id = n /\ a \in own.carries
          BY <1>0, <1>6, <4>1 DEF Whole, AllChecks, Finding
        <4>3. \A g \in Carrying(a) : g = own
          BY <2>6, <3>2
        <4>. HIDE DEF own
        <4>. QED BY <1>3, <2>3, <3>1, <4>2, <4>3
      <3>4. CASE n \notin OrphansNow
        <4>1. n \notin Reported
          BY <1>0, <3>4, ReportedFacts DEF Reported
        <4>2. \A f \in Carrying(a) : FALSE
          BY <2>6, <3>2, <3>4
        <4>. QED BY <1>4, <3>1, <4>1, <4>2
      <3>. QED BY <3>3, <3>4
    <2>8. ASSUME NEW m \in HoldersOf(n)
          PROVE  Goal
      <3>1. <<m, n>> \in uses /\ m \notin Balancers
        BY <2>5
      <3>2. m \in VMs \/ m = Elsewhere
        BY <3>1, UseFacts
      <3>3. \A x : <<x, n>> \in uses /\ x \notin Balancers => x = m
        BY <3>1, OneHolder
      <3>4. HoldersOf(n) = {m}
        BY <2>5, <3>3
      <3>5. OwnersOf(a) = {m} /\ n \notin OrphansNow
        BY <2>2, <3>1, <3>2, <3>4, OwnersFacts DEF OrphansNow
      <3>6. \A x \in IdleNow : <<x, n>> \in uses => x = m
        BY <3>3, KindFacts DEF IdleNow
      <3>7. CASE m \in IdleNow
        <4>. DEFINE own == Finding("deallocated_vm", m, VmCharges(v, m))
        <4>1. own \in AtOnce("deallocated_vm")
          BY <3>7, AtOnceFacts DEF v
        <4>2. a \in VmCharges(v, m)
          BY <1>6, <3>1, VmChargesAll DEF v
        <4>3. own \in report /\ own.id = m /\ a \in own.carries
          BY <4>1, <4>2 DEF Whole, AllChecks, Finding
        <4>4. \A g \in Carrying(a) : g = own
          BY <2>6, <3>5, <3>6
        <4>5. m \notin Gateways
          BY <3>7, KindFacts DEF IdleNow
        <4>. HIDE DEF own
        <4>. QED BY <1>3, <3>5, <4>3, <4>4, <4>5
      <3>8. CASE m \notin IdleNow
        <4>1. m \notin Reported
          <5>1. Elsewhere \notin Resources
            BY InventoryAssumption
          <5>. QED BY <1>0, <3>2, <3>8, <5>1, ReportedFacts DEF Reported
        <4>2. \A f \in Carrying(a) : FALSE
          BY <2>6, <3>5, <3>6, <3>8
        <4>. QED BY <1>4, <3>5, <4>1, <4>2
      <3>. QED BY <3>7, <3>8
    <2>. QED BY <2>7, <2>8
  <1>7. ASSUME NEW b \in Balancers, <<b, a>> \in uses
        PROVE  Goal
    <2>1. \A x : <<x, a>> \in uses => x = b
      BY <1>7, OneHolder
    <2>2. HoldersOf(a) = {b}
      BY <1>0, <1>7, <2>1, OwnersFacts
    <2>3. HoldersOf(b) = {}
      BY UseFacts, OwnersFacts
    <2>3a. b \notin Gateways /\ \A n \in Nics : <<n, a>> \notin uses
      BY <2>1, KindFacts
    <2>3b. OwnersOf(a) = {b}
      BY <2>2, <2>3, OwnersFacts
    <2>4. UsersOf(Now, a) # {}
      BY <1>2, <1>7
    <2>5. ASSUME NEW f \in Carrying(a)
          PROVE  b \in UnusedNow
                   /\ f = Finding("idle_load_balancer", b, ({b} \ Unbilled) \cup held(b))
      <3>1. \A n \in OrphansNow : <<n, a>> \notin uses
        BY <2>3a DEF OrphansNow
      <3>2. PICK x \in UnusedNow :
              <<x, a>> \in uses
                /\ f = Finding("idle_load_balancer", x, ({x} \ Unbilled) \cup held(x))
        BY <1>1, <2>3a, <2>4, <3>1
      <3>3. x = b
        BY <2>1, <3>2
      <3>. QED BY <3>2, <3>3
    <2>6. CASE b \in UnusedNow
      <3>. DEFINE own == Finding("idle_load_balancer", b, ({b} \ Unbilled) \cup held(b))
      <3>1. own \in AtOnce("idle_load_balancer")
        BY <2>6, AtOnceFacts DEF held
      <3>2. own \in report /\ own.id = b /\ a \in own.carries
        BY <1>0, <1>7, <3>1 DEF Whole, AllChecks, Finding
      <3>3. \A g \in Carrying(a) : g = own
        BY <2>5
      <3>. HIDE DEF own
      <3>. QED BY <1>3, <2>3a, <2>3b, <3>2, <3>3
    <2>7. CASE b \notin UnusedNow
      <3>1. b \notin Reported
        BY <1>0, <2>7, ReportedFacts DEF Reported
      <3>. QED BY <1>4, <2>3b, <2>5, <2>7, <3>1
    <2>. QED BY <2>6, <2>7
  <1>8. ASSUME NEW x \in Gateways \cup {Elsewhere}, <<x, a>> \in uses
        PROVE  Goal
    <2>1. \A y : <<y, a>> \in uses => y = x
      BY <1>8, OneHolder
    <2>2. HoldersOf(a) = {x} /\ UsersOf(Now, a) # {}
      BY <1>0, <1>2, <1>8, <2>1, OwnersFacts
    <2>3. /\ \A n \in Nics : <<n, a>> \notin uses
          /\ \A b \in Balancers : <<b, a>> \notin uses
      BY <2>1, KindFacts, ResourceFacts, InventoryAssumption
    <2>4. \A f \in Carrying(a) : FALSE
      BY <1>1, <2>2, <2>3 DEF OrphansNow, UnusedNow
    <2>5. OwnersOf(a) = IF HoldersOf(x) = {} THEN {x} ELSE HoldersOf(x)
      BY <2>2, OwnersFacts
    <2>6. CASE x = Elsewhere
      BY <1>0, <1>4, <2>4, <2>5, <2>6, ElsewhereIsNobody DEF Reported
    <2>7. CASE x \in Gateways
      <3>1. \A s \in HoldersOf(x) : s \in Subnets /\ <<s, x>> \in uses
        BY <2>7, OwnersFacts, UseFacts
      <3>2. \A s \in HoldersOf(x) : s \notin Reported
        BY <1>0, <2>7, <3>1, ReportedFacts DEF Reported
      <3>3. ~(OwnersOf(a) \subseteq Reported \ Gateways)
        BY <2>5, <2>7, <3>2
      <3>. QED BY <1>4, <2>4, <3>3
    <2>. QED BY <2>6, <2>7
  <1>9. ASSUME NEW x, <<x, a>> \in uses
        PROVE  Goal
    <2>1. x \in UNION {Nics, Balancers, Gateways, {Elsewhere}}
      BY <1>9, UseFacts
    <2>. QED BY <1>6, <1>7, <1>8, <1>9, <2>1
  <1>. QED BY <1>5, <1>9 DEF Goal

\* No gateway and no balancer is carried twice.
LEMMA GatewayOnce ==
  ASSUME Now \in Inventories, Exclusive(uses), Whole,
         NEW r \in exists \cap (Gateways \cup Balancers)
  PROVE  Cardinality(Carrying(r)) <= 1
  <1>0. \A f \in report : \E c \in AllChecks : f \in AtOnce(c)
    BY DEF Whole
  <1>1. CASE r \in Balancers
    <2>1. \A f \in Carrying(r) :
            f = Finding("idle_load_balancer", r,
                        ({r} \ Unbilled) \cup HeldPublicIps(UsesOf(Now, r), PublicIpsById(Now)))
      BY <1>0, <1>1, Carriers DEF Carrying
    <2>. QED BY <2>1, CountFacts
  <1>2. CASE r \in Gateways
    <2>1. \A f \in Carrying(r) :
            \/ f = Finding("idle_nat_gateway", r, {r}) /\ UsersOf(Now, r) = {}
            \/ \E w \in Networks :
                 /\ UsersOf(Now, r) \cap SubnetsOf(Now, w) # {}
                 /\ f = Finding("empty_vnet", w, AttachedNow(w))
      BY <1>0, <1>2, Carriers DEF Carrying
    <2>2. ASSUME NEW w \in Networks, NEW u \in Networks,
                 UsersOf(Now, r) \cap SubnetsOf(Now, w) # {},
                 UsersOf(Now, r) \cap SubnetsOf(Now, u) # {}
          PROVE  w = u
      <3>1. PICK s : s \in UsersOf(Now, r) /\ s \in SubnetsOf(Now, w)
        BY <2>2
      <3>2. PICK t : t \in UsersOf(Now, r) /\ t \in SubnetsOf(Now, u)
        BY <2>2
      <3>3. <<s, r>> \in uses /\ <<t, r>> \in uses
        BY <3>1, <3>2, NowFacts
      <3>4. NetworkOf[s] = NetworkOf[t]
        BY <1>2, <3>3, OneHolder
      <3>. QED BY <3>1, <3>2, <3>4 DEF SubnetsOf
    <2>3. \A f, g \in Carrying(r) : f = g
      BY <2>1, <2>2
    <2>. QED BY <2>3, CountFacts
  <1>. QED BY <1>1, <1>2

\* What was found so far is what is found at once, of the checks that are done:
\* with nobody else at work, and before the cleanup takes its first finding.
Undisturbed == touched = {} /\ (phase = "scanning" \/ todo = report)

CountInv ==
  /\ Exclusive(uses)
  /\ phase = "cleaning" => queue = <<>>
  /\ queue = <<>> => views = <<>>
  /\ Undisturbed =>
       /\ \A i \in 1..Len(views) : views[i] = Now
       /\ \A f \in report : \E c \in AllChecks : f \in AtOnce(c)
       /\ \A i \in 1..Len(scope.checks) :
            \/ \E j \in 1..Len(queue) : queue[j] = scope.checks[i]
            \/ AtOnce(scope.checks[i]) \subseteq report

\* A check whose lists are all of one moment finds what it would find at once.
LEMMA FoundAtOnce ==
  ASSUME Now \in Inventories, NEW c \in AllChecks, NEW v,
         Len(v) \in 1..3, \A i \in 1..Len(v) : v[i] = Now, ~AsksAgain(c, v)
  PROVE  Found(c, v) = AtOnce(c)
  <1>. DEFINE w == <<Now, Now, Now>>
  <1>1. w[1] = Now /\ w[2] = Now /\ w[3] = Now /\ Len(w) = 3
    OBVIOUS
  <1>2. AtOnce(c) = Found(c, w)
    BY DEF AtOnce
  <1>. HIDE DEF w
  <1>3. v[1] = Now /\ (Len(v) >= 2 => v[2] = Now) /\ (Len(v) = 3 => v[3] = Now)
    OBVIOUS
  <1>. USE <1>1, <1>2, <1>3 DEF Found, AsksAgain
  <1>4. CASE c \in {"unattached_disk", "unused_public_ip", "idle_nat_gateway", "unused_subnet", "unused_nsg"}
    BY <1>4 DEF UnattachedDisk, UnusedPublicIp, IdleNatGateway, UnusedSubnet, UnusedNsg
  <1>5. CASE c \in {"empty_vnet", "orphaned_snapshot", "unused_image"}
    <2>1. v[1] = Now /\ v[2] = Now
      BY <1>5
    <2>2. EmptyVnet(v) = EmptyVnet(w)
      <3>. DEFINE found(x, y) ==
             {Finding("empty_vnet", n,
                      {g \in Listed(x, Gateways) : UsersOf(x, g) \cap SubnetsOf(y, n) # {}}) :
                n \in {n \in Listed(y, Networks) :
                         \A s \in SubnetsOf(y, n) : UsersOf(y, s) \cap Nics = {}}}
      <3>1. EmptyVnet(v) = found(v[1], v[2]) /\ EmptyVnet(w) = found(w[1], w[2])
        BY Zenon DEF EmptyVnet
      <3>. HIDE DEF found
      <3>. QED BY <2>1, <3>1
    <2>. QED BY <1>5, <2>1, <2>2 DEF OrphanedSnapshot, UnusedImage
  <1>6. CASE c = "orphaned_nic"
    <2>1. Orphans(v) = Orphans(w)
      BY DEF Orphans
    <2>2. CASE Len(v) = 1
      <3>1. Orphans(w) = {}
        BY <1>6, <2>1, <2>2
      <3>. QED BY <1>6, <2>2, <3>1 DEF OrphanedNic
    <2>3. CASE Len(v) # 1
      BY <1>6, <2>1, <2>3 DEF OrphanedNic
    <2>. QED BY <2>2, <2>3
  <1>7. CASE c = "idle_load_balancer"
    <2>1. IdleBalancers(v) = IdleBalancers(w)
      BY DEF IdleBalancers
    <2>2. CASE Len(v) = 1
      <3>1. IdleBalancers(w) = {}
        BY <1>7, <2>1, <2>2
      <3>. QED BY <1>7, <2>2, <3>1 DEF IdleLoadBalancer
    <2>3. CASE Len(v) # 1
      <3>1. IdleLoadBalancer(v) = IdleLoadBalancer(w)
        <4>. DEFINE found(x, y, idle) ==
               {Finding("idle_load_balancer", b,
                        ({b} \ Unbilled) \cup HeldPublicIps(UsesOf(x, b), PublicIpsById(y))) :
                  b \in idle}
        <4>1. /\ IdleLoadBalancer(v) = found(v[1], v[2], IdleBalancers(v))
              /\ IdleLoadBalancer(w) = found(w[1], w[2], IdleBalancers(w))
          BY Zenon DEF IdleLoadBalancer
        <4>2. v[2] = Now
          BY <2>3
        <4>. HIDE DEF found
        <4>. QED BY <2>1, <4>1, <4>2
      <3>. QED BY <1>7, <2>3, <3>1
    <2>. QED BY <2>2, <2>3
  <1>8. CASE c = "deallocated_vm"
    <2>1. Len(v) # 1
      BY <1>8
    <2>2. IdleVMs(v) = IdleVMs(w)
      BY <2>1 DEF IdleVMs
    <2>3. CASE Len(v) = 2
      <3>1. IdleVMs(w) = {}
        BY <1>8, <2>2, <2>3
      <3>. QED BY <1>8, <2>3, <3>1 DEF DeallocatedVm
    <2>4. CASE Len(v) = 3
      <3>1. \A m : VmCharges(v, m) = VmCharges(w, m)
        <4>. DEFINE charges(x, y, z, m) ==
               (UsesOf(y, m) \cap Listed(x, Disks))
                 \cup HeldPublicIps(UNION {UsesOf(z, n) : n \in UsesOf(y, m) \cap Nics},
                                    PublicIpsById(z))
        <4>1. \A m : VmCharges(v, m) = charges(v[1], v[2], v[3], m)
                      /\ VmCharges(w, m) = charges(w[1], w[2], w[3], m)
          BY Zenon DEF VmCharges
        <4>. HIDE DEF charges
        <4>. QED BY <2>4, <4>1
      <3>. QED BY <1>8, <2>2, <2>4, <3>1 DEF DeallocatedVm
    <2>5. Len(v) \in {1, 2, 3}
      OBVIOUS
    <2>. QED BY <2>1, <2>3, <2>4, <2>5
  <1>. QED BY <1>4, <1>5, <1>6, <1>7, <1>8 DEF AllChecks

LEMMA InitCount == Init => CountInv
  <1>. SUFFICES ASSUME Init PROVE CountInv
    OBVIOUS
  <1>1. Exclusive(uses) /\ phase = "scanning" /\ queue = scope.checks /\ views = <<>> /\ report = {}
    BY DEF Init, InventoryInit
  <1>2. Len(views) = 0
    BY <1>1
  <1>. QED BY <1>1, <1>2 DEF CountInv

LEMMA StaysExclusive ==
  /\ \A links, more : Exclusive(more) /\ links \subseteq more => Exclusive(links)
  /\ TypeOK /\ Exclusive(uses) /\ [Next]_vars => Exclusive(uses)'
  <1>1. \A links, more : Exclusive(more) /\ links \subseteq more => Exclusive(links)
    BY DEF Exclusive
  <1>2. ASSUME TypeOK, Exclusive(uses), [Next]_vars
        PROVE  Exclusive(uses)'
    <2>. SUFFICES Exclusive(uses')
      BY DEF Exclusive
    <2>1. CASE uses' \subseteq uses
      BY <1>1, <1>2, <2>1
    <2>2. CASE Scan \/ UNCHANGED vars
      BY <2>1, <2>2 DEF Scan, Read, ReadLast, StartCleaning, Rescan, vars
    <2>3. ASSUME NEW f \in todo, Clean(f)
          PROVE  uses' \subseteq uses
      BY <1>2, <2>3, CleanFacts DEF TypeOK
    <2>4. CASE OthersAttach
      <3>1. PICK l \in Links : Attach(l[1], l[2])
        BY <2>4 DEF OthersAttach
      <3>. QED BY <3>1 DEF Attach
    <2>5. CASE Others /\ ~OthersAttach
      <3>1. uses' \subseteq uses
        BY <2>5 DEF Others, OthersCreate, OthersRemove, OthersDetach, OthersPower,
                    Create, Remove, Removed, Detach, Power
      <3>. QED BY <2>1, <3>1
    <2>. QED BY <1>2, <2>1, <2>2, <2>3, <2>4, <2>5 DEF Next
  <1>. QED BY <1>1, <1>2

\* Somebody who changes something leaves a trace.
LEMMA OthersTouch ==
  ASSUME Others
  PROVE  touched' # {}
  <1>1. ASSUME NEW x, NEW things, x \in things, Touch(things)
        PROVE  touched' # {}
    BY <1>1 DEF Touch
  <1>2. ASSUME NEW l \in Links
        PROVE  {l[1], l[2]} \ {Elsewhere} # {}
    <2>1. l = <<l[1], l[2]>> /\ l \in Kinds
      BY LinkFacts, InventoryAssumption
    <2>2. Elsewhere \notin Resources
      BY InventoryAssumption
    <2>3. l[1] \in Resources \/ l[2] \in Resources
      BY <2>1, ResourceFacts DEF Kinds
    <2>. QED BY <2>2, <2>3
  <1>3. CASE OthersAttach \/ OthersDetach
    <2>1. PICK l \in Links : Touch({l[1], l[2]} \ {Elsewhere})
      BY <1>3 DEF OthersAttach, OthersDetach
    <2>2. PICK x : x \in {l[1], l[2]} \ {Elsewhere}
      BY <1>2
    <2>. QED BY <1>1, <2>1, <2>2
  <1>4. CASE OthersCreate \/ OthersRemove \/ OthersPower
    <2>1. PICK x : Touch({x})
      BY <1>4 DEF OthersCreate, OthersRemove, OthersPower
    <2>. QED BY <1>1, <2>1
  <1>. QED BY <1>3, <1>4 DEF Others

LEMMA NextCount == TypeOK /\ CountInv /\ [Next]_vars => CountInv'
  <1>. SUFFICES ASSUME TypeOK, CountInv, [Next]_vars PROVE CountInv'
    OBVIOUS
  <1>0. Exclusive(uses)'
    BY StaysExclusive DEF CountInv
  <1>. USE DEF vars, sweepVars
  <1>1. /\ views \in Seq(Inventories) /\ Len(views) \in 0..2 /\ Now \in Inventories
        /\ queue \in Seq(AllChecks) /\ scope.checks \in Seq(AllChecks) /\ scope.checks # <<>>
        /\ todo \subseteq report
    <2>1. scope \in Scopes /\ Now \in Inventories /\ todo \subseteq report
            /\ queue \in Seq(AllChecks)
      BY DEF TypeOK
    <2>2. views \in Seq(Inventories) /\ Len(views) <= 2
      BY DEF TypeOK
    <2>3. Len(views) \in Nat
      BY <2>2
    <2>4. scope.checks \in Seq(AllChecks) /\ scope.checks # <<>>
      BY <2>1, SweepAssumption
    <2>5. \A n \in Nat : n <= 2 => n \in 0..2
      OBVIOUS
    <2>6. Len(views) \in 0..2
      BY <2>2, <2>3, <2>5
    <2>. QED BY <2>1, <2>2, <2>4, <2>6
  <1>2. ASSUME UNCHANGED inventoryVars
        PROVE  Now' = Now /\ \A c : AtOnce(c)' = AtOnce(c)
    <2>1. Now' = Now
      BY <1>2 DEF Now
    <2>. QED BY <2>1 DEF AtOnce
  <1>3. \A i \in 1..Len(Append(views, Now)) :
          Append(views, Now)[i] = IF i <= Len(views) THEN views[i] ELSE Now
    BY <1>1
  <1>4. Len(Append(views, Now)) = Len(views) + 1
    BY <1>1
  <1>5. CASE Read
    <2>1. /\ UNCHANGED <<inventoryVars, scope, phase, queue, report, todo, touched>>
          /\ views' = Append(views, Now) /\ queue # <<>>
      BY <1>5 DEF Read
    <2>2. Undisturbed => \A i \in 1..Len(views') : views'[i] = Now
      BY <1>1, <1>3, <1>4, <2>1 DEF CountInv
    <2>. QED BY <1>0, <1>2, <2>1, <2>2 DEF CountInv, Undisturbed
  <1>6. CASE ReadLast
    <2>. DEFINE v == Append(views, Now)
    <2>1. /\ UNCHANGED <<inventoryVars, scope, phase, todo, touched>>
          /\ phase = "scanning" /\ queue # <<>> /\ ~AsksAgain(Head(queue), v)
          /\ report' = report \cup Found(Head(queue), v)
          /\ queue' = Tail(queue) /\ views' = <<>>
      BY <1>6 DEF ReadLast
    <2>2. CASE touched # {}
      BY <1>0, <2>1, <2>2 DEF CountInv, Undisturbed
    <2>3. CASE touched = {}
      <3>1. Undisturbed
        BY <2>1, <2>3 DEF Undisturbed
      <3>2. \A i \in 1..Len(v) : v[i] = Now
        BY <1>1, <1>3, <1>4, <3>1 DEF CountInv
      <3>3. Head(queue) \in AllChecks /\ Len(v) \in 1..3
        <4>1. Head(queue) \in AllChecks
          BY <2>1, HeadFacts
        <4>2. ASSUME NEW n \in 0..2 PROVE n + 1 \in 1..3
          OBVIOUS
        <4>3. Len(v) \in 1..3
          BY <1>1, <1>4, <4>2
        <4>. QED BY <4>1, <4>3
      <3>4. Found(Head(queue), v) = AtOnce(Head(queue))
        BY <1>1, <2>1, <3>2, <3>3, FoundAtOnce
      <3>5. report' = report \cup AtOnce(Head(queue))
        BY <2>1, <3>4
      <3>6. \A f \in report' : \E c \in AllChecks : f \in AtOnce(c)
        BY <3>1, <3>3, <3>5 DEF CountInv
      <3>7. ASSUME NEW i \in 1..Len(scope.checks)
            PROVE  \/ \E j \in 1..Len(queue') : queue'[j] = scope.checks[i]
                   \/ AtOnce(scope.checks[i]) \subseteq report'
        <4>1. CASE AtOnce(scope.checks[i]) \subseteq report
          BY <2>1, <4>1
        <4>2. ASSUME NEW j \in 1..Len(queue), queue[j] = scope.checks[i]
              PROVE  \/ \E k \in 1..Len(queue') : queue'[k] = scope.checks[i]
                     \/ AtOnce(scope.checks[i]) \subseteq report'
          <5>1. CASE j = 1
            <6>1. Head(queue) = queue[1]
              BY <1>1, <2>1
            <6>. QED BY <3>5, <4>2, <5>1, <6>1
          <5>2. CASE j # 1
            <6>1. j - 1 \in 1..Len(Tail(queue)) /\ Tail(queue)[j - 1] = queue[j]
              BY <1>1, <2>1, <5>2
            <6>. QED BY <2>1, <4>2, <6>1
          <5>. QED BY <5>1, <5>2
        <4>. QED BY <3>1, <4>1, <4>2 DEF CountInv
      <3>8. 1..Len(views') = {}
        BY <2>1
      <3>. HIDE DEF v
      <3>. QED BY <1>0, <1>2, <2>1, <3>6, <3>7, <3>8 DEF CountInv
    <2>. QED BY <2>2, <2>3
  <1>7. CASE StartCleaning
    <2>1. UNCHANGED <<inventoryVars, scope, queue, views, report, touched>>
            /\ phase = "scanning" /\ queue = <<>>
      BY <1>7 DEF StartCleaning
    <2>. QED BY <1>0, <1>2, <2>1 DEF CountInv, Undisturbed
  <1>8. CASE Rescan
    <2>1. UNCHANGED <<inventoryVars, scope, views>> /\ phase = "cleaning" /\ phase' = "scanning"
            /\ queue' = scope.checks /\ report' = {}
      BY <1>8 DEF Rescan
    <2>2. views = <<>> /\ Len(views') = 0
      BY <2>1 DEF CountInv
    <2>. QED BY <1>0, <1>1, <1>2, <2>1, <2>2 DEF CountInv
  <1>9. ASSUME NEW f \in todo, Clean(f)
        PROVE  CountInv'
    <2>1. UNCHANGED <<phase, queue, views, report, touched>> /\ phase = "cleaning"
            /\ todo' = todo \ {f}
      BY <1>9 DEF Clean
    <2>2. ~Undisturbed'
      BY <1>1, <2>1 DEF Undisturbed
    <2>. QED BY <1>0, <2>1, <2>2 DEF CountInv
  <1>10. CASE Others
    <2>1. UNCHANGED <<phase, queue, views>>
      BY <1>10, OthersFacts
    <2>2. ~Undisturbed'
      BY <1>10, OthersTouch DEF Undisturbed
    <2>. QED BY <1>0, <2>1, <2>2 DEF CountInv
  <1>11. CASE UNCHANGED vars
    BY <1>0, <1>2, <1>11 DEF CountInv, Undisturbed
  <1>. QED BY <1>5, <1>6, <1>7, <1>8, <1>9, <1>10, <1>11 DEF Next, Scan

LEMMA CountedOnce == TypeOK /\ CountInv => CarriedOnce
  <1>. SUFFICES ASSUME TypeOK, CountInv, Settled, FullScope
                PROVE  /\ \A r \in (exists \cap (Disks \cup Addresses)) \ Unbilled :
                            Cardinality(Carrying(r))
                              = IF OwnersOf(r) \subseteq Reported \ Gateways THEN 1 ELSE 0
                       /\ \A r \in exists \cap (Gateways \cup Balancers) :
                            Cardinality(Carrying(r)) <= 1
    BY DEF CarriedOnce, Carrying, Reported
  <1>1. Now \in Inventories /\ Exclusive(uses) /\ Undisturbed /\ queue = <<>>
    BY DEF TypeOK, CountInv, Settled, Undisturbed
  <1>2. Whole
    <2>1. \A f \in report : \E c \in AllChecks : f \in AtOnce(c)
      BY <1>1 DEF CountInv
    <2>2. ASSUME NEW c \in AllChecks
          PROVE  AtOnce(c) \subseteq report
      <3>1. PICK i \in 1..Len(scope.checks) : scope.checks[i] = c
        BY DEF FullScope
      <3>2. 1..Len(queue) = {}
        BY <1>1
      <3>. QED BY <1>1, <3>1, <3>2 DEF CountInv
    <2>. QED BY <2>1, <2>2 DEF Whole
  <1>. QED BY <1>1, <1>2, DiskOnce, AddressOnce, GatewayOnce

\* Of a scan nobody disturbed, the cost of every disk, address, gateway and
\* balancer is carried at most once, and that of a disk or an address exactly
\* when what has it is reported (helpers.py:251, unattached_disk.py:31,
\* orphaned_nic.py:107).
THEOREM ChargesCounted == Spec => []CarriedOnce
  BY InitTypeOK, NextTypeOK, InitCount, NextCount, CountedOnce, PTL DEF Spec
=============================================================================
