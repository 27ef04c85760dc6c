------------------------------- MODULE Inventory -------------------------------
(***************************************************************************)
(* The network and compute resources of one subscription, as ARM shows     *)
(* them: which exist, which uses which, and whether a VM runs.  This is    *)
(* what the checks read, one list at a time, while other people go on      *)
(* working with it.  It is Azure's side of the program, modelled from the  *)
(* fields the checks look at and from what the cleaners say ARM refuses.   *)
(***************************************************************************)
EXTENDS Integers, Sequences

CONSTANTS
  VMs, Disks, Nics, Addresses, Balancers, Gateways,
  Networks, Subnets, Nsgs, Snapshots, Images,
  NetworkOf,     \* NetworkOf[s]: the virtual network of subnet s
  SourceOf,      \* SourceOf[z]: the disk z is a snapshot of, or None
  BootedFrom,    \* BootedFrom[v]: the image v was built from, or None
  Unbilled,      \* addresses of a prefix, dynamic Basic ones, Basic balancers
  Links,         \* the uses there can be: <<x, y>>, x uses y
  Starts,        \* the inventories there may be at the beginning
  Elsewhere,     \* whatever else uses them: private endpoints, scale sets, ...
  None

Resources == UNION {VMs, Disks, Nics, Addresses, Balancers, Gateways,
                    Networks, Subnets, Nsgs, Snapshots, Images}

\* A resource is of one type, and its id says which.
Types == <<VMs, Disks, Nics, Addresses, Balancers, Gateways, Networks, Subnets, Nsgs,
           Snapshots, Images>>

Kinds == UNION {VMs \X (Disks \cup Nics), Nics \X (Addresses \cup Subnets \cup Nsgs),
                Balancers \X (Addresses \cup Nics \cup {Elsewhere}),
                Gateways \X Addresses, Subnets \X (Gateways \cup Nsgs),
                {Elsewhere} \X (Disks \cup Nics \cup Addresses \cup Subnets)}

\* What one list or query returns is a part of an inventory.
Inventories ==
  [exists : SUBSET Resources, uses : SUBSET Links,
   power : [VMs -> {"running", "stopped", "deallocated"}]]

ASSUME InventoryAssumption ==
  /\ \A i, j \in 1..11 : i # j => Types[i] \cap Types[j] = {}
  /\ Links \subseteq Kinds
  /\ NetworkOf \in [Subnets -> Networks]
  /\ SourceOf \in [Snapshots -> Disks \cup {None}]
  /\ BootedFrom \in [VMs -> Images \cup {None}]
  /\ Starts \subseteq Inventories
  /\ {Elsewhere, None} \cap Resources = {}

VARIABLES
  exists,        \* the resources there are
  uses,          \* the links between them
  power          \* power[v]: "running", "stopped" or "deallocated"

inventoryVars == <<exists, uses, power>>

Now == [exists |-> exists, uses |-> uses, power |-> power]

UsesOf(inv, x) == {y \in Resources \cup {Elsewhere} : <<x, y>> \in inv.uses}
UsersOf(inv, y) == {x \in Resources \cup {Elsewhere} : <<x, y>> \in inv.uses}

----------------------------------------------------------------------------
(* What Azure allows.                                                      *)

\* A disk, an address and a network card have one holder; a card may also be
\* in the pools of load balancers.  A subnet has one NAT gateway, and a gateway
\* serves subnets of one network.
Exclusive(links) ==
  \A l, m \in links :
    /\ l # m /\ l[2] = m[2] /\ l[2] \in Disks \cup Addresses \cup Nics =>
         l[2] \in Nics /\ (l[1] \in Balancers \/ m[1] \in Balancers)
    /\ l[2] \in Gateways /\ m[2] \in Gateways =>
         /\ l[1] = m[1] => l = m
         /\ l[2] = m[2] => NetworkOf[l[1]] = NetworkOf[m[1]]

Attach(x, y) ==
  /\ <<x, y>> \in Links \ uses
  /\ {x, y} \subseteq exists \cup {Elsewhere}
  /\ Exclusive(uses \cup {<<x, y>>})
  /\ uses' = uses \cup {<<x, y>>}
  /\ UNCHANGED <<exists, power>>

Detach(x, y) ==
  /\ <<x, y>> \in uses
  /\ uses' = uses \ {<<x, y>>}
  /\ UNCHANGED <<exists, power>>

\* Starting, stopping and deallocating a VM.
Power(v) ==
  /\ v \in exists
  /\ \E p \in {"running", "stopped", "deallocated"} \ {power[v]} :
       power' = [power EXCEPT ![v] = p]
  /\ UNCHANGED <<exists, uses>>

Create(x) ==
  /\ x \in Resources \ exists
  /\ x \in Subnets => NetworkOf[x] \in exists
  /\ exists' = exists \cup {x}
  /\ UNCHANGED <<uses, power>>

\* What goes with x: a network's subnets.  A VM's disks and cards stay.
With(x) == {x} \cup {s \in Subnets : NetworkOf[s] = x}

\* ARM refuses to delete what something still uses; a VM, and a load balancer
\* whatever is in its pools, may always go, and so may a card in such a pool.
Refused(x) ==
  \E y \in With(x) :
    UsersOf(Now, y) \ (IF y \in Nics THEN Balancers ELSE {}) # {}

\* A delete takes the links of x along.
Removed(x) ==
  /\ exists' = exists \ With(x)
  /\ uses' = {l \in uses : {l[1], l[2]} \cap With(x) = {}}
  /\ UNCHANGED power

\* Somebody deletes x.
Remove(x) ==
  /\ x \in exists
  /\ ~Refused(x)
  /\ Removed(x)

InventoryInit ==
  \E start \in Starts :
    /\ Exclusive(start.uses)
    /\ exists = start.exists
    /\ uses = start.uses
    /\ power = start.power
=============================================================================
