-------------------------------- MODULE Services --------------------------------
(***************************************************************************)
(* The checks of platform services and their cleaners.  Where the network  *)
(* checks compare lists, these read one thing after the other: a list of   *)
(* parents, what each holds, what it served in a week; any of these reads  *)
(* may be refused.  Deleting such a service deletes what is in it, so some *)
(* cleaners read it again while planning; between a plan and its apply the *)
(* operator reads it and confirms, and others go on working.               *)
(***************************************************************************)
EXTENDS Naturals, Sequences, FiniteSets, FiniteSetsExt

CONSTANTS
  Services,
  CheckOf,         \* CheckOf[s]: the check that can report s
  EnvironmentOf,   \* EnvironmentOf[p]: the apps environment of workload profile p
  Clusters,        \* the ML computes that are clusters; the others are instances
  Managed,         \* resource groups Azure manages, apps on a Dedicated profile,
                   \* profiles that are not Dedicated: never reported
  Bound,           \* Bound[s]: bound of load[s] and held[s]
  Holding,         \* the services that hold something up: held is 0 of the others
  MaxChanges       \* bound of what others change

AllChecks == {"idle_app_service_plan", "empty_container_apps_environment",
              "idle_workload_profile", "idle_container_app", "unused_availability_test",
              "unbounded_log_workspace", "idle_provisioned_deployment",
              "empty_container_registry", "idle_ml_compute", "unmanaged_storage_account",
              "disabled_key_vault_key", "stale_key_vault_secret",
              "empty_ai_services_account", "unused_dns_zone", "paused_sql_database",
              "aks_idle_cluster", "empty_resource_group", "unused_capacity_reservation",
              "idle_dedicated_host"}

Checks == {CheckOf[s] : s \in Services}

VARIABLES
  alive,      \* the services there are
  load,       \* load[s]: what keeps s from being idle: its apps, VMs, nodes,
              \* images, records, resources, deployments, requests in a week
  held,       \* held[s]: what it holds up meanwhile: reserved slots, minimum
              \* nodes, replicas or instances; of an AI account, its projects
  closed,     \* those that refuse to be read: firewalled, throttled, forbidden
  sealed,     \* storage accounts of which only the lifecycle policy refuses to be read
  check,      \* the check that runs
  phase,      \* "scanning", "planning", "applying"
  views,      \* what the check has read so far
  report,     \* what it found
  failed,     \* whether it raised
  plan,       \* plan[s]: the step planned for s
  changes,    \* how often others changed something
  filled      \* those somebody changed since their last read

world == <<alive, load, held, closed, sealed>>
tool == <<check, phase, views, report, failed, plan>>
vars == <<world, tool, changes, filled>>

Members == [c \in Checks |-> {s \in Services : CheckOf[s] = c}]
Of(c) == IF c \in Checks THEN Members[c] ELSE {}
ProfilesOf(e) == {p \in DOMAIN EnvironmentOf : EnvironmentOf[p] = e}

ASSUME ServicesAssumption ==
  /\ IsFiniteSet(Services)
  /\ CheckOf \in [Services -> AllChecks]
  /\ DOMAIN EnvironmentOf = Of("idle_workload_profile")
  /\ \A p \in DOMAIN EnvironmentOf :
       EnvironmentOf[p] \in Of("empty_container_apps_environment")
  /\ Clusters \subseteq Of("idle_ml_compute")
  /\ Managed \subseteq UNION {Of("idle_workload_profile"), Of("idle_container_app"),
                             Of("empty_resource_group")}
  /\ Bound \in [Services -> Nat \ {0}]
  /\ Holding \subseteq Services
  /\ MaxChanges \in Nat

None == [do |-> "none", to |-> 0]
Refused == [do |-> "refused", to |-> 0]
Delete == [do |-> "delete", to |-> 0]
Steps == {None, Refused, Delete} \cup [do : {"set"}, to : Nat]

Now == [alive |-> alive, load |-> load, held |-> held, closed |-> closed, sealed |-> sealed]

----------------------------------------------------------------------------
(* The checks: v[i] is the world at the moment of the i-th read.  A list   *)
(* of a whole subscription is never refused, a read of one parent may be.  *)

\* numberOfSites is 0.
IdleAppServicePlan(v) ==
  {s \in Of("idle_app_service_plan") \cap v[1].alive : v[1].load[s] = 0}

\* The environments some app runs in, and the profiles it runs on.
ProfilesInUse(view) == {p \in Of("idle_workload_profile") : view.load[p] > 0}
EnvironmentsInUse(view) == {EnvironmentOf[p] : p \in ProfilesInUse(view)}

\* Apps first, environments second.
EmptyContainerAppsEnvironment(v) ==
  {e \in Of("empty_container_apps_environment") \cap v[2].alive :
     e \notin EnvironmentsInUse(v[1])}

\* Of an environment with apps, the Dedicated profiles that keep instances up
\* for none of them.
IdleWorkloadProfile(v) ==
  {p \in Of("idle_workload_profile") \ Managed :
     /\ EnvironmentOf[p] \in v[2].alive \cap EnvironmentsInUse(v[1])
     /\ p \notin ProfilesInUse(v[1])
     /\ v[2].held[p] > 0}

Candidates(v) == {s \in Of("idle_container_app") \cap v[1].alive : v[1].held[s] > 0}

\* minReplicas keeps some up; on Consumption; no request in a week.
IdleContainerApp(v) == {s \in Candidates(v) \ Managed : v[3].load[s] = 0}

\* A component it is linked to is not among the live ones listed first.
UnusedAvailabilityTest(v) ==
  {s \in Of("unused_availability_test") \cap v[2].alive : v[1].load[s] = 0}

\* No daily cap, and a retention that is billed.
UnboundedLogWorkspace(v) ==
  {s \in Of("unbounded_log_workspace") \cap v[1].alive : v[1].load[s] = 0}

Provisioned(v) == Of("idle_provisioned_deployment") \cap v[2].alive

\* A deployment with no series in the account's metrics has served nothing.
IdleProvisionedDeployment(v) == {s \in Provisioned(v) : v[3].load[s] = 0}

\* Mutant: a registry that will not say counts as empty.
EmptyContainerRegistry_RefusalIsEmpty(v) ==
  {s \in Of("empty_container_registry") \cap v[1].alive :
     s \in v[2].closed \/ v[2].load[s] = 0}

\* listUsages; a registry that will not say is not empty.
EmptyContainerRegistry(v) ==
  {s \in Of("empty_container_registry") \cap v[1].alive :
     s \notin v[2].closed /\ v[2].load[s] = 0}

\* An instance that never stops; a cluster whose minimum holds idle nodes up.
IdleNodes(view, s) == IF view.held[s] > view.load[s] THEN view.held[s] - view.load[s] ELSE 0
IdleMinimum(view, s) == Min({view.held[s], IdleNodes(view, s)})
IdleMlCompute(v) ==
  {s \in Of("idle_ml_compute") \cap v[2].alive :
     IF s \in Clusters THEN IdleMinimum(v[2], s) > 0 ELSE v[2].load[s] = 0}

Versioned(v) == (Of("unmanaged_storage_account") \cap v[1].alive) \ v[2].closed

\* Whatever error answers the read of the policy, there is none.
UnmanagedStorageAccount(v) ==
  {s \in Versioned(v) : s \in v[3].closed \cup v[3].sealed \/ v[3].load[s] = 0}

\* A vault that refuses contributes nothing.
AcrossParents(v, c) == (Of(c) \cap v[2].alive) \ v[2].closed

DisabledKeyVaultKey(v) == {s \in AcrossParents(v, "disabled_key_vault_key") : v[2].load[s] = 0}
StaleKeyVaultSecret(v) == {s \in AcrossParents(v, "stale_key_vault_secret") : v[2].load[s] = 0}

Undeployed(v) == {s \in Of("empty_ai_services_account") \cap v[1].alive : v[2].load[s] = 0}

\* Neither a deployment nor a project.
EmptyAiServicesAccount(v) == {s \in Undeployed(v) : v[3].held[s] = 0}

\* Nothing but the record sets Azure made.
UnusedDnsZone(v) == {s \in Of("unused_dns_zone") \cap v[1].alive : v[1].load[s] = 0}

PausedSqlDatabase(v) == {s \in Of("paused_sql_database") \cap v[2].alive : v[2].load[s] = 0}

AksIdleCluster(v) == {s \in Of("aks_idle_cluster") \cap v[1].alive : v[1].load[s] = 0}

\* The groups with resources first, all groups second.
EmptyResourceGroup(v) ==
  {s \in (Of("empty_resource_group") \cap v[2].alive) \ Managed : v[1].load[s] = 0}

\* Slots billed and in use: as the instance view of the group has them, or, of
\* a reservation it does not know yet, as the reservation says itself.
Usage(group, own, s) ==
  LET view == IF s \in group.alive THEN group ELSE own
  IN [billed |-> view.held[s], used |-> view.load[s]]
UnusedCapacityReservation(v) ==
  {s \in Of("unused_capacity_reservation") \cap v[3].alive :
     Usage(v[2], v[3], s).billed > Usage(v[2], v[3], s).used}

IdleDedicatedHost(v) == {s \in Of("idle_dedicated_host") \cap v[2].alive : v[2].load[s] = 0}

----------------------------------------------------------------------------
(* The scan.                                                               *)

ReadsOf(c) ==
  CASE c \in {"idle_app_service_plan", "unbounded_log_workspace", "unused_dns_zone",
              "aks_idle_cluster"} -> 1
    [] c \in {"idle_container_app", "idle_provisioned_deployment", "unmanaged_storage_account",
              "empty_ai_services_account", "unused_capacity_reservation"} -> 3
    [] OTHER -> 2

\* Not all of them when there is nothing to ask about.
AsksAgain(c, v) ==
  /\ Len(v) < ReadsOf(c)
  /\ c = "idle_container_app" => Candidates(v) # {}
  /\ c = "idle_provisioned_deployment" /\ Len(v) = 2 => Provisioned(v) # {}
  /\ c = "unmanaged_storage_account" /\ Len(v) = 2 => Versioned(v) # {}
  /\ c = "empty_ai_services_account" /\ Len(v) = 2 => Undeployed(v) # {}

\* The services whose refusal the next read does not survive: a skipped one
\* would be reported as absent.
MustAnswer(c, v) ==
  CASE c \in {"idle_provisioned_deployment", "idle_ml_compute", "paused_sql_database",
              "unused_capacity_reservation", "idle_dedicated_host"} /\ Len(v) >= 1 ->
         Of(c) \cap alive
    [] c = "empty_ai_services_account" /\ Len(v) = 1 -> Of(c) \cap v[1].alive
    [] c = "empty_ai_services_account" /\ Len(v) = 2 -> Undeployed(v)
    [] c = "idle_container_app" /\ Len(v) = 2 -> Candidates(v) \ Managed
    [] OTHER -> {}

Found(c, v) ==
  IF Len(v) < ReadsOf(c) THEN {}
  ELSE CASE c = "idle_app_service_plan" -> IdleAppServicePlan(v)
         [] c = "empty_container_apps_environment" -> EmptyContainerAppsEnvironment(v)
         [] c = "idle_workload_profile" -> IdleWorkloadProfile(v)
         [] c = "idle_container_app" -> IdleContainerApp(v)
         [] c = "unused_availability_test" -> UnusedAvailabilityTest(v)
         [] c = "unbounded_log_workspace" -> UnboundedLogWorkspace(v)
         [] c = "idle_provisioned_deployment" -> IdleProvisionedDeployment(v)
         [] c = "empty_container_registry" -> EmptyContainerRegistry(v)
         [] c = "idle_ml_compute" -> IdleMlCompute(v)
         [] c = "unmanaged_storage_account" -> UnmanagedStorageAccount(v)
         [] c = "disabled_key_vault_key" -> DisabledKeyVaultKey(v)
         [] c = "stale_key_vault_secret" -> StaleKeyVaultSecret(v)
         [] c = "empty_ai_services_account" -> EmptyAiServicesAccount(v)
         [] c = "unused_dns_zone" -> UnusedDnsZone(v)
         [] c = "paused_sql_database" -> PausedSqlDatabase(v)
         [] c = "aks_idle_cluster" -> AksIdleCluster(v)
         [] c = "empty_resource_group" -> EmptyResourceGroup(v)
         [] c = "unused_capacity_reservation" -> UnusedCapacityReservation(v)
         [] c = "idle_dedicated_host" -> IdleDedicatedHost(v)

Read ==
  /\ phase = "scanning"
  /\ MustAnswer(check, views) \cap closed = {}
  /\ IF AsksAgain(check, Append(views, Now))
     THEN views' = Append(views, Now) /\ UNCHANGED <<phase, report>>
     ELSE /\ report' = Found(check, Append(views, Now))
          /\ phase' = "planning"
          /\ views' = <<>>
  /\ UNCHANGED <<world, check, failed, plan, changes, filled>>

\* A refused read ends the check; the report says so and has nothing of it.
Raise ==
  /\ phase = "scanning"
  /\ MustAnswer(check, views) \cap closed # {}
  /\ failed' = TRUE
  /\ phase' = "planning"
  /\ views' = <<>>
  /\ UNCHANGED <<world, check, report, plan, changes, filled>>

----------------------------------------------------------------------------
(* The cleaners.  A service that cannot be read again is not planned for.  *)

Uncleanable == {"idle_workload_profile", "idle_container_app", "unbounded_log_workspace",
                "unmanaged_storage_account", "stale_key_vault_secret"}

CleanIdleDedicatedHost(s) ==
  IF s \in closed \/ s \notin alive \/ load[s] > 0 THEN Refused ELSE Delete

\* Down to the slots in use now; deleted when there are none.
CleanUnusedCapacityReservation(s) ==
  LET now == Usage(Now, Now, s)
  IN IF s \in closed \/ s \notin alive \/ now.billed <= now.used THEN Refused
     ELSE IF now.used = 0 THEN Delete
     ELSE [do |-> "set", to |-> now.used]

\* A stop, or a minimum of zero: nothing is deleted.
CleanIdleMlCompute(s) ==
  IF s \in closed \/ s \notin alive \/ (s \notin Clusters /\ load[s] > 0) THEN Refused
  ELSE [do |-> "set", to |-> 0]

CleanIdleProvisionedDeployment(s) ==
  IF s \in closed \/ load[s] > 0 THEN Refused ELSE Delete

CleanEmptyAiServicesAccount(s) ==
  IF s \in closed \/ s \notin alive \/ load[s] > 0 \/ held[s] > 0 THEN Refused ELSE Delete

CleanEmptyContainerAppsEnvironment(e) ==
  IF e \in closed \/ e \in EnvironmentsInUse(Now) THEN Refused ELSE Delete

\* Mutant: the group is not listed again.
CleanEmptyResourceGroup_NoReread(s) == Delete

CleanEmptyResourceGroup(s) ==
  IF s \in closed \/ s \notin alive \/ load[s] > 0 THEN Refused ELSE Delete

\* The checks whose cleaners read again.
Rereading == {"idle_dedicated_host", "unused_capacity_reservation", "idle_ml_compute",
              "idle_provisioned_deployment", "empty_ai_services_account",
              "empty_container_apps_environment", "empty_resource_group"}

StepFor(s) ==
  CASE check = "idle_dedicated_host" -> CleanIdleDedicatedHost(s)
    [] check = "unused_capacity_reservation" -> CleanUnusedCapacityReservation(s)
    [] check = "idle_ml_compute" -> CleanIdleMlCompute(s)
    [] check = "idle_provisioned_deployment" -> CleanIdleProvisionedDeployment(s)
    [] check = "empty_ai_services_account" -> CleanEmptyAiServicesAccount(s)
    [] check = "empty_container_apps_environment" -> CleanEmptyContainerAppsEnvironment(s)
    [] check = "empty_resource_group" -> CleanEmptyResourceGroup(s)
    [] check \in Uncleanable -> Refused
    [] OTHER -> Delete

Plan(s) ==
  /\ phase = "planning"
  /\ s \in report /\ plan[s] = None
  /\ plan' = [plan EXCEPT ![s] = StepFor(s)]
  /\ filled' = IF check \in Rereading THEN filled \ {s} ELSE filled
  /\ UNCHANGED <<world, check, phase, views, report, failed, changes>>

\* All are planned, shown and confirmed before the first is sent.
Confirm ==
  /\ phase = "planning"
  /\ \A s \in report : plan[s] # None
  /\ phase' = "applying"
  /\ UNCHANGED <<world, check, views, report, failed, plan, changes, filled>>

\* Two deletes ARM refuses while something is inside.
RefusedByArm(s) ==
  CheckOf[s] \in {"idle_app_service_plan", "idle_dedicated_host"} /\ load[s] > 0

Gone(s) == {s} \cup ProfilesOf(s)

Apply(s) ==
  /\ phase = "applying"
  /\ plan[s].do \in {"delete", "set"}
  /\ plan' = [plan EXCEPT ![s] = Refused]
  /\ IF s \notin alive \/ (plan[s] = Delete /\ RefusedByArm(s)) THEN UNCHANGED world
     ELSE IF plan[s] = Delete
     THEN /\ alive' = alive \ Gone(s)
          /\ load' = [x \in Services |-> IF x \in Gone(s) THEN 0 ELSE load[x]]
          /\ UNCHANGED <<held, closed, sealed>>
     ELSE /\ held' = [held EXCEPT ![s] = plan[s].to]
          /\ UNCHANGED <<alive, load, closed, sealed>>
  /\ UNCHANGED <<check, phase, views, report, failed, changes, filled>>

----------------------------------------------------------------------------
(* Others, who go on working with the services this check is about.        *)

Related(c) ==
  IF c \in {"idle_workload_profile", "empty_container_apps_environment"}
  THEN Of("idle_workload_profile") \cup Of("empty_container_apps_environment")
  ELSE Of(c)

Changed(s) ==
  /\ changes < MaxChanges
  /\ changes' = changes + 1
  /\ filled' = filled \cup {s} \cup {e \in Services : s \in ProfilesOf(e)}
  /\ UNCHANGED tool

\* What is listed with everything else of its kind is never refused alone.
Closable ==
  {s \in Services : CheckOf[s] \notin
     {"idle_app_service_plan", "idle_workload_profile", "unused_availability_test",
      "unbounded_log_workspace", "unused_dns_zone", "aks_idle_cluster"}}

\* A lifecycle policy is a resource of its own, with permissions of its own.
Sealable(c) == Of(c) \cap Of("unmanaged_storage_account")

OthersLoad ==
  \E s \in (Related(check) \cap alive) \ Of("empty_container_apps_environment") :
  \E n \in 0..Bound[s] \ {load[s]} :
    /\ load' = [load EXCEPT ![s] = n]
    /\ UNCHANGED <<alive, held, closed, sealed>>
    /\ Changed(s)

OthersHold ==
  \E s \in Related(check) \cap alive \cap Holding :
  \E n \in 0..Bound[s] \ {held[s]} :
    /\ held' = [held EXCEPT ![s] = n]
    /\ UNCHANGED <<alive, load, closed, sealed>>
    /\ Changed(s)

OthersClose ==
  \E s \in Of(check) \cap Closable :
    /\ closed' = (closed \cup {s}) \ (closed \cap {s})
    /\ UNCHANGED <<alive, load, held, sealed>>
    /\ Changed(s)

OthersSeal ==
  \E s \in Sealable(check) :
    /\ sealed' = (sealed \cup {s}) \ (sealed \cap {s})
    /\ UNCHANGED <<alive, load, held, closed>>
    /\ Changed(s)

OthersCreate ==
  \E s \in Related(check) \ (alive \cup DOMAIN EnvironmentOf) :
    /\ alive' = alive \cup Gone(s)
    /\ UNCHANGED <<load, held, closed, sealed>>
    /\ Changed(s)

Others == OthersLoad \/ OthersHold \/ OthersClose \/ OthersSeal \/ OthersCreate

Numbers(some) ==
  {f \in [some -> 0..Max({Bound[s] : s \in some} \cup {0})] : \A s \in some : f[s] <= Bound[s]}
Filled(f) == [s \in Services |-> IF s \in DOMAIN f THEN f[s] ELSE 0]

Init ==
  /\ check \in Checks
  /\ alive \in {Services \ gone : gone \in {{}} \cup {Gone(s) : s \in Of(check) \ DOMAIN EnvironmentOf}}
  /\ \E f \in Numbers((alive \cap Related(check)) \ Of("empty_container_apps_environment")) :
       load = Filled(f)
  /\ \E f \in Numbers(alive \cap Related(check) \cap Holding) : held = Filled(f)
  /\ closed \in SUBSET (Of(check) \cap Closable)
  /\ sealed \in SUBSET Sealable(check)
  /\ phase = "scanning"
  /\ views = <<>>
  /\ report = {}
  /\ failed = FALSE
  /\ plan = [s \in Services |-> None]
  /\ changes = 0
  /\ filled = {}

Next ==
  \/ Read \/ Raise \/ Confirm
  \/ \E s \in Services : Plan(s) \/ Apply(s)
  \/ Others

Spec == Init /\ [][Next]_vars

----------------------------------------------------------------------------
(* Properties.                                                             *)

Worlds ==
  [alive : SUBSET Services, load : [Services -> Nat], held : [Services -> Nat],
   closed : SUBSET Services, sealed : SUBSET Services]

\* Type correctness; in particular a check reads no more than it has use for,
\* reports services of its own kind only, and only those are planned for
\* (cleaners.py, registry.py).
TypeOK ==
  /\ Now \in Worlds
  /\ check \in Checks
  /\ phase \in {"scanning", "planning", "applying"}
  /\ views \in Seq(Worlds) /\ Len(views) < ReadsOf(check)
  /\ phase # "scanning" => views = <<>>
  /\ report \subseteq Of(check) /\ (phase = "scanning" => report = {})
  /\ failed \in BOOLEAN
  /\ plan \in [Services -> Steps] /\ \A s \in Services \ report : plan[s] = None
  /\ changes \in 0..MaxChanges
  /\ filled \subseteq Services

\* Where a refusal is read as "not known" and the rest is reported without it.
Skipping == {"empty_container_registry", "unmanaged_storage_account",
             "disabled_key_vault_key", "stale_key_vault_secret"}

\* What the check should find, in a world that stands still.
Idle(w, s) ==
  /\ s \in w.alive \ Managed
  /\ CASE CheckOf[s] = "empty_container_apps_environment" -> s \notin EnvironmentsInUse(w)
       [] CheckOf[s] = "idle_workload_profile" ->
            EnvironmentOf[s] \in EnvironmentsInUse(w) /\ w.load[s] = 0 /\ w.held[s] > 0
       [] CheckOf[s] = "idle_container_app" -> w.load[s] = 0 /\ w.held[s] > 0
       [] CheckOf[s] = "empty_ai_services_account" -> w.load[s] = 0 /\ w.held[s] = 0
       [] CheckOf[s] = "unused_capacity_reservation" \/ s \in Clusters -> w.held[s] > w.load[s]
       [] OTHER -> w.load[s] = 0
IdleIn(w) == {s \in Services : Idle(w, s)}

\* A check that nobody disturbed reports exactly what is idle.  A service that
\* refuses to be read is neither taken for an empty one nor passed over: it is
\* left out where the code says so, and fails the whole check, told as such,
\* elsewhere (empty_container_registry.py:41, helpers.py:323,
\* idle_dedicated_host.py:85, idle_ml_compute.py:129).  Of a storage account that
\* keeps only its policy to itself nothing is said: RefusalIsNotEmptiness.
StillScanIsExact ==
  changes = 0 /\ phase = "planning" =>
    IF failed THEN report = {} /\ Of(check) \cap closed # {}
    ELSE report \ sealed =
           ((Of(check) \cap IdleIn(Now)) \ (IF check \in Skipping THEN closed ELSE {})) \ sealed

\* Does not hold: what a check reports is idle.  The comment of unmanaged_storage_account.py:153
\* has the missing policy answered with a 404; the code takes every ArmError for
\* one, a refusal and a throttled read too.
RefusalIsNotEmptiness == changes = 0 /\ phase = "planning" => report \subseteq IdleIn(Now)

InUse(s) ==
  \/ load[s] > 0
  \/ s \in EnvironmentsInUse(Now)
  \/ CheckOf[s] = "empty_ai_services_account" /\ held[s] > 0

\* What the cleanup deletes holds nothing, and what it shrinks keeps what is in
\* use, unless somebody put it there after the last read: that of the plan for
\* the cleaners that read again (cleaners.py:90, 119, 206, 234, 266, 473), the
\* scan's for the others; a plan of ARM's own guard loses nothing at all.
NothingInUseIsLost ==
  [][\A s \in Services :
       changes' = changes /\ InUse(s) =>
         /\ s \in alive \ alive' =>
              s \in filled /\ check \notin {"idle_app_service_plan", "idle_dedicated_host"}
         /\ check = "unused_capacity_reservation" /\ held'[s] < held[s] =>
              held'[s] >= load[s] \/ s \in filled]_vars
=============================================================================
