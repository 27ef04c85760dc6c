----------------------------- MODULE ServicesProofs -----------------------------
(***************************************************************************)
(* Proofs about Services, for any services, bounds and number of changes.  *)
(***************************************************************************)
EXTENDS Services, TLAPS

USE DEF world, tool

LEMMA OfFacts ==
  /\ \A c : Of(c) \subseteq Services
  /\ \A c, s : s \in Of(c) => CheckOf[s] = c
  /\ \A s \in Services : CheckOf[s] \in Checks /\ s \in Of(CheckOf[s])
  <1>1. \A c \in Checks : Members[c] = {s \in Services : CheckOf[s] = c}
    BY DEF Members
  <1>. QED BY <1>1 DEF Of, Checks

LEMMA AssumptionFacts ==
  /\ \A c \in Checks : c \in AllChecks
  /\ DOMAIN EnvironmentOf = Of("idle_workload_profile")
  /\ \A p \in DOMAIN EnvironmentOf :
       EnvironmentOf[p] \in Of("empty_container_apps_environment")
  /\ Clusters \subseteq Of("idle_ml_compute")
  /\ \A s \in Managed : \/ s \in Of("idle_workload_profile")
                        \/ s \in Of("idle_container_app")
                        \/ s \in Of("empty_resource_group")
  <1>1. \A c \in Checks : c \in AllChecks
    BY ServicesAssumption DEF Checks
  <1>. QED BY <1>1, ServicesAssumption

LEMMA ReadsFacts == \A c : ReadsOf(c) \in {1, 2, 3}
  BY DEF ReadsOf

\* The environments in use are those of profiles some app runs on.
LEMMA InUseFacts ==
  ASSUME NEW w
  PROVE  EnvironmentsInUse(w) = {EnvironmentOf[p] : p \in {p \in Of("idle_workload_profile") : w.load[p] > 0}}
  BY DEF EnvironmentsInUse, ProfilesInUse

\* The smaller of two numbers is positive when both are.
LEMMA MinFacts ==
  ASSUME NEW a \in Nat, NEW b \in Nat
  PROVE  Min({a, b}) > 0 <=> a > 0 /\ b > 0
  <1>1. \E x \in {a, b} : \A y \in {a, b} : x <= y
    OBVIOUS
  <1>2. Min({a, b}) \in {a, b} /\ \A y \in {a, b} : Min({a, b}) <= y
    BY <1>1 DEF Min
  <1>. QED BY <1>2

\* What a check reports is of its own kind.
LEMMA FoundIsOfTheCheck ==
  ASSUME NEW c \in Checks, NEW v
  PROVE  Found(c, v) \subseteq Of(c)
  <1>1. CASE Len(v) < ReadsOf(c)
    BY <1>1 DEF Found
  <1>2. CASE ~(Len(v) < ReadsOf(c))
    <2>1. c \in AllChecks
      BY AssumptionFacts
    <2>2. CASE c \in {"idle_app_service_plan", "empty_container_apps_environment",
                      "idle_workload_profile", "idle_container_app", "unused_availability_test"}
      BY <1>2, <2>2 DEF Found, IdleAppServicePlan, EmptyContainerAppsEnvironment,
           IdleWorkloadProfile, IdleContainerApp, Candidates, UnusedAvailabilityTest
    <2>3. CASE c \in {"unbounded_log_workspace", "idle_provisioned_deployment",
                      "empty_container_registry", "idle_ml_compute", "unmanaged_storage_account"}
      BY <1>2, <2>3 DEF Found, UnboundedLogWorkspace, IdleProvisionedDeployment, Provisioned,
           EmptyContainerRegistry, IdleMlCompute, UnmanagedStorageAccount, Versioned
    <2>4. CASE c \in {"disabled_key_vault_key", "stale_key_vault_secret",
                      "empty_ai_services_account", "unused_dns_zone", "paused_sql_database"}
      BY <1>2, <2>4 DEF Found, DisabledKeyVaultKey, StaleKeyVaultSecret, AcrossParents,
           EmptyAiServicesAccount, Undeployed, UnusedDnsZone, PausedSqlDatabase
    <2>5. CASE c \in {"aks_idle_cluster", "empty_resource_group",
                      "unused_capacity_reservation", "idle_dedicated_host"}
      BY <1>2, <2>5 DEF Found, AksIdleCluster, EmptyResourceGroup, UnusedCapacityReservation,
           IdleDedicatedHost
    <2>. QED BY <2>1, <2>2, <2>3, <2>4, <2>5 DEF AllChecks
  <1>. QED BY <1>1, <1>2

\* What is not looked at again was seen to have no load by some read.
Unchecked == AllChecks \ (Rereading \cup Uncleanable)

LEMMA FoundHadNoLoad ==
  ASSUME NEW c \in Unchecked, NEW v \in Seq(Worlds), NEW s \in Found(c, v)
  PROVE  \E i \in 1..Len(v) : v[i].load[s] = 0
  <1>1. ~(Len(v) < ReadsOf(c)) /\ Len(v) \in Nat
    BY DEF Found
  <1>2. c \in {"idle_app_service_plan", "unused_availability_test", "empty_container_registry",
               "disabled_key_vault_key", "unused_dns_zone", "paused_sql_database",
               "aks_idle_cluster"}
    <2>. QED BY DEF Unchecked, AllChecks, Rereading, Uncleanable
  <1>3. CASE c = "idle_app_service_plan"
    BY <1>1, <1>3 DEF Found, IdleAppServicePlan, ReadsOf
  <1>4. CASE c = "unused_availability_test"
    BY <1>1, <1>4 DEF Found, UnusedAvailabilityTest, ReadsOf
  <1>5. CASE c = "empty_container_registry"
    BY <1>1, <1>5 DEF Found, EmptyContainerRegistry, ReadsOf
  <1>6. CASE c = "disabled_key_vault_key"
    BY <1>1, <1>6 DEF Found, DisabledKeyVaultKey, AcrossParents, ReadsOf
  <1>7. CASE c = "unused_dns_zone"
    BY <1>1, <1>7 DEF Found, UnusedDnsZone, ReadsOf
  <1>8. CASE c = "paused_sql_database"
    BY <1>1, <1>8 DEF Found, PausedSqlDatabase, ReadsOf
  <1>9. CASE c = "aks_idle_cluster"
    BY <1>1, <1>9 DEF Found, AksIdleCluster, ReadsOf
  <1>. QED BY <1>2, <1>3, <1>4, <1>5, <1>6, <1>7, <1>8, <1>9

----------------------------------------------------------------------------
(* Type correctness.                                                       *)

LEMMA StepForFacts ==
  ASSUME NEW s \in Services, TypeOK
  PROVE  /\ StepFor(s) \in Steps
         /\ StepFor(s).do = "set" => check \in {"unused_capacity_reservation", "idle_ml_compute"}
         /\ check \in Uncleanable => StepFor(s) = Refused
         /\ None \in Steps /\ Refused \in Steps /\ Refused.do = "refused" /\ None.do = "none"
  <1>1. None \in Steps /\ Refused \in Steps /\ Delete \in Steps
    BY DEF None, Refused, Delete, Steps
  <1>2. \A n \in Nat : [do |-> "set", to |-> n] \in Steps
    BY DEF Steps
  <1>3. Usage(Now, Now, s).used \in Nat
    BY DEF Usage, Now, TypeOK, Worlds
  <1>4. /\ CleanIdleDedicatedHost(s) \in {Refused, Delete}
        /\ CleanIdleProvisionedDeployment(s) \in {Refused, Delete}
        /\ CleanEmptyAiServicesAccount(s) \in {Refused, Delete}
        /\ CleanEmptyContainerAppsEnvironment(s) \in {Refused, Delete}
        /\ CleanEmptyResourceGroup(s) \in {Refused, Delete}
    BY DEF CleanIdleDedicatedHost, CleanIdleProvisionedDeployment, CleanEmptyAiServicesAccount,
         CleanEmptyContainerAppsEnvironment, CleanEmptyResourceGroup
  <1>5. CleanUnusedCapacityReservation(s)
          \in {Refused, Delete, [do |-> "set", to |-> Usage(Now, Now, s).used]}
    BY DEF CleanUnusedCapacityReservation
  <1>6. CleanIdleMlCompute(s) \in {Refused, [do |-> "set", to |-> 0]}
    BY DEF CleanIdleMlCompute
  <1>7. StepFor(s) \in {Refused, Delete} \/ check \in {"unused_capacity_reservation", "idle_ml_compute"}
    BY <1>4 DEF StepFor
  <1>8. check \in {"unused_capacity_reservation", "idle_ml_compute"} => StepFor(s) \in Steps
    <2>1. check = "unused_capacity_reservation" => StepFor(s) = CleanUnusedCapacityReservation(s)
      BY DEF StepFor, Uncleanable
    <2>2. check = "idle_ml_compute" => StepFor(s) = CleanIdleMlCompute(s)
      BY DEF StepFor, Uncleanable
    <2>. QED BY <1>1, <1>2, <1>3, <1>5, <1>6, <2>1, <2>2
  <1>9. check \in Uncleanable => StepFor(s) = Refused
    BY DEF StepFor, Uncleanable
  <1>10. Refused.do = "refused" /\ None.do = "none" /\ Delete.do = "delete"
    BY DEF Refused, None, Delete
  <1>. QED BY <1>1, <1>7, <1>8, <1>9, <1>10

LEMMA InitTypeOK == Init => TypeOK
  <1>. SUFFICES ASSUME Init PROVE TypeOK
    OBVIOUS
  <1>1. alive \subseteq Services /\ closed \subseteq Services /\ sealed \subseteq Services
    <2>1. Of(check) \subseteq Services
      BY OfFacts
    <2>. QED BY <2>1 DEF Init, Sealable
  <1>2. ASSUME NEW some \in SUBSET Services, NEW f \in Numbers(some)
        PROVE  Filled(f) \in [Services -> Nat]
    <2>0. \A m : \A x \in 0..m : x \in Nat
      OBVIOUS
    <2>1. DOMAIN f = some /\ \A s \in some : f[s] \in 0..Max({Bound[t] : t \in some} \cup {0})
      BY DEF Numbers
    <2>. QED BY <2>0, <2>1 DEF Filled
  <1>3. load \in [Services -> Nat] /\ held \in [Services -> Nat]
    BY <1>1, <1>2 DEF Init
  <1>4. views = <<>> /\ <<>> \in Seq(Worlds) /\ Len(<<>>) = 0
    BY DEF Init
  <1>5. Now \in Worlds
    BY <1>1, <1>3 DEF Now, Worlds
  <1>6. plan \in [Services -> Steps] /\ \A s \in Services : plan[s] = None
    BY DEF Init, Steps, None
  <1>7. check \in Checks /\ phase = "scanning" /\ report = {} /\ failed = FALSE
          /\ changes = 0 /\ filled = {}
    BY DEF Init
  <1>8. 0 < ReadsOf(check) /\ 0 \in 0..MaxChanges
    BY ReadsFacts, ServicesAssumption
  <1>. QED BY <1>4, <1>5, <1>6, <1>7, <1>8 DEF TypeOK

LEMMA NextTypeOK == TypeOK /\ [Next]_vars => TypeOK'
  <1>. SUFFICES ASSUME TypeOK, [Next]_vars PROVE TypeOK'
    OBVIOUS
  <1>0. Len(<<>>) = 0 /\ <<>> \in Seq(Worlds) /\ \A c : 0 < ReadsOf(c)
    BY ReadsFacts
  <1>1. CASE Read
    <2>1. Append(views, Now) \in Seq(Worlds)
      BY DEF TypeOK
    <2>2. CASE AsksAgain(check, Append(views, Now))
      BY <1>1, <2>1, <2>2 DEF Read, TypeOK, AsksAgain, Now, vars
    <2>3. CASE ~AsksAgain(check, Append(views, Now))
      <3>1. Found(check, Append(views, Now)) \subseteq Of(check)
        BY FoundIsOfTheCheck DEF TypeOK
      <3>2. report' \subseteq Of(check)' /\ check' = check /\ phase' = "planning" /\ views' = <<>>
              /\ failed' = failed /\ plan' = plan /\ changes' = changes /\ filled' = filled
              /\ Now' = Now
        BY <1>1, <2>3, <3>1 DEF Read, Now
      <3>3. \A s \in Services \ report' : plan[s] = None
        BY <1>1 DEF Read, TypeOK
      <3>. QED BY <1>0, <3>2, <3>3 DEF TypeOK
    <2>. QED BY <2>2, <2>3
  <1>2. CASE Raise
    BY <1>0, <1>2 DEF Raise, TypeOK, Now, vars
  <1>3. CASE Confirm
    BY <1>3 DEF Confirm, TypeOK, Now, vars
  <1>4. ASSUME NEW s \in Services, Plan(s)
        PROVE  TypeOK'
    BY <1>4, StepForFacts DEF Plan, TypeOK, Now, vars
  <1>5. ASSUME NEW s \in Services, Apply(s)
        PROVE  TypeOK'
    <2>1. plan[s] \in Steps /\ plan[s].to \in Nat /\ Refused # None
            /\ s \in report
      <3>1. (\A d \in Steps : d.to \in Nat) /\ None.do = "none" /\ Refused.do = "refused"
        BY DEF Steps, Delete, Refused, None
      <3>. QED BY <1>5, <3>1 DEF Apply, TypeOK
    <2>2. alive' \subseteq Services /\ load' \in [Services -> Nat] /\ held' \in [Services -> Nat]
            /\ closed' = closed /\ sealed' = sealed
      <3>1. alive \subseteq Services /\ load \in [Services -> Nat] /\ held \in [Services -> Nat]
        BY DEF TypeOK, Now, Worlds
      <3>2. CASE UNCHANGED world
        BY <3>1, <3>2
      <3>3. CASE /\ alive' = alive \ Gone(s)
                 /\ load' = [x \in Services |-> IF x \in Gone(s) THEN 0 ELSE load[x]]
                 /\ UNCHANGED <<held, closed, sealed>>
        BY <3>1, <3>3
      <3>4. CASE held' = [held EXCEPT ![s] = plan[s].to] /\ UNCHANGED <<alive, load, closed, sealed>>
        BY <2>1, <3>1, <3>4
      <3>. QED BY <1>5, <3>2, <3>3, <3>4 DEF Apply
    <2>3. plan' \in [Services -> Steps] /\ \A t \in Services \ report : plan'[t] = None
      BY <1>5, <2>1 DEF Apply, TypeOK, Steps, Refused
    <2>. QED BY <1>5, <2>2, <2>3 DEF Apply, TypeOK, Now, Worlds
  <1>6. CASE Others
    <2>. USE ServicesAssumption DEF Changed
    <2>1. changes' \in 0..MaxChanges /\ UNCHANGED tool
      BY <1>6 DEF Others, OthersLoad, OthersHold, OthersClose, OthersSeal, OthersCreate, TypeOK
    <2>2. filled' \subseteq Services
      <3>1. PICK s \in Services : Changed(s)
        BY <1>6, OfFacts DEF Others, OthersLoad, OthersHold, OthersClose, OthersSeal, OthersCreate, Related, Sealable
      <3>. QED BY <3>1 DEF TypeOK
    <2>3. Now' \in Worlds
      <3>1. CASE OthersLoad
        BY <3>1 DEF OthersLoad, TypeOK, Now, Worlds
      <3>2. CASE OthersHold
        BY <3>2 DEF OthersHold, TypeOK, Now, Worlds
      <3>3. CASE OthersClose
        BY <3>3, OfFacts DEF OthersClose, TypeOK, Now, Worlds
      <3>4. CASE OthersCreate
        <4>1. \A s \in Services : Gone(s) \subseteq Services
          BY AssumptionFacts, OfFacts DEF Gone, ProfilesOf
        <4>. QED BY <3>4, <4>1, OfFacts DEF OthersCreate, Related, TypeOK, Now, Worlds
      <3>5. CASE OthersSeal
        BY <3>5, OfFacts DEF OthersSeal, Sealable, TypeOK, Now, Worlds
      <3>. QED BY <1>6, <3>1, <3>2, <3>3, <3>4, <3>5 DEF Others
    <2>. QED BY <2>1, <2>2, <2>3 DEF TypeOK
  <1>7. CASE UNCHANGED vars
    BY <1>7 DEF TypeOK, Now, vars
  <1>. QED BY <1>1, <1>2, <1>3, <1>4, <1>5, <1>6, <1>7 DEF Next

\* The variables hold what the code keeps in them; a check reports services of
\* its own kind, and only what is reported is planned for (cleaners.py).
THEOREM TypeCorrect == Spec => []TypeOK
  BY InitTypeOK, NextTypeOK, PTL DEF Spec

----------------------------------------------------------------------------
(* Nothing in use is lost.                                                 *)

\* What nobody changed since is as the reads saw it; what is reported by a
\* check whose cleaner does not look again has no load; a planned delete takes
\* nothing along that is in use, and a planned shrink leaves what is used.
SafeInv ==
  /\ \A e \in Of("empty_container_apps_environment") : load[e] = 0
  /\ \A i \in 1..Len(views) : \A s \in Services \ filled : views[i].load[s] = load[s]
  /\ check \in Unchecked => \A s \in report \ filled : load[s] = 0
  /\ \A t \in Services : plan[t].do = "delete" => \A s \in Gone(t) \ filled : ~InUse(s)
  /\ \A t \in Services : plan[t].do = "set" =>
       /\ check \in {"unused_capacity_reservation", "idle_ml_compute"}
       /\ check = "unused_capacity_reservation" /\ t \notin filled => plan[t].to = load[t]

LEMMA GoneFacts ==
  ASSUME NEW t \in Services, NEW s \in Gone(t)
  PROVE  /\ s \in Services
         /\ s = t \/ ( /\ CheckOf[s] = "idle_workload_profile"
                       /\ CheckOf[t] = "empty_container_apps_environment"
                       /\ s \in DOMAIN EnvironmentOf /\ EnvironmentOf[s] = t)
  BY AssumptionFacts, OfFacts DEF Gone, ProfilesOf

LEMMA KindFacts ==
  ASSUME NEW s \in Services
  PROVE  /\ InUse(s) /\ load[s] \in Nat => load[s] > 0
               \/ CheckOf[s] = "empty_container_apps_environment"
               \/ CheckOf[s] = "empty_ai_services_account"
         /\ s \in EnvironmentsInUse(Now) <=>
              \E p \in DOMAIN EnvironmentOf : EnvironmentOf[p] = s /\ load[p] > 0
  <1>1. s \in EnvironmentsInUse(Now) <=>
          \E p \in DOMAIN EnvironmentOf : EnvironmentOf[p] = s /\ load[p] > 0
    BY InUseFacts, AssumptionFacts DEF Now
  <1>2. s \in EnvironmentsInUse(Now) => CheckOf[s] = "empty_container_apps_environment"
    BY <1>1, AssumptionFacts, OfFacts
  <1>. QED BY <1>1, <1>2 DEF InUse

\* What a step did not put to use is not in use after it.
LEMMA StaysUnused ==
  ASSUME NEW x \in Services,
         load'[x] > 0 => load[x] > 0,
         \A p \in DOMAIN EnvironmentOf : EnvironmentOf[p] = x /\ load'[p] > 0 => load[p] > 0,
         CheckOf[x] = "empty_ai_services_account" => held'[x] = held[x],
         InUse(x)'
  PROVE  InUse(x)
  <1>1. x \in EnvironmentsInUse(Now)' =>
          \E p \in DOMAIN EnvironmentOf : EnvironmentOf[p] = x /\ load'[p] > 0
    BY InUseFacts, AssumptionFacts DEF Now, EnvironmentsInUse, ProfilesInUse
  <1>2. x \in EnvironmentsInUse(Now)' => x \in EnvironmentsInUse(Now)
    BY <1>1, KindFacts
  <1>. QED BY <1>2 DEF InUse

LEMMA PlanIsSafe ==
  ASSUME TypeOK, SafeInv, NEW s \in Services, Plan(s), StepFor(s).do = "delete",
         NEW x \in Gone(s) \ filled'
  PROVE  ~InUse(x)
  <1>1. s \in Of(check) /\ CheckOf[s] = check /\ s \in report /\ load \in [Services -> Nat]
    BY OfFacts DEF Plan, TypeOK, Now, Worlds
  <1>2. StepFor(s) # Refused
    BY DEF Refused
  <1>3. check \in AllChecks /\ check \notin Uncleanable
    BY <1>2, StepForFacts, AssumptionFacts DEF TypeOK
  <1>4. CASE check = "empty_container_apps_environment"
    <2>1. s \notin EnvironmentsInUse(Now)
      BY <1>2, <1>4 DEF StepFor, CleanEmptyContainerAppsEnvironment, Uncleanable
    <2>2. \A p \in DOMAIN EnvironmentOf : EnvironmentOf[p] = s => load[p] = 0
      BY <1>1, <2>1, KindFacts, AssumptionFacts, OfFacts
    <2>3. load[s] = 0
      BY <1>1, <1>4 DEF SafeInv
    <2>4. CASE x = s
      BY <1>1, <1>4, <2>1, <2>3, <2>4 DEF InUse
    <2>5. CASE x # s
      BY <1>1, <2>2, <2>5, GoneFacts, KindFacts
    <2>. QED BY <2>4, <2>5
  <1>5. CASE check # "empty_container_apps_environment"
    <2>1. x = s
      BY <1>1, <1>5, GoneFacts
    <2>2. CASE check \in Unchecked
      <3>1. check \notin Rereading /\ check # "empty_ai_services_account"
        BY <2>2 DEF Unchecked, Rereading
      <3>2. load[s] = 0
        BY <1>1, <2>1, <2>2, <3>1 DEF SafeInv, Plan
      <3>. QED BY <1>1, <1>5, <2>1, <3>1, <3>2, KindFacts
    <2>3. CASE check \in Rereading
      <3>1. load[s] = 0 /\ (check = "empty_ai_services_account" => ~(held[s] > 0))
        <4>1. CASE check = "idle_dedicated_host"
          BY <1>1, <1>2, <4>1 DEF StepFor, CleanIdleDedicatedHost, Uncleanable
        <4>2. CASE check = "unused_capacity_reservation"
          <5>1. Usage(Now, Now, s).used = load[s]
            BY DEF Usage, Now
          <5>2. StepFor(s) = CleanUnusedCapacityReservation(s)
            BY <4>2 DEF StepFor, Uncleanable
          <5>3. \/ CleanUnusedCapacityReservation(s) = Refused
                \/ Usage(Now, Now, s).used = 0
                \/ CleanUnusedCapacityReservation(s) = [do |-> "set", to |-> Usage(Now, Now, s).used]
            BY DEF CleanUnusedCapacityReservation
          <5>. QED BY <1>2, <4>2, <5>1, <5>2, <5>3
        <4>3. CASE check = "idle_ml_compute"
          <5>1. StepFor(s) = CleanIdleMlCompute(s)
            BY <4>3 DEF StepFor, Uncleanable
          <5>. QED BY <5>1 DEF CleanIdleMlCompute, Refused
        <4>4. CASE check = "idle_provisioned_deployment"
          BY <1>1, <1>2, <4>4 DEF StepFor, CleanIdleProvisionedDeployment, Uncleanable
        <4>5. CASE check = "empty_ai_services_account"
          BY <1>1, <1>2, <4>5 DEF StepFor, CleanEmptyAiServicesAccount, Uncleanable
        <4>6. CASE check = "empty_resource_group"
          BY <1>1, <1>2, <4>6 DEF StepFor, CleanEmptyResourceGroup, Uncleanable
        <4>. QED BY <1>5, <2>3, <4>1, <4>2, <4>3, <4>4, <4>5, <4>6 DEF Rereading
      <3>2. s \notin EnvironmentsInUse(Now)
        BY <1>1, <1>5, KindFacts, AssumptionFacts, OfFacts
      <3>. QED BY <1>1, <2>1, <3>1, <3>2 DEF InUse
    <2>. QED BY <1>3, <2>2, <2>3 DEF Unchecked
  <1>. QED BY <1>4, <1>5

LEMMA InitSafe == Init => SafeInv
  <1>. SUFFICES ASSUME Init PROVE SafeInv
    OBVIOUS
  <1>1. \A e \in Of("empty_container_apps_environment") : load[e] = 0
    <2>1. PICK f \in Numbers((alive \cap Related(check)) \ Of("empty_container_apps_environment")) :
            load = Filled(f)
      BY DEF Init
    <2>2. DOMAIN f = (alive \cap Related(check)) \ Of("empty_container_apps_environment")
      BY DEF Numbers
    <2>. QED BY <2>1, <2>2, OfFacts DEF Filled
  <1>2. views = <<>> /\ report = {} /\ \A s \in Services : plan[s].do = "none"
    BY DEF Init, None
  <1>. QED BY <1>1, <1>2 DEF SafeInv

LEMMA NextSafe == TypeOK /\ SafeInv /\ [Next]_vars => SafeInv'
  <1>. SUFFICES ASSUME TypeOK, SafeInv, [Next]_vars PROVE SafeInv'
    OBVIOUS
  <1>0. /\ load \in [Services -> Nat] /\ held \in [Services -> Nat]
        /\ views \in Seq(Worlds) /\ Len(views) \in Nat /\ Len(<<>>) = 0
        /\ plan \in [Services -> Steps]
        /\ None.do = "none" /\ Refused.do = "refused"
    BY DEF TypeOK, Now, Worlds, None, Refused
  <1>1. CASE Read
    <2>1. Now.load = load
      BY DEF Now
    <2>2. \A i \in 1..Len(Append(views, Now)) : \A s \in Services \ filled :
            Append(views, Now)[i].load[s] = load[s]
      BY <1>0, <2>1 DEF SafeInv
    <2>3. CASE AsksAgain(check, Append(views, Now))
      BY <1>1, <2>2, <2>3 DEF Read, SafeInv, InUse, Now
    <2>4. CASE ~AsksAgain(check, Append(views, Now))
      <3>1. report' = Found(check, Append(views, Now)) /\ views' = <<>>
              /\ UNCHANGED <<world, check, plan, filled>>
        BY <1>1, <2>4 DEF Read
      <3>2. Append(views, Now) \in Seq(Worlds)
        BY DEF TypeOK
      <3>3. check \in Unchecked => \A s \in report' \ filled : load[s] = 0
        <4>1. report' \subseteq Services
          BY <3>1, FoundIsOfTheCheck, OfFacts DEF TypeOK
        <4>2. ASSUME check \in Unchecked, NEW s \in Found(check, Append(views, Now)) \ filled
              PROVE  load[s] = 0
          <5>1. PICK i \in 1..Len(Append(views, Now)) : Append(views, Now)[i].load[s] = 0
            BY <3>2, <4>2, FoundHadNoLoad
          <5>. QED BY <2>2, <3>1, <4>1, <4>2, <5>1
        <4>. QED BY <3>1, <4>2
      <3>. QED BY <1>0, <3>1, <3>3 DEF SafeInv, InUse, Now
    <2>. QED BY <2>3, <2>4
  <1>2. CASE Raise
    BY <1>0, <1>2 DEF Raise, SafeInv, InUse, Now
  <1>3. CASE Confirm
    BY <1>3 DEF Confirm, SafeInv, InUse, Now
  <1>4. ASSUME NEW s \in Services, Plan(s)
        PROVE  SafeInv'
    <2>1. /\ UNCHANGED <<world, check, report, views>> /\ views = <<>>
          /\ plan' = [plan EXCEPT ![s] = StepFor(s)] /\ plan[s].do = "none"
          /\ \A x \in filled \ filled' : x = s
          /\ check \notin Rereading => filled' = filled
          /\ s \in report /\ CheckOf[s] = check
      BY <1>0, <1>4, OfFacts DEF Plan, TypeOK
    <2>2. \A x : InUse(x)' = InUse(x)
      BY <2>1 DEF InUse, Now
    <2>3. check \in Unchecked => \A x \in report' \ filled' : load'[x] = 0
      BY <2>1 DEF SafeInv, Unchecked
    <2>4. ASSUME NEW t \in Services, plan'[t].do = "delete", NEW x \in Gone(t) \ filled'
          PROVE  ~InUse(x)'
      <3>1. CASE t = s
        BY <1>0, <1>4, <2>1, <2>2, <2>4, <3>1, PlanIsSafe
      <3>2. CASE t # s
        <4>1. plan[t].do = "delete" /\ CheckOf[t] = check
          BY <1>0, <2>1, <2>4, <3>2, OfFacts DEF TypeOK
        <4>2. x # s
          <5>1. SUFFICES ASSUME x = s PROVE FALSE
            OBVIOUS
          <5>. QED BY <2>1, <3>2, <4>1, <5>1, GoneFacts
        <4>. QED BY <2>1, <2>2, <4>1, <4>2 DEF SafeInv
      <3>. QED BY <3>1, <3>2
    <2>5. ASSUME NEW t \in Services, plan'[t].do = "set"
          PROVE  /\ check \in {"unused_capacity_reservation", "idle_ml_compute"}
                 /\ check = "unused_capacity_reservation" /\ t \notin filled' => plan'[t].to = load[t]
      <3>1. CASE t = s
        <4>1. plan'[t] = StepFor(s)
          BY <1>0, <2>1, <3>1
        <4>2. check = "unused_capacity_reservation" => StepFor(s).to = load[s]
          <5>1. Usage(Now, Now, s).used = load[s]
            BY DEF Usage, Now
          <5>2. check = "unused_capacity_reservation" => StepFor(s) = CleanUnusedCapacityReservation(s)
            BY DEF StepFor, Uncleanable
          <5>3. \/ CleanUnusedCapacityReservation(s) \in {Refused, Delete}
                \/ CleanUnusedCapacityReservation(s) = [do |-> "set", to |-> Usage(Now, Now, s).used]
            BY DEF CleanUnusedCapacityReservation
          <5>4. Delete.do = "delete"
            BY DEF Delete
          <5>. QED BY <1>0, <2>5, <4>1, <5>1, <5>2, <5>3, <5>4
        <4>. QED BY <2>5, <3>1, <4>1, <4>2, StepForFacts
      <3>2. CASE t # s
        <4>1. plan'[t] = plan[t]
          BY <1>0, <2>1, <3>2
        <4>. QED BY <2>1, <2>5, <3>2, <4>1 DEF SafeInv
      <3>. QED BY <3>1, <3>2
    <2>. QED BY <1>0, <2>1, <2>3, <2>4, <2>5 DEF SafeInv, Gone
  <1>5. ASSUME NEW s \in Services, Apply(s)
        PROVE  SafeInv'
    <2>1. /\ UNCHANGED <<check, report, views, filled>> /\ views = <<>>
          /\ plan' = [plan EXCEPT ![s] = Refused]
          /\ CheckOf[s] = check
      <3>1. plan[s] # None
        BY <1>0, <1>5 DEF Apply
      <3>. QED BY <1>5, <3>1, OfFacts DEF Apply, TypeOK
    <2>2. \A t \in Services : plan'[t].do \in {"delete", "set"} => plan'[t] = plan[t] /\ t # s
      BY <1>0, <2>1
    <2>3. /\ \A x \in Services : load'[x] \in {0, load[x]}
          /\ \A x \in Services : load'[x] # load[x] => x \in Gone(s)
          /\ UNCHANGED held \/ (plan[s].do = "set" /\ \A x \in Services : x # s => held'[x] = held[x])
      <3>1. CASE UNCHANGED world
        BY <3>1
      <3>2. CASE /\ load' = [x \in Services |-> IF x \in Gone(s) THEN 0 ELSE load[x]]
                 /\ UNCHANGED <<held, closed, sealed>>
        BY <3>2
      <3>3. CASE /\ plan[s].do = "set" /\ held' = [held EXCEPT ![s] = plan[s].to]
                 /\ UNCHANGED <<alive, load, closed, sealed>>
        BY <1>0, <3>3
      <3>4. plan[s].do \in {"delete", "set"} /\ (plan[s].do = "delete" => plan[s] = Delete)
        <4>1. \A d \in Steps : d.do = "delete" => d = Delete
          BY DEF Steps, Delete, None, Refused
        <4>. QED BY <1>0, <1>5, <4>1 DEF Apply
      <3>. QED BY <1>5, <3>1, <3>2, <3>3, <3>4 DEF Apply
    <2>4. ASSUME NEW x \in Services, InUse(x)' PROVE InUse(x)
      <3>1. CheckOf[x] = "empty_ai_services_account" => held'[x] = held[x]
        BY <2>1, <2>3 DEF SafeInv
      <3>2. \A y \in Services : load'[y] > 0 => load[y] > 0
        BY <1>0, <2>3
      <3>3. \A p \in DOMAIN EnvironmentOf : p \in Services
        BY AssumptionFacts, OfFacts
      <3>. QED BY <2>4, <3>1, <3>2, <3>3, StaysUnused
    <2>5. \A e \in Of("empty_container_apps_environment") : load'[e] = 0
      BY <2>3, OfFacts DEF SafeInv
    <2>6. check \in Unchecked => \A x \in report' \ filled' : load'[x] = 0
      BY <2>1, <2>3, OfFacts DEF SafeInv, TypeOK
    <2>7. \A t \in Services : plan'[t].do = "delete" => \A x \in Gone(t) \ filled' : ~InUse(x)'
      BY <2>1, <2>2, <2>4, GoneFacts DEF SafeInv
    <2>8. ASSUME NEW t \in Services, plan'[t].do = "set"
          PROVE  /\ check \in {"unused_capacity_reservation", "idle_ml_compute"}
                 /\ check = "unused_capacity_reservation" /\ t \notin filled' => plan'[t].to = load'[t]
      <3>1. plan[t].do = "set" /\ t # s /\ plan'[t] = plan[t]
        BY <2>2, <2>8
      <3>2. CheckOf[t] = check
        BY <1>0, <3>1, OfFacts DEF TypeOK
      <3>3. check = "unused_capacity_reservation" => load'[t] = load[t]
        BY <2>3, <3>1, <3>2, GoneFacts
      <3>. QED BY <2>1, <3>1, <3>3 DEF SafeInv
    <2>. QED BY <1>0, <2>1, <2>5, <2>6, <2>7, <2>8 DEF SafeInv, Gone
  <1>6. CASE Others
    <2>1. PICK s \in Services :
            /\ Changed(s)
            /\ \A x \in Services : x # s => load'[x] = load[x] /\ held'[x] = held[x]
            /\ s \in Of("empty_container_apps_environment") => load'[s] = load[s]
      <3>1. CASE OthersLoad
        BY <1>0, <3>1, OfFacts DEF OthersLoad, Related, TypeOK, Now, Worlds
      <3>2. CASE OthersHold
        BY <1>0, <3>2, OfFacts DEF OthersHold, Related, TypeOK, Now, Worlds
      <3>3. CASE OthersClose
        BY <3>3, OfFacts DEF OthersClose
      <3>4. CASE OthersCreate
        BY <3>4, OfFacts DEF OthersCreate, Related
      <3>5. CASE OthersSeal
        BY <3>5, OfFacts DEF OthersSeal, Sealable
      <3>. QED BY <1>6, <3>1, <3>2, <3>3, <3>4, <3>5 DEF Others
    <2>2. /\ UNCHANGED <<check, report, views, plan>>
          /\ filled \subseteq filled' /\ s \in filled'
          /\ \A e \in Services : s \in ProfilesOf(e) => e \in filled'
      BY <2>1 DEF Changed
    <2>3. ASSUME NEW x \in Services \ filled', InUse(x)' PROVE InUse(x)
      <3>1. \A p \in DOMAIN EnvironmentOf : EnvironmentOf[p] = x => p # s
        BY <2>2, <2>3 DEF ProfilesOf
      <3>. QED BY <2>1, <2>2, <2>3, <3>1, StaysUnused, AssumptionFacts, OfFacts
    <2>4. \A e \in Of("empty_container_apps_environment") : load'[e] = 0
      BY <2>1, OfFacts DEF SafeInv
    <2>5. \A i \in 1..Len(views) : \A x \in Services \ filled' : views[i].load[x] = load'[x]
      BY <2>1, <2>2 DEF SafeInv
    <2>6. check \in Unchecked => \A x \in report \ filled' : load'[x] = 0
      BY <2>1, <2>2, OfFacts DEF SafeInv, TypeOK
    <2>7. \A t \in Services : plan[t].do = "delete" => \A x \in Gone(t) \ filled' : ~InUse(x)'
      BY <2>2, <2>3, GoneFacts DEF SafeInv
    <2>8. \A t \in Services : plan[t].do = "set" =>
            /\ check \in {"unused_capacity_reservation", "idle_ml_compute"}
            /\ check = "unused_capacity_reservation" /\ t \notin filled' => plan[t].to = load'[t]
      BY <2>1, <2>2 DEF SafeInv
    <2>. QED BY <2>2, <2>4, <2>5, <2>6, <2>7, <2>8 DEF SafeInv, Gone
  <1>7. CASE UNCHANGED vars
    BY <1>7 DEF SafeInv, InUse, Now, vars
  <1>. QED BY <1>1, <1>2, <1>3, <1>4, <1>5, <1>6, <1>7 DEF Next

\* What the cleanup deletes holds nothing, and what it shrinks keeps what is in
\* use, unless somebody put it there after the last read (cleaners.py:90-473).
THEOREM KeepsWhatIsUsed == Spec => NothingInUseIsLost
  <1>. DEFINE Kept(s) ==
         changes' = changes /\ InUse(s) =>
           /\ s \in alive \ alive' =>
                s \in filled /\ check \notin {"idle_app_service_plan", "idle_dedicated_host"}
           /\ check = "unused_capacity_reservation" /\ held'[s] < held[s] =>
                held'[s] >= load[s] \/ s \in filled
  <1>1. TypeOK /\ SafeInv /\ [Next]_vars => [\A s \in Services : Kept(s)]_vars
    <2>. SUFFICES ASSUME TypeOK, SafeInv, Next, NEW s \in Services, changes' = changes, InUse(s)
                  PROVE  Kept(s)
      OBVIOUS
    <2>0. load \in [Services -> Nat] /\ held \in [Services -> Nat] /\ changes \in Nat
            /\ plan \in [Services -> Steps]
      BY ServicesAssumption DEF TypeOK, Now, Worlds
    <2>1. CASE Read \/ Raise \/ Confirm \/ \E t \in Services : Plan(t)
      BY <2>0, <2>1 DEF Read, Raise, Confirm, Plan
    <2>2. ASSUME NEW t \in Services, Apply(t)
          PROVE  Kept(s)
      <3>1. plan[t] # None /\ CheckOf[t] = check
        BY <2>2, OfFacts DEF Apply, TypeOK, None
      <3>2. CASE UNCHANGED world
        BY <2>0, <3>2
      <3>3. CASE plan[t] = Delete /\ ~RefusedByArm(t) /\ alive' = alive \ Gone(t) /\ UNCHANGED held
        <4>1. s \in alive \ alive' => s \in Gone(t) /\ s \in filled
          BY <3>3 DEF SafeInv, Delete
        <4>2. s \in alive \ alive' /\ check \in {"idle_app_service_plan", "idle_dedicated_host"} => FALSE
          BY <2>0, <3>1, <3>3, <4>1, GoneFacts, KindFacts DEF RefusedByArm
        <4>. QED BY <2>0, <3>3, <4>1, <4>2
      <3>4. CASE plan[t].do = "set" /\ held' = [held EXCEPT ![t] = plan[t].to] /\ UNCHANGED <<alive, load, closed, sealed>>
        BY <2>0, <3>4 DEF SafeInv
      <3>5. \A d \in Steps : d.do = "delete" => d = Delete
        BY DEF Steps, Delete, None, Refused
      <3>. QED BY <2>0, <2>2, <3>2, <3>3, <3>4, <3>5 DEF Apply
    <2>3. CASE Others
      BY <2>0, <2>3 DEF Others, OthersLoad, OthersHold, OthersClose, OthersSeal, OthersCreate, Changed
    <2>. QED BY <2>1, <2>2, <2>3 DEF Next
  <1>. QED BY <1>1, InitTypeOK, NextTypeOK, InitSafe, NextSafe, PTL DEF Spec, NothingInUseIsLost

----------------------------------------------------------------------------
(* An undisturbed scan.                                                    *)

LEMMA IdleProfileFacts ==
  ASSUME NEW w, NEW s \in Of("idle_workload_profile")
  PROVE  Idle(w, s) <=>
           /\ s \in w.alive \ Managed
           /\ EnvironmentOf[s] \in EnvironmentsInUse(w) /\ w.load[s] = 0 /\ w.held[s] > 0
  BY OfFacts, AssumptionFacts DEF Idle

\* An environment is there with all its profiles, or not at all.
Whole(w) == \A p \in DOMAIN EnvironmentOf : p \in w.alive <=> EnvironmentOf[p] \in w.alive

\* What a check finds when every read saw the same world.
LEMMA FoundInAStillWorld ==
  ASSUME NEW c \in Checks, NEW w \in Worlds, NEW v \in Seq(Worlds),
         Len(v) \in 1..ReadsOf(c), \A i \in 1..Len(v) : v[i] = w, ~AsksAgain(c, v),
         Whole(w)
  PROVE  Found(c, v) \ w.sealed =
           ((Of(c) \cap IdleIn(w)) \ (IF c \in Skipping THEN w.closed ELSE {})) \ w.sealed
  <1>. USE DEF Found, ReadsOf, AsksAgain, IdleIn, Idle, Skipping
  <1>1. c \in AllChecks /\ \A s \in Of(c) : s \in Services /\ CheckOf[s] = c
    BY AssumptionFacts, OfFacts
  <1>2. \A s \in Of(c) :
          /\ s \in Clusters => c = "idle_ml_compute"
          /\ s \in Managed => c \in {"idle_workload_profile", "idle_container_app", "empty_resource_group"}
    BY <1>1, AssumptionFacts, OfFacts
  <1>3. \A s \in Services : w.load[s] \in Nat /\ w.held[s] \in Nat
    BY DEF Worlds
  <1>4. CASE c = "idle_app_service_plan"
    BY <1>1, <1>2, <1>4 DEF IdleAppServicePlan
  <1>5. CASE c = "empty_container_apps_environment"
    BY <1>1, <1>2, <1>5 DEF EmptyContainerAppsEnvironment
  <1>6. CASE c = "idle_workload_profile"
    <2>1. \A p \in Of(c) : p \in ProfilesInUse(w) <=> w.load[p] > 0
      BY <1>6 DEF ProfilesInUse
    <2>2. Found(c, v) = IdleWorkloadProfile(v) /\ v[1] = w /\ v[2] = w
      BY <1>6
    <2>3. \A s \in Of(c) : s \in IdleIn(w) <=>
            /\ s \in w.alive \ Managed
            /\ EnvironmentOf[s] \in EnvironmentsInUse(w) /\ w.load[s] = 0 /\ w.held[s] > 0
      <3>. HIDE DEF Idle
      <3>. QED BY <1>1, <1>6, IdleProfileFacts
    <2>4. \A s \in Of(c) : s \in IdleWorkloadProfile(v) <=> s \in IdleIn(w)
      <3>1. \A s \in Of(c) : EnvironmentOf[s] \in w.alive <=> s \in w.alive
        BY <1>6, AssumptionFacts DEF Whole
      <3>. QED BY <1>1, <1>3, <1>6, <2>1, <2>2, <2>3, <3>1 DEF IdleWorkloadProfile
    <2>5. IdleWorkloadProfile(v) \subseteq Of(c) /\ c \notin Skipping
      BY <1>6 DEF IdleWorkloadProfile
    <2>. QED BY <2>2, <2>4, <2>5
  <1>7. CASE c = "idle_container_app"
    BY <1>1, <1>2, <1>7 DEF IdleContainerApp, Candidates
  <1>8. CASE c = "unused_availability_test"
    BY <1>1, <1>2, <1>8 DEF UnusedAvailabilityTest
  <1>9. CASE c = "unbounded_log_workspace"
    BY <1>1, <1>2, <1>9 DEF UnboundedLogWorkspace
  <1>10. CASE c = "idle_provisioned_deployment"
    BY <1>1, <1>2, <1>10 DEF IdleProvisionedDeployment, Provisioned
  <1>11. CASE c = "empty_container_registry"
    BY <1>1, <1>2, <1>11 DEF EmptyContainerRegistry
  <1>12. CASE c = "idle_ml_compute"
    <2>1. \A s \in Services : IdleMinimum(w, s) > 0 <=> w.held[s] > w.load[s]
      <3>1. TAKE s \in Services
      <3>2. IdleNodes(w, s) \in Nat /\ (IdleNodes(w, s) > 0 <=> w.held[s] > w.load[s])
        BY <1>3 DEF IdleNodes
      <3>3. IdleMinimum(w, s) > 0 <=> w.held[s] > 0 /\ IdleNodes(w, s) > 0
        BY <1>3, <3>2, MinFacts DEF IdleMinimum
      <3>. QED BY <1>3, <3>2, <3>3
    <2>. QED BY <1>1, <1>2, <1>12, <2>1 DEF IdleMlCompute
  <1>13. CASE c = "unmanaged_storage_account"
    BY <1>1, <1>2, <1>13 DEF UnmanagedStorageAccount, Versioned
  <1>14. CASE c = "disabled_key_vault_key"
    BY <1>1, <1>2, <1>14 DEF DisabledKeyVaultKey, AcrossParents
  <1>15. CASE c = "stale_key_vault_secret"
    BY <1>1, <1>2, <1>15 DEF StaleKeyVaultSecret, AcrossParents
  <1>16. CASE c = "empty_ai_services_account"
    BY <1>1, <1>2, <1>16 DEF EmptyAiServicesAccount, Undeployed
  <1>17. CASE c = "unused_dns_zone"
    BY <1>1, <1>2, <1>17 DEF UnusedDnsZone
  <1>18. CASE c = "paused_sql_database"
    BY <1>1, <1>2, <1>18 DEF PausedSqlDatabase
  <1>19. CASE c = "aks_idle_cluster"
    BY <1>1, <1>2, <1>19 DEF AksIdleCluster
  <1>20. CASE c = "empty_resource_group"
    BY <1>1, <1>2, <1>20 DEF EmptyResourceGroup
  <1>21. CASE c = "unused_capacity_reservation"
    BY <1>1, <1>2, <1>21 DEF UnusedCapacityReservation, Usage
  <1>22. CASE c = "idle_dedicated_host"
    BY <1>1, <1>2, <1>22 DEF IdleDedicatedHost
  <1>. QED BY <1>1, <1>4, <1>5, <1>6, <1>7, <1>8, <1>9, <1>10, <1>11, <1>12, <1>13, <1>14, <1>15,
         <1>16, <1>17, <1>18, <1>19, <1>20, <1>21, <1>22 DEF AllChecks

\* Until others change something, every read sees the same world.
StillInv ==
  /\ phase = "scanning" => failed = FALSE
  /\ changes = 0 /\ phase # "applying" => Whole(Now)
  /\ changes = 0 => \A i \in 1..Len(views) : views[i] = Now
  /\ StillScanIsExact

\* Those who must answer are of the check's own kind.
LEMMA MustAnswerFacts ==
  ASSUME TypeOK
  PROVE  MustAnswer(check, views) \subseteq Of(check)
  BY DEF MustAnswer, Undeployed, Candidates

LEMMA InitStill == Init => StillInv
  <1>. SUFFICES ASSUME Init PROVE StillInv
    OBVIOUS
  <1>1. Whole(Now)
    <2>1. \/ alive = Services
          \/ \E s \in Services \ DOMAIN EnvironmentOf : alive = Services \ Gone(s)
      <3>1. alive \in {Services \ gone : gone \in {{}} \cup {Gone(s) : s \in Of(check) \ DOMAIN EnvironmentOf}}
        BY DEF Init
      <3>2. PICK gone \in {{}} \cup {Gone(s) : s \in Of(check) \ DOMAIN EnvironmentOf} :
              alive = Services \ gone
        BY <3>1
      <3>. QED BY <3>2, OfFacts
    <2>2. \A p \in DOMAIN EnvironmentOf : p \in Services /\ EnvironmentOf[p] \in Services
                                          /\ EnvironmentOf[p] \notin DOMAIN EnvironmentOf
      BY AssumptionFacts, OfFacts
    <2>. QED BY <2>1, <2>2 DEF Whole, Now, Gone, ProfilesOf
  <1>. QED BY <1>1 DEF Init, StillInv, StillScanIsExact

LEMMA NextStill == TypeOK /\ StillInv /\ [Next]_vars => StillInv'
  <1>. SUFFICES ASSUME TypeOK, StillInv, [Next]_vars PROVE StillInv'
    OBVIOUS
  <1>0. views \in Seq(Worlds) /\ Len(views) \in Nat /\ Now \in Worlds /\ changes \in Nat
    BY ServicesAssumption DEF TypeOK
  <1>1. CASE Read
    <2>1. UNCHANGED <<world, check, failed, changes>> /\ Now' = Now /\ failed = FALSE
      BY <1>1 DEF Read, StillInv, Now
    <2>2. changes = 0 => \A i \in 1..Len(Append(views, Now)) : Append(views, Now)[i] = Now
      BY <1>0 DEF StillInv
    <2>3. CASE AsksAgain(check, Append(views, Now))
      BY <1>1, <2>1, <2>2, <2>3 DEF Read, StillInv, StillScanIsExact
    <2>4. CASE ~AsksAgain(check, Append(views, Now))
      <3>1. Append(views, Now) \in Seq(Worlds) /\ Len(Append(views, Now)) \in 1..ReadsOf(check)
        BY <1>0, ReadsFacts DEF TypeOK
      <3>2. changes = 0 => Found(check, Append(views, Now)) \ sealed =
              ((Of(check) \cap IdleIn(Now)) \ (IF check \in Skipping THEN closed ELSE {})) \ sealed
        <4>1. Now.closed = closed /\ Now.sealed = sealed
          BY DEF Now
        <4>. QED BY <1>0, <1>1, <2>2, <2>4, <3>1, <4>1, FoundInAStillWorld DEF StillInv, TypeOK, Read
      <3>. QED BY <1>1, <2>1, <2>4, <3>2 DEF Read, StillInv, StillScanIsExact
    <2>. QED BY <2>3, <2>4
  <1>2. CASE Raise
    <2>1. Of(check) \cap closed # {} /\ report = {}
      BY <1>2, MustAnswerFacts DEF Raise, TypeOK
    <2>. QED BY <1>2, <2>1 DEF Raise, StillInv, StillScanIsExact, Now
  <1>3. CASE Confirm
    BY <1>3 DEF Confirm, StillInv, StillScanIsExact, Now
  <1>4. ASSUME NEW s \in Services, Plan(s)
        PROVE  StillInv'
    BY <1>4 DEF Plan, StillInv, StillScanIsExact, Now
  <1>5. ASSUME NEW s \in Services, Apply(s)
        PROVE  StillInv'
    BY <1>0, <1>5 DEF Apply, StillInv, StillScanIsExact, TypeOK
  <1>6. CASE Others
    <2>1. changes' # 0 /\ phase' = phase /\ failed' = failed
      BY <1>0, <1>6 DEF Others, OthersLoad, OthersHold, OthersClose, OthersSeal, OthersCreate, Changed
    <2>. QED BY <2>1 DEF StillInv, StillScanIsExact
  <1>7. CASE UNCHANGED vars
    BY <1>7 DEF StillInv, StillScanIsExact, Now, vars
  <1>. QED BY <1>1, <1>2, <1>3, <1>4, <1>5, <1>6, <1>7 DEF Next

\* A check that nobody disturbed reports exactly what is idle, and a service that
\* refuses to be read is neither taken for an empty one nor passed over in
\* silence, the storage accounts apart that refuse only their policy
\* (helpers.py, and the run() of each check).
THEOREM StillScanExact == Spec => []StillScanIsExact
  <1>1. StillInv => StillScanIsExact
    BY DEF StillInv
  <1>. QED BY <1>1, InitTypeOK, NextTypeOK, InitStill, NextStill, PTL DEF Spec
=============================================================================
