------------------------------ MODULE MCServices ------------------------------
(***************************************************************************)
(* An instance of Services for TLC: a service of each kind, two hosts, an  *)
(* apps environment with two Dedicated profiles and its Consumption one.   *)
(***************************************************************************)
EXTENDS Services, TLC

CONSTANTS plans, env, small, large, shared, app, pinned, test, logs, ptu, registry, cluster,
          instance, store, key, secret, account, zone, sql, aks, group, nodes, slots,
          host1, host2

MCCheckOf ==
  plans :> "idle_app_service_plan"
    @@ [s \in {env} |-> "empty_container_apps_environment"]
    @@ [s \in {small, large, shared} |-> "idle_workload_profile"]
    @@ [s \in {app, pinned} |-> "idle_container_app"]
    @@ test :> "unused_availability_test"
    @@ logs :> "unbounded_log_workspace"
    @@ ptu :> "idle_provisioned_deployment"
    @@ registry :> "empty_container_registry"
    @@ [s \in {cluster, instance} |-> "idle_ml_compute"]
    @@ store :> "unmanaged_storage_account"
    @@ key :> "disabled_key_vault_key"
    @@ secret :> "stale_key_vault_secret"
    @@ account :> "empty_ai_services_account"
    @@ zone :> "unused_dns_zone"
    @@ sql :> "paused_sql_database"
    @@ aks :> "aks_idle_cluster"
    @@ [s \in {group, nodes} |-> "empty_resource_group"]
    @@ slots :> "unused_capacity_reservation"
    @@ [s \in {host1, host2} |-> "idle_dedicated_host"]

MCServiceSet == DOMAIN MCCheckOf
MCEnvironmentOf == [p \in {small, large, shared} |-> env]
MCManaged == {shared, pinned, nodes}
MCHolding == {small, large, app, pinned, cluster, account, slots}
MCBound == [s \in MCServiceSet |-> IF s \in {cluster, slots} THEN 2 ELSE 1]
=============================================================================
