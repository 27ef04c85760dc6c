------------------------------- MODULE MCRefresh -------------------------------
(***************************************************************************)
(* An instance of Refresh for TLC: a catalog with the rows each fetcher    *)
(* keeps and those it must drop, tiers in no order, in two regions, the    *)
(* fallback one and another; then the same catalog with one fetcher's rows *)
(* reversed, gone, free, or left in one region only, and one in which the  *)
(* third party's pack writes into a section of the core pack.              *)
(***************************************************************************)
EXTENDS Refresh

\* A row of a meter, with fields the other fetchers do not look at.
Meter(meter, region, tier, price) ==
  [meter |-> meter, sku |-> meter[1], armSku |-> "", product |-> "", system |-> "", offer |-> "regular",
   unit |-> "1 Hour", region |-> region, tier |-> tier, price |-> price]

Everywhere(meter, price) == <<Meter(meter, "eastus", 0, price), Meter(meter, "westus", 0, price + 1)>>
Gib(meter, product) ==
  [Meter(meter, "eastus", 0, 2) EXCEPT !.product = product]
Vm(size, system, offer, region, price) ==
  [Meter(<<"vm">>, region, 0, price) EXCEPT !.armSku = size, !.system = system, !.offer = offer]
Host(armSku, sku, region, price) ==
  [Meter(<<"host">>, region, 0, price) EXCEPT !.armSku = armSku, !.sku = sku]
Unit(r, unit) == [r EXCEPT !.unit = unit]
Plan(system, meter, price) == [Meter(meter, "westus", 0, price) EXCEPT !.system = system]

Plain ==
  "disk_tier_month" :>
       Everywhere(<<"P10 LRS", "Disk">>, 1971) \o Everywhere(<<"P10 LRS", "Disk Mount">>, 7)
  @@ "disk_gb_month" :>
       <<Gib(<<"Premium LRS", "Provisioned Capacity">>, "Azure Premium SSD v2"),
         Gib(<<"Premium LRS", "Provisioned IOPS">>, "Azure Premium SSD v2")>>
  @@ "snapshot_gb_month" :> Everywhere(<<"Standard LRS", "Snapshots">>, 5) \o Everywhere(<<"P10 LRS", "Disk">>, 1971)
  @@ "blob_gb_month" :> Everywhere(<<"Hot LRS", "Data Stored">>, 2)
  @@ "public_ip_hour" :> Everywhere(<<"Standard IPv4 Static Public IP">>, 1) \o Everywhere(<<"Basic IPv4 Dynamic Public IP">>, 3)
  @@ "vm_hour" :>
       <<Vm("Standard_DS3_v2", "Windows", "regular", "eastus", 40), Vm("Standard_DS3_v2", "", "Spot", "eastus", 3),
         Vm("Standard_DS3_v2", "", "regular", "eastus", 22), Vm("Standard_NC6", "", "regular", "westus", 90),
         Vm("", "", "regular", "westus", 1)>>
  @@ "dedicated_host_hour" :>
       <<Host("Mmsv2MedMem-Type1", "Msmv2MedMem Type1", "eastus", 700), Host("DSv3-Type3", "Dsv3_Type3", "eastus", 684),
         Host("Fsv2-Type1", "Type 1", "westus", 500),
         Host("", "Type 1", "westus", 1)>>
  @@ "ptu_hour" :>
       <<Meter(<<"Provisioned Managed Regional Unit">>, "eastus", 0, 9000),
         Unit(Meter(<<"Provisioned Managed Regional Unit">>, "eastus", 0, 200), "1/Hour")>>
  @@ "container_apps_hour" :>
       <<Unit(Meter(<<"Standard vCPU Idle Usage">>, "eastus", 180000, 1), "1 Second"),
         Unit(Meter(<<"Standard vCPU Idle Usage">>, "eastus", 0, 0), "1 Second"),
         Meter(<<"Dedicated vCPU Usage">>, "eastus", 0, 6)>>
  @@ "nat_gateway_hour" :> <<Meter(<<"Standard Gateway">>, GlobalRegion, 0, 5), Meter(<<"Standard Data Processed">>, GlobalRegion, 0, 4)>>
  @@ "load_balancer_hour" :> <<Meter(<<"Standard Included LB Rules and Outbound Rules">>, GlobalRegion, 0, 3)>>
  @@ "app_service_hour" :>
       <<Plan("Linux", <<"P1 v3", "App">>, 16), Plan("", <<"P1 v3", "App">>, 32), Plan("", <<"P1 v3", "Stamp">>, 99)>>
  @@ "sql_storage_gb_month" :>
       <<Meter(<<"General Purpose Data Stored">>, "eastus", 0, 12), Meter(<<"Hyperscale Data Stored">>, "westus", 0, 10)>>
  @@ "dns_zone_month" :>
       <<Meter(<<"Public Zone">>, "Zone 1", 25, 10), Meter(<<"Public Zone">>, "Zone 1", 0, 50), Meter(<<"Public Zone">>, "US Gov Zone", 0, 62)>>
  @@ "keyvault_key_month" :>
       <<Meter(<<"Premium HSM-protected Advanced Key">>, "eastus", 1500, 90),
         Meter(<<"Premium HSM-protected Advanced Key">>, "eastus", 250, 250),
         Meter(<<"Premium HSM-protected Advanced Key">>, "eastus", 0, 500)>>
  @@ "acr_registry_day" :>
       <<Meter(<<"Basic", "Registry Unit">>, "US Gov", 0, 48), Meter(<<"Basic", "Registry Unit">>, "eastus", 0, 24), Meter(<<"Basic", "Registry Unit">>, "preview", 0, 0)>>
  @@ "log_analytics" :>
       <<Meter(<<"Analytics Logs Data Ingestion">>, "eastus", 5, 230), Meter(<<"Analytics Logs Data Ingestion">>, "eastus", 0, 0),
         Meter(<<"Analytics Logs Data Retention">>, "eastus", 0, 10)>>
  @@ "aks_cluster_hour" :> Everywhere(<<"Standard Uptime SLA">>, 10)
  @@ "team_month" :> <<Meter(<<"team_month">>, "", 0, 7)>>

\* What may become of one fetcher's rows.
Changed(how, s) ==
  CASE how = "reversed" -> Reverse(s)
    [] how = "gone" -> <<>>
    [] how = "free" -> [i \in DOMAIN s |-> [s[i] EXCEPT !.price = 0]]
    [] how = "moved" -> SelectSeq(s, LAMBDA r : r.region # "eastus")

PlainEdition == <<"plain", "">>
MCEditions == {PlainEdition, <<"rogue", "team_month">>}
  \cup ({"reversed", "gone", "free", "moved"} \X Fetchers)

MCCatalog ==
  [e \in MCEditions |->
     CASE e = PlainEdition -> Plain
       [] e[1] = "rogue" -> [Plain EXCEPT !["team_month"] = <<Meter(<<"vm_hour">>, "", 0, 1)>>]
       [] OTHER -> [Plain EXCEPT ![e[2]] = Changed(e[1], @)]]

MCHostKeys ==
  [n \in {"Dsv3_Type3", "DSv3-Type3"} |-> "dsv3type3"]
    @@ "Mmsv2MedMem-Type1" :> "mmsv2medmemtype1" @@ "Msmv2MedMem Type1" :> "msmv2medmemtype1"
    @@ "Fsv2-Type1" :> "fsv2type1" @@ "Type 1" :> "type1" @@ "" :> ""
MCNoFamily == {"type1"}

MCSizeNames == "Standard_DS3_v2" :> "standard_ds3_v2" @@ "Standard_NC6" :> "standard_nc6"

\* What the proofs suppose of the catalog, and of the names of sizes.
ASSUME MCTiersDiffer == TiersDiffer
ASSUME MCSizesDiffer == SizesDiffer
=============================================================================
