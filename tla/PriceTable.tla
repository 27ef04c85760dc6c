------------------------------ MODULE PriceTable ------------------------------
(***************************************************************************)
(* The bundled price table and how a check reads a rate from it.  Prices   *)
(* are whole cents; a rate is a monthly price and whether it is            *)
(* approximate, which is what the report marks with a tilde.               *)
(***************************************************************************)
EXTENDS Integers, Sequences, FiniteSets, TLC

CONSTANTS
  None,        \* a price or a variant that is not there
  SizeNames    \* the VM size names, by their lower case

Fallback == "eastus"
HoursPerMonth == 730

(***************************************************************************)
(* A table: section by section, either a price by region, or prices by     *)
(* region and variant, or (global sections) prices by variant, "_value"    *)
(* where there is only one.                                                *)
(***************************************************************************)
Entry(prices, k) == IF k \in DOMAIN prices THEN prices[k] ELSE None
Section(t, s) == IF s \in DOMAIN t.sections THEN t.sections[s] ELSE <<>>

Regional(key, section) ==
  [key |-> key, section |-> section, perHour |-> FALSE, variants |-> FALSE, default |-> None,
   global |-> FALSE]
Variants(key, section) == [Regional(key, section) EXCEPT !.variants = TRUE]
Global(key, section) == [Regional(key, section) EXCEPT !.global = TRUE]
Hourly(spec) == [spec EXCEPT !.perHour = TRUE]

AksRates == {Hourly(Variants("aks.cluster_month", "aks_cluster_hour"))}

\* The rates packs registered.
Rates ==
  {Regional("snapshot.gb_month", "snapshot_gb_month"),
   Regional("blob.gb_month", "blob_gb_month"),
   Hourly(Regional("public_ip.month", "public_ip_hour")),
   Hourly(Global("nat_gateway.month", "nat_gateway_hour")),
   Hourly(Global("load_balancer.month", "load_balancer_hour")),
   Global("log.ingestion_gb", "log_ingestion_gb"),
   Global("log.retention_gb_month", "log_retention_gb_month"),
   Variants("disk.tier_month", "disk_tier_month"),
   Variants("disk.gb_month", "disk_gb_month"),
   [Variants("sql.storage_gb_month", "sql_storage_gb_month") EXCEPT !.default = "general_purpose"],
   Hourly(Variants("app_service.month", "app_service_hour")),
   Hourly(Variants("dedicated_host.month", "dedicated_host_hour")),
   Hourly(Variants("ptu.month", "ptu_hour")),
   Hourly(Variants("container_apps.month", "container_apps_hour")),
   [Variants("keyvault.key_month", "keyvault_key_month") EXCEPT !.global = TRUE]}
    \cup AksRates

RateSpec(key) == CHOOSE spec \in Rates : spec.key = key

Exactly(usd) == [usd |-> usd, approximate |-> FALSE]
About(usd) == [usd |-> usd, approximate |-> TRUE]
Unpriced == About(0)

\* A section's entry for a region, or the fallback region's, and whether it
\* had to be the latter.
\* Mutant: the fallback region's price is passed off as the region's own.
Lookup_Silent(t, s, region) ==
  LET prices == Section(t, s)
  IN  IF region \in DOMAIN prices
      THEN [entry |-> prices[region], approximate |-> FALSE]
      ELSE [entry |-> Entry(prices, Fallback), approximate |-> FALSE]

Lookup(t, s, region) ==
  LET prices == Section(t, s)
  IN  IF region \in DOMAIN prices
      THEN [entry |-> prices[region], approximate |-> FALSE]
      ELSE [entry |-> Entry(prices, Fallback), approximate |-> TRUE]

Monthly(price, spec) == IF spec.perHour THEN price * HoursPerMonth ELSE price

ApplyGlobal(t, spec, variant) ==
  LET prices == Section(t, spec.section)
      price  == Entry(prices, IF spec.variants THEN variant ELSE "_value")
  IN  IF price = None THEN Unpriced ELSE Exactly(Monthly(price, spec))

ApplyVariant(spec, found, variant) ==
  CASE found.entry = None -> Unpriced
    [] found.entry # None /\ variant \in DOMAIN found.entry ->
         [usd |-> Monthly(found.entry[variant], spec), approximate |-> found.approximate]
    [] OTHER ->
         LET default == Entry(found.entry, spec.default)
         IN  IF default = None THEN Unpriced ELSE About(Monthly(default, spec))

ApplyFlat(spec, found) ==
  IF found.entry \in {None, 0}
  THEN [usd |-> 0, approximate |-> found.approximate \/ spec.perHour]
  ELSE [usd |-> Monthly(found.entry, spec), approximate |-> found.approximate]

Apply(t, spec, region, variant) ==
  LET found == Lookup(t, spec.section, region)
  IN  CASE spec.global -> ApplyGlobal(t, spec, variant)
        [] ~spec.global /\ spec.variants -> ApplyVariant(spec, found, variant)
        [] OTHER -> ApplyFlat(spec, found)

\* A VM size is asked for in any case.
VmMonth(t, region, size) ==
  LET found == Lookup(t, "vm_hour", region)
      same  == IF found.entry = None THEN {}
               ELSE {n \in DOMAIN found.entry : SizeNames[n] = SizeNames[size]}
  IN  IF same = {} THEN Unpriced
      ELSE LET name == IF size \in same THEN size ELSE CHOOSE n \in same : TRUE
           IN  [usd |-> found.entry[name] * HoursPerMonth, approximate |-> found.approximate]

AcrRegistryMonth(t, tier) ==
  LET price == Entry(Section(t, "acr_registry_day"), tier)
  IN  IF price = None THEN Unpriced ELSE Exactly((price * HoursPerMonth) \div 24)

\* What deleting one of so many zones saves.
DnsZone(t, zones) ==
  LET tiers == Section(t, "dns_zone_month")
      tier  == IF zones > 25 /\ "beyond_25" \in DOMAIN tiers THEN "beyond_25" ELSE "first_25"
  IN  CASE tiers = <<>> -> Unpriced
        [] tier \in DOMAIN tiers -> Exactly(tiers[tier])
        [] OTHER -> About(tiers["beyond_25"])

Resolvers == {"vm.month", "acr.registry_month", "dns.zone_month"}

Rate(t, key, region, variant) ==
  CASE key = "vm.month" -> VmMonth(t, region, variant)
    [] key = "acr.registry_month" -> AcrRegistryMonth(t, variant)
    [] key = "dns.zone_month" -> DnsZone(t, variant)
    [] OTHER -> Apply(t, RateSpec(key), region, variant)
=============================================================================
