-------------------------------- MODULE Refresh --------------------------------
(***************************************************************************)
(* python -m zombiescan.pricing.refresh: fetcher by fetcher, page by page, *)
(* it reads the Retail Prices catalog, which throttles and may fail, turns *)
(* the rows of each meter into one price, and rewrites the table unless    *)
(* that would lose a section.  It may be killed at any moment, and the     *)
(* table is rewritten in place.  A query's conditions are the service's to *)
(* apply: Catalog holds what it answers to each fetcher's query.           *)
(***************************************************************************)
EXTENDS PriceTable, SequencesExt

CONSTANTS
  Editions,        \* the successive states of the catalog
  First,           \* the one at first
  Catalog,         \* Catalog[e][f]: the rows edition e answers fetcher f with, in order
  HostKeys,        \* a host SKU's letters and digits, in lower case
  NoFamily,        \* those that name a type of host and no family
  PageSize,        \* rows of a page
  ThrottleRetries, \* THROTTLE_RETRIES
  MaxEditions,     \* bound of how often the catalog changes
  NoFile, Broken   \* there is no table; it is half written

GlobalRegion == "Global"

VARIABLES
  edition,    \* the catalog's present edition
  editions,   \* how often it changed
  pc,         \* "idle", "fetching", "built", "writing"
  todo,       \* the registered fetchers still to run, in order
  rows,       \* the rows read so far for the first of them
  attempt,    \* how often its next page was throttled
  payload,    \* the sections built so far
  table,      \* the file
  replaced    \* history: the table the last write replaced

refreshVars == <<edition, editions, pc, todo, rows, attempt, payload, table, replaced>>

-----------------------------------------------------------------------------
(* Reading one meter: of an answer, `all`, a set of rows. *)

\* The first row of those of the lowest tier: a stable sort by tier.
FirstTier(all, these) ==
  LET at == {i \in DOMAIN all : all[i] \in these}
      before(i, j) == all[i].tier < all[j].tier \/ (all[i].tier = all[j].tier /\ i <= j)
  IN  all[CHOOSE i \in at : \A j \in at : before(i, j)]

\* What a meter charges per unit: its lowest tier that charges anything.
UnitPrice(all, tiers) ==
  LET charging == {r \in tiers : r.price # 0}
  IN  CASE tiers = {} -> None
        [] tiers # {} /\ charging = {} -> 0
        [] OTHER -> FirstTier(all, charging).price

\* Prices by region and variant, each variant's tiers read together; `meter`
\* names the variant of a row, None when it is to be dropped.
ByRegion(all, meter) ==
  LET named == {r \in ToSet(all) : meter[r] # None /\ r.region \notin {"", GlobalRegion}}
      in(g) == {r \in named : r.region = g}
  IN  [g \in {r.region : r \in named} |->
         [v \in {meter[r] : r \in in(g)} |-> UnitPrice(all, {r \in in(g) : meter[r] = v})]]

FlatByRegion(all, keep) ==
  LET kept == {r \in keep : r.region \notin {"", GlobalRegion}}
  IN  [g \in {r.region : r \in kept} |-> UnitPrice(all, {r \in kept : r.region = g})]

FlatGlobal(all, keep) ==
  [v \in (IF keep = {} THEN {} ELSE {"_value"}) |-> UnitPrice(all, keep)]

\* A meter's name is a sequence of parts: here, its SKU and what it charges for.
MeterIs(r, suffix) == r.meter = <<r.sku, suffix>>

\* A name that is blank is none.
Given(name) == IF name = "" THEN None ELSE name

\* What is written under a key replaces what was there.
Updated(sections, produced) ==
  [s \in DOMAIN sections \cup DOMAIN produced |->
     IF s \in DOMAIN produced THEN produced[s] ELSE sections[s]]

-----------------------------------------------------------------------------
(* The fetchers: each turns the rows of its query into its section. *)

TierOf(r) == IF MeterIs(r, "Disk") THEN Given(r.sku) ELSE None
FetchDiskTiers(all) == ByRegion(all, [r \in ToSet(all) |-> TierOf(r)])

GibDisks == "Azure Premium SSD v2" :> "PremiumV2_LRS" @@ "Ultra Disks" :> "UltraSSD_LRS"
GibDisk(r) ==
  IF Last(r.meter) = "Provisioned Capacity" THEN Entry(GibDisks, r.product) ELSE None
FetchDiskPerGb(all) ==
  LET hourly == ByRegion(all, [r \in ToSet(all) |-> GibDisk(r)])
  IN  [g \in DOMAIN hourly |-> [v \in DOMAIN hourly[g] |-> hourly[g][v] * HoursPerMonth]]

FetchSnapshotRates(all) == FlatByRegion(all, {r \in ToSet(all) : "Snapshots" \in ToSet(r.meter)})

FetchBlobRates(all) == FlatByRegion(all, {r \in ToSet(all) : r.meter = <<"Hot LRS", "Data Stored">>})

FetchPublicIpRates(all) ==
  FlatByRegion(all, {r \in ToSet(all) : r.meter = <<"Standard IPv4 Static Public IP">>})

\* Windows rows carry a licence, Spot and low-priority rows a discount.
LinuxPayAsYouGo(r) == r.system # "Windows" /\ r.offer = "regular"

VmSize(r) == IF LinuxPayAsYouGo(r) THEN Given(r.armSku) ELSE None
FetchVmRates(all) == ByRegion(all, [r \in ToSet(all) |-> VmSize(r)])

\* What a region has of prices by region.
Within(prices, g) == IF g \in DOMAIN prices THEN prices[g] ELSE <<>>

\* Hosts go by the key of their ARM SKU and, where that is not taken, by the
\* key of their SKU unless it names no family.
HostKey(r) == IF LinuxPayAsYouGo(r) THEN Given(HostKeys[r.armSku]) ELSE None
HostAlias(r) ==
  IF LinuxPayAsYouGo(r) /\ HostKeys[r.sku] \notin NoFamily THEN Given(HostKeys[r.sku]) ELSE None
FetchDedicatedHostRates(all) ==
  LET hosts   == ByRegion(all, [r \in ToSet(all) |-> HostKey(r)])
      aliases == ByRegion(all, [r \in ToSet(all) |-> HostAlias(r)])
  IN  [g \in DOMAIN hosts \cup DOMAIN aliases |-> Updated(Within(aliases, g), Within(hosts, g))]

PtuMeters ==
  <<"Provisioned Managed Regional Unit">> :> "ProvisionedManaged"
    @@ <<"Provisioned Managed Global Unit">> :> "GlobalProvisionedManaged"
    @@ <<"Provisioned Managed Data Zone Unit">> :> "DataZoneProvisionedManaged"
Ptu(r) == IF r.unit = "1/Hour" THEN Entry(PtuMeters, r.meter) ELSE None
FetchPtuRates(all) == ByRegion(all, [r \in ToSet(all) |-> Ptu(r)])

ContainerAppsMeters ==
  <<"Standard vCPU Idle Usage">> :> "idle_vcpu" @@ <<"Standard Memory Idle Usage">> :> "idle_gib"
    @@ <<"Dedicated vCPU Usage">> :> "dedicated_vcpu"
    @@ <<"Dedicated Memory Usage">> :> "dedicated_gib"
    @@ <<"Dedicated Plan Management">> :> "dedicated_management"

\* The unit of each rate that can be multiplied out to an hour's.
UnitOf(rate) ==
  CASE rate = "idle_vcpu" -> "1 Second"
    [] rate = "idle_gib" -> "1 GiB Second"
    [] OTHER -> "1 Hour"
PerHour(rate) == IF UnitOf(rate) = "1 Hour" THEN 1 ELSE 3600
ContainerAppsRate(r) ==
  LET rate == Entry(ContainerAppsMeters, r.meter)
  IN  IF r.unit = UnitOf(rate) THEN rate ELSE None
FetchContainerAppsRates(all) ==
  LET prices == ByRegion(all, [r \in ToSet(all) |-> ContainerAppsRate(r)])
  IN  [g \in DOMAIN prices |-> [v \in DOMAIN prices[g] |-> prices[g][v] * PerHour(v)]]

FetchNatRates(all) == FlatGlobal(all, {r \in ToSet(all) : r.meter = <<"Standard Gateway">>})

FetchLoadBalancerRates(all) ==
  FlatGlobal(all, {r \in ToSet(all) : r.meter = <<"Standard Included LB Rules and Outbound Rules">>})

\* Plans are priced apart on Linux.
PlanSku(r) ==
  IF MeterIs(r, "App") THEN IF r.system = "Linux" THEN <<r.sku, "linux">> ELSE <<r.sku>> ELSE None
FetchAppServiceRates(all) == ByRegion(all, [r \in ToSet(all) |-> PlanSku(r)])

SqlMeters ==
  <<"General Purpose Data Stored">> :> "general_purpose"
    @@ <<"Business Critical Data Stored">> :> "business_critical"
    @@ <<"Hyperscale Data Stored">> :> "hyperscale"
SqlTier(r) == Entry(SqlMeters, r.meter)
FetchSqlStorageRates(all) == ByRegion(all, [r \in ToSet(all) |-> SqlTier(r)])

\* The two lowest tiers of Zone 1, free or not.
DnsTier(r) ==
  CASE r.region # "Zone 1" -> None
    [] r.region = "Zone 1" /\ r.tier = 0 -> "first_25"
    [] OTHER -> "beyond_25"
FetchDnsRates(all) ==
  LET of(name) == {r \in ToSet(all) : DnsTier(r) = name}
  IN  [name \in {n \in {"first_25", "beyond_25"} : of(n) # {}} |-> FirstTier(all, of(name)).price]

KeyVaultMeters ==
  <<"Premium HSM-protected RSA 2048-bit key">> :> "hsm"
    @@ <<"Premium HSM-protected Advanced Key">> :> "hsm_advanced"
KeyKind(r) == Entry(KeyVaultMeters, r.meter)
FetchKeyVaultRates(all) ==
  LET kinds == {KeyKind(r) : r \in ToSet(all)} \ {None}
      priced == [v \in kinds |-> UnitPrice(all, {r \in ToSet(all) : KeyKind(r) = v})]
  IN  Updated(priced, [v \in {"software"} |-> 0])

\* The lowest price of each tier: the higher ones are of sovereign clouds.
AcrTiers == {"Basic", "Standard", "Premium"}
FetchAcrRates(all) ==
  LET of(tier) == {r \in ToSet(all) : r.meter = <<tier, "Registry Unit">> /\ r.price # 0}
  IN  [tier \in {t \in AcrTiers : of(t) # {}} |-> Min({r.price : r \in of(tier)})]

LogSections == {"log_ingestion_gb", "log_retention_gb_month"}

\* The query asks for the rows of the fallback region only; the prices are kept
\* without a region.
FetchLogAnalyticsRates(all) ==
  LET meter(name) == FlatGlobal(all, {r \in ToSet(all) : r.meter = <<name>>})
  IN  [s \in LogSections |->
         meter(IF s = "log_ingestion_gb" THEN "Analytics Logs Data Ingestion"
               ELSE "Analytics Logs Data Retention")]

\* The Free tier has no meter: it is written down as free wherever any is.
ClusterMeters ==
  <<"Standard Uptime SLA">> :> "Standard" @@ <<"Standard Long Term Support">> :> "Premium"
ClusterTier(r) == Entry(ClusterMeters, r.meter)
FetchClusterFee(all) ==
  LET fees == ByRegion(all, [r \in ToSet(all) |-> ClusterTier(r)])
  IN  [g \in DOMAIN fees |-> Updated(fees[g], [tier \in {"Free"} |-> 0])]

\* A third party's pack: its rows name the section they are for.
FetchTeamRates(all) ==
  [s \in {r.meter[1] : r \in ToSet(all)} |->
     FlatGlobal(all, {r \in ToSet(all) : r.meter[1] = s})]

Core == <<"disk_tier_month", "disk_gb_month", "snapshot_gb_month", "blob_gb_month",
          "public_ip_hour", "vm_hour", "dedicated_host_hour", "ptu_hour", "container_apps_hour",
          "nat_gateway_hour", "load_balancer_hour", "app_service_hour", "sql_storage_gb_month",
          "dns_zone_month", "keyvault_key_month", "acr_registry_day", "log_analytics">>
Aks == <<"aks_cluster_hour">>
Team == <<"team_month">>
Fetchers == ToSet(Core \o Aks \o Team)

\* The sections a fetcher declared; most are called by theirs.
Declared(f) == IF f = "log_analytics" THEN LogSections ELSE {f}

\* The section of the fetchers that make one.
Rewritten(f, all) ==
  CASE f = "disk_tier_month" -> FetchDiskTiers(all)
    [] f = "disk_gb_month" -> FetchDiskPerGb(all)
    [] f = "snapshot_gb_month" -> FetchSnapshotRates(all)
    [] f = "blob_gb_month" -> FetchBlobRates(all)
    [] f = "public_ip_hour" -> FetchPublicIpRates(all)
    [] f = "vm_hour" -> FetchVmRates(all)
    [] f = "dedicated_host_hour" -> FetchDedicatedHostRates(all)
    [] f = "ptu_hour" -> FetchPtuRates(all)
    [] f = "container_apps_hour" -> FetchContainerAppsRates(all)
    [] f = "nat_gateway_hour" -> FetchNatRates(all)
    [] f = "load_balancer_hour" -> FetchLoadBalancerRates(all)
    [] f = "app_service_hour" -> FetchAppServiceRates(all)
    [] f = "sql_storage_gb_month" -> FetchSqlStorageRates(all)
    [] f = "dns_zone_month" -> FetchDnsRates(all)
    [] f = "keyvault_key_month" -> FetchKeyVaultRates(all)
    [] f = "acr_registry_day" -> FetchAcrRates(all)
    [] f = "aks_cluster_hour" -> FetchClusterFee(all)

Produce(f, all) ==
  CASE f = "log_analytics" -> FetchLogAnalyticsRates(all)
    [] f = "team_month" -> FetchTeamRates(all)
    [] OTHER -> [s \in {f} |-> Rewritten(f, all)]

\* A row of the catalog.
Row == [meter : Seq(STRING), sku : STRING, armSku : STRING, product : STRING, system : STRING,
        offer : STRING, unit : STRING, region : STRING, tier : Nat, price : Nat]

ASSUME RefreshAssumption ==
  /\ Catalog \in [Editions -> [Fetchers -> Seq(Row)]]
  /\ \A e \in Editions : \A r \in ToSet(Catalog[e]["log_analytics"]) : r.region = Fallback
  /\ None \notin Nat \cup AcrTiers \cup {"_value", "first_25", "beyond_25"}
  /\ First \in Editions
  /\ PageSize \in Nat \ {0}
  /\ ThrottleRetries \in Nat
  /\ MaxEditions \in Nat

-----------------------------------------------------------------------------
(* One refresh. *)

Whole(t) == t \notin {NoFile, Broken}

RefreshInit ==
  /\ edition = First
  /\ editions = 0
  /\ pc = "idle"
  /\ todo = <<>>
  /\ rows = <<>>
  /\ attempt = 0
  /\ payload = <<>>
  /\ table = NoFile
  /\ replaced = NoFile

\* The process is over, whatever became of the table.
Over ==
  /\ pc' = "idle"
  /\ todo' = <<>>
  /\ rows' = <<>>
  /\ attempt' = 0
  /\ payload' = <<>>

\* A pack that fails to load, here the AKS pack, registers no fetcher.
Start(others) ==
  /\ pc = "idle"
  /\ pc' = "fetching"
  /\ todo' = Core \o others
  /\ replaced' = NoFile
  /\ UNCHANGED <<edition, editions, rows, attempt, payload, table>>

Answer == Catalog[edition][Head(todo)]
UpTo == Min({Len(rows) + PageSize, Len(Answer)})

\* A page arrives, and its rows are not the last.
ReadPage ==
  /\ pc = "fetching"
  /\ UpTo < Len(Answer)
  /\ rows' = SubSeq(Answer, 1, UpTo)
  /\ attempt' = 0
  /\ UNCHANGED <<edition, editions, pc, todo, payload, table, replaced>>

\* Mutant: the fetcher is given the rows of the last page.
Fetch_LastPage ==
  /\ pc = "fetching"
  /\ UpTo = Len(Answer)
  /\ \E all \in {SubSeq(Answer, Len(rows) + 1, UpTo)} : \E produced \in {Produce(Head(todo), all)} :
       IF DOMAIN produced \subseteq Declared(Head(todo))
       THEN /\ payload' = Updated(payload, produced)
            /\ todo' = Tail(todo)
            /\ pc' = IF Tail(todo) = <<>> THEN "built" ELSE "fetching"
            /\ rows' = <<>>
            /\ attempt' = 0
       ELSE Over
  /\ UNCHANGED <<edition, editions, table, replaced>>

\* The last page arrives: the fetcher makes its sections of the rows.
Fetch ==
  /\ pc = "fetching"
  /\ UpTo = Len(Answer)
  /\ \E all \in {rows \o SubSeq(Answer, Len(rows) + 1, UpTo)} : \E produced \in {Produce(Head(todo), all)} :
       IF DOMAIN produced \subseteq Declared(Head(todo))
       THEN /\ payload' = Updated(payload, produced)
            /\ todo' = Tail(todo)
            /\ pc' = IF Tail(todo) = <<>> THEN "built" ELSE "fetching"
            /\ rows' = <<>>
            /\ attempt' = 0
       ELSE Over
  /\ UNCHANGED <<edition, editions, table, replaced>>

\* Mutant: a throttled page is asked for until it comes.
Throttled_Endless ==
  /\ pc = "fetching"
  /\ attempt' = 1 - attempt
  /\ UNCHANGED <<pc, todo, rows, payload, edition, editions, table, replaced>>

\* HTTP 429: wait and ask for the same page again, so many times.
Throttled ==
  /\ pc = "fetching"
  /\ IF attempt < ThrottleRetries
     THEN /\ attempt' = attempt + 1
          /\ UNCHANGED <<pc, todo, rows, payload>>
     ELSE Over
  /\ UNCHANGED <<edition, editions, table, replaced>>

\* Any other answer raises.
RequestFails ==
  /\ pc = "fetching"
  /\ Over
  /\ UNCHANGED <<edition, editions, table, replaced>>

\* Mutant: an empty section is as good as a full one.
Regressions_GoneOnly ==
  {s \in DOMAIN table.sections : table.sections[s] # <<>> /\ s \notin DOMAIN payload}

\* The sections of the table on disk that the new one would lose.
Regressions ==
  {s \in DOMAIN table.sections : table.sections[s] # <<>> /\ Section([sections |-> payload], s) = <<>>}

\* main refuses to lose a section; a table that cannot be parsed raises.
Refuse ==
  /\ pc = "built"
  /\ table = Broken \/ (Whole(table) /\ Regressions # {})
  /\ Over
  /\ UNCHANGED <<edition, editions, table, replaced>>

\* write_text empties the file before it writes.
Truncate ==
  /\ pc = "built"
  /\ table = NoFile \/ (Whole(table) /\ Regressions = {})
  /\ pc' = "writing"
  /\ table' = Broken
  /\ replaced' = table
  /\ UNCHANGED <<edition, editions, todo, rows, attempt, payload>>

Write ==
  /\ pc = "writing"
  /\ table' = [generated |-> edition, sections |-> payload]
  /\ Over
  /\ UNCHANGED <<edition, editions, replaced>>

Kill ==
  /\ pc # "idle"
  /\ Over
  /\ UNCHANGED <<edition, editions, table, replaced>>

\* Microsoft republishes the catalog, here between two refreshes.
Republish(e) ==
  /\ pc = "idle"
  /\ editions < MaxEditions
  /\ editions' = editions + 1
  /\ edition' = e
  /\ UNCHANGED <<pc, todo, rows, attempt, payload, table, replaced>>

\* Somebody removes a file that cannot be read.
Discard ==
  /\ pc = "idle"
  /\ table = Broken
  /\ table' = NoFile
  /\ UNCHANGED <<edition, editions, pc, todo, rows, attempt, payload, replaced>>

Step == ReadPage \/ Fetch \/ Throttled \/ RequestFails \/ Refuse \/ Truncate \/ Write
RefreshNext ==
  \/ \E others \in {Team, Aks \o Team} : Start(others)
  \/ Step
  \/ Kill
  \/ \E e \in Editions : Republish(e)
  \/ Discard

RefreshSpec == RefreshInit /\ [][RefreshNext]_refreshVars

\* The operating system runs the process and the service answers each request,
\* if only to throttle it.
FairSpec == RefreshSpec /\ WF_refreshVars(Step)

-----------------------------------------------------------------------------
(* What the catalog says. *)

FetcherOf(section) ==
  IF section \in LogSections THEN "log_analytics" ELSE section

\* The sections without regions, and where the one price they have is a price:
\* anywhere, or in the only region the fetcher asked for.
GlobalSections ==
  {"nat_gateway_hour", "load_balancer_hour", "dns_zone_month", "keyvault_key_month",
   "acr_registry_day", "team_month"} \cup LogSections
Origin(section) == IF section \in LogSections THEN Fallback ELSE ""
FlatSections == {"snapshot_gb_month", "blob_gb_month", "public_ip_hour"}

When(condition) == IF condition THEN "_value" ELSE None

\* The variant of a section a row is a price of; a host has a second one.
VariantOf(section, r) ==
  CASE section = "disk_tier_month" -> TierOf(r)
    [] section = "disk_gb_month" -> GibDisk(r)
    [] section = "snapshot_gb_month" -> When("Snapshots" \in ToSet(r.meter))
    [] section = "blob_gb_month" -> When(r.meter = <<"Hot LRS", "Data Stored">>)
    [] section = "public_ip_hour" -> When(r.meter = <<"Standard IPv4 Static Public IP">>)
    [] section = "vm_hour" -> VmSize(r)
    [] section = "dedicated_host_hour" -> HostKey(r)
    [] section = "ptu_hour" -> Ptu(r)
    [] section = "container_apps_hour" -> ContainerAppsRate(r)
    [] section = "nat_gateway_hour" -> When(r.meter = <<"Standard Gateway">>)
    [] section = "load_balancer_hour" ->
         When(r.meter = <<"Standard Included LB Rules and Outbound Rules">>)
    [] section = "app_service_hour" -> PlanSku(r)
    [] section = "sql_storage_gb_month" -> SqlTier(r)
    [] section = "dns_zone_month" -> DnsTier(r)
    [] section = "keyvault_key_month" -> KeyKind(r)
    [] section = "acr_registry_day" ->
         IF r.price # 0 /\ \E tier \in AcrTiers : r.meter = <<tier, "Registry Unit">>
         THEN r.meter[1] ELSE None
    [] section = "log_ingestion_gb" -> When(r.meter = <<"Analytics Logs Data Ingestion">>)
    [] section = "log_retention_gb_month" -> When(r.meter = <<"Analytics Logs Data Retention">>)
    [] section = "aks_cluster_hour" -> ClusterTier(r)
    [] section = "team_month" -> When(TRUE)

\* What a unit the catalog prices comes to in the unit of the section.
Times(section, variant) ==
  CASE section = "disk_gb_month" -> HoursPerMonth
    [] section = "container_apps_hour" /\ variant \in {"idle_vcpu", "idle_gib"} -> 3600
    [] OTHER -> 1

\* The lowest charge of a set of tiers; of DNS and registries, the lowest
\* tier and the lowest price.
Charge(section, tiers) ==
  LET charging == {r \in tiers : r.price # 0}
      lowest(set) == CHOOSE r \in set : \A q \in set : r.tier <= q.tier
  IN  CASE section = "dns_zone_month" -> lowest(tiers).price
        [] section = "acr_registry_day" -> Min({r.price : r \in tiers})
        [] OTHER -> IF charging = {} THEN 0 ELSE lowest(charging).price

\* What a row is a price of: a variant in a place; and the rows that are one,
\* when `variant` gives each row's.
Of(section, variant, r) ==
  <<IF section \in GlobalSections THEN Origin(section) ELSE r.region, variant[r]>>
Priced(section, variant) ==
  {r \in DOMAIN variant : /\ variant[r] # None
                          /\ section \in GlobalSections \/ r.region \notin {"", GlobalRegion}}

Tiers(section, variant, k) == {r \in Priced(section, variant) : Of(section, variant, r) = k}

PricesOf(section, variant) ==
  [k \in {Of(section, variant, r) : r \in Priced(section, variant)} |->
     Times(section, k[2]) * Charge(section, Tiers(section, variant, k))]

\* The variant of each row, and the second one of each host.
VariantsIn(e, section) ==
  [r \in ToSet(Catalog[e][FetcherOf(section)]) |-> VariantOf(section, r)]
AliasesIn(e) == [r \in ToSet(Catalog[e]["dedicated_host_hour"]) |-> HostAlias(r)]

\* The prices an edition publishes for a section, by region and variant.
Published(e, section) == PricesOf(section, VariantsIn(e, section))

\* With a host's other name where that is no host's own, and with what nobody
\* publishes because it is free.
Prices(e, section) ==
  LET published == Published(e, section)
  IN  CASE section = "dedicated_host_hour" -> Updated(PricesOf(section, AliasesIn(e)), published)
        [] section = "keyvault_key_month" -> Updated(published, [k \in {<<"", "software">>} |-> 0])
        [] section = "aks_cluster_hour" ->
             Updated(published, [k \in {<<q[1], "Free">> : q \in DOMAIN published} |-> 0])
        [] OTHER -> published

\* A section of a table, by region and variant.
Flattened(section, data) ==
  CASE section \in GlobalSections -> [k \in {Origin(section)} \X (DOMAIN data) |-> data[k[2]]]
    [] section \in FlatSections -> [k \in (DOMAIN data) \X {"_value"} |-> data[k[1]]]
    [] OTHER ->
         [k \in UNION {{g} \X (DOMAIN data[g]) : g \in DOMAIN data} |-> data[k[1]][k[2]]]

-----------------------------------------------------------------------------
(* Properties. *)

\* A refresh that read the whole catalog has exactly its prices: each variant
\* in each region at the lowest tier that charges, at zero only if every tier
\* is free, whatever the order of the rows and wherever a page ended or was
\* asked for again, and no section of one pack written over by another
\* (refresh.py:173-222, 104-134, 736-747).
PricesAreTheCharges ==
  pc = "built" =>
    \A s \in DOMAIN payload : Flattened(s, payload[s]) = Prices(edition, s)

\* Each fetcher that keeps to its sections makes them, of a whole answer, what
\* the edition publishes.
FetchersAreRight ==
  \A e \in Editions, f \in Fetchers :
    LET produced == Produce(f, Catalog[e][f])
    IN  DOMAIN produced \subseteq Declared(f) =>
          \A s \in DOMAIN produced : Flattened(s, produced[s]) = Prices(e, s)

\* The rows of one meter differ in their tier and price only, so those of a
\* tier have one price.  Of registries each row is a price of its own.
OneCharge(section, variant) ==
  \A q, r \in Priced(section, variant) :
    (Of(section, variant, q) = Of(section, variant, r) /\ q.tier = r.tier) => q.price = r.price
TiersDiffer ==
  \A e \in Editions :
    /\ \A f \in Fetchers : \A s \in Declared(f) \ {"acr_registry_day"} : OneCharge(s, VariantsIn(e, s))
    /\ OneCharge("dedicated_host_hour", AliasesIn(e))

\* The variants some edition publishes.
VariantsOf(section) == {k[2] : k \in UNION {DOMAIN Prices(e, section) : e \in Editions}}

\* No two VM sizes differ in their case only.
SizesDiffer == \A n, m \in VariantsOf("vm_hour") : SizeNames[n] = SizeNames[m] => n = m

\* Rates once in a table that was never lost survive every refresh: a section
\* that had prices has prices in the table that replaces it, however often the
\* catalog is reworded, a pack fails to load, or a refresh is killed
\* (refresh.py:752-791).
RatesSurvive ==
  Whole(table) /\ Whole(replaced) =>
    \A s \in DOMAIN replaced.sections :
      replaced.sections[s] # <<>> => Section(table, s) # <<>>

\* The rates a check can ask for, with the variants of their sections.
SectionOf(key) ==
  CASE key = "vm.month" -> "vm_hour" [] key = "acr.registry_month" -> "acr_registry_day"
    [] key = "dns.zone_month" -> "dns_zone_month" [] OTHER -> RateSpec(key).section
Questions ==
  UNION {{[key |-> k, section |-> SectionOf(k), variant |-> v] : v \in VariantsOf(SectionOf(k))} :
           k \in {spec.key : spec \in Rates} \cup Resolvers}

Regions == {r.region : r \in ToSet(Catalog[edition]["vm_hour"])} \cup {"nowhere"}

\* A rate that is not marked approximate is what the catalog published, when the
\* table was made, for that very region and variant, or for everywhere; zero,
\* then, only of what is free.  Of log rates it is what was published for the
\* fallback region, whichever was asked about: see FallbackIsMarked.  Of zones,
\* a tier there is none for is charged at the first
\* (pricing/__init__.py:44-99, rates.py:214-234).
ExactIsPublished ==
  (pc = "idle" /\ Whole(table)) =>
    \A q \in Questions, region \in Regions :
      LET zones == IF q.variant = "first_25" THEN 1 ELSE 30
          rate  == Rate(table, q.key, region,
                        IF q.key = "dns.zone_month" THEN zones ELSE q.variant)
          place == IF q.section \in GlobalSections THEN Origin(q.section) ELSE region
          published == Prices(table.generated, q.section)
          variant == IF q.key = "dns.zone_month" /\ <<"", q.variant>> \notin DOMAIN published
                     THEN "first_25" ELSE q.variant
          month(price) == CASE q.key = "acr.registry_month" -> (price * HoursPerMonth) \div 24
                            [] q.key = "vm.month" -> price * HoursPerMonth
                            [] q.key = "dns.zone_month" -> price
                            [] OTHER -> Monthly(price, RateSpec(q.key))
      IN  rate.approximate \/ (/\ <<place, variant>> \in DOMAIN published
                               /\ rate.usd = month(published[<<place, variant>>]))

\* Does not hold: the fallback region's price is marked wherever it stands for
\* another region's, as the docstring of PriceTable promises
\* (pricing/__init__.py:26-29).
FallbackIsMarked ==
  (pc = "idle" /\ Whole(table)) =>
    \A q \in {q \in Questions : q.section \notin GlobalSections \ LogSections}, region \in Regions :
      \/ Rate(table, q.key, region, q.variant).approximate
      \/ <<region, q.variant>> \in DOMAIN Prices(table.generated, q.section)

\* A refresh ends, however much the service throttles it: it has the table
\* written, refuses, or raises (refresh.py:115-125).
RefreshEnds == (pc = "fetching") ~> (pc = "idle")
=============================================================================
