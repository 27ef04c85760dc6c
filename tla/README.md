# A TLA+ model of zombiescan for Azure

`zombiescan` finds Azure resources that cost money and do nothing, and can delete
them. It reads with the operator's own `az` login, runs its checks from a pool of
threads, prices what they find from a table it ships, and sends deletes only for what the
operator agrees to. This directory models it from the credential to the report and the
cleanup, with the threads, Azure and the other people who work in the subscription, checks
the models with TLC, and proves the results that matter most with TLAPS.

## Inventory

| Component | State it keeps | Operations | What is hard about it | What makes it correct |
|---|---|---|---|---|
| Credential and token cache (`azure.py:256-410, 477-534`) | `_tokens`, `_sources`, a lock; one `az` process at a time | construct, `warm`, `token`, `prepare` | a lock taken after a check without it; `az` slow or failing with the lock held; `az account set` in another terminal; expiry in mid-scan | one `az` at a time; each request carries its own tenant's token, still valid; one refresh per expiry; nobody waits for ever |
| ARM transport (`azure.py:477-666`, `helpers.py:310-336`) | none of its own | `request`, `_send`, `get`, `list`, `graph`, `across_parents` | retries, lost answers, paging | every page read once; a request ends |
| Provider pre-check (`azure.py:670-703`) | `_providers`, a lock | `registered_providers` | looked up under the lock, filled without it; ARM answers an unregistered provider with an empty page; two spellings of a namespace | a check is never run blind, nor refused without reason |
| Scan engine (`engine.py:40-261`) | the pool, the futures, `ScanResult` | `scan`, `_run_one`, `completely_failed` | completion in any order, failures of every kind, a scan that read nothing | one verdict per (check, subscription) pair; "nothing found" is told from "nothing read" |
| Scope and selection (`engine.py:97-194`) | none | `resolve_subscriptions`, `filter_locations`, `select_checks` | defaults and contradictions | pure functions |
| Clean (`clean.py`, `cli.py:340-491`) | `Outcome` per finding, the prompt loop, the audit | `plan_for`, `apply_outcome`, `clean_command` | long-running operations, retries of changes, state read at planning and used minutes later, leaving in the middle | steps in order and only if agreed to; a backup before a delete; nothing lost that planning saw; partial work is told |
| Cleaners (`cleaners.py`, `packs/*/cleaners.py`) | `CLEANERS` | one planner per check | what is re-read and what is not | a plan only for what is still waste |
| Network and compute checks (11 of `packs/core`) | none between scans | two or three lists each, compared with each other; the charges of a finding | the lists are read at different times; one charge seen by several checks; a delete that leaves behind what the resource held | each charge counted once; what is in use is not reported; nothing is passed over for ever |
| Platform service checks (18 of `packs/core`, `packs/aks`) | none between scans | a list of parents, a read per parent, metrics | a read that is refused is neither "empty" nor "absent" | an undisturbed scan is exact or says that it failed |
| Packs (`packs/__init__.py`, `registry.py`) | `PACKS`, `CHECKS`, the pack being loaded | `discover`, `register_pack`, `check` | a pack that fails half way | all of a pack or none of it |
| Prices (`pricing/`) | a table in a file | look-ups; `refresh` | tiers and pages in any order, throttling, a renamed meter, a write in place | a price is what the catalog charges; a refresh never loses a section; a guess carries a tilde |
| MCP server (`mcp_server.py`) | none between messages | `dispatch`, the tools | notifications, broken lines, tools that raise, reports written by somebody else | one answer per request; plans only from a report of the same principal |
| Command line (`cli.py`) | the report file | `scan`, `clean`, `clean --from` | exit codes, filters, a report truncated and then written | no all-clear from a scan that read nothing |
| Reports (`report.py`, `html.py`) | none | terminal, JSON, HTML, script | four outputs of one result, cut to limits | the same figures everywhere |
| Records and helpers (`models.py`, `helpers.py`, `building.py`) | none | attribution of addresses, ages, metric sums | | |

How they interact: the commands and the MCP tools build one `Arm` over one
`Credential` (`engine.verify_credentials`). `engine.scan` calls `Arm.prepare` on the
main thread, then its workers share the `Arm`: its token cache and its provider cache
are the only shared state. Checks and cleaners call `Arm` and return findings and
steps; `clean` sends the steps. A report file is what one invocation leaves to another,
and the price table what a refresh leaves to the checks. Azure and the people who use it
change underneath.

`PROJECT.json` lists every component with its status and, under `hazards`, each place
where something can go wrong that a test would hardly reach.

## Modules

| Module | Models |
|---|---|
| `TokenStore` | what the rest of the program relies on: a table of tokens by cache key, filled by one mint at a time, in which a good token is never minted again |
| `Credential` | `azure.Credential`, `Arm.token_source` and `Arm.prepare`, with the worker threads, `az` and the clock; implements `TokenStore` |
| `CredentialProofs` | theorems about `Credential` |
| `ScanReport` | what `engine.scan` promises: one verdict per pair, for good, and a report only when all have one |
| `Scan` | `engine.scan`, `_run_one`, `registered_providers`, `classify`, with the pool and the people who register providers; implements `ScanReport` |
| `ScanProofs` | theorems about `Scan` |
| `Clean` | `clean_command`, `plan_for`, `apply_outcome`, the retries of `_send` and four shapes of cleaner, with Azure's long-running operations and the people who use the resources |
| `CleanProofs` | theorems about `Clean` |
| `Packs` | `packs.discover`, the imports it starts, the registries they fill, `select_checks`, over several discoveries in one process |
| `Transport` | `Arm.list`, `Arm.graph`, the attempts of `_send`, and `helpers.across_parents` over a pool of such reads |
| `TransportProofs` | theorems about `Transport` |
| `Inventory` | the disks, cards, addresses, networks and VMs of a subscription, what uses what, and what Azure refuses to delete: the other side of `Sweep` |
| `Sweep` | the eleven network and compute checks, list by list, and their cleanup, over an inventory that changes; composes with `Inventory` |
| `SweepProofs` | theorems about `Sweep` |
| `Services` | the nineteen checks of platform services, read by read, and the cleaners that read again |
| `ServicesProofs` | theorems about `Services` |
| `PriceTable` | `pricing/__init__.py`, `pricing/rates.py`: every rate and resolver |
| `Refresh` | `pricing/refresh.py` with every fetcher, over the retail catalog; composes with `PriceTable` |
| `RegistryProofs` | theorems about `Packs`, about `Refresh`, and about the rates read from its table |
| `Reports` | scope and selection, and what each output makes of a result: pure operators |
| `Frontends` | `cli.scan_command`, the first half of `clean_command`, and the MCP server with its tools, over one report file; composes with `Reports` |
| `FrontendsProofs` | theorems about `Reports` and `Frontends` |
| `MCCredential`, `MCScan`, `MCClean`, `MCPacks`, `MCTransport`, `MCSweep`, `MCServices`, `MCRefresh`, `MCFrontends` | the instances TLC checks |

### Credential

`tokens` and `sources` are `_tokens` and `_sources`; a key is a tenant, the default
key, or a subscription `az` has never seen. `lock` is `_lock`; the main thread and each
worker have a program counter. A worker's call of `token` is three steps: the look at
the cache without the lock (`Request`), the decision on what it saw (`FastPath`,
`SlowPath`), and the second look once the lock is free (`FoundRefreshed`, `StartAz`).
`StartAz` to `AzAnswers` or `AzFails` is the time an `az` process runs. The tenant of
the token it returns is that of the subscription it was given, or of the current
default, which `AccountSet` changes at any moment. `SendWith` to `Answered` is one
attempt of `_send`; an attempt that is retried asks for a token again, so it is a new
request here. `warm` is `WarmHit`, or `WarmMiss` followed by `WarmAnswers` or
`WarmFails`. The sentinels are separate: `Unset` is a key that `_sources` does not
hold, `None` one that it holds with no subscription.

Bounds: `MaxNow` stops the clock, `MaxCalls` bounds the requests of a worker; neither
is in the code. `SKEW`, `RequestTimeout` and `Lifetimes` are shrunk together; with a
lifetime of 3, a skew of 1 and a clock up to 4, tokens expire between the fast look and
the slow one, while another thread mints, and while a request is in flight. Two
assumptions, `RequestTimeout <= SKEW` and every lifetime above `SKEW`, are named in
`TimeAssumption`: `urlopen` limits each socket operation to 60 s, not the whole answer,
so an answer that trickles in for five minutes is outside the model.

### Scan

The queue is an index into `Jobs`, which are in subscription order as in the code. A
worker's path through `registered_providers` is `Hit`, or `Miss`, a `ReadPage` per page
and `Store`, with the lock held only inside `Hit`, `Miss` and `Store`. `RunCheck` asks
Azure (`Answer`) what it has registered at that moment and gets an empty page if
something needed is off. `Toggle` registers and unregisters; `on` and `off` are history
variables that hold what could have been seen since the scan began, and the
properties are stated with them. `Record` is one turn of the `as_completed` loop, in any
order. A failure is one of `Failures`, records of the fields `classify` looks at.

### Clean

`todo`, `status` and `steps` are the list of outcomes; `current`, `step` and `attempt`
are where `apply_outcome` and `_send` are. `Effect` is what Azure does with a request it
takes; `StepRetried` and `StepFails` may have had it or not, which is a lost answer. A
PUT of a snapshot starts a copy and a DELETE starts a deletion; `CopyEnds` and
`DeleteEnds` end them well or badly at any later time. `Touch` is somebody starting or
stopping to use a resource; `touched` is a history variable of what changed since it was
planned. A resource is reduced to `used` slots of `size`: a disk is attached or not, a
group has something in it or not, a reservation has slots in use. Findings are taken in
any order, where the code takes them by cost, because no plan or outcome depends on
another's. The one bound is `MaxTouches`; `MAX_ATTEMPTS` has its real value, 4.

### Packs

An entry is a pack's name and its module; `Body` gives the statements a module runs
when it is imported, and a module on `stack` is at its next one. `RegisterPack` is
`register_pack`, `Add` is `@check`, `@cleaner` or `register_rate` (one registry stands
for all three: a name taken in one is never offered to another here), `Import` is an
import inside a pack. `importing` says that `_load_module` is running, and
`current_pack` is its hint. `Done` keeps a module in `sys.modules`; `Raise` is an
exception, which ends every import on the stack: these modules run again at the next
attempt, the completed ones do not, and nothing is taken out of a registry. From a pack
that ships with zombiescan nothing catches the exception, and the command ends
(`"crashed"`; in the MCP server only the tool call ends, so another discovery may
follow). `Selected` and `SelectNamed` are `select_checks`. `flaky` is a statement that
fails now and then, such as one that needs a file or the network. Bound: `MaxRounds`
discoveries.

`GoodPacksLoad` is about packs that keep to `docs/PACKS.md` (`WellFormed`) and share
nothing (`Alone`). A pack's import need not reach every module it ships, so `WellFormed`
asks for it: `Reached` says that no proper part of the pack holds its entry module and
is closed under its imports. `Private` says that nobody else imports its modules, by a
statement or as an entry; `DisabledPacksAreSilent` needs only that.

### Transport

A read is a call of `list` or `graph` on a thread of `across_parents`; the repository
walks parents with `list` only, and the read with `graph` stands for one that a check
makes by itself. The rows of a page are yielded before the next page is asked for, so
`read`, the pages whose rows a read has, tells all. `Asks` is a request sent; `Answered`,
`Transient`, `Refused`, `Breaks` and `NoToken` are the ways it ends. `Breaks` is an error
that `urlopen` does not turn into a `URLError`: while the answer is awaited or read. It
fails the whole walk, which `helpers.py` says it must not: the safety property,
`OnlyUnreadableAreMissed`, allows either, and `UnreachableIsSkipped` is the promise
itself, which does not hold. `Collect` is one turn of the `as_completed` loop, in any
order; `Leave` is the exit of the `with` statement, which waits for the threads, by the
end of the loop or by an exception. Azure is taken to hand out, for a graph query, an
empty page only after all rows (`TransportAssumption`): the loop stops there even if a
token follows. `asked` counts requests; it needs no bound.

### Inventory and Sweep

`Inventory` is Azure: `exists`, `uses` (links from what refers to what is referred to)
and `power`. What it refuses to delete, and what a delete takes along, is what the
cleaners and the notes in the findings say of it. Every check of `Sweep` is an operator
over `v`, where `v[i]` is the whole inventory at the moment of the check's i-th list;
it looks only at the part that list returns. `Read` is a list that is not the last one,
`ReadLast` the last and the findings; `AsksAgain` has the early returns. A finding
carries the set of resources whose charge its cost adds up, which is what matters of a
cost here. `Exclusive` is what Azure guarantees of the links: a disk, an address and a
card have one holder, a subnet has one NAT gateway, and the subnets of a gateway are of
one network. The code relies on the last: `empty_vnet` charges a network for the gateways
of its subnets, so a gateway with subnets in two empty networks would be charged twice.
`Clean` is one finding's cleaner; `Rescan` begins the next scan, since the
findings' notes count on it. `Others*` are other people; `touched` is a history variable
of what they changed since the scan began. Bounds: each scope gives its number of
`changes`.

### Services

A service is reduced to `load` (what keeps it from being idle: apps, VMs, nodes, images,
records, requests in a week) and `held` (what it holds up meanwhile: reserved slots,
minimum nodes or replicas; of an AI account, its projects); `closed` are those that refuse
to be read, and `sealed` the storage accounts of which only the lifecycle policy does, the
second of the two reads `unmanaged_storage_account` makes of an account. One check is run,
over the services it can report. All parents of a check are read at one moment, where the
code walks them one after the other: what the parents hold is not compared across parents
by any check but the apps environments, whose two lists are two reads here too.
`MustAnswer` names the refusals that end a check (`Raise`), the others are skipped. `Plan`
is the cleaner of one finding, with the reads of those that look again; `Apply` sends the
step. `filled` is a history variable of what was put to use since the last read. Bounds:
`Bound[s]`, `MaxChanges`.

### PriceTable and Refresh

Prices are whole cents. The catalog is what the Retail Prices service answers to each
fetcher's query, so a query's own conditions are the service's; what the fetcher filters
itself (`meter_is`, the spot SKUs, Windows products, units, zones) is modelled row by row.
A meter's name is a sequence of its words as far as they are told apart. `ReadPage` and
`Fetch` read pages, `Throttled` is a 429, `RequestFails` any other error. `Refuse`,
`Truncate` and `Write` are the end of `main`; `Kill` may come between the last two.
`Republish` changes the catalog between refreshes, `Discard` is somebody removing a broken
table. `replaced` is a history variable. `UnitPrice`, `ByRegion`, `FlatByRegion` and
`FlatGlobal` are the helpers every fetcher is built from; `FirstTier` is the sort in them,
stable, so it says which row is read when two are of one tier. `Produce` is a fetcher,
`Fetch` checks that it declared what it produced, and `Updated` is the table it goes into.
`Prices` is the reference: what the catalog charges for each variant in each place, from
the set of its rows and with no order among them. It shares with the fetchers which rows
are of which variant, and nothing of how they are grouped, sorted, multiplied out, merged
or written down. The catalog does not change while a refresh reads it: an answer that
changed between two pages is outside the model, and the code does not look for one.
Bounds: `MaxEditions`; `ThrottleRetries` is reduced.

`Rates` is the set of registered rates, each a record of its key, its section and how
the section is read; `RateSpec` finds one by its key, and `Rate` is the look-up a check
makes. `Questions` are the rates with every variant some edition publishes for their
section, so `ExactIsPublished` also asks for what the present table lacks. Of DNS zones
it says what the code does: a table that has no price beyond the first 25 zones answers
with that of the first, and without a tilde. The log rates are asked for in the fallback
region only and kept without a region: `Origin` says where a section without regions was
published, and of a log rate `ExactIsPublished` says that it is the fallback region's,
whichever was asked about. That it ought to be marked is `FallbackIsMarked`, which does not
hold.

### Reports and Frontends

`Reports` has the operators both ways in share: `FilterLocations`, `SelectChecks`,
`ResolveSubscriptions`, `CompletelyFailed`, and `Render`, `ToJson`, `ToHtml`, `ToScript`,
each a record of the figures that output gives. `Keep` is a list comprehension: the
findings of a list that are in a set, in the order of the list. Costs are counted in
tenths of a cent (`Cent`), and `Rounded` is `round(x, 2)`, half to even, wherever the code
has it: a finding as written down (`Shown`), a row by check, a total. Sums are exact: what
floating point adds to them is far below the cent, and is left out. `RegionOf` is
`region_of`, a location as ARM spells it. `Jobs` are the pairs of a scan in order, and a
subscription or a check named twice has its pairs twice, which answer alike; `WasteOf` is
what one pair finds. In `Frontends` a scan answers per pair any of the outcomes
`ScanReport` promises. `CliScan`, `CliCleanFrom` and `CliClean` are invocations; a report
is truncated in one step and written in another (`CliWrite`, `ServerWrites`), and two
writers at once may leave a mixture (`Leaves`). `Handle` is one turn of `serve`:
`HandleText`, `HandleUnreadable`, `HandleRaises`, `HandleStatic`, `HandleCall`,
`HandleScan`. `HandleUnreadable` is a line that fails to be read otherwise than with a
`JSONDecodeError`, and ends the server; since input is decoded ahead of its lines, it need
not be the next one. `ServerStops` is the client hanging up or a kill, at any moment, and
`ServerStarts` the next start. A notice is a message whose method starts with
`notifications/`: the code drops it even when it has an id, and then it is not owed an
answer here, because the protocol has no such requests. A request's id is not null
(`FrontendsAssumption`), which JSON-RPC asks of a client. `SignIn` is `az login`. `said`
is what the last step told; `owed` and `found` are history variables: the answers a client
waits for, and what scans returned to each principal. Bounds: `commands`, and
`outstanding` lines of a client.

## Runs

| Run | Expect | Shows |
|---|---|---|
| `credential_pool` | pass | two workers over two keys of which one is a known tenant's and one a subscription of its own: the safety properties, the refinement of `TokenStore`, and that nobody is stuck |
| `credential_lazy` | violation | `clean --from` and the MCP `plan_cleanup` do not call `prepare`, so a request to a second tenant is sent with a token of the default one |
| `scan_pool` | pass | two workers over three pairs, two providers in two spellings on two pages, one change of registration: `VerdictsAreJustified`, `FailureIsTold`, the refinement of `ScanReport`, `ScanEnds` |
| `clean_apply` | pass | a disk, a resource group, a reservation of two slots and a network that has no cleaner, all four attempts of `_send`, one change of use by somebody else: steps in order and as agreed, the snapshot before the delete, nothing lost that planning saw, partial work told, and the command ends |
| `clean_backup` | violation | a disk's delete is accepted while its snapshot is still copying |
| `packs_load` | pass | three discoveries with different packs disabled, over the two shipped packs (one fails now and then), a good pack of three modules, one that fails now and then after its first check, one that never registers, one for another API |
| `transport_walk` | pass | three reads on two threads: one with an empty page in the middle, one with a single page, a graph query with a token after its last page; two attempts per page |
| `sweep` | pass | one resource of each kind in every legal constellation, all eleven checks, scanned and cleaned for ever; and the two checks with the most lists while somebody changes something: `CarriedOnce`, `OnlyWhatCameBackIsLost`, `WasteGoes` |
| `sweep_snapshot` | violation | a disk made and backed up between the two lists of `orphaned_snapshot` makes its snapshot a finding |
| `services` | pass | each of the nineteen checks over every load of its services, any of them closed or sealed, two changes by others: `StillScanIsExact`, `NothingInUseIsLost` |
| `refresh` | pass | a catalog with the rows each fetcher keeps and those it must drop, and per fetcher the same rows reversed, gone, free, or in one region only, from page to page, killed and throttled: `PricesAreTheCharges`, `RatesSurvive`, `ExactIsPublished`, `RefreshEnds` |
| `frontends` | pass | options of the command line, arguments of the tools, lines of the protocol, and reports that change hands between two principals and two writers: `OneAnswerEach`, `NoFalseAllClear`, `FiguresAgree`, `ActsOnWhatWasReported`, `AnswersCome` |

Every `pass` run finishes in a minute or two. `MCFrontends` explores its four groups of
inputs apart, and `MCSweep` compute and networking, so that they do not multiply: the
parts of a group are the ones the code brings together. `MCSweep` has a second network,
because a gateway and its charge can only be mixed up between networks where there are
two. `MCRefresh` also has TLC evaluate on its catalog what the theorems suppose of one:
`TiersDiffer`, and `SizesDiffer`, which `RatesArePublished` needs besides.

Why these bounds are enough to be of interest. Two workers are what it takes to race for
the lock or the cache, and a third only queues behind them; two subscriptions share or do
not share a tenant, a cached entry, a provider. Three pairs leave one on the queue when
both workers are busy. Two slots distinguish a reservation that is empty, partly used and
full, two nodes a cluster that is held partly idle. The lists of cleaners and failures
hold one of each kind the code tells apart. Three discoveries are a first one, one with a
pack disabled, and one after it. Two attempts of a page are one that is retried and the
last. One change by somebody else, anywhere between the lists of a check, the prompt and
the delete, is what makes a reading stale; a second may undo it. Two editions of a catalog
make a table that a later refresh replaces. Two lines under way let one be answered while
the next waits. Ten units of cost to a cent make costs that round up, down and from half
way, and two of them add up to another cent than what is written of each. `FiguresAgree`
asks for equal counts, and for costs that differ by no more than half a cent for each
figure rounded on the way. What does not depend on a bound is proved instead.

`CHECK_DEADLOCK FALSE` is set where the program ends (a scan returns, a command exits)
or where the clock and the bounds stop.

### Fairness

`Credential`: weak fairness of the main thread and of the steps of a `token` call
already begun. `_run_az` kills `az` after 120 s and `urlopen` times out, so a step begun
is taken; a worker is not obliged to begin another request. Weak fairness is enough
although the lock is contended: with bounded requests a waiter is in the end alone.
`Scan`: weak fairness of the main thread and of each worker, for the same reasons.
`Clean`: weak fairness of what the command does by itself. The operator is not fair: a
prompt may stay open for ever, and `CleanEnds` says so.
`Transport`: weak fairness of each thread and of the walk: socket operations time out, a
wait is at most a minute, and the caller consumes the generator to its end. No answer is
assumed to be a good one. `Packs` and `Services` need none: their properties are of
safety. `Sweep`: the tool, once run, makes its next list and comes to its next finding;
the operator scans and cleans again, which is what `WasteGoes` is about, and nobody else
is fair. `Refresh`: the service answers each request, if only to throttle it, and the
process is run; it may be killed at any time all the same. `Frontends`: the server reads
its next line and finishes its write.

## Properties that do not hold

The three `violation` runs each check what a document or comment of the repository says.
`PROJECT.json` (`findings`) quotes the line for each. In short: the token cache
depends on `prepare` having been called for every tenant, which two callers do not do;
accepted is not completed; and the lists a snapshot is judged by are of two moments.

Seven more statements of the repository's documents and comments are written down as
properties, each marked "does not hold" and beside the one of the passing runs that says
what does. Each has a configuration of its own, and TLC finds it violated in a
minute; they are not among the runs of `PROJECT.json`.

| Configuration, of module | Property | What the code does |
|---|---|---|
| `transport_cut`, `MCTransport` | `UnreachableIsSkipped` | `urlopen` wraps in `URLError` only what fails before the request is sent. A timeout while the answer is awaited or read, or a body that is no JSON, is neither retried nor turned into an `ArmError`, so `across_parents` does not skip that parent (`azure.py:589`), where `helpers.py:323-325` says that "one unreachable vault must not cost the findings from the other fifty-nine" |
| `services_policy`, `MCServices` | `RefusalIsNotEmptiness` | any error of the policy read counts as "no policy" (`unmanaged_storage_account.py:152`), where the comment speaks of a 404 |
| `refresh_log`, `MCRefresh` | `FallbackIsMarked` | Log Analytics is priced in `eastus` only and that price is exact everywhere (`pricing/refresh.py:708`, `pricing/__init__.py:76-77`), where `pricing/__init__.py:26-29` has the fallback region's price marked |
| `frontends_notification`, `MCFrontends` | `NotificationsAreSilent` | what raises is answered, a notification too, with a null id (`mcp_server.py:807-814`), where `mcp_server.py:750` says "Returns None for a notification" |
| `frontends_page`, `MCFrontends` | `PageIsNoFalseAllClear` | the page is not told what the options hid (`html.py:170`), and says that no unused resource turned up; "an empty page must not read as more than it is" (`html.py:171-172`) |
| `frontends_cents`, `MCFrontends` | `EstimateIsTheTotal` | totals, rows and findings are rounded each on its own (`report.py:277`, `models.py:83`, `mcp_server.py:152`), so the total of a report and `estimate_savings` of all of it may differ by cents, where `mcp_server.py:419` says "Returns the exact figures". `FiguresAlwaysAgree` proves by how much at most |
| `frontends_crash`, `MCFrontends` | `ServerOutlivesBadLines` | only `JSONDecodeError` is caught (`mcp_server.py:791`). A line nested too deeply, a number with too many digits, or bytes that are no UTF-8 end the server, where `mcp_server.py:809` says that it "outlives a bad request" |

What else the models show of the code, without a run of its own.

Cleaning. Every finding is planned before the first prompt and nothing is read again
before its DELETE (`cli.py:413`), so a resource group that fills up meanwhile is deleted
with its contents, where `packs/core/cleaners.py:469-474` speaks of the apply. The audit
is written after the loop, so `^C` at a prompt (`cli.py:448`) leaves changes no file
records, where `README.md:452-453` promises every request attempted. What is reported as
freed counts the disks and addresses a deleted VM, balancer or card leaves behind
(`clean.py:42`, `cli.py:473`); the next scan finds them again. DNS zones, registries,
databases, keys and clusters are deleted without being read again
(`packs/core/cleaners.py:382, 442`). The snapshot taken before a disk is deleted is, at
the next scan, the snapshot of a deleted disk, and the next cleanup deletes it.
`clean --from` of a report whose scan read nothing says "Nothing to clean" and exits 0
(`cli.py:365-411`), where a fresh scan that read nothing refuses (`cli.py:397-402`).

Checks. `empty_vnet.py:77-82` says of its finding that "this one goes away with them"; an
empty network stays one. A shared disk is charged to each VM that has it.
`unused_availability_test` lists the components before the tests, so a test made in
between looks orphaned.

Scan and packs. Workers that
start on the same subscription each fetch its provider list, where `engine.py:200-201`
speaks of one call. What a pack registered before its import failed stays registered
(`packs/__init__.py:189`), where `cli.py:42-43` says a failed pack costs the checks it
would have contributed. A check belongs to the pack being loaded and not to the one that
ships it, so an enabled pack that imports modules of a disabled one brings its checks
back; `DisabledPacksAreSilent` holds where nobody does. Check names are global to all
packs, where `docs/PACKS.md:393-394` says two may ship the same.

Prices. The guard of a refresh looks at whole sections: one that loses a region, a
variant, or the `hsm` prices beside the built-in `software` one, passes
(`pricing/refresh.py:643-667, 752-769`). Two packs may declare the same section, and the
later fetcher's wins (`737-743`). A refresh killed while it writes leaves a table that no
scan and no refresh can read until somebody removes it. The price of more than 25 DNS
zones, from a table without `beyond_25`, is `first_25` without a tilde
(`pricing/rates.py:214-234`).

Reports and front ends. `plan_cleanup` counts a finding whose plan failed as planned and
as freed (`mcp_server.py:647-681`). `estimate_savings` and `plan_cleanup` of a report
that read nothing give zero without a word of it, unlike `summarise`
(`mcp_server.py:386-387`). A scan with every pack disabled attempts nothing, says "No
waste found" and exits 0. `scan_subscription` with a mistyped location returns zero, where
`_filtered` would name it (`mcp_server.py:162-167`). With a limit below the number of
checks, the table leaves checks out that `report.py:51-54` says it does not. A negative
limit makes `planned` and `not_planned_because_of_limit` miss the total. A request with an
id whose method starts with `notifications/` gets no answer (`mcp_server.py:764-765`). A
subscription named twice is scanned twice (`engine.py:117`). Two accounts az has no name
for share one principal (`azure.py:424-430`), so `clean --from` cannot tell them apart;
`ActsOnWhatWasReported` assumes nothing of names but is stated of principals.

## Proofs

All proofs are of every value of the constants under the modules' assumptions
(`ConstantsAssumption`, `TimeAssumption`, `CleanAssumption`, `ScanAssumption`,
`PacksAssumption`, `TransportAssumption`, `InventoryAssumption`, `SweepAssumption`,
`ServicesAssumption`, `RefreshAssumption`, `CentAssumption`, `FrontendsAssumption`). Three
theorems have hypotheses of their own, `PricesAreRight`, `RatesArePublished` and
`FiguresAlwaysAgree`, and `CredentialProofs` supposes for one that the scope is prepared:
each is named below. `InventoryAssumption` says that a resource is of one type, which its
ARM id spells out, and `ServicesAssumption` which checks exist and which of them have
services they never report.

`CredentialProofs`. Types come first, with each worker's target in
scope. `LockInv` relates the lock to who is running `az`, which gives `OneAz`.
`InTime` follows from `InFlightInv`: while a request is in flight, its deadline lies
before its token's expiry, which holds because a token is used only with more than
`SKEW` left. `RightTenant` assumes that the scope is prepared and rests on an invariant
over `sources` and `tokens`: once a key is warmed its source is a subscription of its
tenant, and every token under it is of that tenant; this is where the order "remember
the source, then mint" matters, and where `credential_lazy` fails. `Refinement` maps
each action to one of `TokenStore` or to a stutter, `Minting` being the key whose `az`
runs. `RefreshOnce` needs that the thread that holds the lock found its key stale and
that the key stays so until it answers.

`CleanProofs`. The inductive invariant `IInv` has a part per concern: `PhaseInv` (where
the command is, and that what it is sending is planned), `ShapeInv` (what a plan
contains), `AcceptedInv` (which steps Azure took, and that exactly those before the
current one were taken), `BackupInv`, `ContentInv` (content that is there although a
delete is planned arrived after the plan) and `ExitInv`. Neither property is inductive by
itself: `OnlyAgreedStepsInOrder`, for instance, says nothing of the step being sent. Each
part has a lemma for the initial states and one for a step, with a step of the proof per
action.

`ScanProofs`. `Base` is the types with `WorkInv`: a job a thread works on was taken
from the queue, is awaited, has no outcome yet and is that thread's alone; a job still
in the queue is pending; whatever is no longer awaited has an outcome. From it
`Refinement` maps each action to one of `ScanReport` or to a stutter. `FailuresTold`
adds `CountInv`: the errors and the `unavailable` count are exactly what was recorded,
so they compare with the number of pairs. `Justified` rests on `Accounts`: the cache
and each thread hold an account of a subscription's namespaces that somebody could have
given since the scan began, and nothing seen is forgotten. A verdict is thus right about
a state each namespace was in during the scan, which need not be its state when the
report is printed: more cannot be promised of a list read page by page and cached.

`RegistryProofs`, of `Packs`. The invariant is `TypeOK` with three parts. `ImportInv` says
how far the import of the current entry has come; `RepeatInv` that the module of an entry
that was ever loaded is in `sys.modules` and its name in `PACKS`, so that loading it again
runs nothing and finds it registered, which is the argument for `Repeatable`; `AccountInv`
that the entries passed so far are each in one part of the report.

`GoodPacksAreLoaded` speaks of what a chain of imports has run. `StackInv` says that a
module is on the stack once, and not when it is kept; `PrivateInv` that the modules of a
private pack run only while that pack is being loaded, so that what they register is
theirs. `GoodInv` has three parts for each good pack: while a module of it runs only
modules of it do (`Together`), so that nobody else's exception ends its import; the
registries hold exactly what the statements run so far have put there (`Effects`), so that
no registration is a duplicate and none fails; and an entry that was passed is loaded
(`Passed`). `Effects` is why the pack must not fail by itself: a module that is run again
after an exception finds its own names taken. In the end the kept modules of the pack
include its entry module and are closed under its imports, hence are all of it by
`Reached`. `DisabledAreSilent` needs `PrivateInv` and `OwnerInv`: what is in the
registries was added by some module, in the name of its own pack if that pack is private.

`TransportProofs`. `ReadOK` says that a read holds the pages before the one it asks for,
in order, and that none of them was the last; `CountOK` bounds what it has asked by
`MAX_ATTEMPTS` per page passed plus the attempts at this one; `WalkInv` that what was
yielded is what the completed reads had. With `PageBound`, that a read is never past the
first page at which it must stop, these give the theorems.

`SweepProofs`. After the types, `ServingIsKept` is `OnlyWhatCameBackIsLost` for any
inventory, any order of checks and any number of changes. The deletes of VMs and load
balancers look at nothing, so what protects a working one lies in the scan: `IdleInv`
says that whatever nobody touched since the scan began serves now only if it did in
every list read so far, and that what is reported and untouched does not serve.
`FoundToBeIdle` goes through the checks (only two can report a VM or a balancer) and
`FoundIsIdle` through the lists: a VM is judged by the second list of its check, a
balancer by the first.

`ChargesCounted` is `CarriedOnce`. `CountInv` keeps `Exclusive` under every change of the
inventory and says of a scan nobody disturbed that each list read shows the present
inventory and that the report holds what the checks done so far find when all their lists
are of one moment (`AtOnce`). When all are done, the charges of a resource are counted by
cases (`DiskOnce`, `AddressOnce`, `GatewayOnce`): `Carriers` tells which findings can
carry it, `OneHolder` that it has one holder, and each case shows that exactly the
finding of that holder, or its own if it has none, carries it. `GatewayOnce` needs that
the gateways of a network are no other network's, which is where the rule of Azure in
`Exclusive` comes in.

`ServicesProofs`. `KeepsWhatIsUsed` is `NothingInUseIsLost`. `SafeInv` follows a service
from its reads to its delete: unless somebody changed it since (`filled`), the reads had
its present load; what is reported by a check whose cleaner does not look again has none
(`FoundHadNoLoad`); a planned delete takes nothing along that is in use (`PlanIsSafe`,
cleaner by cleaner, with the profiles that go with an environment); and a planned shrink
keeps what is used. `StillScanExact` is `StillScanIsExact`: as long as nobody changes
anything every read sees the same world (`StillInv`), and in such a world each of the
nineteen checks, with its early returns, finds what is idle (`FoundInAStillWorld`), except
that of storage accounts which refuse only their policy it finds all. It needs that an
environment comes and goes with its profiles.

`RegistryProofs`, of `Refresh`. `NoRateIsLost` is `RatesSurvive`: `WriteInv` carries the
comparison made before the table is emptied to the moment the new one is written. It does
not look into the fetchers, so it holds for whatever they compute. `MadeOfWhole` is about
the loop around them: each section built or written is what a fetcher that kept to its
sections makes of the whole answer of one edition, never of some of the pages, of a page
read twice or of another fetcher's rows (`MadeOfWholeAnswers`, which no run checks by
itself). Its invariant is `ReadInv`: what has been read is a beginning of the answer to
the fetcher at work, and everything in the table so far is made of whole answers.

The other half of `PricesAreTheCharges` is that a fetcher, given a whole answer, makes of
it what the edition charges (`FetchersAreRight`). That does not hold of every catalog: of
two rows of one tier with different prices, the code takes the one that comes first. So
it is proved where there are none, `TiersDiffer`: rows of one meter differ in their tier
and their price only, which is what `unit_price` says of the catalog
(`pricing/refresh.py:176-177`), and, in a section priced the same everywhere, also
between regions. `FetchersMakePrices` is the implication, and it goes by the shapes of
sections. `FirstTierFacts` and `UnitCharge` say that the stable sort reads a row of the
lowest tier that charges, and `KeyCharge` that what it costs is the charge of the rows
with that key. From these, `RegionPrices`, `FlatPrices`, `GlobalPrices` and `OnePrice`
each say for one shape that a section, flattened to place and variant, is `PricesOf`.
`MergedPrices` (hosts by two names, where the ARM name's price wins), `FreePrices` (the
cluster tier nobody publishes) and `GlobalUpdated` (the software key) are about the
sections that are written over after they were made. Then there is a lemma for each
fetcher, or for the ones of a kind. `PricesAreRight` puts both halves together.

`RatesArePublished` is `ExactIsPublished`, and goes on from there: by `ReadInv` every
table in the file holds what its edition published (`Right`), and the rest is about
looking up. There are three shapes of section (`GlobalPrice`, `FlatPrice`,
`VariantPrice`), and `Shaped` says that every rate is registered for the shape its section
has: a rate read by region from a section of prices for everywhere would find nothing but
a fallback. Each way of looking up then gives a price of the right place and variant or is
approximate: `GlobalExact`, `VariantExact`, `FlatExact`, `VmExact`, `AcrExact`,
`DnsExact`. `FlatExact` needs that a price is a number, so that a zero in the table is a
published zero (`FlatCharge`). Its hypotheses are `TiersDiffer` and `SizesDiffer`, that no
two VM sizes differ in case only: `vm_month` would take either. Of log rates it says what
is so, that they are the fallback region's.

`FrontendsProofs`. Its first half is about `Reports`, whose operators walk over lists.
The library's induction theorems have an operator parameter, so induction is done over
sets of numbers instead: `Least` is the least number principle, from the well-foundedness
of `<`; `Induction` is over a set; and `FoldExists` shows that a function defined by
recursion over `0..n` exists. From them: what `Sorted`, `Keep`, `FlattenSeq`, `TotalCost`
and `Jobs` return for every list, that filtering splits a list's count and cost
(`KeepSplit`), and that the groups of a list add up to it (`GroupAddsUp`). `RoundedNear`
says that rounding moves a figure by half a cent at most, `ShowsNear` that the findings as
written come within half a cent each to the exact sum, and `ByCheckBreaks` that rows
rounded one by one do too, since no row is without a finding.

The second half is about `Frontends`. `ReportsAreMade` is the inductive invariant of the
two ways in. `ReportsInv` says that a report in the file, or about to be written by
either process, is `Made`: its findings are ones a scan returned to
the principal it names, its count is theirs, and its total is theirs but for half a cent
per finding and one more. `ToldInv` says that what the last step told is right, of a scan
(`ScanHonest`, `ScanAgrees`), a summary, an estimate or a plan. Neither property about
what is told is inductive: what `plan_cleanup` says depends on a report written many
steps ago, perhaps by the other process, and `found` must not have lost anything since.
`NeverAFalseAllClear`, `OnlyWhatWasReported` and `FiguresAlwaysAgree` follow from it. The
last supposes `PlanLimits`: no message asks for a plan with a limit below zero. The tool's
schema says "integer" and the code does not check it, and below zero the figures do
disagree, as said above. What the three have in common is `ScanFacts` and `ScannedPairs`:
a scan that found something read the pair it found it in, and `errors` and `unavailable`
make up `attempted` only if no pair was read, however often a pair is named. `ScopeIsHere`
ties what a scan lists to what there is in the regions asked for.

`OneAnswerToEachLine` is `OneAnswerEach`: what the answers under way settle, followed by
what the lines in the inbox are owed, is what the client waits for, in order. A complaint
with a null id about a message that had none settles nothing: the code sends it, no client
can want it, and `NotificationsAreSilent` is about it. `MailInv` adds the types of both
queues, and that the call whose report is being written is that of the first line still in
the inbox: without it the answer `ServerWrites` gives would be of no line. `PromiseKept`,
`PromiseMade` and `PromiseRead` say what handling a line, sending one and reading an
answer do to the sequence, and `MappedConcatenation` how it is put together;
`AnswersFacts` goes through the kinds of lines.

Only model-checked:

- The liveness properties (`NobodyIsStuck`, `ScanEnds`, `CleanEnds`, `WalkEnds`,
  `WasteGoes`, `RefreshEnds`, `AnswersCome`), which need fairness and `ENABLED`.
- `TiersDiffer` and `SizesDiffer`, on the instance. They are facts about what Microsoft
  publishes, which nothing in the code could make true.

Every other property of a passing run is a theorem.

## Plan

Done: `Credential`, `Scan`, `Clean`, `Packs`, `Transport`, `Inventory` with `Sweep`,
`Services`, `PriceTable` with `Refresh`, `Reports` with `Frontends`, in this order, each
with its instance and runs. Left, by what it would add:

1. An abstract specification of a read that `Scan`, `Sweep` and `Services` could use in
   place of one that succeeds or fails, implemented by `Transport`.
2. A composition of `Scan` and `Credential`: the pool with both caches.
3. The arithmetic of `metric_totals` and of the disk ladder, and the names of snapshots
   (`backup_name`), each against a reference definition.

## Not modelled, and why

Layout, wording and colours of the outputs. `account_kind`, names and e-mail addresses
are shown and never decided upon. The contents of `az`'s own files
are outside the program. `building.simple_check` is an interface for packs that no
shipped check uses. Ages (`age_days`), sums of metrics and the printing of `az` commands
are arithmetic and text. How long a retry sleeps is only ever waited for. `backup_name`
cuts a name after its time stamp was appended, so two snapshots may share one: a matter
of strings and seconds, which no model here keeps. Interrupting a scan with `^C` ends the
process and nothing is
persisted.
