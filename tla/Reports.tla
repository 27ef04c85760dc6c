-------------------------------- MODULE Reports --------------------------------
(***************************************************************************)
(* What becomes of a scan's result: the filters on it, the terminal, the   *)
(* JSON report, the HTML page and the cleanup script.  A result is         *)
(*   [findings, subscriptions, attempted, unavailable, errors]             *)
(* with its findings costliest first.  Of a finding's text only what the   *)
(* figures depend on is kept.  Costs are counted in units smaller than a   *)
(* cent, and become whole cents where the code rounds them.                *)
(***************************************************************************)
EXTENDS Integers, Sequences, FiniteSets, SequencesExt

CONSTANTS
  None,
  Cent,          \* the units of cost in a cent
  RegionOf(_)    \* azure.region_of: a location as ARM spells it

ASSUME CentAssumption == Cent \in Nat \ {0}

GLOBAL == "global"
SCHEMA_VERSION == 4

\* An order on findings: the costliest first; id stands for the rest of the key.
Before(f, g) == f.cost > g.cost \/ (f.cost = g.cost /\ f.id < g.id)

\* In that order, those that are alike in the order of fs.
Sorted(fs) ==
  FoldLeft(LAMBDA done, f :
             InsertAt(done, 1 + Cardinality({i \in DOMAIN done : ~Before(f, done[i])}), f),
           <<>>, fs)

\* round(u, 2): to the nearest cent, and from half way to the even one.
Rounded(u) ==
  LET cents == u \div Cent
      rest  == u % Cent
      up    == 2 * rest > Cent \/ (2 * rest = Cent /\ cents % 2 = 1)
  IN  Cent * (IF up THEN cents + 1 ELSE cents)

\* A finding, and findings, as they are written down: to_dict.
Shown(f) ==
  [id |-> f.id, check |-> f.check, subscription |-> f.subscription, location |-> f.location,
   cost |-> Rounded(f.cost)]
Shows(fs) == [i \in DOMAIN fs |-> Shown(fs[i])]

TotalCost(fs) == FoldLeft(LAMBDA sum, f : sum + f.cost, 0, fs)

\* [f for f in fs if f in these]
Keep(fs, these) ==
  LET kept[n \in 0..Len(fs)] ==
        IF n = 0 THEN <<>>
        ELSE IF fs[n] \in these THEN Append(kept[n - 1], fs[n]) ELSE kept[n - 1]
  IN  kept[Len(fs)]

\* s[:n], where a negative n counts from the end.
UpTo(s, n) ==
  IF n >= 0 THEN SubSeq(s, 1, Min({n, Len(s)})) ELSE SubSeq(s, 1, Max({Len(s) + n, 0}))

CompletelyFailed(r) == r.attempted > 0 /\ r.errors + r.unavailable = r.attempted

\* The regions asked for, and what has none.
FilterLocations(fs, locations) ==
  IF locations = {} THEN fs
  ELSE Keep(fs, {f \in ToSet(fs) : \/ RegionOf(f.location) \in {RegionOf(l) : l \in locations}
                                  \/ f.location = GLOBAL})

\* The checks to run, or None: a name is of no check, or of one whose pack is
\* disabled.  Naming none asks for all; a name given twice is run twice.
SelectChecks(installed, names, disabled) ==
  CASE names = <<>> -> SetToSeq(installed \ disabled)
    [] names # <<>> /\ ToSet(names) \subseteq installed \ disabled -> names
    [] OTHER -> None

\* The subscriptions to scan, or None: az knows none that is enabled, or has
\* no default.
ResolveSubscriptions(enabled, named, all, default) ==
  CASE named # <<>> -> named
    [] named = <<>> /\ all -> IF enabled = {} THEN None ELSE SetToSeq(enabled)
    [] OTHER -> IF default = None THEN None ELSE <<default>>

\* How many findings there are of each value of a column, and their cost.
Group(fs, column) ==
  [v \in {f[column] : f \in ToSet(fs)} |->
     LET these == Keep(fs, {f \in ToSet(fs) : f[column] = v})
     IN  [count |-> Len(these), cost |-> TotalCost(these)]]

\* The same by check, each cost rounded once it is added up.
ByCheck(fs) ==
  LET exact == Group(fs, "check")
  IN  [v \in DOMAIN exact |-> [count |-> exact[v].count, cost |-> Rounded(exact[v].cost)]]

\* The rows of the detail table: the costliest of each check, then the
\* costliest of the others.
Representative(fs, limit) ==
  LET first(i) == \A j \in 1..(i - 1) : fs[j].check # fs[i].check
      indices  == [i \in 1..Len(fs) |-> i]
      best     == SelectSeq(indices, first)
      rest     == SelectSeq(indices, LAMBDA i : ~first(i))
      picked   == UpTo(best \o rest, limit)
  IN  IF limit <= 0 \/ limit >= Len(fs) THEN fs
      ELSE Sorted([i \in 1..Len(picked) |-> fs[picked[i]]])

\* What the terminal says; skipped pairs and errors are said in any case.
Render(r, limit, hidden) ==
  [verdict |-> CASE r.findings # <<>> -> "findings"
                 [] r.findings = <<>> /\ CompletelyFailed(r) -> "nothing could be scanned"
                 [] r.findings = <<>> /\ ~CompletelyFailed(r) /\ hidden > 0 -> "all hidden"
                 [] OTHER -> "no waste found",
   rows      |-> Shows(Representative(r.findings, limit)),
   count     |-> Len(r.findings),
   byCheck   |-> ByCheck(r.findings),
   total     |-> Rounded(TotalCost(r.findings)),
   skipped   |-> r.unavailable,
   errors    |-> r.errors]

\* The JSON report.
ToJson(r, principal) ==
  [schema      |-> SCHEMA_VERSION,
   principal   |-> principal,
   subscriptions |-> r.subscriptions,
   attempted   |-> r.attempted,
   unavailable |-> r.unavailable,
   complete    |-> ~CompletelyFailed(r),
   total       |-> Rounded(TotalCost(r.findings)),
   count       |-> Len(r.findings),
   byCheck     |-> ByCheck(r.findings),
   findings    |-> Shows(r.findings),
   errors      |-> r.errors]

\* The HTML page: it says how many pairs ran, and lists every finding.
ToHtml(r) ==
  [banner   |-> CompletelyFailed(r),
   headline |-> IF r.findings = <<>> /\ ~CompletelyFailed(r) THEN "no waste found" ELSE "a total",
   ran      |-> r.attempted - r.unavailable - r.errors,
   total    |-> Rounded(TotalCost(r.findings)),
   byCheck  |-> ByCheck(r.findings),
   rows     |-> Shows(r.findings)]

\* The cleanup script: each finding's command, and what they come to.
ToScript(r) ==
  [commands |-> [i \in DOMAIN r.findings |-> r.findings[i].id],
   count    |-> Len(r.findings),
   total    |-> Rounded(TotalCost(r.findings))]
=============================================================================
