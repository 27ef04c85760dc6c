------------------------------- MODULE Frontends -------------------------------
(***************************************************************************)
(* The two ways in: the command line (cli.scan_command and the first half  *)
(* of clean_command, up to the findings it goes on to plan) and the MCP    *)
(* server (mcp_server.serve and its tools), which meet in one report file. *)
(* A report is truncated and then written, by either process, and read by  *)
(* both; meanwhile somebody may sign in with az as somebody else.          *)
(*                                                                         *)
(* A scan is taken at its word: what it reads of each pair is any of the   *)
(* outcomes engine.scan promises (ScanReport), and what it then finds is   *)
(* what is there.  What becomes of the findings once chosen is Clean.      *)
(***************************************************************************)
EXTENDS Reports

CONSTANTS
  Accounts, NameOf,    \* what az can be signed in as, and principal_of each
  Subscriptions,       \* the subscriptions there are
  Enabled, Default,    \* those az knows of each account, and its default or None
  Checks, Cleanable,   \* the checks installed, and those with a cleaner
  Waste,               \* the findings there are
  Ids,                 \* ids of requests
  NoFile, Half,        \* a report file that is missing, or broken off
  Scopes               \* bound: what is tried together, see MCFrontends

\* A line is unreadable when json.loads, or the decoding of the input, fails
\* otherwise than with a JSONDecodeError.
Forms == {"request", "notification", "not json", "not an object", "unreadable"}

\* Methods that dispatch drops, and what it cannot compare with their prefix.
Notices == {"notifications/initialized", "notifications/cancelled"}
NotAString == "a method that is no string"

Verdicts == {"read", "unavailable", "error"}

\* The messages that reach a tool.
Calls(m, tool) ==
  /\ m.form \in {"request", "notification"} /\ m.method = "tools/call" /\ ~m.malformed
  /\ m.tool = tool

ASSUME FrontendsAssumption ==
  /\ None \notin Accounts /\ NameOf \in [Accounts -> STRING]
  /\ IsFiniteSet(Subscriptions) /\ Enabled \in [Accounts -> SUBSET Subscriptions]
  /\ Default \in [Accounts -> Subscriptions \cup {None}]
  /\ IsFiniteSet(Checks) /\ Cleanable \subseteq Checks
  /\ IsFiniteSet(Waste)
  /\ \A f \in Waste : f.subscription \in Subscriptions /\ f.check \in Checks /\ f.cost \in Nat
  /\ \A s \in Scopes :
       /\ s.accounts \subseteq Accounts \cup {None}
       /\ s.reads \subseteq [Subscriptions \X Checks -> Verdicts]
       /\ \A o \in s.options : o.named \in Seq(Subscriptions) /\ o.checks \in Seq(STRING)
       /\ \A m \in s.messages :
            /\ m.form \in Forms /\ (m.form = "request" => m.id # None)
            /\ Calls(m, "scan_subscription") => m.args.named \in Seq(Subscriptions) /\ m.args.checks \in Seq(STRING)
            /\ Calls(m, "plan_cleanup") => m.args.limit \in Int

Columns == {"check", "location", "subscription"}
DEFAULT_LIMIT == [summary |-> 10, estimate |-> 5, plan |-> 20]

VARIABLES
  scope,               \* the part of the inputs this behaviour tries
  commands,            \* bound: command lines still to be tried
  account,             \* what az is signed in as, or None
  file,                \* the report: NoFile, Half or a document
  cli,                 \* the command line's report being written, or None
  server,              \* up, stopped by its client, or crashed
  inbox, outbox,       \* lines to the server, and its answers not yet read
  pending,             \* the call whose report the server is writing, or None
  said,                \* what the last step told the person or the agent, or None
  owed,                \* history: the answers the client is waiting for
  found                \* history: the findings scans returned, by principal

azVars == <<scope, account>>
cliVars == <<commands, cli>>
lineVars == <<inbox, outbox, owed>>
serverVars == <<server, lineVars, pending>>
vars == <<azVars, file, cliVars, serverVars, said, found>>

----------------------------------------------------------------------------
(* A scan.                                                                 *)

\* The pairs to run, and what is found where pair p answers reads[p].
Jobs(targets, checks) ==
  FlattenSeq([i \in DOMAIN targets |-> [j \in DOMAIN checks |-> <<targets[i], checks[j]>>]])
WasteOf(p, reads) == {f \in Waste : <<f.subscription, f.check>> = p /\ reads[p] = "read"}
Answered(jobs, reads, verdict) == Len(Keep(jobs, {p \in ToSet(jobs) : reads[p] = verdict}))

\* What a scan of these subscriptions returns.
Scanned(targets, checks, reads) ==
  LET jobs == Jobs(targets, checks)
  IN  [findings      |-> Sorted(FlattenSeq([i \in DOMAIN jobs |-> SetToSeq(WasteOf(jobs[i], reads))])),
       subscriptions |-> targets,
       attempted     |-> Len(jobs),
       unavailable   |-> Answered(jobs, reads, "unavailable"),
       errors        |-> Answered(jobs, reads, "error")]

\* The findings as scanned or as reported, and those this costly.
Known == Waste \cup {Shown(f) : f \in Waste}
Worth(cost) == {f \in Known : f.cost >= cost}

\* Mutant: what the cost filter hides is not counted.
Cut_Forgets(r, o) ==
  [result |-> [r EXCEPT !.findings = Keep(FilterLocations(@, o.locations), Worth(o.minCost))],
   hidden |-> 0]

\* The result as the options cut it, and how many findings were too cheap.
Cut(r, o) ==
  LET here == FilterLocations(r.findings, o.locations)
      kept == IF o.minCost > 0 THEN Keep(here, Worth(o.minCost)) ELSE here
  IN  [result |-> [r EXCEPT !.findings = kept], hidden |-> Len(here) - Len(kept)]

\* The subscriptions and checks of a scan, or None: nobody is signed in, or
\* the options name nothing that can be scanned.
Targets(o) ==
  IF account = None THEN None
  ELSE ResolveSubscriptions(Enabled[account], o.named, o.all, Default[account])
Selected(o) == SelectChecks(Checks, o.checks, o.disabled)
CanScan(o) == Targets(o) # None /\ Selected(o) # None

Remember(r) ==
  found' = [found EXCEPT ![NameOf[account]] = @ \cup {f.id : f \in ToSet(r.findings)}]

----------------------------------------------------------------------------
(* The command line.                                                       *)

Command == commands > 0 /\ commands' = commands - 1

\* az account show, or a token, fails; or the options are refused: exit 2.
Refused(o) ==
  /\ Command
  /\ said' = [kind |-> "refused", exit |-> 2]
  /\ UNCHANGED <<azVars, file, cli, serverVars, found>>

\* scan_command.  A report asked for with --json is truncated here, and
\* written by CliWrite.
CliScan(o) ==
  /\ Command /\ ~o.from /\ cli = None /\ CanScan(o)
  /\ \E reads \in scope.reads :
       LET raw == Scanned(Targets(o), Selected(o), reads)
           cut == Cut(raw, o)
           r   == cut.result
       IN  /\ Remember(raw)
           /\ said' = [kind   |-> "scan",
                       scan   |-> [options |-> o, raw |-> raw, reads |-> reads],
                       screen |-> Render(r, o.limit, cut.hidden),
                       html   |-> ToHtml(r),
                       script |-> ToScript(r),
                       exit   |-> IF CompletelyFailed(r) THEN 1 ELSE 0]
           /\ IF o.json
              THEN /\ cli' = [doc |-> ToJson(r, NameOf[account]), mixed |-> pending # None]
                   /\ file' = Half
                   /\ pending' = IF pending = None THEN None
                                 ELSE [pending EXCEPT !.mixed = TRUE]
              ELSE UNCHANGED <<cli, file, pending>>
  /\ UNCHANGED <<azVars, server, lineVars>>

\* What a writer leaves: its document, or, if another had the file open too,
\* possibly a mixture that is no JSON.
Leaves(writer) == file' \in {writer.doc} \cup IF writer.mixed THEN {Half} ELSE {}

CliWrite ==
  /\ cli # None
  /\ Leaves(cli) /\ cli' = None /\ said' = None
  /\ UNCHANGED <<azVars, commands, serverVars, found>>

\* Ctrl-C, or a full disk.
CliKilled ==
  /\ cli # None
  /\ file' \in {file, Half} /\ cli' = None /\ said' = None
  /\ UNCHANGED <<azVars, commands, serverVars, found>>

Readable == file \notin {NoFile, Half} /\ file.schema = SCHEMA_VERSION

\* Mutant: whoever wrote the report will do.
OursToUse_Anybody(doc) == TRUE

\* The report was made by what az is signed in as now.
OursToUse(doc) == doc.principal = NameOf[account]

\* The findings clean_command goes on to plan.
Chosen(fs, o) == Keep(fs, {f \in Worth(o.minCost) : o.checks = <<>> \/ f.check \in ToSet(o.checks)})

TellsChosen(fs, o) ==
  said' = [kind |-> "clean", exit |-> 0, asked |-> ToSet(o.named),
           chosen |-> Chosen(fs, o)]

\* clean --from: the report must be whole, of this schema, and of the present
\* principal; whether its scan read anything is not asked.
CliCleanFrom(o) ==
  /\ Command /\ o.from /\ account # None
  /\ IF Readable /\ OursToUse(file)
     THEN TellsChosen(Keep(file.findings,
                           {f \in Known : o.named = <<>> \/ f.subscription \in ToSet(o.named)}), o)
     ELSE said' = [kind |-> "refused", exit |-> 2]
  /\ UNCHANGED <<azVars, file, cli, serverVars, found>>

\* clean: scan first, and refuse if nothing could be read.
CliClean(o) ==
  /\ Command /\ ~o.from /\ CanScan(o)
  /\ \E reads \in scope.reads :
       LET r == Scanned(Targets(o), Selected(o), reads)
       IN  /\ Remember(r)
           /\ IF CompletelyFailed(r) THEN said' = [kind |-> "refused", exit |-> 1]
              ELSE TellsChosen(r.findings, o)
  /\ UNCHANGED <<azVars, file, cli, serverVars>>

----------------------------------------------------------------------------
(* The tools.                                                              *)

ToolError == [kind |-> "tool error"]
OrDefault(limit, tool) == IF limit = 0 THEN DEFAULT_LIMIT[tool] ELSE limit

Matches(f, a) ==
  /\ \A c \in Columns : a[c] = {} \/ f[c] \in a[c]
  /\ f.cost >= a.minCost
  /\ a.maxCost = None \/ f.cost <= a.maxCost

\* _filtered: what matches, and the terms of the filter no finding has.
Matched(a) == Keep(file.findings, {f \in Known : Matches(f, a)})
Missing(a) == [c \in Columns |-> a[c] \ {f[c] : f \in ToSet(file.findings)}]

Totals(fs) ==
  [count |-> Len(fs), cost |-> TotalCost(fs),
   free  |-> Len(Keep(fs, Known \ Worth(Cent)))]

\* summarise, of a report of this scan, and what scan_subscription adds to it.
Summary(scan, doc, hidden, limit) ==
  [kind     |-> "summary",
   scan     |-> scan,
   hidden   |-> hidden,
   complete |-> doc.complete,
   ran      |-> doc.attempted - doc.unavailable - doc.errors,
   skipped  |-> doc.unavailable,
   errors   |-> doc.errors,
   count    |-> doc.count,
   total    |-> doc.total,
   by       |-> [c \in Columns |-> IF c = "check" THEN doc.byCheck ELSE Group(doc.findings, c)],
   top      |-> UpTo(doc.findings, Max({limit, 0}))]

\* Mutant: the rows handed back are counted, not the findings that matched.
EstimateSavings_RowsOnly(a) ==
  LET kept == UpTo(Matched(a), OrDefault(a.limit, "estimate"))
  IN  IF ~Readable THEN ToolError ELSE
      [kind |-> "estimate", missing |-> Missing(a), matched |-> Totals(kept),
       others |-> [count |-> Len(file.findings) - Len(kept),
                   cost  |-> TotalCost(file.findings) - TotalCost(kept)],
       by |-> [c \in Columns |-> Group(Matched(a), c)], rows |-> kept]

EstimateSavings(a) ==
  LET kept == Matched(a)
  IN  IF ~Readable THEN ToolError
      ELSE [kind    |-> "estimate",
            missing |-> Missing(a),
            matched |-> Totals(kept),
            others  |-> [count |-> Len(file.findings) - Len(kept),
                         cost  |-> TotalCost(file.findings) - TotalCost(kept)],
            by      |-> [c \in Columns |-> Group(kept, c)],
            rows    |-> UpTo(kept, Max({OrDefault(a.limit, "estimate"), 0}))]

\* A check by name, or a finding of the report by its resource.
ExplainFinding(a) ==
  LET named == {f \in Known : f.id = a.resource /\ (a.name = None \/ f.check = a.name)}
      rows  == Keep(file.findings, named)
      name  == IF a.resource = None THEN a.name ELSE rows[1].check
  IN  IF \/ a.resource # None /\ (~a.report \/ ~Readable)
         \/ a.resource # None /\ a.report /\ Readable /\ rows = <<>>
         \/ a.resource = None /\ a.name \notin Checks
      THEN ToolError
      ELSE [kind      |-> "explained",
            check     |-> name,
            cleanable |-> name \in Cleanable,
            finding   |-> IF a.resource = None THEN None ELSE rows[1].id]

ListChecks(a) ==
  [kind |-> "checks", rows |-> IF a.cleanableOnly THEN Cleanable ELSE Checks]

HasCleaner == {f \in Known : f.check \in Cleanable}

\* plan_cleanup.  A finding whose plan fails is counted as planned, with no
\* steps; only one without a cleaner is not.
PlanCleanup(a) ==
  LET kept    == Matched(a)
      limit   == OrDefault(a.limit, "plan")
      tried   == UpTo(kept, limit)
      planned == Keep(tried, HasCleaner)
  IN  IF ~Readable \/ account = None THEN ToolError
      ELSE IF ~OursToUse(file) THEN ToolError
      ELSE [kind        |-> "plan",
            asked       |-> a.subscription,
            chosen      |-> planned,
            unsupported |-> Keep(tried, Known \ HasCleaner),
            matched     |-> Len(kept),
            left        |-> Max({Len(kept) - limit, 0}),
            freed       |-> TotalCost(planned)]

----------------------------------------------------------------------------
(* The server.                                                             *)

IsRequest(m) == m.form = "request"
IsMessage(m) == m.form \in {"request", "notification"}

\* Mutant: a notification is answered like a request.
Answers_Everything(m) == <<[id |-> m.id, raised |-> FALSE]>>

\* The answer dispatch returns: none to a notification.
Answers(m) == IF IsRequest(m) THEN <<[id |-> m.id, raised |-> FALSE]>> ELSE <<>>

\* The answer to a line that is no JSON object.
AnswersText(m) == <<[id |-> None, raised |-> FALSE]>>

\* serve is free, and m is the next line.
Reads(m) == server = "up" /\ inbox # <<>> /\ pending = None /\ m = Head(inbox)
Done(answers) == inbox' = Tail(inbox) /\ outbox' = outbox \o answers

HandleText ==
  /\ \E m \in scope.messages :
       Reads(m) /\ m.form \in {"not json", "not an object"} /\ Done(AnswersText(m))
  /\ said' = None
  /\ UNCHANGED <<azVars, file, cliVars, server, pending, owed, found>>

\* No handler is there for what reading a line may raise besides: a
\* RecursionError, another ValueError, bytes that are no text.  Input is decoded
\* ahead, so the line need not be the next one.
Unreadable(m) == m.form = "unreadable"
HandleUnreadable ==
  /\ server = "up" /\ pending = None
  /\ \E k \in DOMAIN inbox : Unreadable(inbox[k])
  /\ server' = "crashed" /\ said' = None
  /\ UNCHANGED <<azVars, file, cliVars, lineVars, pending, found>>

\* params is no object, or the name of the tool or the method is no string.
Raises(m) ==
  \/ m.method \in {"initialize", "tools/call"} /\ m.malformed
  \/ m.method = NotAString

\* Mutant: dispatch is called outside the try, and the server dies of it.
HandleRaises_Dies(m) ==
  /\ Raises(m)
  /\ server' = "crashed" /\ said' = None
  /\ UNCHANGED <<azVars, file, cliVars, lineVars, pending, found>>

\* dispatch raises: an INTERNAL_ERROR with the id of the message, null if it
\* has none.
HandleRaises(m) ==
  /\ Raises(m)
  /\ Done(<<[id |-> IF IsRequest(m) THEN m.id ELSE None, raised |-> TRUE]>>)
  /\ said' = None
  /\ UNCHANGED <<azVars, file, cliVars, server, pending, owed, found>>

\* initialize, ping, tools/list, a notice, or no method of this server.  A
\* notice is dropped, whether or not it has an id.
HandleStatic(m) ==
  /\ m.method # "tools/call" /\ ~Raises(m)
  /\ Done(IF m.method \in Notices THEN <<>> ELSE Answers(m))
  /\ said' = None
  /\ UNCHANGED <<azVars, file, cliVars, server, pending, owed, found>>

\* call_tool: every failure of a tool is a result.
HandleCall(m) ==
  /\ m.method = "tools/call" /\ ~m.malformed /\ m.tool # "scan_subscription"
  /\ said' = CASE m.tool = "estimate_savings" -> EstimateSavings(m.args)
               [] m.tool = "explain_finding" -> ExplainFinding(m.args)
               [] m.tool = "list_checks" -> ListChecks(m.args)
               [] m.tool = "plan_cleanup" -> PlanCleanup(m.args)
               [] OTHER -> ToolError
  /\ Done(Answers(m))
  /\ UNCHANGED <<azVars, file, cliVars, server, pending, owed, found>>

\* scan_subscription cannot sign in, or is refused its options.
HandleScanRefused(m) ==
  /\ m.method = "tools/call" /\ ~m.malformed /\ m.tool = "scan_subscription"
  /\ said' = ToolError
  /\ Done(Answers(m))
  /\ UNCHANGED <<azVars, file, cliVars, server, pending, owed, found>>

\* scan_subscription, up to the truncation of the report.
HandleScan(m) ==
  /\ m.method = "tools/call" /\ ~m.malformed /\ m.tool = "scan_subscription"
  /\ CanScan(m.args)
  /\ \E reads \in scope.reads :
       LET raw == Scanned(Targets(m.args), Selected(m.args), reads)
           cut == Cut(raw, m.args)
           doc == ToJson(cut.result, NameOf[account])
       IN  /\ Remember(raw)
           /\ pending' = [message |-> m, doc |-> doc, mixed |-> cli # None,
                          answer |-> Summary([options |-> m.args, raw |-> raw, reads |-> reads],
                                             doc, cut.hidden, OrDefault(m.args.limit, "summary"))]
           /\ file' = Half
           /\ cli' = IF cli = None THEN None ELSE [cli EXCEPT !.mixed = TRUE]
           /\ said' = None
  /\ UNCHANGED <<azVars, commands, server, lineVars>>

\* The report is written, and the call answered.
ServerWrites ==
  /\ server = "up" /\ pending # None
  /\ Leaves(pending)
  /\ said' = pending.answer
  /\ pending' = None
  /\ Done(Answers(pending.message))
  /\ UNCHANGED <<azVars, cliVars, server, owed, found>>

Handle ==
  \/ HandleText \/ HandleUnreadable
  \/ \E m \in scope.messages :
       /\ Reads(m) /\ IsMessage(m)
       /\ \/ HandleRaises(m) \/ HandleStatic(m)
          \/ HandleCall(m) \/ HandleScanRefused(m) \/ HandleScan(m)

\* The client hangs up, or the server is killed.
ServerStops ==
  /\ server = "up"
  /\ server' = "stopped"
  /\ file' \in {file} \cup IF pending # None THEN {Half} ELSE {}
  /\ inbox' = <<>> /\ outbox' = <<>> /\ pending' = None /\ owed' = <<>> /\ said' = None
  /\ UNCHANGED <<azVars, cliVars, found>>

\* The client starts it anew; what it had not read of the old one is gone.
ServerStarts ==
  /\ server # "up"
  /\ server' = "up"
  /\ inbox' = <<>> /\ outbox' = <<>> /\ pending' = None /\ owed' = <<>> /\ said' = None
  /\ UNCHANGED <<azVars, file, cliVars, found>>

----------------------------------------------------------------------------
(* The client, and az.                                                     *)

\* The id a line's answer is to carry, if it is to have one: a notification is
\* to have none, and neither is a notice.
Owed(m) ==
  CASE IsRequest(m) /\ m.method \notin Notices -> <<m.id>>
    [] m.form \in {"not json", "not an object"} -> <<None>>
    [] OTHER -> <<>>

\* What an answer settles: one that complains of a message without an id is
\* none of those the client waits for.
Complains(a) == a.raised /\ a.id = None
Settles(a) == IF Complains(a) THEN <<>> ELSE <<a.id>>

Send(m) ==
  /\ server = "up"
  /\ Len(inbox) + Len(outbox) < scope.outstanding
  /\ m.form = "request" => \A i \in DOMAIN owed : owed[i] # m.id
  /\ inbox' = Append(inbox, m)
  /\ owed' = owed \o Owed(m)
  /\ said' = None
  /\ UNCHANGED <<azVars, file, cliVars, server, outbox, pending, found>>

Receive ==
  /\ outbox # <<>>
  /\ outbox' = Tail(outbox)
  /\ owed' = IF Complains(Head(outbox)) THEN owed ELSE Tail(owed)
  /\ said' = None
  /\ UNCHANGED <<azVars, file, cliVars, server, inbox, pending, found>>

\* az login, az logout.
SignIn(a) ==
  /\ account # a
  /\ account' = a /\ said' = None
  /\ UNCHANGED <<scope, file, cliVars, serverVars, found>>

Init ==
  /\ scope \in Scopes
  /\ commands = scope.commands
  /\ account \in scope.accounts
  /\ file \in {NoFile, [schema |-> SCHEMA_VERSION - 1]}
  /\ cli = None /\ pending = None /\ said = None
  /\ server = "up" /\ inbox = <<>> /\ outbox = <<>> /\ owed = <<>>
  /\ found = [p \in {NameOf[a] : a \in Accounts} |-> {}]

Next ==
  \/ \E o \in scope.options : Refused(o) \/ CliScan(o) \/ CliCleanFrom(o) \/ CliClean(o)
  \/ CliWrite \/ CliKilled
  \/ Handle \/ ServerWrites \/ ServerStops \/ ServerStarts
  \/ \E m \in scope.messages : Send(m)
  \/ Receive
  \/ \E a \in scope.accounts : SignIn(a)

Spec == Init /\ [][Next]_vars

\* The server goes on reading its input, as long as it runs.
FairSpec == Spec /\ WF_vars(Handle) /\ WF_vars(ServerWrites)

----------------------------------------------------------------------------
(* Properties.                                                             *)

Tells(kinds) == said # None /\ said.kind \in kinds

\* Every request but a notice is answered once and in order with its own id,
\* every line that is no message once with none, and nothing else at all, but
\* for complaints without an id (mcp_server.py:785-816, 755-777).
OneAnswerEach ==
  FlattenSeq([i \in DOMAIN outbox |-> Settles(outbox[i])])
    \o FlattenSeq([i \in DOMAIN inbox |-> Owed(inbox[i])])
    = owed

\* Does not hold: a notification gets no answer (mcp_server.py:750).
NotificationsAreSilent ==
  [][\A m \in scope.messages :
       Reads(m) /\ m.form = "notification" /\ inbox' = Tail(inbox) /\ server' = "up"
         => outbox' = outbox]_vars

\* The pairs a scan read, and what there is in them, in the regions asked for.
PairsRead(scan) ==
  {p \in ToSet(scan.raw.subscriptions) \X ToSet(Selected(scan.options)) : scan.reads[p] = "read"}
InScope(scan) ==
  LET asked == {RegionOf(l) : l \in scan.options.locations}
  IN  {f \in Waste : /\ <<f.subscription, f.check>> \in PairsRead(scan)
                     /\ asked = {} \/ RegionOf(f.location) \in asked \/ f.location = GLOBAL}

\* A scan that attempted anything says there is no waste only when it read
\* something and nothing it found there was left out for its cost, its page
\* only when nothing that is worth the cost asked for was, and exit code 1 and an
\* incomplete report mean that nothing was read (engine.py:66-74,
\* report.py:125-142, html.py:160-180, cli.py:279-282, mcp_server.py:343-348 and
\* 385-392).
NoFalseAllClear ==
  /\ Tells({"scan"}) /\ said.scan.raw.attempted > 0 =>
       /\ said.screen.verdict = "no waste found" => PairsRead(said.scan) # {} /\ InScope(said.scan) = {}
       /\ said.screen.verdict = "nothing could be scanned" => PairsRead(said.scan) = {}
       /\ said.html.headline = "no waste found" =>
            /\ PairsRead(said.scan) # {}
            /\ InScope(said.scan) \cap Worth(said.scan.options.minCost) = {}
       /\ (said.exit = 1) = (PairsRead(said.scan) = {})
       /\ said.html.banner = (PairsRead(said.scan) = {})
  /\ Tells({"summary"}) /\ said.scan.raw.attempted > 0 =>
       /\ said.complete = (PairsRead(said.scan) # {})
       /\ said.count = 0 /\ said.complete /\ said.hidden = 0 => InScope(said.scan) = {}

\* Does not hold: a page that says there is no waste says no more than is so
\* (html.py:171-172).
PageIsNoFalseAllClear ==
  Tells({"scan"}) /\ said.scan.raw.attempted > 0 /\ said.html.headline = "no waste found"
    => InScope(said.scan) = {}

SumOf(groups, field) ==
  FoldFunction(+, 0, [v \in DOMAIN groups |-> groups[v][field]])

\* Apart by no more than half a cent for each of n figures.
Near(a, b, n) == 2 * (a - b) <= Cent * n /\ 2 * (b - a) <= Cent * n

\* A breakdown of so many findings that come to this total.
Breaks(groups, count, total) ==
  /\ SumOf(groups, "count") = count
  /\ Near(SumOf(groups, "cost"), total, count + 1)

\* Whatever way the figures are asked for, they are those of the same
\* findings: every breakdown adds up to the total, what matched and what did
\* not to the report, what is planned, unsupported and left by the limit to
\* what matched, and the screen, the page, the script and the report say the
\* same; counts exactly, costs but for the half cents lost in rounding each
\* (mcp_server.py:339-376, 429-447, 681-690; report.py:143-171, 276-281).
FiguresAgree ==
  /\ Tells({"scan"}) =>
       /\ Breaks(said.screen.byCheck, said.screen.count, said.screen.total)
       /\ Near(TotalCost(said.html.rows), said.html.total, Len(said.html.rows) + 1)
       /\ said.screen.total = said.html.total /\ said.html.total = said.script.total
       /\ said.screen.count = Len(said.html.rows) /\ said.script.count = Len(said.html.rows)
       /\ said.html.ran + said.screen.skipped + said.screen.errors = said.scan.raw.attempted
  /\ Tells({"summary"}) =>
       /\ \A c \in Columns : Breaks(said.by[c], said.count, said.total)
       /\ said.hidden + said.count = Len(FilterLocations(said.scan.raw.findings, said.scan.options.locations))
  /\ Tells({"estimate"}) =>
       /\ \A c \in Columns : /\ SumOf(said.by[c], "count") = said.matched.count
                             /\ SumOf(said.by[c], "cost") = said.matched.cost
       /\ said.matched.count + said.others.count = file.count
       /\ Near(said.matched.cost + said.others.cost, file.total, file.count + 1)
  /\ Tells({"plan"}) =>
       Len(said.chosen) + Len(said.unsupported) + said.left = said.matched

\* Does not hold: estimate_savings of everything in a report is the total the
\* report gives (mcp_server.py:42-44 and 419).
EstimateIsTheTotal ==
  Tells({"estimate"}) /\ said.others.count = 0 => said.matched.cost = file.total

\* What clean and plan_cleanup go on with was found by a scan of the same
\* principal, in a subscription that was asked for, whoever signed in or wrote
\* the report in between, however that ended (cli.py:365-384,
\* mcp_server.py:631-639).
ActsOnWhatWasReported ==
  Tells({"clean", "plan"}) =>
    \A f \in ToSet(said.chosen) :
      /\ f.id \in found[NameOf[account]]
      /\ said.asked = {} \/ f.subscription \in said.asked

\* Every request is answered, whatever it asks and whatever came before it,
\* unless the client hangs up, or sends a line no handler is there for
\* (mcp_server.py:716-736, 785-816).
AnswersCome ==
  \A i \in Ids :
    (\E k \in DOMAIN inbox : IsRequest(inbox[k]) /\ Owed(inbox[k]) = <<i>>)
      ~> \/ \E k \in DOMAIN outbox : outbox[k].id = i
         \/ server = "stopped"
         \/ server = "crashed" /\ \E k \in DOMAIN inbox : Unreadable(inbox[k])

\* Does not hold: the server outlives a bad request (mcp_server.py:809).
ServerOutlivesBadLines == server # "crashed"
=============================================================================
