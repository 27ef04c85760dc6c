----------------------------- MODULE MCFrontends -----------------------------
(***************************************************************************)
(* An instance of Frontends for TLC: two subscriptions, three checks, five *)
(* findings, and two accounts of different names, one with no default.     *)
(* The inputs are tried in four groups, so that they do not multiply: the  *)
(* command line's options, the tools' arguments, the protocol, and reports *)
(* that change hands.                                                      *)
(***************************************************************************)
EXTENDS Frontends

CONSTANTS ann, bob

MCNameOf == (ann :> "ann@one" @@ bob :> "bob@two")
MCEnabled == (ann :> {"s1", "s2"} @@ bob :> {})
MCDefault == (ann :> "s1" @@ bob :> None)

Finding(id, check, subscription, location, cost) ==
  [id |-> id, check |-> check, subscription |-> subscription, location |-> location,
   cost |-> cost]

\* Ten units are a cent: the disks are rounded down apart and up together, and
\* the zone lies half way.
MCWaste == {Finding(1, "disk", "s1", "east", 904), Finding(2, "disk", "s1", "west", 504),
            Finding(3, "zone", "s1", GLOBAL, 45), Finding(4, "disk", "s2", "east", 504),
            Finding(5, "subnet", "s2", "west", 0)}

MCRegionOf(location) == IF location = "West" THEN "west" ELSE location

\* What a scan reads: each check the same in every subscription, but for one
\* subscription that may fail altogether.
MCReads ==
  {[p \in Subscriptions \X Checks |-> IF p[1] = "s2" /\ lost THEN "error" ELSE by[p[2]]] :
     by \in [Checks -> Verdicts], lost \in BOOLEAN}
AllRead == {[p \in Subscriptions \X Checks |-> "read"]}
Mixed == {[p \in Subscriptions \X Checks |->
             IF p = <<"s2", "disk">> THEN "error" ELSE IF p[2] = "zone" THEN "unavailable" ELSE "read"]}
NoneRead == {[p \in Subscriptions \X Checks |-> "error"]}

Basic == [named |-> <<>>, all |-> FALSE, checks |-> <<>>, disabled |-> {}, locations |-> {},
          minCost |-> 0, limit |-> 0, json |-> FALSE, from |-> FALSE]

CommandLines ==
  {[Basic EXCEPT !.all = TRUE, !.locations = l, !.minCost = c, !.limit = n] :
     l \in {{}, {"West"}, {"north"}}, c \in {0, 100, 1000}, n \in {0, 2, 4}}
  \cup {[Basic EXCEPT !.named = t, !.checks = k] :
          t \in {<<>>, <<"s2">>, <<"s1", "s1">>}, k \in {<<>>, <<"disk">>, <<"zone", "zone">>, <<"disc">>}}
  \cup {[Basic EXCEPT !.checks = k, !.disabled = d] : k \in {<<>>, <<"disk">>}, d \in {{"disk"}, Checks}}

Message(form, id, method, malformed, tool, args) ==
  [form |-> form, id |-> id, method |-> method, malformed |-> malformed, tool |-> tool,
   args |-> args]
Call(id, tool, args) == Message("request", id, "tools/call", FALSE, tool, args)

Filter == [check |-> {}, location |-> {}, subscription |-> {}, minCost |-> 0, maxCost |-> None,
           limit |-> 0]
Filters ==
  {Filter, [Filter EXCEPT !.limit = 1], [Filter EXCEPT !.check = {"disk"}, !.limit = 1],
   [Filter EXCEPT !.location = {"north"}], [Filter EXCEPT !.subscription = {"s2"}],
   [Filter EXCEPT !.check = {"disk"}, !.location = {"west"}, !.minCost = 100],
   [Filter EXCEPT !.maxCost = 100, !.limit = 2]}

Tools ==
  {Call("q1", t, a) : t \in {"estimate_savings", "plan_cleanup"}, a \in Filters}
  \cup {Call("q1", "explain_finding", [name |-> n, resource |-> r, report |-> p]) :
          n \in {None, "zone", "disc"}, r \in {None, 1, 3}, p \in BOOLEAN}
  \cup {Call("q1", "list_checks", [cleanableOnly |-> b]) : b \in BOOLEAN}
  \cup {Call("q1", "scan_subscription", o) :
          o \in {[Basic EXCEPT !.all = TRUE], [Basic EXCEPT !.named = <<"s2">>, !.minCost = 100],
                 [Basic EXCEPT !.locations = {"West"}, !.minCost = 1000, !.limit = 1]}}

Lines ==
  {Message(f, None, "", FALSE, "", None) : f \in {"not json", "not an object", "unreadable"}}
  \cup {Message("request", i, m, b, "list_checks", [cleanableOnly |-> FALSE]) :
          i \in Ids, m \in {"initialize", "unknown"}, b \in BOOLEAN}
  \cup {Message("request", "q2", m, FALSE, "", None) : m \in {"notifications/initialized", NotAString}}
  \cup {Message("notification", None, m, b, "list_checks", [cleanableOnly |-> FALSE]) :
          m \in {"tools/call", "notifications/initialized"}, b \in BOOLEAN}
  \cup {Message("notification", None, NotAString, FALSE, "", None),
        Call("q1", "scan_subscription", Basic), Call("q2", "no such tool", None),
        Message("request", "q2", "tools/call", TRUE, "list_checks", None)}

MCScopes ==
  {[accounts |-> {ann, None}, commands |-> 1, options |-> CommandLines, reads |-> MCReads, messages |-> {},
    outstanding |-> 0],
   [accounts |-> {ann}, commands |-> 0, options |-> {},
    reads |-> AllRead \cup Mixed \cup NoneRead, messages |-> Tools,
    outstanding |-> 1],
   [accounts |-> {ann}, commands |-> 0, options |-> {}, reads |-> AllRead, messages |-> Lines,
    outstanding |-> 2],
   [accounts |-> {ann, bob, None}, commands |-> 2,
    options |-> {[Basic EXCEPT !.json = TRUE], [Basic EXCEPT !.named = <<"s2">>, !.json = TRUE],
                 [Basic EXCEPT !.from = TRUE], [Basic EXCEPT !.from = TRUE, !.named = <<"s2">>]},
    reads |-> AllRead \cup NoneRead,
    messages |-> {Call("q1", "scan_subscription", [Basic EXCEPT !.named = <<"s1">>]),
                  Call("q2", "plan_cleanup", Filter)},
    outstanding |-> 2]}
=============================================================================
