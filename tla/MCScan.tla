------------------------------- MODULE MCScan -------------------------------
(***************************************************************************)
(* Instances of Scan for TLC.  Compute and Insights are two providers ARM  *)
(* lists on two pages; it spells the second in lower case, as it does      *)
(* microsoft.insights, where the checks declare both in mixed case.        *)
(***************************************************************************)
EXTENDS Scan

CONSTANTS s1, s2, disks, tests

MCSubs == {s1, s2}
MCChecks == {disks, tests}

\* engine.scan: for each subscription, each check.
JobsOf(subscriptions, checks) ==
  [i \in 1..(Len(subscriptions) * Len(checks)) |->
     [sub   |-> subscriptions[((i - 1) \div Len(checks)) + 1],
      check |-> checks[((i - 1) % Len(checks)) + 1]]]

MCNeeds == [c \in MCChecks |->
              IF c = disks THEN {[id |-> "compute", case |-> "mixed"]}
              ELSE {[id |-> "compute", case |-> "mixed"], [id |-> "insights", case |-> "mixed"]}]
MCPages == << {[id |-> "compute", case |-> "mixed"]}, {[id |-> "insights", case |-> "lower"]} >>

\* One check on s1, both on s2.
MCJobs == JobsOf(<<s1, s2>>, <<disks>>) \o JobsOf(<<s2>>, <<tests>>)

\* A 404 under a code classify does not name, and an exception of the check's own.
MCFailures == { [kind |-> "ArmError", code |-> "Other", status |-> 404],
                [kind |-> "Exception", code |-> "", status |-> 0] }
=============================================================================
