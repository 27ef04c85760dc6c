------------------------------ MODULE Transport ------------------------------
(***************************************************************************)
(* Reading lists that Azure hands out in pages.  Arm.list and Arm.graph    *)
(* ask for one page after the other; Arm._send makes several attempts at a *)
(* page when Azure throttles or does not answer.  helpers.across_parents   *)
(* reads a list per parent (the secrets of each key vault, say) on threads *)
(* of its own and yields what it gets in the order in which the reads end. *)
(*                                                                         *)
(* The rows of a page are yielded together, before the next page is asked  *)
(* for, so a read is the sequence of its pages.  How long a retry waits is *)
(* left out.                                                               *)
(***************************************************************************)
EXTENDS Integers, Sequences, FiniteSets

CONSTANTS
  Parents,         \* the parents, one read for each
  Pages,           \* Pages[r]: the pages Azure has for r
  Empty,           \* Empty[r]: those of them without a row
  Graph,           \* the reads made with Arm.graph, the others with Arm.list
  Endless,         \* those of them whose pages are followed by empty ones for ever
  Workers,         \* threads of across_parents
  MAX_ATTEMPTS     \* azure.MAX_ATTEMPTS

ASSUME TransportAssumption ==
  /\ Pages \in [Parents -> Nat \ {0}] /\ Empty \in [Parents -> SUBSET Nat]
  /\ Graph \subseteq Parents /\ Endless \subseteq Graph
  /\ \A r \in Graph : Empty[r] \cap 1..Pages[r] - 1 = {}
  /\ Workers \in Nat \ {0} /\ MAX_ATTEMPTS \in Nat \ {0}

VARIABLES
  state,           \* "queued", "asking", "waiting", "done" or "raised", by read
  page,            \* the page the read asks for: url or skip_token
  attempt,         \* attempts at that page so far
  read,            \* the pages whose rows it has
  error,           \* "none", "arm" (an ArmError), "cut" or "token"
  asked,           \* requests the read has sent to Azure
  phase,           \* across_parents: "walking", "raising", "raised" or "returned"
  collected,       \* the reads whose futures as_completed has yielded
  items            \* items[r]: the rows yielded for r

readVars == <<state, page, attempt, read, error, asked>>
walkVars == <<phase, collected, items>>
vars == <<readVars, walkVars>>

Ended(r) == state[r] \in {"done", "raised"}
Busy == {r \in Parents : state[r] \in {"asking", "waiting"}}

----------------------------------------------------------------------------
(* The answer of Azure to a request for a page.                            *)

HasRows(r, p) == p <= Pages[r] /\ p \notin Empty[r]
HasToken(r, p) == p < Pages[r] \/ r \in Endless

\* Mutant: only a page without a token is the last one.
IsLast_ByToken(r, p) == ~HasToken(r, p)

\* Mutant: an empty page is the last one of a list too.
IsLast_Empty(r, p) == ~HasToken(r, p) \/ ~HasRows(r, p)

\* list stops where there is no nextLink, graph also at a page without rows.
IsLast(r, p) == ~HasToken(r, p) \/ (r \in Graph /\ ~HasRows(r, p))

----------------------------------------------------------------------------
(* The threads: list or graph, request and _send.                          *)

Start(r) ==
  /\ state[r] = "queued" /\ Cardinality(Busy) < Workers
  /\ state' = [state EXCEPT ![r] = "asking"]
  /\ UNCHANGED <<page, attempt, read, error, asked, walkVars>>

Asks(r) ==
  /\ state[r] = "asking"
  /\ asked' = [asked EXCEPT ![r] = @ + 1]

Answered(r) ==
  /\ Asks(r)
  /\ read' = [read EXCEPT ![r] = Append(@, page[r])]
  /\ attempt' = [attempt EXCEPT ![r] = 0]
  /\ IF IsLast(r, page[r])
     THEN state' = [state EXCEPT ![r] = "done"] /\ UNCHANGED page
     ELSE page' = [page EXCEPT ![r] = @ + 1] /\ UNCHANGED state
  /\ UNCHANGED <<error, walkVars>>

RaiseError(r, kind) ==
  /\ state' = [state EXCEPT ![r] = "raised"]
  /\ error' = [error EXCEPT ![r] = kind]

\* Mutant: one attempt too many.
Transient_OneMore(r) ==
  /\ Asks(r)
  /\ IF attempt[r] < MAX_ATTEMPTS
     THEN /\ attempt' = [attempt EXCEPT ![r] = @ + 1]
          /\ state' = [state EXCEPT ![r] = "waiting"]
          /\ UNCHANGED error
     ELSE RaiseError(r, "arm") /\ UNCHANGED attempt
  /\ UNCHANGED <<page, read, walkVars>>

\* Status 429, 500, 502, 503 or 504, or no connection.
Transient(r) ==
  /\ Asks(r)
  /\ IF attempt[r] < MAX_ATTEMPTS - 1
     THEN /\ attempt' = [attempt EXCEPT ![r] = @ + 1]
          /\ state' = [state EXCEPT ![r] = "waiting"]
          /\ UNCHANGED error
     ELSE RaiseError(r, "arm") /\ UNCHANGED attempt
  /\ UNCHANGED <<page, read, walkVars>>

\* Any other status.
Refused(r) ==
  /\ Asks(r)
  /\ RaiseError(r, "arm")
  /\ UNCHANGED <<page, attempt, read, walkVars>>

\* The answer breaks off or takes too long: urlopen turns into a URLError only
\* what goes wrong before the request is sent.
Breaks(r) ==
  /\ Asks(r)
  /\ RaiseError(r, "cut")
  /\ UNCHANGED <<page, attempt, read, walkVars>>

\* There is no token for the tenant.
NoToken(r) ==
  /\ state[r] = "asking"
  /\ RaiseError(r, "token")
  /\ UNCHANGED <<page, attempt, read, asked, walkVars>>

WaitEnds(r) ==
  /\ state[r] = "waiting"
  /\ state' = [state EXCEPT ![r] = "asking"]
  /\ UNCHANGED <<page, attempt, read, error, asked, walkVars>>

Thread(r) ==
  Start(r) \/ Answered(r) \/ Transient(r) \/ Refused(r) \/ Breaks(r) \/ NoToken(r)
  \/ WaitEnds(r)

----------------------------------------------------------------------------
(* across_parents, over the futures as they complete.                      *)

Completed(r) == phase = "walking" /\ Ended(r) /\ r \notin collected

Yielded(r) == items' = [p \in DOMAIN items \cup {r} |-> IF p = r THEN read[r] ELSE items[p]]

\* Mutant: a parent for whose tenant there is no token contributes nothing.
Collect_NoToken(r) ==
  /\ Completed(r)
  /\ collected' = collected \cup {r}
  /\ IF error[r] = "cut" THEN phase' = "raising" ELSE UNCHANGED phase
  /\ IF error[r] = "none" THEN Yielded(r) ELSE UNCHANGED items
  /\ UNCHANGED readVars

\* A parent whose read ended with an ArmError contributes nothing; another
\* error leaves the loop, and the executor waits for the other threads.
Collect(r) ==
  /\ Completed(r)
  /\ collected' = collected \cup {r}
  /\ IF error[r] \in {"cut", "token"} THEN phase' = "raising" ELSE UNCHANGED phase
  /\ IF error[r] = "none" THEN Yielded(r) ELSE UNCHANGED items
  /\ UNCHANGED readVars

\* Mutant: an error has to wait for the results of all the other threads.
Leave_AllCollected ==
  /\ phase \in {"raising", "walking"} /\ collected = Parents
  /\ phase' = IF phase = "raising" THEN "raised" ELSE "returned"
  /\ UNCHANGED <<collected, items, readVars>>

Leave ==
  /\ phase = "raising" \/ (phase = "walking" /\ collected = Parents)
  /\ \A r \in Parents : Ended(r)
  /\ phase' = IF phase = "raising" THEN "raised" ELSE "returned"
  /\ UNCHANGED <<collected, items, readVars>>

----------------------------------------------------------------------------
Init ==
  /\ state = [r \in Parents |-> "queued"] /\ page = [r \in Parents |-> 1]
  /\ attempt = [r \in Parents |-> 0] /\ read = [r \in Parents |-> <<>>]
  /\ error = [r \in Parents |-> "none"] /\ asked = [r \in Parents |-> 0]
  /\ phase = "walking" /\ collected = {} /\ items = [r \in {} |-> <<>>]

Next ==
  \/ \E r \in Parents : Thread(r) \/ Collect(r)
  \/ Leave

Spec == Init /\ [][Next]_vars

\* Each socket operation times out and each wait is at most a minute, so a
\* thread goes on; the caller consumes the generator to its end.
FairSpec ==
  /\ Spec
  /\ \A r \in Parents : WF_vars(Thread(r)) /\ WF_vars(Collect(r))
  /\ WF_vars(Leave)

----------------------------------------------------------------------------
(* Properties.                                                             *)

\* The reads and the walk keep their types.
TypeOK ==
  /\ state \in [Parents -> {"queued", "asking", "waiting", "done", "raised"}]
  /\ page \in [Parents -> Nat \ {0}]
  /\ attempt \in [Parents -> 0..MAX_ATTEMPTS - 1]
  /\ read \in [Parents -> Seq(Nat)]
  /\ error \in [Parents -> {"none", "arm", "cut", "token"}]
  /\ asked \in [Parents -> Nat]
  /\ phase \in {"walking", "raising", "raised", "returned"}
  /\ collected \subseteq Parents
  /\ DOMAIN items \subseteq collected
  /\ \A r \in DOMAIN items : items[r] \in Seq(Nat)

\* Sequence s is all that Azure has for r: each page with rows, in order, once.
Whole(r, s) ==
  /\ \A i \in DOMAIN s : s[i] = i
  /\ \A p \in 1..Pages[r] : HasRows(r, p) => p \in DOMAIN s

\* A parent's rows come whole or not at all, through retries, empty pages in
\* between and failures half way (helpers.py:310-336, azure.py:565-666).
WholeOrNothing == \A r \in DOMAIN items : Whole(r, items[r])

\* A walk that returns has missed only parents that refused or broke off the
\* read, never one nobody could sign in for; and it fails for nothing less than
\* a read that broke off or a missing token (helpers.py:329-334).
OnlyUnreadableAreMissed ==
  /\ phase = "returned" =>
       \A r \in Parents : r \in DOMAIN items \/ error[r] \in {"arm", "cut"}
  /\ phase = "raised" => \E r \in Parents : error[r] \in {"cut", "token"}

\* Does not hold: an unreachable parent does not cost the findings from the
\* others, as the docstring of across_parents has it (helpers.py:323-325).
\* Without a token none of them can be read.
UnreachableIsSkipped == phase = "raised" => \E r \in Parents : error[r] = "token"

\* A read costs Azure at most MAX_ATTEMPTS requests for each page there is, and
\* as many again for a token too many, however many tokens Resource Graph hands
\* out (azure.py:569-595, 665).
RequestsAreBounded ==
  \A r \in Parents :
    asked[r] <= MAX_ATTEMPTS * (IF r \in Endless THEN Pages[r] + 1 ELSE Pages[r])

\* No thread reads on after the check has ended (helpers.py:327).
NobodyReadsOn == phase \in {"raised", "returned"} => \A r \in Parents : Ended(r)

\* A walk ends, even if Resource Graph hands out tokens without end.
WalkEnds == <>(phase \in {"raised", "returned"})
=============================================================================
