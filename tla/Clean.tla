-------------------------------- MODULE Clean --------------------------------
(***************************************************************************)
(* cli.clean_command over clean.plan_for and clean.apply_outcome: every    *)
(* finding of a report is planned, then the operator is asked about each   *)
(* planned one in turn, and the steps of those agreed to are sent to Azure *)
(* in order, a finding being abandoned at its first failure.               *)
(*                                                                         *)
(* A request is retried on a transient failure (Arm._send), so a change    *)
(* whose answer is lost is sent again.  ARM accepts most changes with a    *)
(* 202 and carries them out later.  Between the scan, the planning and the *)
(* sending, other people go on using the resources.                        *)
(*                                                                         *)
(* The code goes through the findings costliest first; here any order will *)
(* do, since no finding's plan or outcome looks at another's.              *)
(***************************************************************************)
EXTENDS Integers, Sequences

CONSTANTS
  Findings,        \* the findings left after --check, --min-cost, --subscription
  Cleaner,         \* Cleaner[f]: the shape of f's cleaner, see Shapes
  Cascades,        \* the findings whose DELETE takes what is inside along
  Capacity,        \* Capacity[f]: the slots the resource of f has
  None,
  MAX_ATTEMPTS,    \* azure.MAX_ATTEMPTS
  MaxTouches       \* bound: changes of use by other people

\* unattached-disk | empty-resource-group and the others that read again |
\* unused-capacity-reservation | one DELETE as found | no cleaner
Shapes == {"backup", "recheck", "shrink", "delete", "none"}

ASSUME CleanAssumption ==
  /\ Findings # {} /\ None \notin Findings
  /\ Cleaner \in [Findings -> Shapes]
  /\ Cascades \subseteq Findings
  /\ Capacity \in [Findings -> Nat]
  /\ MAX_ATTEMPTS \in Nat \ {0} /\ MaxTouches \in Nat

Slots == UNION {0..Capacity[f] : f \in Findings}

VARIABLES
  doApply,         \* --apply
  allRemaining,    \* --yes, or "a" at a prompt
  phase,           \* "planning", "deciding", "applying", "ended" or "aborted"
  todo,            \* the findings still to plan, then still to decide on
  status, steps,   \* Outcome.status and Outcome.steps, by finding
  current,         \* the finding whose steps are being sent
  step, attempt,   \* the step being sent, and the attempt at it
  accepted,        \* accepted[f]: the steps of f that Azure took
  exit,            \* the exit code
  audited,         \* the audit file is written
  state,           \* state[f]: "present", "deleting" or "gone"
  used, size,      \* slots of the resource in use, and slots it has
  backup,          \* backup[f]: the snapshot the plan of f names
  touched,         \* the findings whose use changed since they were planned
  touches          \* changes of use so far

cliVars == <<doApply, allRemaining, phase, todo, exit, audited>>
outcomeVars == <<status, steps>>
sendVars == <<current, step, attempt>>
azureVars == <<accepted, state, used, size, backup>>
userVars == <<touched, touches>>
vars == <<cliVars, outcomeVars, sendVars, azureVars, userVars>>

----------------------------------------------------------------------------
(* Planning: clean.plan_for and the cleaners.                              *)

Put == [verb |-> "PUT", size |-> 0]
Delete == [verb |-> "DELETE", size |-> 0]
Shrink(k) == [verb |-> "PATCH", size |-> k]

Plans == {<<>>, <<Put, Delete>>, <<Delete>>} \cup {<<Shrink(k)>> : k \in Slots}

\* Mutant: the plan is made without looking inside again.
Refuses_Never(f) == state[f] # "present" /\ Cleaner[f] \in {"recheck", "shrink"}

\* The cleaner reads the resource again and will not plan for it: it is in
\* use, or cannot be read.
Refuses(f) ==
  \/ Cleaner[f] \in {"recheck", "shrink"} /\ state[f] # "present"
  \/ Cleaner[f] = "recheck" /\ used[f] > 0
  \/ Cleaner[f] = "shrink" /\ size[f] <= used[f]

\* Mutant: the delete comes before the snapshot.
PlanOf_DeleteFirst(f) ==
  CASE Cleaner[f] = "backup"                  -> <<Delete, Put>>
    [] Cleaner[f] = "shrink" /\ used[f] > 0   -> <<Shrink(used[f])>>
    [] OTHER                                  -> <<Delete>>

PlanOf(f) ==
  CASE Cleaner[f] = "backup"                  -> <<Put, Delete>>
    [] Cleaner[f] = "shrink" /\ used[f] > 0   -> <<Shrink(used[f])>>
    [] OTHER                                  -> <<Delete>>

\* The outcome of planning f; a read that raises makes it "failed".
Planned(f) ==
  \/ /\ Cleaner[f] = "none"
     /\ status' = [status EXCEPT ![f] = "unsupported"]
     /\ UNCHANGED steps
  \/ /\ Cleaner[f] \in {"recheck", "shrink"}
     /\ status' = [status EXCEPT ![f] = "failed"]
     /\ UNCHANGED steps
  \/ /\ Cleaner[f] # "none" /\ ~Refuses(f)
     /\ status' = [status EXCEPT ![f] = "planned"]
     /\ steps' = [steps EXCEPT ![f] = PlanOf(f)]

Plan(f) ==
  /\ phase = "planning" /\ f \in todo
  /\ Planned(f)
  /\ touched' = touched \ {f}
  /\ IF todo # {f}
     THEN todo' = todo \ {f} /\ UNCHANGED phase
     ELSE /\ todo' = {g \in Findings : status'[g] = "planned"}   \* the actionable ones
          /\ phase' = "deciding"
  /\ UNCHANGED <<doApply, allRemaining, exit, audited, sendVars, azureVars, touches>>

----------------------------------------------------------------------------
(* Deciding: the prompt of clean_command.                                  *)

StartOn(f) ==
  /\ phase' = "applying"
  /\ current' = f /\ todo' = todo \ {f}
  /\ step' = 1 /\ attempt' = 1

\* No prompt: --yes, or "a" was answered before.
GoOn(f) ==
  /\ phase = "deciding" /\ doApply /\ f \in todo /\ allRemaining
  /\ StartOn(f)
  /\ UNCHANGED <<doApply, allRemaining, exit, audited, outcomeVars, azureVars, userVars>>

Asked == phase = "deciding" /\ doApply /\ todo # {} /\ ~allRemaining

SayYes(f) ==
  /\ Asked /\ f \in todo
  /\ allRemaining' \in BOOLEAN     \* "y", or "a"
  /\ StartOn(f)
  /\ UNCHANGED <<doApply, exit, audited, outcomeVars, azureVars, userVars>>

SayNo(f) ==
  /\ Asked /\ f \in todo
  /\ status' = [status EXCEPT ![f] = "skipped"]
  /\ todo' = todo \ {f}
  /\ UNCHANGED <<doApply, allRemaining, phase, exit, audited, steps,
                 sendVars, azureVars, userVars>>

\* End of the command, with the audit asked for and the exit code.
Finish ==
  /\ phase' = "ended"
  /\ audited' = TRUE
  /\ exit' = IF doApply /\ \E f \in Findings : status[f] = "failed" THEN 1 ELSE 0
  /\ UNCHANGED <<doApply, allRemaining, todo, outcomeVars, sendVars, azureVars, userVars>>

Quit == Asked /\ Finish

\* ^C or end of input at the prompt: click.Abort leaves the command there.
Abort ==
  /\ Asked
  /\ phase' = "aborted"
  /\ exit' = 1
  /\ UNCHANGED <<doApply, allRemaining, todo, audited,
                 outcomeVars, sendVars, azureVars, userVars>>

\* Nothing left to decide, or a dry run.
End ==
  /\ phase = "deciding" /\ (~doApply \/ todo = {})
  /\ Finish

----------------------------------------------------------------------------
(* Applying: clean.apply_outcome over Arm._send.                           *)

Sending == steps[current][step]

\* Azure takes the request: a copy is started, a delete is started or was
\* already, a size is set -- unless something in use stands in the way.
Effect ==
  LET f == current
  IN /\ accepted' = [accepted EXCEPT ![f] = @ \cup {step}]
     /\ \/ /\ Sending.verb = "PUT" /\ state[f] = "present"
           /\ backup' = [backup EXCEPT ![f] = IF @ = "done" THEN @ ELSE "copying"]
           /\ UNCHANGED <<state, size>>
        \/ /\ Sending.verb = "DELETE"
           /\ state[f] = "present" => used[f] = 0 \/ f \in Cascades
           /\ state' = [state EXCEPT ![f] = IF @ = "gone" THEN @ ELSE "deleting"]
           /\ UNCHANGED <<size, backup>>
        \/ /\ Sending.verb = "PATCH" /\ state[f] = "present"
           /\ used[f] <= Sending.size
           /\ size' = [size EXCEPT ![f] = Sending.size]
           /\ UNCHANGED <<state, backup>>
     /\ UNCHANGED used

NextFinding ==
  /\ phase' = "deciding"
  /\ current' = None /\ step' = 0 /\ attempt' = 0
  /\ UNCHANGED todo

\* An answer without an error: the next step, or the finding is done.
StepSucceeds ==
  /\ phase = "applying"
  /\ Effect
  /\ IF step < Len(steps[current])
     THEN /\ step' = step + 1 /\ attempt' = 1
          /\ UNCHANGED <<phase, todo, current, status>>
     ELSE /\ status' = [status EXCEPT ![current] = "applied"]
          /\ NextFinding
  /\ UNCHANGED <<doApply, allRemaining, exit, audited, steps, userVars>>

\* Mutant: one attempt too many.
StepRetried_OneMore ==
  /\ phase = "applying"
  /\ attempt <= MAX_ATTEMPTS
  /\ attempt' = attempt + 1
  /\ Effect \/ UNCHANGED azureVars
  /\ UNCHANGED <<cliVars, outcomeVars, current, step, userVars>>

\* 429, 5xx or no answer: sent again, whether or not Azure took it.
StepRetried ==
  /\ phase = "applying"
  /\ attempt < MAX_ATTEMPTS
  /\ attempt' = attempt + 1
  /\ Effect \/ UNCHANGED azureVars
  /\ UNCHANGED <<cliVars, outcomeVars, current, step, userVars>>

\* Mutant: a failed step is passed over.
StepFails_GoesOn ==
  /\ phase = "applying"
  /\ Effect \/ UNCHANGED azureVars
  /\ IF step < Len(steps[current])
     THEN /\ step' = step + 1 /\ attempt' = 1
          /\ UNCHANGED <<phase, todo, current, status>>
     ELSE /\ status' = [status EXCEPT ![current] = "failed"]
          /\ NextFinding
  /\ UNCHANGED <<doApply, allRemaining, exit, audited, steps, userVars>>

\* Mutant: the finding is abandoned and left as it was planned.
StepFails_StaysPlanned ==
  /\ phase = "applying"
  /\ Effect \/ UNCHANGED azureVars
  /\ NextFinding
  /\ UNCHANGED <<doApply, allRemaining, exit, audited, outcomeVars, userVars>>

\* Mutant: a failed finding is tried again.
StepFails_TriesAgain ==
  /\ phase = "applying"
  /\ Effect \/ UNCHANGED azureVars
  /\ phase' = "deciding" /\ todo' = todo \cup {current}
  /\ current' = None /\ step' = 0 /\ attempt' = 0
  /\ UNCHANGED <<doApply, allRemaining, exit, audited, outcomeVars, userVars>>

\* An error that is not retried, or the last attempt: a 4xx, a bad body, a
\* timeout while the answer is read, a CredentialError.
StepFails ==
  /\ phase = "applying"
  /\ Effect \/ UNCHANGED azureVars
  /\ status' = [status EXCEPT ![current] = "failed"]
  /\ NextFinding
  /\ UNCHANGED <<doApply, allRemaining, exit, audited, steps, userVars>>

----------------------------------------------------------------------------
(* Azure, and the people who use it.                                       *)

\* A long-running operation ends, or fails.
CopyEnds(f) ==
  /\ backup[f] = "copying"
  /\ backup' = [backup EXCEPT ![f] = "done"] \/ backup' = [backup EXCEPT ![f] = "failed"]
  /\ UNCHANGED <<cliVars, outcomeVars, sendVars, accepted, state, used, size, userVars>>

DeleteEnds(f) ==
  /\ state[f] = "deleting"
  /\ state' = [state EXCEPT ![f] = "gone"] \/ state' = [state EXCEPT ![f] = "present"]
  /\ UNCHANGED <<cliVars, outcomeVars, sendVars, accepted, used, size, backup, userVars>>

\* Somebody starts or stops using a resource.
Touch(f) ==
  /\ state[f] = "present" /\ touches < MaxTouches
  /\ \/ used[f] < size[f] /\ used' = [used EXCEPT ![f] = @ + 1]
     \/ used[f] > 0 /\ used' = [used EXCEPT ![f] = @ - 1]
  /\ touched' = touched \cup {f}
  /\ touches' = touches + 1
  /\ UNCHANGED <<cliVars, outcomeVars, sendVars, accepted, state, size, backup>>

----------------------------------------------------------------------------
\* A report may be old: any of its resources may be in use again, or gone.
Init ==
  /\ doApply \in BOOLEAN /\ allRemaining \in BOOLEAN
  /\ phase = "planning" /\ todo = Findings
  /\ exit = 0 /\ audited = FALSE
  /\ status = [f \in Findings |-> "planned"]
  /\ steps = [f \in Findings |-> <<>>]
  /\ current = None /\ step = 0 /\ attempt = 0
  /\ accepted = [f \in Findings |-> {}]
  /\ state \in [Findings -> {"present", "gone"}]
  /\ size = Capacity
  /\ used \in [Findings -> Slots]
  /\ \A f \in Findings : used[f] <= IF state[f] = "gone" THEN 0 ELSE Capacity[f]
  /\ backup = [f \in Findings |-> "none"]
  /\ touched = {} /\ touches = 0

\* What the command does by itself, and what it needs the operator for.
Command ==
  \/ \E f \in Findings : Plan(f) \/ GoOn(f)
  \/ StepSucceeds \/ StepRetried \/ StepFails
  \/ End
Operator == Quit \/ Abort \/ \E f \in Findings : SayYes(f) \/ SayNo(f)

Next ==
  \/ Command \/ Operator
  \/ \E f \in Findings : CopyEnds(f) \/ DeleteEnds(f) \/ Touch(f)

\* Every request has a timeout and MAX_ATTEMPTS; a prompt may stay open.
Spec == Init /\ [][Next]_vars
FairSpec == Spec /\ WF_vars(Command)

----------------------------------------------------------------------------
(* Properties.                                                             *)

TypeOK ==
  /\ doApply \in BOOLEAN /\ allRemaining \in BOOLEAN /\ audited \in BOOLEAN
  /\ phase \in {"planning", "deciding", "applying", "ended", "aborted"}
  /\ todo \subseteq Findings /\ current \in Findings \cup {None}
  /\ exit \in {0, 1}
  /\ status \in [Findings -> {"planned", "applied", "skipped", "failed", "unsupported"}]
  /\ steps \in [Findings -> Plans]
  /\ step \in 0..2 /\ attempt \in 0..MAX_ATTEMPTS
  /\ accepted \in [Findings -> SUBSET (1..2)]
  /\ state \in [Findings -> {"present", "deleting", "gone"}]
  /\ used \in [Findings -> Slots] /\ size \in [Findings -> Slots]
  /\ backup \in [Findings -> {"none", "copying", "done", "failed"}]
  /\ touched \subseteq Findings /\ touches \in Nat

\* A disk's delete is taken only after Azure took its snapshot, through every
\* retry, lost answer and failure (clean.py:89-92, README.md:421-423).
BackupPrecedesDelete ==
  [][\A f \in Findings :
       Cleaner[f] = "backup" /\ state[f] = "present" /\ state'[f] = "deleting"
         => backup[f] # "none"]_vars

\* Azure takes the steps of a finding in order, and only of findings that the
\* operator agreed to: none of one that was skipped, refused, left planned by
\* a dry run or by "q", or not reached yet (clean.py:1-7, README.md:417-419).
OnlyAgreedStepsInOrder ==
  \A f \in Findings :
    /\ 2 \in accepted[f] => 1 \in accepted[f]
    /\ status[f] \in {"skipped", "unsupported"} => accepted[f] = {}
    /\ status[f] = "planned" /\ accepted[f] # {} => f = current
    /\ status[f] = "applied" => accepted[f] = 1..Len(steps[f])

\* What was in use when the cleaner read it again is not deleted: content that
\* goes with a resource arrived after the plan (cleaners.py:467-474).
OnlyNewContentIsLost ==
  \A f \in Findings :
    Cleaner[f] = "recheck" /\ state[f] # "present" /\ used[f] > 0 => f \in touched

\* A run that took part of a finding's steps ends with exit code 1, never as
\* a success (cli.py:480-481).
PartialWorkIsTold ==
  phase = "ended" /\ (\E f \in Findings : accepted[f] \notin {{}, 1..Len(steps[f])})
    => exit = 1

\* The command ends, or stays at a prompt nobody answers.
CleanEnds == <>(phase \in {"ended", "aborted"} \/ Asked)

\* "a snapshot that does not complete can never be followed by the delete that
\* assumed it" (packs/core/cleaners.py:62-64).
BackupCompletesBeforeDelete ==
  [][\A f \in Findings :
       Cleaner[f] = "backup" /\ state[f] = "present" /\ state'[f] = "deleting"
         => backup[f] = "done"]_vars
=============================================================================
