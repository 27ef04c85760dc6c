----------------------------- MODULE CleanProofs -----------------------------
(***************************************************************************)
(* Proofs about Clean, for any set of findings, any number of attempts and *)
(* any use other people make of the resources.                             *)
(***************************************************************************)
EXTENDS Clean, TLAPS

USE DEF cliVars, outcomeVars, sendVars, azureVars, userVars

LEMMA SlotFacts ==
  /\ Slots \subseteq Nat
  /\ \A f \in Findings : 0..Capacity[f] \subseteq Slots
  /\ \A k \in Slots : 0..k \subseteq Slots
  <1>1. ASSUME NEW k \in Slots PROVE k \in Nat /\ 0..k \subseteq Slots
    <2>1. PICK f \in Findings : k \in 0..Capacity[f]
      BY DEF Slots
    <2>2. Capacity[f] \in Nat /\ 0..Capacity[f] \subseteq Slots
      BY CleanAssumption DEF Slots
    <2>. QED BY <2>1, <2>2
  <1>2. \A f \in Findings : 0..Capacity[f] \subseteq Slots
    BY DEF Slots
  <1>. QED BY <1>1, <1>2

LEMMA PlanFacts ==
  ASSUME NEW p \in Plans
  PROVE  /\ Len(p) \in 0..2
         /\ Len(p) = 2 => p = <<Put, Delete>>
         /\ Len(p) = 0 => p = <<>>
  BY DEF Plans

LEMMA NextStepFacts ==
  ASSUME NEW n \in 0..2, NEW i \in 1..2, i < n
  PROVE  i + 1 \in 0..2 /\ i + 1 \in 1..n
  OBVIOUS

LEMMA ThisStepFacts ==
  ASSUME NEW n \in 0..2, NEW i \in 1..n
  PROVE  i \in 1..2
  OBVIOUS

\* Where the command is: which findings are still to be decided on, and that
\* the one being sent is planned and at one of its steps.
PhaseInv ==
  /\ phase = "applying" =>
       /\ current \in Findings /\ current \notin todo
       /\ status[current] = "planned"
       /\ step \in 1..Len(steps[current])
  /\ phase # "applying" => current = None
  /\ phase \in {"deciding", "applying"} => \A f \in todo : status[f] = "planned"
  /\ phase \in {"applying", "aborted"} => doApply

\* What a plan holds: a finding has steps once it is planned, and those of its
\* cleaner's shape.
ShapeInv ==
  /\ phase = "planning" => \A f \in todo : steps[f] = <<>>
  /\ \A f \in Findings :
       status[f] = "planned" /\ (phase = "planning" => f \notin todo) => steps[f] # <<>>
  /\ \A f \in Findings : Cleaner[f] = "backup" => steps[f] \in {<<>>, <<Put, Delete>>}

\* What Azure took: nothing but the steps agreed to, and of the finding being
\* sent every step before this one.
AcceptedInv ==
  /\ phase = "planning" => \A f \in Findings : accepted[f] = {}
  /\ \A f \in Findings :
       /\ accepted[f] # {} => doApply
       /\ 2 \in accepted[f] => 1 \in accepted[f]
       /\ status[f] \in {"skipped", "unsupported"} => accepted[f] = {}
       /\ status[f] = "planned" /\ f # current => accepted[f] = {}
       /\ status[f] = "applied" => accepted[f] = 1..Len(steps[f])
       /\ f = current => 1..(step - 1) \subseteq accepted[f] /\ accepted[f] \subseteq 1..step

\* A disk whose first step Azure took has a snapshot on its way.
BackupInv ==
  \A f \in Findings : Cleaner[f] = "backup" /\ 1 \in accepted[f] => backup[f] # "none"

\* What is in use although a delete of it is planned or sent came into use
\* after the plan.  Nothing is being deleted while the command plans.
ContentInv ==
  /\ phase = "planning" =>
       \A f \in Findings : state[f] # "present" => state[f] = "gone" /\ used[f] = 0
  /\ \A f \in Findings :
       Cleaner[f] = "recheck" /\ used[f] > 0 /\ (steps[f] # <<>> \/ state[f] # "present")
         => f \in touched

\* The exit code says whether a finding failed.
ExitInv ==
  phase = "ended" /\ doApply /\ (\E f \in Findings : status[f] = "failed") => exit = 1

IInv ==
  /\ TypeOK /\ PhaseInv /\ ShapeInv /\ AcceptedInv
  /\ BackupInv /\ ContentInv /\ ExitInv

\* An effect touches only the finding being sent.
EffectFrame ==
  /\ used' = used
  /\ \A f \in Findings \ {current} :
       /\ accepted'[f] = accepted[f] /\ state'[f] = state[f]
       /\ size'[f] = size[f] /\ backup'[f] = backup[f]

----------------------------------------------------------------------------
(* Types.                                                                  *)

LEMMA TypeInit == Init => TypeOK
  <1> SUFFICES ASSUME Init PROVE TypeOK
    OBVIOUS
  <1>1. size \in [Findings -> Slots]
    BY SlotFacts, CleanAssumption DEF Init
  <1>2. steps \in [Findings -> Plans]
    BY DEF Init, Plans
  <1>3. attempt \in 0..MAX_ATTEMPTS /\ step \in 0..2 /\ touches \in Nat
    BY CleanAssumption DEF Init
  <1>4. accepted \in [Findings -> SUBSET (1..2)]
    BY DEF Init
  <1>5. /\ state \in [Findings -> {"present", "deleting", "gone"}]
        /\ used \in [Findings -> Slots]
    BY DEF Init
  <1>6. /\ status \in [Findings -> {"planned", "applied", "skipped", "failed", "unsupported"}]
        /\ backup \in [Findings -> {"none", "copying", "done", "failed"}]
    BY DEF Init
  <1> HIDE DEF Slots, Plans
  <1>. QED BY <1>1, <1>2, <1>3, <1>4, <1>5, <1>6 DEF Init, TypeOK

LEMMA EffectTypes ==
  ASSUME TypeOK, PhaseInv, phase = "applying", Effect \/ UNCHANGED azureVars
  PROVE  /\ accepted' \in [Findings -> SUBSET (1..2)]
         /\ state' \in [Findings -> {"present", "deleting", "gone"}]
         /\ used' \in [Findings -> Slots] /\ size' \in [Findings -> Slots]
         /\ backup' \in [Findings -> {"none", "copying", "done", "failed"}]
         /\ EffectFrame
  <1>1. current \in Findings /\ step \in 1..2 /\ steps[current] \in Plans
        /\ step \in 1..Len(steps[current])
    BY PlanFacts DEF TypeOK, PhaseInv, Plans
  <1>2. Sending.verb = "PATCH" => Sending.size \in Slots
    BY <1>1 DEF Sending, Plans, Put, Delete, Shrink
  <1>3. CASE UNCHANGED azureVars
    BY <1>3 DEF TypeOK, EffectFrame
  <1>4. CASE Effect
    <2>1. accepted' = [accepted EXCEPT ![current] = @ \cup {step}] /\ used' = used
      BY <1>4 DEF Effect
    <2>2. \/ /\ backup' = [backup EXCEPT ![current] = IF @ = "done" THEN @ ELSE "copying"]
             /\ UNCHANGED <<state, size>>
          \/ /\ state' = [state EXCEPT ![current] = IF @ = "gone" THEN @ ELSE "deleting"]
             /\ UNCHANGED <<size, backup>>
          \/ /\ size' = [size EXCEPT ![current] = Sending.size] /\ Sending.verb = "PATCH"
             /\ UNCHANGED <<state, backup>>
      BY <1>4 DEF Effect
    <2> HIDE DEF Sending
    <2>. QED BY <1>1, <1>2, <2>1, <2>2 DEF TypeOK, EffectFrame
  <1>. QED BY <1>3, <1>4

LEMMA PlanTypes ==
  ASSUME TypeOK, NEW f \in Findings
  PROVE  PlanOf(f) \in Plans
  BY CleanAssumption DEF TypeOK, PlanOf, Plans

LEMMA TypeStep == TypeOK /\ PhaseInv /\ [Next]_vars => TypeOK'
  <1> SUFFICES ASSUME TypeOK, PhaseInv, [Next]_vars PROVE TypeOK'
    OBVIOUS
  <1>1. ASSUME NEW f \in Findings, Plan(f) PROVE TypeOK'
    <2>1. PlanOf(f) \in Plans
      BY PlanTypes
    <2>. QED BY <1>1, <2>1 DEF Plan, Planned, TypeOK, Plans
  <1>2. ASSUME NEW f \in Findings, GoOn(f) \/ SayYes(f) PROVE TypeOK'
    BY <1>2, CleanAssumption DEF GoOn, SayYes, StartOn, TypeOK
  <1>3. ASSUME NEW f \in Findings, SayNo(f) PROVE TypeOK'
    BY <1>3 DEF SayNo, TypeOK
  <1>4. CASE Quit \/ End \/ Abort
    BY <1>4 DEF Quit, End, Abort, Finish, TypeOK
  <1>5. CASE StepSucceeds
    <2>1. current \in Findings /\ step \in 1..2 /\ Len(steps[current]) \in 0..2
          /\ 1 \in 0..MAX_ATTEMPTS /\ 0 \in 0..MAX_ATTEMPTS
      BY <1>5, PlanFacts, CleanAssumption DEF StepSucceeds, PhaseInv, TypeOK
    <2>2. CASE step < Len(steps[current])
      <3>1. step' = step + 1 /\ attempt' = 1 /\ UNCHANGED <<phase, todo, current, status>>
        BY <1>5, <2>2 DEF StepSucceeds
      <3>2. step' \in 0..2
        BY <2>1, <2>2, <3>1, NextStepFacts
      <3>. QED BY <1>5, <2>1, <3>1, <3>2, EffectTypes DEF StepSucceeds, TypeOK
    <2>3. CASE ~(step < Len(steps[current]))
      <3>1. /\ status' = [status EXCEPT ![current] = "applied"]
            /\ NextFinding
        BY <1>5, <2>3 DEF StepSucceeds
      <3>. QED BY <1>5, <2>1, <3>1, EffectTypes DEF StepSucceeds, NextFinding, TypeOK
    <2>. QED BY <2>2, <2>3
  <1>6. CASE StepRetried
    BY <1>6, EffectTypes, CleanAssumption DEF StepRetried, TypeOK
  <1>7. CASE StepFails
    <2>1. 0 \in 0..MAX_ATTEMPTS /\ 0 \in 0..2
      BY CleanAssumption
    <2>. QED BY <1>7, <2>1, EffectTypes DEF StepFails, NextFinding, TypeOK
  <1>8. ASSUME NEW f \in Findings, CopyEnds(f) \/ DeleteEnds(f) PROVE TypeOK'
    BY <1>8 DEF CopyEnds, DeleteEnds, TypeOK
  <1>9. ASSUME NEW f \in Findings, Touch(f) PROVE TypeOK'
    <2>0. used[f] \in Nat /\ size[f] \in Nat /\ used[f] \in Slots /\ size[f] \in Slots
      BY SlotFacts DEF TypeOK
    <2>1. used[f] + 1 <= size[f] => used[f] + 1 \in Slots
      <3>1. used[f] + 1 <= size[f] => used[f] + 1 \in 0..size[f]
        BY <2>0
      <3>. QED BY <2>0, <3>1, SlotFacts
    <2>2. used[f] > 0 => used[f] - 1 \in Slots
      <3>1. used[f] > 0 => used[f] - 1 \in 0..used[f]
        BY <2>0
      <3>. QED BY <2>0, <3>1, SlotFacts
    <2>3. used[f] \in Nat /\ size[f] \in Nat
      BY SlotFacts DEF TypeOK
    <2>. QED BY <1>9, <2>1, <2>2, <2>3 DEF Touch, TypeOK
  <1>10. CASE UNCHANGED vars
    BY <1>10 DEF vars, TypeOK
  <1>. QED BY <1>1, <1>2, <1>3, <1>4, <1>5, <1>6, <1>7, <1>8, <1>9, <1>10
       DEF Next, Command, Operator

----------------------------------------------------------------------------
(* Where the command is.                                                   *)

LEMMA PhaseInit == Init => PhaseInv
  BY CleanAssumption DEF Init, PhaseInv

LEMMA PhaseStep ==
  TypeOK /\ PhaseInv /\ ShapeInv /\ [Next]_vars => PhaseInv'
  <1> SUFFICES ASSUME TypeOK, PhaseInv, ShapeInv, [Next]_vars PROVE PhaseInv'
    OBVIOUS
  <1>1. ASSUME NEW f \in Findings, Plan(f) PROVE PhaseInv'
    BY <1>1 DEF Plan, PhaseInv
  <1>2. ASSUME NEW f \in Findings, GoOn(f) \/ SayYes(f) PROVE PhaseInv'
    <2>1. /\ phase = "deciding" /\ doApply /\ f \in todo
          /\ phase' = "applying" /\ current' = f /\ todo' = todo \ {f} /\ step' = 1
          /\ UNCHANGED <<doApply, status, steps>>
      BY <1>2 DEF GoOn, SayYes, StartOn, Asked
    <2>2. status[f] = "planned" /\ steps[f] # <<>>
      BY <2>1 DEF PhaseInv, ShapeInv
    <2>3. step' \in 1..Len(steps[f])
      <3>1. steps[f] \in Plans
        BY DEF TypeOK
      <3>2. Len(steps[f]) \in 0..2 /\ Len(steps[f]) # 0
        BY <2>2, <3>1, PlanFacts
      <3>. QED BY <2>1, <3>2
    <2>. QED BY <2>1, <2>2, <2>3 DEF PhaseInv
  <1>3. ASSUME NEW f \in Findings, SayNo(f) PROVE PhaseInv'
    BY <1>3 DEF SayNo, Asked, PhaseInv, TypeOK
  <1>4. CASE Quit \/ End \/ Abort
    BY <1>4 DEF Quit, End, Abort, Finish, Asked, PhaseInv
  <1>5. CASE StepSucceeds
    <2>1. /\ phase = "applying" /\ current \in Findings /\ current \notin todo
          /\ UNCHANGED <<doApply, steps>>
      BY <1>5 DEF StepSucceeds, PhaseInv
    <2>2. CASE step < Len(steps[current])
      <3>1. step' = step + 1 /\ UNCHANGED <<phase, todo, current, status>>
        BY <1>5, <2>2 DEF StepSucceeds
      <3>2. step' \in 1..Len(steps[current])
        <4>1. /\ step \in 1..Len(steps[current]) /\ Len(steps[current]) \in 0..2
          BY <2>1, PlanFacts DEF PhaseInv, TypeOK
        <4>2. step \in 1..2
          BY <4>1, ThisStepFacts
        <4>. QED BY <2>2, <3>1, <4>1, <4>2, NextStepFacts
      <3>. QED BY <2>1, <3>1, <3>2 DEF PhaseInv
    <2>3. CASE ~(step < Len(steps[current]))
      <3>1. /\ status' = [status EXCEPT ![current] = "applied"]
            /\ phase' = "deciding" /\ current' = None /\ todo' = todo
        BY <1>5, <2>3 DEF StepSucceeds, NextFinding
      <3>. QED BY <2>1, <3>1 DEF PhaseInv, TypeOK
    <2>. QED BY <2>2, <2>3
  <1>6. CASE StepRetried
    BY <1>6 DEF StepRetried, PhaseInv
  <1>7. CASE StepFails
    BY <1>7 DEF StepFails, NextFinding, PhaseInv, TypeOK
  <1>8. ASSUME NEW f \in Findings, CopyEnds(f) \/ DeleteEnds(f) \/ Touch(f) PROVE PhaseInv'
    BY <1>8 DEF CopyEnds, DeleteEnds, Touch, PhaseInv
  <1>9. CASE UNCHANGED vars
    BY <1>9 DEF vars, PhaseInv
  <1>. QED BY <1>1, <1>2, <1>3, <1>4, <1>5, <1>6, <1>7, <1>8, <1>9
       DEF Next, Command, Operator

LEMMA ShapeInit == Init => ShapeInv
  BY DEF Init, ShapeInv

LEMMA ShapeStep ==
  TypeOK /\ PhaseInv /\ ShapeInv /\ [Next]_vars => ShapeInv'
  <1> SUFFICES ASSUME TypeOK, PhaseInv, ShapeInv, [Next]_vars PROVE ShapeInv'
    OBVIOUS
  <1>1. ASSUME NEW f \in Findings, Plan(f) PROVE ShapeInv'
    <2>1. /\ phase = "planning" /\ f \in todo
          /\ Planned(f) /\ todo' \subseteq Findings
          /\ phase' = "planning" => todo' = todo \ {f}
          /\ phase' # "planning" => todo = {f}
      BY <1>1 DEF Plan, TypeOK
    <2>2. /\ PlanOf(f) # <<>>
          /\ Cleaner[f] = "backup" => PlanOf(f) = <<Put, Delete>>
      BY DEF PlanOf
    <2>3. \A g \in Findings \ {f} : status'[g] = status[g] /\ steps'[g] = steps[g]
      BY <2>1 DEF Planned, TypeOK
    <2>4. \/ status'[f] # "planned" /\ steps'[f] = steps[f]
          \/ steps'[f] = PlanOf(f)
      BY <2>1 DEF Planned, TypeOK
    <2>. QED BY <2>1, <2>2, <2>3, <2>4 DEF ShapeInv, TypeOK
  <1>2. ASSUME NEW f \in Findings, GoOn(f) \/ SayYes(f) PROVE ShapeInv'
    BY <1>2 DEF GoOn, SayYes, StartOn, Asked, ShapeInv
  <1>3. ASSUME NEW f \in Findings, SayNo(f) PROVE ShapeInv'
    BY <1>3 DEF SayNo, Asked, ShapeInv, TypeOK
  <1>4. CASE Quit \/ End \/ Abort
    BY <1>4 DEF Quit, End, Abort, Finish, Asked, ShapeInv
  <1>5. CASE StepSucceeds
    <2>1. /\ phase = "applying" /\ phase' # "planning" /\ steps' = steps
          /\ status' = status \/ status' = [status EXCEPT ![current] = "applied"]
      BY <1>5 DEF StepSucceeds, NextFinding
    <2>. QED BY <2>1 DEF ShapeInv, TypeOK
  <1>6. CASE StepRetried
    BY <1>6 DEF StepRetried, ShapeInv
  <1>7. CASE StepFails
    BY <1>7 DEF StepFails, NextFinding, ShapeInv, TypeOK
  <1>8. ASSUME NEW f \in Findings, CopyEnds(f) \/ DeleteEnds(f) \/ Touch(f) PROVE ShapeInv'
    BY <1>8 DEF CopyEnds, DeleteEnds, Touch, ShapeInv
  <1>9. CASE UNCHANGED vars
    BY <1>9 DEF vars, ShapeInv
  <1>. QED BY <1>1, <1>2, <1>3, <1>4, <1>5, <1>6, <1>7, <1>8, <1>9
       DEF Next, Command, Operator

----------------------------------------------------------------------------
(* What Azure took.                                                        *)

\* One request puts the step it sends among those taken, or leaves them.
LEMMA EffectAccepts ==
  ASSUME TypeOK, PhaseInv, phase = "applying", Effect \/ UNCHANGED azureVars
  PROVE  /\ current \in Findings /\ step \in 1..2
         /\ \/ accepted'[current] = accepted[current] \cup {step}
            \/ accepted'[current] = accepted[current]
         /\ Effect => accepted'[current] = accepted[current] \cup {step}
         /\ \A f \in Findings \ {current} : accepted'[f] = accepted[f]
  <1>1. current \in Findings /\ step \in 1..2
    BY PlanFacts, ThisStepFacts DEF TypeOK, PhaseInv
  <1>2. accepted' = [accepted EXCEPT ![current] = @ \cup {step}] \/ accepted' = accepted
    BY DEF Effect
  <1>3. Effect => accepted' = [accepted EXCEPT ![current] = @ \cup {step}]
    BY DEF Effect
  <1>. QED BY <1>1, <1>2, <1>3 DEF TypeOK

LEMMA AcceptedInit == Init => AcceptedInv
  BY CleanAssumption DEF Init, AcceptedInv

LEMMA AcceptedStep ==
  TypeOK /\ PhaseInv /\ ShapeInv /\ AcceptedInv /\ [Next]_vars => AcceptedInv'
  <1> SUFFICES ASSUME TypeOK, PhaseInv, ShapeInv, AcceptedInv, [Next]_vars
               PROVE  AcceptedInv'
    OBVIOUS
  <1>0. None \notin Findings
    BY CleanAssumption
  <1>1. ASSUME NEW f \in Findings, Plan(f) PROVE AcceptedInv'
    <2>1. /\ phase = "planning" /\ Planned(f) /\ UNCHANGED <<accepted, current, step, doApply>>
      BY <1>1 DEF Plan
    <2>2. status'[f] # "applied" /\ \A g \in Findings \ {f} :
             status'[g] = status[g] /\ steps'[g] = steps[g]
      BY <2>1 DEF Planned, TypeOK
    <2>3. \A g \in Findings : accepted[g] = {} /\ g # current
      BY <2>1, <1>0 DEF AcceptedInv, PhaseInv
    <2>. QED BY <2>1, <2>2, <2>3 DEF AcceptedInv
  <1>2. ASSUME NEW f \in Findings, GoOn(f) \/ SayYes(f) PROVE AcceptedInv'
    <2>1. /\ phase = "deciding" /\ doApply /\ f \in todo
          /\ phase' = "applying" /\ current' = f /\ step' = 1
          /\ UNCHANGED <<doApply, status, steps, accepted>>
      BY <1>2 DEF GoOn, SayYes, StartOn, Asked
    <2>2. status[f] = "planned" /\ current = None
      BY <2>1 DEF PhaseInv
    <2>3. accepted[f] = {}
      BY <2>2, <1>0 DEF AcceptedInv
    <2>. QED BY <2>1, <2>2, <2>3, <1>0 DEF AcceptedInv
  <1>3. ASSUME NEW f \in Findings, SayNo(f) PROVE AcceptedInv'
    <2>1. /\ phase = "deciding" /\ f \in todo /\ phase' = phase
          /\ status' = [status EXCEPT ![f] = "skipped"]
          /\ UNCHANGED <<doApply, steps, accepted, current, step>>
      BY <1>3 DEF SayNo, Asked
    <2>2. status[f] = "planned" /\ current = None
      BY <2>1 DEF PhaseInv
    <2>3. accepted[f] = {}
      BY <2>2, <1>0 DEF AcceptedInv
    <2>. QED BY <2>1, <2>2, <2>3, <1>0 DEF AcceptedInv, TypeOK
  <1>4. CASE Quit \/ End \/ Abort
    BY <1>4 DEF Quit, End, Abort, Finish, Asked, AcceptedInv
  <1>5. CASE StepSucceeds
    <2>1. /\ phase = "applying" /\ Effect /\ UNCHANGED <<doApply, steps>>
          /\ doApply /\ status[current] = "planned"
      BY <1>5 DEF StepSucceeds, PhaseInv
    <2>2. /\ current \in Findings /\ step \in 1..2
          /\ accepted'[current] = accepted[current] \cup {step}
          /\ \A f \in Findings \ {current} : accepted'[f] = accepted[f]
      BY <2>1, EffectAccepts
    <2>3. 1..(step - 1) \subseteq accepted[current] /\ accepted[current] \subseteq 1..step
      BY <2>2 DEF AcceptedInv
    <2>4. accepted'[current] = 1..step
      BY <2>2, <2>3
    <2>5. CASE step < Len(steps[current])
      <3>1. step' = step + 1 /\ UNCHANGED <<phase, current, status>>
        BY <1>5, <2>5 DEF StepSucceeds
      <3>2. accepted'[current] = 1..(step' - 1) /\ accepted'[current] \subseteq 1..step'
        BY <2>2, <2>4, <3>1
      <3>3. 2 \in accepted'[current] => 1 \in accepted'[current]
        BY <2>2, <2>4
      <3>. QED BY <2>1, <2>2, <3>1, <3>2, <3>3 DEF AcceptedInv
    <2>6. CASE ~(step < Len(steps[current]))
      <3>1. /\ status' = [status EXCEPT ![current] = "applied"]
            /\ phase' = "deciding" /\ current' = None
        BY <1>5, <2>6 DEF StepSucceeds, NextFinding
      <3>2. accepted'[current] = 1..Len(steps[current])
        <4>1. step = Len(steps[current])
          <5>1. step \in 1..Len(steps[current]) /\ Len(steps[current]) \in 0..2
            BY <2>1, <2>2, PlanFacts DEF PhaseInv, TypeOK
          <5>. QED BY <5>1, <2>2, <2>6
        <4>. QED BY <2>4, <4>1
      <3>3. 2 \in accepted'[current] => 1 \in accepted'[current]
        BY <2>2, <2>4
      <3>4. \A f \in Findings \ {current} : status'[f] = status[f]
        BY <3>1 DEF TypeOK
      <3>5. status'[current] = "applied"
        BY <2>2, <3>1 DEF TypeOK
      <3>. QED BY <1>0, <2>1, <2>2, <3>1, <3>2, <3>3, <3>4, <3>5 DEF AcceptedInv
    <2>. QED BY <2>5, <2>6
  <1>6. CASE StepRetried \/ StepFails
    <2>0. Effect \/ UNCHANGED azureVars
      BY <1>6 DEF StepRetried, StepFails
    <2>1. /\ phase = "applying" /\ UNCHANGED <<doApply, steps>>
          /\ doApply /\ status[current] = "planned"
      BY <1>6 DEF StepRetried, StepFails, PhaseInv
    <2>2. /\ current \in Findings /\ step \in 1..2
          /\ \/ accepted'[current] = accepted[current] \cup {step}
             \/ accepted'[current] = accepted[current]
          /\ \A f \in Findings \ {current} : accepted'[f] = accepted[f]
      BY <2>0, <2>1, EffectAccepts
    <2>3. 1..(step - 1) \subseteq accepted[current] /\ accepted[current] \subseteq 1..step
      BY <2>2 DEF AcceptedInv
    <2>4. /\ 1..(step - 1) \subseteq accepted'[current] /\ accepted'[current] \subseteq 1..step
          /\ 2 \in accepted'[current] => 1 \in accepted'[current]
      BY <2>2, <2>3
    <2>5. CASE StepRetried
      <3>1. UNCHANGED <<phase, current, step, status>>
        BY <2>5 DEF StepRetried
      <3>. QED BY <2>1, <2>2, <2>4, <3>1 DEF AcceptedInv
    <2>6. CASE StepFails
      <3>1. /\ status' = [status EXCEPT ![current] = "failed"]
            /\ phase' = "deciding" /\ current' = None
        BY <2>6 DEF StepFails, NextFinding
      <3>2. /\ \A f \in Findings \ {current} : status'[f] = status[f]
            /\ status'[current] = "failed"
        BY <2>2, <3>1 DEF TypeOK
      <3>. QED BY <1>0, <2>1, <2>2, <2>4, <3>1, <3>2 DEF AcceptedInv
    <2>. QED BY <1>6, <2>5, <2>6
  <1>8. ASSUME NEW f \in Findings, CopyEnds(f) \/ DeleteEnds(f) \/ Touch(f) PROVE AcceptedInv'
    BY <1>8 DEF CopyEnds, DeleteEnds, Touch, AcceptedInv
  <1>9. CASE UNCHANGED vars
    BY <1>9 DEF vars, AcceptedInv
  <1>. QED BY <1>1, <1>2, <1>3, <1>4, <1>5, <1>6, <1>8, <1>9
       DEF Next, Command, Operator

----------------------------------------------------------------------------
(* Backups and content.                                                    *)

\* What a request does to the finding it is about: a disk's first step is its
\* snapshot, and only its second makes it go.
LEMMA EffectChanges ==
  ASSUME TypeOK, PhaseInv, ShapeInv, phase = "applying", Effect \/ UNCHANGED azureVars
  PROVE  /\ current \in Findings /\ steps[current] # <<>> /\ EffectFrame
         /\ backup[current] # "none" => backup'[current] # "none"
         /\ Cleaner[current] = "backup" =>
              /\ accepted'[current] # accepted[current] /\ step = 1
                   => backup'[current] # "none"
              /\ state'[current] # state[current] => step = 2
  <1>1. /\ current \in Findings /\ step \in 1..2 /\ steps[current] \in Plans
        /\ step \in 1..Len(steps[current]) /\ steps[current] # <<>>
    BY PlanFacts, ThisStepFacts DEF TypeOK, PhaseInv, ShapeInv
  <1>2. EffectFrame
    BY EffectTypes
  <1>3. CASE UNCHANGED azureVars
    BY <1>1, <1>2, <1>3
  <1>4. CASE Effect
    <2>1. backup[current] # "none" => backup'[current] # "none"
      BY <1>1, <1>4 DEF Effect, TypeOK
    <2>2. ASSUME Cleaner[current] = "backup"
          PROVE  /\ step = 1 => backup'[current] # "none"
                 /\ state'[current] # state[current] => step = 2
      <3>1. steps[current] = <<Put, Delete>>
        BY <1>1, <2>2 DEF ShapeInv
      <3>2. CASE step = 1
        <4>1. Sending.verb = "PUT"
          BY <3>1, <3>2 DEF Sending, Put
        <4>. QED BY <1>1, <1>4, <3>2, <4>1 DEF Effect, TypeOK
      <3>3. CASE step = 2
        BY <3>3
      <3>. QED BY <1>1, <3>2, <3>3
    <2>. QED BY <1>1, <1>2, <2>1, <2>2
  <1>. QED BY <1>3, <1>4

LEMMA BackupInit == Init => BackupInv
  BY DEF Init, BackupInv

LEMMA BackupStep ==
  TypeOK /\ PhaseInv /\ ShapeInv /\ BackupInv /\ [Next]_vars => BackupInv'
  <1> SUFFICES ASSUME TypeOK, PhaseInv, ShapeInv, BackupInv, [Next]_vars
               PROVE  BackupInv'
    OBVIOUS
  <1>1. ASSUME NEW f \in Findings, Plan(f) \/ GoOn(f) \/ SayYes(f) \/ SayNo(f)
        PROVE  BackupInv'
    BY <1>1 DEF Plan, GoOn, SayYes, SayNo, BackupInv
  <1>2. CASE Quit \/ End \/ Abort
    BY <1>2 DEF Quit, End, Abort, Finish, BackupInv
  <1>3. CASE StepSucceeds \/ StepRetried \/ StepFails
    <2>0. Effect \/ UNCHANGED azureVars
      BY <1>3 DEF StepSucceeds, StepRetried, StepFails
    <2>1. phase = "applying"
      BY <1>3 DEF StepSucceeds, StepRetried, StepFails
    <2>2. /\ current \in Findings /\ EffectFrame
          /\ backup[current] # "none" => backup'[current] # "none"
          /\ Cleaner[current] = "backup" =>
               (accepted'[current] # accepted[current] /\ step = 1
                  => backup'[current] # "none")
      BY <2>0, <2>1, EffectChanges
    <2>3. /\ \/ accepted'[current] = accepted[current] \cup {step}
             \/ accepted'[current] = accepted[current]
          /\ step \in 1..2
      BY <2>0, <2>1, EffectAccepts
    <2>. QED BY <2>2, <2>3 DEF BackupInv, EffectFrame
  <1>4. ASSUME NEW f \in Findings, CopyEnds(f) PROVE BackupInv'
    BY <1>4 DEF CopyEnds, BackupInv, TypeOK
  <1>5. ASSUME NEW f \in Findings, DeleteEnds(f) \/ Touch(f) PROVE BackupInv'
    BY <1>5 DEF DeleteEnds, Touch, BackupInv
  <1>6. CASE UNCHANGED vars
    BY <1>6 DEF vars, BackupInv
  <1>. QED BY <1>1, <1>2, <1>3, <1>4, <1>5, <1>6 DEF Next, Command, Operator

LEMMA ContentInit == Init => ContentInv
  <1> SUFFICES ASSUME Init PROVE ContentInv
    OBVIOUS
  <1>1. \A f \in Findings : state[f] # "present" => state[f] = "gone" /\ used[f] = 0
    <2> TAKE f \in Findings
    <2>1. state[f] \in {"present", "gone"} /\ used[f] \in Nat
      BY SlotFacts DEF Init
    <2>2. state[f] = "gone" => used[f] <= 0
      BY DEF Init
    <2>. QED BY <2>1, <2>2
  <1>2. \A f \in Findings : steps[f] = <<>>
    BY DEF Init
  <1>. QED BY <1>1, <1>2 DEF ContentInv

LEMMA ContentStep ==
  TypeOK /\ PhaseInv /\ ShapeInv /\ ContentInv /\ [Next]_vars => ContentInv'
  <1> SUFFICES ASSUME TypeOK, PhaseInv, ShapeInv, ContentInv, [Next]_vars
               PROVE  ContentInv'
    OBVIOUS
  <1>1. ASSUME NEW f \in Findings, Plan(f) PROVE ContentInv'
    <2>1. /\ phase = "planning" /\ f \in todo /\ Planned(f)
          /\ touched' = touched \ {f} /\ UNCHANGED <<state, used>>
      BY <1>1 DEF Plan
    <2>2. \A g \in Findings : state[g] # "present" => used[g] = 0
      BY <2>1 DEF ContentInv
    <2>3. \A g \in Findings \ {f} : steps'[g] = steps[g]
      BY <2>1 DEF Planned, TypeOK
    <2>4. Cleaner[f] = "recheck" /\ used[f] > 0 => steps'[f] = <<>>
      BY <2>1 DEF Planned, Refuses, ShapeInv, TypeOK
    <2>. QED BY <2>1, <2>2, <2>3, <2>4 DEF ContentInv
  <1>2. ASSUME NEW f \in Findings, GoOn(f) \/ SayYes(f) \/ SayNo(f) PROVE ContentInv'
    BY <1>2 DEF GoOn, SayYes, SayNo, StartOn, Asked, ContentInv
  <1>3. CASE Quit \/ End \/ Abort
    BY <1>3 DEF Quit, End, Abort, Finish, Asked, ContentInv
  <1>4. CASE StepSucceeds \/ StepRetried \/ StepFails
    <2>0. Effect \/ UNCHANGED azureVars
      BY <1>4 DEF StepSucceeds, StepRetried, StepFails
    <2>1. /\ phase = "applying" /\ phase' # "planning" /\ UNCHANGED <<steps, touched>>
      BY <1>4 DEF StepSucceeds, StepRetried, StepFails, NextFinding
    <2>2. /\ current \in Findings /\ steps[current] # <<>> /\ EffectFrame
      BY <2>0, <2>1, EffectChanges
    <2>. QED BY <2>1, <2>2 DEF ContentInv, EffectFrame
  <1>5. ASSUME NEW f \in Findings, CopyEnds(f) PROVE ContentInv'
    BY <1>5 DEF CopyEnds, ContentInv
  <1>6. ASSUME NEW f \in Findings, DeleteEnds(f) PROVE ContentInv'
    BY <1>6 DEF DeleteEnds, ContentInv, TypeOK
  <1>7. ASSUME NEW f \in Findings, Touch(f) PROVE ContentInv'
    <2>1. /\ state[f] = "present" /\ touched' = touched \cup {f}
          /\ UNCHANGED <<phase, steps, state>>
          /\ \A g \in Findings \ {f} : used'[g] = used[g]
      BY <1>7 DEF Touch, TypeOK
    <2>. QED BY <2>1 DEF ContentInv
  <1>8. CASE UNCHANGED vars
    BY <1>8 DEF vars, ContentInv
  <1>. QED BY <1>1, <1>2, <1>3, <1>4, <1>5, <1>6, <1>7, <1>8
       DEF Next, Command, Operator

LEMMA ExitStep == ExitInv /\ [Next]_vars => ExitInv'
  <1> SUFFICES ASSUME ExitInv, [Next]_vars PROVE ExitInv'
    OBVIOUS
  <1>1. CASE Quit \/ End
    BY <1>1 DEF Quit, End, Finish, ExitInv
  <1>2. CASE phase' # "ended"
    BY <1>2 DEF ExitInv
  <1>3. CASE UNCHANGED <<phase, doApply, status, exit>>
    BY <1>3 DEF ExitInv
  <1>4. ASSUME NEW f \in Findings,
               Plan(f) \/ GoOn(f) \/ SayYes(f) \/ SayNo(f)
               \/ CopyEnds(f) \/ DeleteEnds(f) \/ Touch(f)
        PROVE  phase' # "ended" \/ UNCHANGED <<phase, doApply, status, exit>>
    BY <1>4 DEF Plan, GoOn, SayYes, SayNo, StartOn, Asked, CopyEnds, DeleteEnds, Touch
  <1>5. StepSucceeds \/ StepRetried \/ StepFails \/ Abort \/ UNCHANGED vars =>
          phase' # "ended" \/ UNCHANGED <<phase, doApply, status, exit>>
    BY DEF StepSucceeds, StepRetried, StepFails, NextFinding, Abort, vars
  <1>. QED BY <1>1, <1>2, <1>3, <1>4, <1>5 DEF Next, Command, Operator

----------------------------------------------------------------------------
(* The theorems.                                                           *)

THEOREM Inductive == Spec => []IInv
  <1>1. Init => IInv
    BY TypeInit, PhaseInit, ShapeInit, AcceptedInit, BackupInit, ContentInit
       DEF IInv, ExitInv, Init
  <1>2. IInv /\ [Next]_vars => IInv'
    BY TypeStep, PhaseStep, ShapeStep, AcceptedStep, BackupStep, ContentStep, ExitStep
       DEF IInv
  <1>. QED BY <1>1, <1>2, PTL DEF Spec

\* The command, its outcomes and what Azure holds stay within their types: a
\* finding has at most two steps, and no step is sent more than MAX_ATTEMPTS
\* times (azure.py:565-593, cleaners.py:28-55).
THEOREM TypeCorrect == Spec => []TypeOK
  <1>1. IInv => TypeOK
    BY DEF IInv
  <1>. QED BY <1>1, Inductive, PTL

\* Azure takes the steps of a finding in order and only of one agreed to,
\* whatever is lost or retried (clean.py:86-127, cli.py:443-470).
THEOREM InOrder == Spec => []OnlyAgreedStepsInOrder
  <1>1. IInv => OnlyAgreedStepsInOrder
    BY DEF IInv, AcceptedInv, OnlyAgreedStepsInOrder
  <1>. QED BY <1>1, Inductive, PTL

\* What a cleaner found in use when it read it again is never deleted, for any
\* number of changes by other people (packs/core/cleaners.py:463-504).
THEOREM NoOldContentLost == Spec => []OnlyNewContentIsLost
  <1>1. IInv => OnlyNewContentIsLost
    BY DEF IInv, ContentInv, OnlyNewContentIsLost
  <1>. QED BY <1>1, Inductive, PTL

\* A run that ends with a finding half done says so in its exit code
\* (cli.py:480-481).
THEOREM PartialTold == Spec => []PartialWorkIsTold
  <1>1. IInv => PartialWorkIsTold
    <2> SUFFICES ASSUME IInv, phase = "ended", NEW f \in Findings,
                        accepted[f] # {}, accepted[f] # 1..Len(steps[f])
                 PROVE  exit = 1
      BY DEF PartialWorkIsTold
    <2>1. current = None /\ f # None
      BY CleanAssumption DEF IInv, PhaseInv
    <2>2. doApply /\ status[f] \notin {"planned", "applied", "skipped", "unsupported"}
      BY <2>1 DEF IInv, AcceptedInv
    <2>3. status[f] = "failed"
      BY <2>2 DEF IInv, TypeOK
    <2>. QED BY <2>2, <2>3 DEF IInv, ExitInv
  <1>. QED BY <1>1, Inductive, PTL

\* A disk is not deleted before Azure took the request for its snapshot
\* (clean.py:89-92, packs/core/cleaners.py:58-70).
THEOREM BackupFirst == Spec => BackupPrecedesDelete
  <1> DEFINE NoDelete(f) ==
        Cleaner[f] = "backup" /\ state[f] = "present" /\ state'[f] = "deleting"
          => backup[f] # "none"
  <1>1. IInv /\ [Next]_vars => \A f \in Findings : NoDelete(f)
    <2> SUFFICES ASSUME IInv, [Next]_vars, NEW f \in Findings,
                        Cleaner[f] = "backup", state[f] = "present",
                        state'[f] = "deleting"
                 PROVE  backup[f] # "none"
      OBVIOUS
    <2>1. CASE StepSucceeds \/ StepRetried \/ StepFails
      <3>0. Effect \/ UNCHANGED azureVars
        BY <2>1 DEF StepSucceeds, StepRetried, StepFails
      <3>1. phase = "applying" /\ TypeOK /\ PhaseInv /\ ShapeInv
        BY <2>1 DEF StepSucceeds, StepRetried, StepFails, IInv
      <3>2. f = current /\ step = 2
        BY <3>0, <3>1, EffectChanges DEF EffectFrame
      <3>3. 1 \in accepted[f]
        BY <3>2 DEF IInv, AcceptedInv
      <3>. QED BY <3>3 DEF IInv, BackupInv
    <2>2. CASE \/ Quit \/ Abort \/ End \/ UNCHANGED vars
               \/ \E g \in Findings : Plan(g) \/ GoOn(g) \/ SayYes(g) \/ SayNo(g)
                                      \/ CopyEnds(g) \/ Touch(g)
      <3>1. state' = state
        BY <2>2 DEF Quit, Abort, End, Finish, vars, Plan, GoOn, SayYes, SayNo,
                    CopyEnds, Touch
      <3>. QED BY <3>1
    <2>3. ASSUME NEW g \in Findings, DeleteEnds(g) PROVE FALSE
      BY <2>3 DEF DeleteEnds, IInv, TypeOK
    <2>. QED BY <2>1, <2>2, <2>3 DEF Next, Command, Operator
  <1>2. Spec => [][\A f \in Findings : NoDelete(f)]_vars
    BY <1>1, Inductive, PTL DEF Spec
  <1>. QED BY <1>2 DEF BackupPrecedesDelete
=============================================================================
