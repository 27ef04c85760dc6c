---------------------------- MODULE RegistryProofs ----------------------------
(***************************************************************************)
(* What the packs register, and what becomes of the fetchers among it.     *)
(*                                                                         *)
(* Packs, whatever the modules of the packs do: that discovering again     *)
(* loads what was loaded, that every installed pack is reported once, that *)
(* no check of a disabled pack is run, and that a well-formed pack is      *)
(* loaded whole.                                                           *)
(*                                                                         *)
(* Refresh, for any catalog, page size and number of refreshes: what is    *)
(* written down is what the fetchers make of whole answers, and no rate is *)
(* lost.  Where the rows of a meter differ in their tier and price only    *)
(* (TiersDiffer), each fetcher makes what the catalog publishes, in each   *)
(* shape of section, and a check reads that, each way a rate is looked up. *)
(***************************************************************************)
EXTENDS Packs, Refresh, SequenceTheorems, WellFoundedInduction, TLAPS

LEMMA EntryFacts ==
  /\ Len(Entries) \in Nat /\ Len(Builtin) \in Nat /\ Len(Builtin) <= Len(Entries)
  /\ DOMAIN Builtin = 1..Len(Builtin)
  /\ Indices \subseteq Nat \ {0}
  /\ \A i \in Indices : Entries[i].name \in Names /\ Entries[i].module \in Modules
  <1> DEFINE E == [name : Names, module : Modules]
  <1>0. Builtin \in Seq(E) /\ Installed \in Seq(E)
    BY PacksAssumption DEF Modules
  <1> HIDE DEF E
  <1>1. Entries \in Seq(E)
    BY <1>0 DEF Entries
  <1>2. Len(Entries) = Len(Builtin) + Len(Installed)
    BY <1>0 DEF Entries
  <1>3. Len(Builtin) \in Nat /\ Len(Installed) \in Nat /\ DOMAIN Builtin = 1..Len(Builtin)
    BY <1>0
  <1>4. \A i \in Indices : Entries[i] \in E
    BY <1>1, ElementOfSeq DEF Indices
  <1>. QED BY <1>2, <1>3, <1>4 DEF E, Indices

Frames == [module : Modules, line : Nat \ {0}]

LEMMA WithImportFacts ==
  ASSUME NEW frames \in Seq(Frames), NEW m \in Modules
  PROVE  /\ WithImport(frames, m) \in Seq(Frames)
         /\ m \in imported => WithImport(frames, m) = frames
         /\ frames # <<>> => WithImport(frames, m)[1] = frames[1]
         /\ frames = <<>> /\ WithImport(frames, m) # <<>> =>
              WithImport(frames, m)[1].module = m
  <1> DEFINE f == [module |-> m, line |-> 1]
  <1>1. f \in Frames /\ f.module = m
    BY DEF Frames
  <1> HIDE DEF f
  <1>2. /\ Append(frames, f) \in Seq(Frames)
        /\ frames # <<>> => Append(frames, f)[1] = frames[1]
        /\ frames = <<>> => Append(frames, f)[1] = f
    BY <1>1
  <1>3. WithImport(frames, m) = IF m \in imported \cup BeingImported
                               THEN frames ELSE Append(frames, f)
    BY DEF WithImport, f
  <1>. QED BY <1>1, <1>2, <1>3

\* What the statement being run can be, and the stack once it has run.
LEMMA StatementFacts ==
  ASSUME TypeOK, Running
  PROVE  /\ importing /\ phase = "discovering" /\ at \in Indices
         /\ current_pack \in Names
         /\ Top.module \in Modules
         /\ SubSeq(stack, 1, Len(stack) - 1) \in Seq(Frames)
         /\ AtStatement => Statement \in Statements
         /\ NextLine \in Seq(Frames) /\ NextLine # <<>>
         /\ NextLine[1].module = stack[1].module
  <1>1. importing /\ phase = "discovering" /\ at \in Indices
    BY DEF TypeOK, Running
  <1>2. current_pack \in Names
    BY <1>1, EntryFacts DEF current_pack
  <1>3. stack \in Seq(Frames) /\ Len(stack) \in Nat \ {0} /\ DOMAIN stack = 1..Len(stack)
    BY DEF TypeOK, Running, Frames
  <1>4. Top \in Frames
    BY <1>3, ElementOfSeq DEF Top
  <1>5. SubSeq(stack, 1, Len(stack) - 1) \in Seq(Frames)
    BY <1>3
  <1>6. AtStatement => Statement \in Statements
    <2>1. Top.module \in Modules /\ Top.line \in Nat \ {0}
      BY <1>4 DEF Frames
    <2>2. Body[Top.module] \in Seq(Statements)
      BY <2>1, PacksAssumption
    <2> HIDE DEF Statements
    <2>. QED BY <2>1, <2>2, ElementOfSeq DEF AtStatement, Statement
  <1>7. /\ NextLine \in Seq(Frames) /\ NextLine # <<>>
        /\ NextLine[1].module = stack[1].module
    <2> DEFINE f == [Top EXCEPT !.line = @ + 1]
    <2>1. f \in Frames /\ f.module = Top.module
      BY <1>4 DEF Frames
    <2>2. NextLine = [stack EXCEPT ![Len(stack)] = f]
      BY <1>3 DEF NextLine, Top
    <2> HIDE DEF f
    <2>3. NextLine \in Seq(Frames) /\ Len(NextLine) = Len(stack)
      BY <1>3, <2>1, <2>2
    <2>4. NextLine[1].module = stack[1].module
      BY <1>3, <2>1, <2>2 DEF Top
    <2>. QED BY <1>3, <2>3, <2>4
  <1>. QED BY <1>1, <1>2, <1>4, <1>5, <1>6, <1>7 DEF Frames

----------------------------------------------------------------------------
(* Types.                                                                  *)

LEMMA TypeInit == Init => TypeOK
  <1>1. <<>> \in Seq([module : Modules, line : Nat \ {0}])
    OBVIOUS
  <1>2. 0 \in 0..MaxRounds
    BY PacksAssumption
  <1>3. 1 \in Nat \ {0} /\ 1 <= Len(Entries) + 1
    BY EntryFacts
  <1>4. DOMAIN [k \in {} |-> k] = {}
    OBVIOUS
  <1>. QED BY <1>1, <1>2, <1>3, <1>4 DEF Init, TypeOK

LEMMA TypeStep == TypeOK /\ [Next]_vars => TypeOK'
  <1> SUFFICES ASSUME TypeOK, [Next]_vars PROVE TypeOK'
    OBVIOUS
  <1> USE DEF registries, reportVars, roundVars
  <1>1. ASSUME NEW d \in DisableOptions, Discover(d) PROVE TypeOK'
    <2>1. rounds' \in 0..MaxRounds
      BY <1>1, PacksAssumption DEF Discover, TypeOK
    <2>2. at' \in Nat \ {0} /\ at' <= Len(Entries) + 1
      BY <1>1, EntryFacts DEF Discover
    <2>3. ~importing
      BY <1>1 DEF Discover, TypeOK
    <2>4. d \subseteq Names
      BY PacksAssumption
    <2>. QED BY <1>1, <2>1, <2>2, <2>3, <2>4 DEF Discover, TypeOK
  <1>2. CASE Skip
    <2>1. at \in Indices /\ at + 1 \in Nat \ {0} /\ at + 1 <= Len(Entries) + 1
      BY <1>2, EntryFacts DEF Skip, AtEntry, Indices
    <2>. QED BY <1>2, <2>1 DEF Skip, AtEntry, TypeOK
  <1>3. CASE StartImport
    <2>1. at \in Indices /\ Entries[at].module \in Modules /\ stack \in Seq(Frames)
      BY <1>3, EntryFacts DEF StartImport, AtEntry, TypeOK, Frames
    <2>2. stack' \in Seq(Frames)
      BY <1>3, <2>1, WithImportFacts DEF StartImport
    <2>. QED BY <1>3, <2>1, <2>2 DEF StartImport, AtEntry, TypeOK, Frames
  <1>4. CASE Conclude
    <2>1. at \in Indices /\ at + 1 \in Nat \ {0} /\ at + 1 <= Len(Entries) + 1
      BY <1>4, EntryFacts DEF Conclude, TypeOK, Indices
    <2>2. loaded' \subseteq Indices /\ failed' \subseteq Indices
      BY <1>4, <2>1 DEF Conclude, TypeOK
    <2>. QED BY <1>4, <2>1, <2>2 DEF Conclude, TypeOK
  <1>5. CASE Report
    BY <1>5 DEF Report, TypeOK
  <1>6. CASE RegisterPack
    <2>1. Running
      BY <1>6 DEF RegisterPack, AtStatement
    <2>2. Statement.arg \in Names /\ NextLine \in Seq(Frames)
      BY <1>6, <2>1, StatementFacts DEF RegisterPack, Statements
    <2>. QED BY <1>6, <2>1, <2>2, StatementFacts DEF RegisterPack, TypeOK, Frames
  <1>7. CASE Add
    <2>1. Running
      BY <1>7 DEF Add, AtStatement
    <2>2. Statement.arg \in Keys /\ NextLine \in Seq(Frames) /\ current_pack \in Names
      BY <1>7, <2>1, StatementFacts DEF Add, Statements
    <2>3. DOMAIN owner' \subseteq Keys /\ \A k \in DOMAIN owner' : owner'[k] \in Names
      BY <1>7, <2>2 DEF Add, TypeOK
    <2>. QED BY <1>7, <2>1, <2>2, <2>3, StatementFacts DEF Add, TypeOK, Frames
  <1>8. CASE Import
    <2>1. Running
      BY <1>8 DEF Import, AtStatement
    <2>2. Statement.arg \in Modules /\ NextLine \in Seq(Frames)
      BY <1>8, <2>1, StatementFacts DEF Import, Statements
    <2>3. stack' \in Seq(Frames)
      BY <1>8, <2>2, WithImportFacts DEF Import
    <2>. QED BY <1>8, <2>1, <2>3, StatementFacts DEF Import, TypeOK, Frames
  <1>9. CASE Pass
    <2>1. Running
      BY <1>9 DEF Pass, AtStatement
    <2>. QED BY <1>9, <2>1, StatementFacts DEF Pass, TypeOK, Frames
  <1>10. CASE Done
    <2>1. Running
      BY <1>10 DEF Done
    <2>. QED BY <1>10, <2>1, StatementFacts DEF Done, TypeOK, Frames
  <1>11. CASE Raise
    <2>1. Running
      BY <1>11 DEF Raise, AtStatement
    <2>2. <<>> \in Seq(Frames)
      OBVIOUS
    <2>3. at \in Indices /\ at + 1 \in Nat \ {0} /\ at + 1 <= Len(Entries) + 1
      BY <2>1, StatementFacts, EntryFacts DEF Indices
    <2>4. failed' \subseteq Indices /\ at' \in Nat \ {0} /\ at' <= Len(Entries) + 1
      BY <1>11, <2>3 DEF Raise, TypeOK
    <2>5. phase' \in {"idle", "discovering", "reported", "crashed"} /\ ~importing'
      BY <1>11 DEF Raise, TypeOK
    <2>. QED BY <1>11, <2>2, <2>4, <2>5 DEF Raise, TypeOK, Frames
  <1>12. CASE UNCHANGED vars
    BY <1>12 DEF vars, TypeOK
  <1>. QED BY <1>1, <1>2, <1>3, <1>4, <1>5, <1>6, <1>7, <1>8, <1>9, <1>10, <1>11, <1>12
       DEF Next, Execute

\* The registries, the stack and the report keep their types
\* (packs/__init__.py:161-207).
THEOREM TypeCorrect == Spec => []TypeOK
  <1>. QED BY TypeInit, TypeStep, PTL DEF Spec

----------------------------------------------------------------------------
(* Discovering again.                                                      *)

\* While an entry is imported its module is at the bottom of the stack; when
\* the stack is empty again the module is kept.
ImportInv ==
  importing => IF stack = <<>> THEN Entries[at].module \in imported
                               ELSE stack[1].module = Entries[at].module

Registered(i) == Entries[i].name \in packs /\ Entries[i].module \in imported

\* An entry loaded once has its pack registered and its module kept, so its
\* import runs nothing and cannot fail.
RepeatInv ==
  /\ \A i \in loaded \cup everLoaded : Registered(i)
  /\ importing /\ at \in everLoaded => stack = <<>>
  /\ phase \in {"discovering", "reported"} =>
       \A i \in everLoaded : i < at /\ Entries[i].name \notin disabled => i \in loaded

\* Entries are reported as they are passed, once.
AccountInv ==
  /\ loaded \cap failed = {} /\ loaded \cap skipped = {} /\ failed \cap skipped = {}
  /\ \A i \in loaded \cup failed \cup skipped : i < at
  /\ phase \in {"discovering", "reported"} =>
       \A i \in Indices : Len(Builtin) < i /\ i < at => i \in loaded \cup failed \cup skipped
  /\ phase = "reported" => at \notin Indices

IInv == TypeOK /\ ImportInv /\ RepeatInv /\ AccountInv

LEMMA OthersInit == Init => ImportInv /\ RepeatInv /\ AccountInv
  BY EntryFacts DEF Init, ImportInv, RepeatInv, AccountInv

LEMMA ImportStep == TypeOK /\ ImportInv /\ [Next]_vars => ImportInv'
  <1> SUFFICES ASSUME TypeOK, ImportInv, [Next]_vars PROVE ImportInv'
    OBVIOUS
  <1> USE DEF registries, reportVars, roundVars
  \* A statement that leaves the bottom of the stack alone.
  <1>a. ASSUME Running, UNCHANGED <<importing, at>>,
               stack' # <<>>, stack'[1].module = stack[1].module
        PROVE  ImportInv'
    BY <1>a DEF ImportInv, Running
  <1>1. CASE StartImport
    <2>1. /\ Entries[at].module \in Modules /\ stack \in Seq(Frames) /\ stack = <<>>
          /\ UNCHANGED <<imported, at>> /\ stack' = WithImport(stack, Entries[at].module)
      BY <1>1, EntryFacts DEF StartImport, AtEntry, TypeOK, Frames
    <2>2. stack' = <<>> => Entries[at].module \in imported
      BY <2>1 DEF WithImport, BeingImported
    <2>3. stack' # <<>> => stack'[1].module = Entries[at].module
      BY <2>1, WithImportFacts
    <2>. QED BY <2>1, <2>2, <2>3 DEF ImportInv
  <1>2. CASE RegisterPack \/ Add \/ Pass
    <2>1. Running /\ UNCHANGED <<importing, at>> /\ stack' = NextLine
      BY <1>2 DEF RegisterPack, Add, Pass, AtStatement
    <2>. QED BY <2>1, <1>a, StatementFacts
  <1>3. CASE Import
    <2>1. Running /\ AtStatement /\ UNCHANGED <<importing, at>>
      BY <1>3 DEF Import, AtStatement
    <2>2. Statement.arg \in Modules
      BY <1>3, <2>1, StatementFacts DEF Import, Statements
    <2>3. NextLine \in Seq(Frames) /\ NextLine # <<>> /\ NextLine[1].module = stack[1].module
      BY <2>1, StatementFacts
    <2>4. stack' = WithImport(NextLine, Statement.arg)
      BY <1>3 DEF Import
    <2>5. stack' # <<>>
      BY <2>3, <2>4 DEF WithImport
    <2>6. stack'[1].module = stack[1].module
      BY <2>2, <2>3, <2>4, WithImportFacts
    <2>. QED BY <2>1, <2>5, <2>6, <1>a
  <1>4. CASE Done
    <2>1. /\ Running /\ UNCHANGED <<importing, at>> /\ importing
          /\ imported' = imported \cup {Top.module}
          /\ stack' = SubSeq(stack, 1, Len(stack) - 1)
      BY <1>4, StatementFacts DEF Done
    <2>2. stack \in Seq(Frames) /\ Len(stack) \in Nat \ {0}
      BY <2>1 DEF TypeOK, Running, Frames
    <2>3. CASE Len(stack) = 1
      <3>1. stack' = <<>> /\ Top.module = stack[1].module
        BY <2>1, <2>2, <2>3 DEF Top
      <3>. QED BY <2>1, <3>1 DEF ImportInv, Running
    <2>4. CASE Len(stack) > 1
      <3>1. Len(stack') = Len(stack) - 1 /\ stack'[1] = stack[1]
        BY <2>1, <2>2, <2>4
      <3>2. stack' # <<>>
        BY <2>2, <2>4, <3>1
      <3>. QED BY <2>1, <3>1, <3>2, <1>a
    <2>5. Len(stack) = 1 \/ Len(stack) > 1
      <3>1. \A n \in Nat \ {0} : n = 1 \/ n > 1
        OBVIOUS
      <3>. QED BY <2>2, <3>1
    <2>. QED BY <2>3, <2>4, <2>5
  <1>5. CASE Raise \/ Conclude
    BY <1>5 DEF Raise, Conclude, ImportInv
  <1>6. CASE Skip \/ Report \/ \E d \in DisableOptions : Discover(d)
    <2>1. ~importing'
      BY <1>6 DEF Skip, AtEntry, Report, Discover, TypeOK, ImportInv
    <2>. QED BY <2>1 DEF ImportInv
  <1>7. CASE UNCHANGED vars
    BY <1>7 DEF vars, ImportInv
  <1>. QED BY <1>1, <1>2, <1>3, <1>4, <1>5, <1>6, <1>7 DEF Next, Execute

\* What is registered and kept stays so.
LEMMA RegisteredLasts ==
  ASSUME TypeOK, [Next]_vars, NEW i \in Indices, Registered(i)
  PROVE  Registered(i)'
  BY DEF Registered, Next, Execute, vars, registries, reportVars, roundVars, Discover, Skip,
         StartImport, Conclude, Report, RegisterPack, Add, Import, Pass, Done, Raise

LEMMA RepeatStep == IInv /\ [Next]_vars => RepeatInv'
  <1> SUFFICES ASSUME IInv, [Next]_vars PROVE RepeatInv'
    OBVIOUS
  <1> USE DEF registries, reportVars, roundVars
  <1>0. \A i \in Indices : Registered(i) => Registered(i)'
    BY RegisteredLasts DEF IInv
  <1>t. /\ loaded \subseteq Indices /\ everLoaded \subseteq Indices
        /\ \A i \in Indices : i \in Nat \ {0}
        /\ at \in Nat
    BY EntryFacts DEF IInv, TypeOK
  \* A step that leaves the report and the position alone.
  <1>a. ASSUME UNCHANGED <<loaded, everLoaded, at, phase, disabled>>,
               importing' /\ at \in everLoaded => stack' = <<>>
        PROVE  RepeatInv'
    <2>1. \A i \in loaded' \cup everLoaded' : Registered(i)'
      BY <1>a, <1>0, <1>t DEF IInv, RepeatInv
    <2>. QED BY <1>a, <2>1 DEF IInv, RepeatInv
  \* A statement is run only for an entry that was never loaded.
  <1>b. Running => at \notin everLoaded
    BY DEF IInv, RepeatInv, TypeOK, Running
  <1>1. ASSUME NEW d \in DisableOptions, Discover(d) PROVE RepeatInv'
    <2>1. everLoaded' \subseteq loaded \cup everLoaded /\ loaded' = {} /\ at' = 1 /\ ~importing'
      BY <1>1 DEF Discover, IInv, TypeOK
    <2>2. \A i \in everLoaded' : Registered(i)'
      BY <2>1, <1>0, <1>t DEF IInv, RepeatInv
    <2>3. \A i \in everLoaded' : i \in Nat \ {0}
      BY <2>1, <1>t
    <2>4. \A i \in everLoaded' : ~(i < at')
      BY <2>1, <2>3
    <2>. QED BY <2>1, <2>2, <2>4 DEF RepeatInv
  <1>2. CASE Skip
    <2>1. at' = at + 1 /\ ~importing' /\ Entries[at].name \in disabled
      BY <1>2 DEF Skip, AtEntry
    <2>2. UNCHANGED <<loaded, everLoaded, phase, disabled>>
      BY <1>2 DEF Skip
    <2>. QED BY <2>1, <2>2, <1>0, <1>t DEF IInv, RepeatInv
  <1>3. CASE StartImport
    <2>1. /\ at \in Indices /\ Entries[at].module \in Modules
          /\ stack = <<>> /\ stack \in Seq(Frames)
      BY <1>3, EntryFacts DEF StartImport, AtEntry, IInv, TypeOK, Frames
    <2>2. at \in everLoaded => stack' = <<>>
      BY <1>3, <2>1, WithImportFacts DEF StartImport, IInv, RepeatInv, Registered
    <2>. QED BY <1>3, <2>2, <1>a DEF StartImport
  <1>4. CASE Conclude
    <2>1. /\ at \in Indices /\ phase = "discovering" /\ importing
          /\ at \in everLoaded => at \in loaded'
      BY <1>4 DEF Conclude, IInv, TypeOK, RepeatInv, Registered
    <2>2. /\ at' = at + 1 /\ ~importing' /\ loaded \subseteq loaded'
          /\ UNCHANGED <<packs, imported, phase, disabled, everLoaded>>
      BY <1>4 DEF Conclude
    <2>3. loaded' = loaded \/ (loaded' = loaded \cup {at} /\ Registered(at))
      <3>1. Entries[at].module \in imported
        BY <1>4 DEF Conclude, IInv, ImportInv
      <3>. QED BY <1>4, <3>1 DEF Conclude, Registered
    <2>4. \A i \in loaded' \cup everLoaded' : Registered(i)'
      BY <2>1, <2>2, <2>3, <1>0, <1>t DEF IInv, RepeatInv
    <2>5. \A i \in everLoaded' : i < at' /\ Entries[i].name \notin disabled' => i \in loaded'
      <3> SUFFICES ASSUME NEW i \in everLoaded, i < at + 1, Entries[i].name \notin disabled
                   PROVE  i \in loaded'
        BY <2>2
      <3>1. i = at \/ i < at
        BY <1>t
      <3>. QED BY <3>1, <2>1, <2>2 DEF IInv, RepeatInv
    <2>. QED BY <2>2, <2>4, <2>5 DEF RepeatInv
  <1>5. CASE Report
    <2>1. UNCHANGED <<loaded, everLoaded, at, disabled, importing, stack>> /\ phase = "discovering"
      BY <1>5 DEF Report
    <2>2. \A i \in loaded' \cup everLoaded' : Registered(i)'
      BY <2>1, <1>0, <1>t DEF IInv, RepeatInv
    <2>. QED BY <2>1, <2>2 DEF IInv, RepeatInv
  <1>6. CASE RegisterPack \/ Add \/ Import \/ Pass \/ Done
    <2>1. Running /\ UNCHANGED <<loaded, everLoaded, at, phase, disabled>>
      BY <1>6 DEF RegisterPack, Add, Import, Pass, Done, AtStatement
    <2>. QED BY <2>1, <1>a, <1>b
  <1>7. CASE Raise
    <2>1. Running /\ ~importing' /\ UNCHANGED <<loaded, everLoaded, disabled>>
      BY <1>7 DEF Raise, AtStatement
    <2>2. \/ phase' = "crashed"
          \/ at' = at + 1 /\ phase' = phase
      BY <1>7 DEF Raise
    <2>3. \A i \in loaded' \cup everLoaded' : Registered(i)'
      BY <2>1, <1>0, <1>t DEF IInv, RepeatInv
    <2>4. ASSUME at' = at + 1, NEW i \in everLoaded, i < at' PROVE i < at
      <3>1. i # at
        BY <2>1, <1>b
      <3>. QED BY <2>4, <3>1, <1>t
    <2>. QED BY <2>1, <2>2, <2>3, <2>4 DEF IInv, RepeatInv
  <1>8. CASE UNCHANGED vars
    BY <1>8, <1>a DEF vars, IInv, RepeatInv
  <1>. QED BY <1>1, <1>2, <1>3, <1>4, <1>5, <1>6, <1>7, <1>8 DEF Next, Execute

LEMMA AccountStep == IInv /\ [Next]_vars => AccountInv'
  <1> SUFFICES ASSUME IInv, [Next]_vars PROVE AccountInv'
    OBVIOUS
  <1> USE DEF registries, reportVars, roundVars
  <1> DEFINE All == loaded \cup failed \cup skipped
  <1>t. /\ All \subseteq Nat /\ at \in Nat /\ Indices \subseteq Nat /\ Len(Builtin) \in Nat
        /\ at \notin All
    BY EntryFacts DEF IInv, TypeOK, AccountInv, Indices
  \* A step that passes entry x by and reports it in one way.
  <1>a. ASSUME phase = "discovering", phase' = phase, at' = at + 1,
               \/ loaded' = loaded \cup {at} /\ UNCHANGED <<failed, skipped>>
               \/ failed' = failed \cup {at} /\ UNCHANGED <<loaded, skipped>>
               \/ skipped' = skipped \cup {at} /\ UNCHANGED <<loaded, failed>>
               \/ at <= Len(Builtin) /\ UNCHANGED <<loaded, failed, skipped>>
        PROVE  AccountInv'
    <2>1. \A i \in loaded' \cup failed' \cup skipped' : i \in All \/ i = at
      BY <1>a
    <2>2. \A i \in loaded' \cup failed' \cup skipped' : i < at'
      <3> SUFFICES ASSUME NEW i \in loaded' \cup failed' \cup skipped' PROVE i < at + 1
        BY <1>a
      <3>1. i \in Nat /\ (i < at \/ i = at)
        BY <2>1, <1>t DEF IInv, AccountInv
      <3>. QED BY <3>1, <1>t
    <2>3. /\ loaded' \cap failed' = {} /\ loaded' \cap skipped' = {}
          /\ failed' \cap skipped' = {}
      BY <1>a, <1>t DEF IInv, AccountInv
    <2>4. \A i \in Indices : Len(Builtin) < i /\ i < at' =>
            i \in loaded' \cup failed' \cup skipped'
      <3> SUFFICES ASSUME NEW i \in Indices, Len(Builtin) < i, i < at + 1
                   PROVE  i \in loaded' \cup failed' \cup skipped'
        BY <1>a
      <3>1. i < at \/ (i = at /\ ~(at <= Len(Builtin)))
        BY <1>t
      <3>. QED BY <3>1, <1>a DEF IInv, AccountInv
    <2>. QED BY <1>a, <2>2, <2>3, <2>4 DEF AccountInv
  <1>b. ASSUME UNCHANGED <<loaded, failed, skipped, at>>,
               \/ phase' = "crashed"
               \/ phase' = phase
               \/ phase = "discovering" /\ phase' = "reported" /\ at \notin Indices
        PROVE  AccountInv'
    BY <1>b DEF IInv, AccountInv
  <1>1. ASSUME NEW d \in DisableOptions, Discover(d) PROVE AccountInv'
    <2>1. /\ loaded' = {} /\ failed' = {} /\ skipped' = {} /\ at' = 1
          /\ phase' = "discovering"
      BY <1>1 DEF Discover
    <2>2. \A i \in Indices : ~(Len(Builtin) < i /\ i < 1)
      BY <1>t
    <2>. QED BY <2>1, <2>2 DEF AccountInv
  <1>2. CASE Skip
    BY <1>2, <1>a DEF Skip, AtEntry
  <1>3. CASE Conclude
    <2>1. phase = "discovering"
      BY <1>3 DEF Conclude, IInv, TypeOK
    <2>. QED BY <1>3, <2>1, <1>a DEF Conclude, IsBuiltin
  <1>4. CASE Raise
    <2>1. phase = "discovering"
      BY <1>4, StatementFacts DEF Raise, AtStatement, IInv
    <2>2. CASE IsBuiltin(at)
      <3>1. UNCHANGED <<loaded, failed, skipped, at>> /\ phase' = "crashed"
        BY <1>4, <2>2 DEF Raise
      <3>. QED BY <3>1, <1>b
    <2>3. CASE ~IsBuiltin(at)
      <3>1. /\ failed' = failed \cup {at} /\ at' = at + 1 /\ phase' = phase
            /\ UNCHANGED <<loaded, skipped>>
        BY <1>4, <2>3 DEF Raise
      <3>. QED BY <2>1, <3>1, <1>a
    <2>. QED BY <2>2, <2>3
  <1>5. CASE StartImport \/ RegisterPack \/ Add \/ Import \/ Pass \/ Done
    <2>1. UNCHANGED <<loaded, failed, skipped, at, phase>>
      BY <1>5 DEF StartImport, RegisterPack, Add, Import, Pass, Done
    <2>. QED BY <2>1, <1>b
  <1>6. CASE Report
    <2>1. /\ UNCHANGED <<loaded, failed, skipped, at>> /\ at \notin Indices
          /\ phase = "discovering" /\ phase' = "reported"
      BY <1>6 DEF Report
    <2>. QED BY <2>1, <1>b
  <1>7. CASE UNCHANGED vars
    <2>1. UNCHANGED <<loaded, failed, skipped, at, phase>>
      BY <1>7 DEF vars
    <2>. QED BY <2>1, <1>b
  <1>. QED BY <1>1, <1>2, <1>3, <1>4, <1>5, <1>6, <1>7 DEF Next, Execute

LEMMA Inductive == Spec => []IInv
  <1>1. Init => IInv
    BY TypeInit, OthersInit DEF IInv
  <1>2. IInv /\ [Next]_vars => IInv'
    BY TypeStep, ImportStep, RepeatStep, AccountStep DEF IInv
  <1>. QED BY <1>1, <1>2, PTL DEF Spec

\* A pack loaded by one discovery is loaded by each later one that does not
\* disable it, whatever the other packs do (test_packs.py:42-51).
THEOREM Repeatable == Spec => []DiscoveryIsRepeatable
  <1>1. IInv => DiscoveryIsRepeatable
    <2> SUFFICES ASSUME IInv, phase = "reported", NEW i \in everLoaded,
                        Entries[i].name \notin disabled
                 PROVE  i \in loaded /\ i \notin failed
      BY DEF DiscoveryIsRepeatable
    <2>1. i \in Indices /\ at \notin Indices /\ at \in Nat \ {0}
      BY DEF IInv, TypeOK, AccountInv
    <2>2. i < at
      BY <2>1, EntryFacts DEF Indices
    <2>. QED BY <2>2 DEF IInv, RepeatInv, AccountInv
  <1>. QED BY <1>1, Inductive, PTL

\* An installed pack is reported as loaded, failed or skipped, and as one of
\* them only (packs/__init__.py:178-207).
THEOREM AllReported == Spec => []EveryPackIsReported
  <1>1. IInv => EveryPackIsReported
    <2> SUFFICES ASSUME IInv, phase = "reported" PROVE EveryPackIsReported
      BY DEF EveryPackIsReported
    <2>1. at \notin Indices /\ at \in Nat \ {0}
      BY DEF IInv, TypeOK, AccountInv
    <2>2. \A i \in Indices \ DOMAIN Builtin : Len(Builtin) < i /\ i < at
      BY <2>1, EntryFacts DEF Indices
    <2>. QED BY <2>2 DEF IInv, AccountInv, EveryPackIsReported
  <1>. QED BY <1>1, Inductive, PTL

----------------------------------------------------------------------------
(* A well-formed pack is loaded whole.                                     *)

Good(i) == WellFormed(Entries[i]) /\ Alone(Entries[i])

\* Whether statement l of module m has been run, in an import that has not
\* been given up.
Ran(m, l) ==
  m \in imported \/ \E i \in DOMAIN stack : stack[i].module = m /\ l < stack[i].line

\* A module is on the stack once, and not when it is kept.
StackInv ==
  \A i \in DOMAIN stack :
    /\ stack[i].module \notin imported
    /\ \A j \in DOMAIN stack : stack[j].module = stack[i].module => j = i

\* The modules of a pack nobody else imports run while that pack is loaded.
PrivateInv ==
  \A i \in DOMAIN stack :
    Private(Home[stack[i].module]) => Home[stack[i].module] = current_pack

\* What statement s of pack n leaves behind, and what is not there before it.
Effect(n, s) ==
  /\ s.op = "register" => n \in packs
  /\ s.op = "add" => s.arg \in DOMAIN owner /\ owner[s.arg] = n
  /\ s.op = "import" => s.arg \in imported \cup BeingImported

NoEffect(n, s) ==
  /\ s.op = "register" => n \notin packs
  /\ s.op = "add" => s.arg \notin DOMAIN owner

\* While a module of pack n runs, only modules of n run.
Together(n) ==
  \A i, j \in DOMAIN stack : stack[i].module \in Own(n) => stack[j].module \in Own(n)

\* The registries hold what the statements that were run have put there.
Effects(n) ==
  \A m \in Own(n) : \A l \in DOMAIN Body[m] :
    IF Ran(m, l) THEN Effect(n, Body[m][l]) ELSE NoEffect(n, Body[m][l])

\* Entries are loaded as they are passed.
Passed(i) ==
  phase \in {"discovering", "reported"} /\ i < at /\ Entries[i].name \notin disabled =>
    i \in loaded /\ Entries[i].module \in imported

GoodInv ==
  \A i \in Indices : Good(i) =>
    Together(Entries[i].name) /\ Effects(Entries[i].name) /\ Passed(i)

LEMMA StackType ==
  ASSUME TypeOK
  PROVE  /\ stack \in Seq(Frames) /\ Len(stack) \in Nat /\ DOMAIN stack = 1..Len(stack)
         /\ \A i \in DOMAIN stack : stack[i].module \in Modules /\ stack[i].line \in Nat \ {0}
         /\ Running => /\ Len(stack) \in DOMAIN stack
                       /\ Top = stack[Len(stack)]
         /\ BeingImported = {stack[i].module : i \in DOMAIN stack}
  <1>1. stack \in Seq(Frames) /\ Len(stack) \in Nat /\ DOMAIN stack = 1..Len(stack)
    BY DEF TypeOK, Frames
  <1>2. \A i \in DOMAIN stack : stack[i] \in Frames
    BY <1>1, ElementOfSeq
  <1>3. Running => Len(stack) \in DOMAIN stack
    BY <1>1 DEF Running
  <1>. QED BY <1>1, <1>2, <1>3 DEF Frames, Top, BeingImported

\* The statement being run is one of the module on top.
LEMMA TopStatement ==
  ASSUME TypeOK, AtStatement
  PROVE  /\ Running /\ Top.module \in Modules
         /\ Top.line \in DOMAIN Body[Top.module]
         /\ Statement = Body[Top.module][Top.line] /\ Statement \in Statements
  <1>1. Running /\ Top.module \in Modules /\ Top.line \in Nat \ {0}
    BY StackType DEF AtStatement
  <1>2. Body[Top.module] \in Seq(Statements)
    BY <1>1, PacksAssumption
  <1>3. DOMAIN Body[Top.module] = 1..Len(Body[Top.module]) /\ Len(Body[Top.module]) \in Nat
    BY <1>2
  <1>4. Top.line \in DOMAIN Body[Top.module]
    BY <1>1, <1>3 DEF AtStatement
  <1>. QED BY <1>1, <1>4, StatementFacts DEF Statement

\* The stack after a statement.
LEMMA NextLineFacts ==
  ASSUME TypeOK, Running
  PROVE  /\ NextLine \in Seq(Frames) /\ Len(NextLine) = Len(stack) /\ DOMAIN NextLine = DOMAIN stack
         /\ \A i \in DOMAIN stack : NextLine[i].module = stack[i].module
         /\ \A i \in DOMAIN stack :
              NextLine[i].line = IF i = Len(stack) THEN Top.line + 1 ELSE stack[i].line
  <1>1. /\ stack \in Seq(Frames) /\ Len(stack) \in DOMAIN stack /\ Top = stack[Len(stack)]
        /\ Top \in Frames
    BY StackType, ElementOfSeq
  <1>. DEFINE f == [Top EXCEPT !.line = @ + 1]
  <1>2. f \in Frames /\ f.module = Top.module /\ f.line = Top.line + 1
    BY <1>1 DEF Frames
  <1>3. NextLine = [stack EXCEPT ![Len(stack)] = f]
    BY <1>1 DEF NextLine
  <1>. HIDE DEF f
  <1>4. \A i \in DOMAIN stack : NextLine[i] = IF i = Len(stack) THEN f ELSE stack[i]
    BY <1>1, <1>3
  <1>5. NextLine \in Seq(Frames) /\ Len(NextLine) = Len(stack) /\ DOMAIN NextLine = DOMAIN stack
    BY <1>1, <1>2, <1>3
  <1>. QED BY <1>1, <1>2, <1>4, <1>5

\* The stack after an import.
LEMMA PushFacts ==
  ASSUME NEW frames \in Seq(Frames), NEW m \in Modules,
         stack' = WithImport(frames, m)
  PROVE  \/ stack' = frames /\ m \in imported \cup BeingImported
         \/ /\ m \notin imported \cup BeingImported
            /\ DOMAIN stack' = DOMAIN frames \cup {Len(frames) + 1}
            /\ \A i \in DOMAIN frames : stack'[i] = frames[i] /\ i # Len(frames) + 1
            /\ stack'[Len(frames) + 1] = [module |-> m, line |-> 1]
  <1>. DEFINE f == [module |-> m, line |-> 1]
  <1>1. f \in Frames
    BY DEF Frames
  <1>. HIDE DEF f
  <1>2. /\ DOMAIN Append(frames, f) = DOMAIN frames \cup {Len(frames) + 1}
        /\ \A i \in DOMAIN frames : Append(frames, f)[i] = frames[i] /\ i # Len(frames) + 1
        /\ Append(frames, f)[Len(frames) + 1] = f
    BY <1>1
  <1>3. stack' = IF m \in imported \cup BeingImported THEN frames ELSE Append(frames, f)
    BY DEF WithImport, f
  <1>4. CASE m \in imported \cup BeingImported
    BY <1>3, <1>4
  <1>5. CASE m \notin imported \cup BeingImported
    <2>1. stack' = Append(frames, f)
      BY <1>3, <1>5
    <2>. QED BY <1>2, <1>5, <2>1 DEF f
  <1>. QED BY <1>4, <1>5

\* The stack after a module's last statement.
LEMMA PopFacts ==
  ASSUME TypeOK, Running, stack' = SubSeq(stack, 1, Len(stack) - 1)
  PROVE  /\ DOMAIN stack' = DOMAIN stack \ {Len(stack)}
         /\ \A i \in DOMAIN stack' : stack'[i] = stack[i]
  <1>1. stack \in Seq(Frames) /\ Len(stack) \in Nat /\ Len(stack) \in DOMAIN stack
          /\ DOMAIN stack = 1..Len(stack)
    BY StackType
  <1>2. Len(stack') = Len(stack) - 1 /\ DOMAIN stack' = 1..(Len(stack) - 1)
          /\ \A i \in 1..(Len(stack) - 1) : stack'[i] = stack[i]
    BY <1>1
  <1>. QED BY <1>1, <1>2

\* How a step changes the stack and what is kept.
LEMMA StepShapes ==
  ASSUME TypeOK, [Next]_vars
  PROVE  \/ /\ UNCHANGED <<stack, imported, packs, owner>>
            /\ at' = at \/ stack = <<>>
         \/ /\ StartImport /\ stack = <<>> /\ at \in Indices /\ Entries[at].module \in Modules
            /\ stack' = WithImport(stack, Entries[at].module)
            /\ UNCHANGED <<imported, packs, owner, at>>
         \/ /\ AtStatement /\ stack' = NextLine /\ UNCHANGED <<imported, at>>
            /\ RegisterPack \/ Add \/ Pass
         \/ /\ AtStatement /\ Statement.op = "import" /\ Statement.arg \in Modules
            /\ stack' = WithImport(NextLine, Statement.arg)
            /\ UNCHANGED <<imported, packs, owner, at>>
         \/ /\ Running /\ ~AtStatement /\ stack' = SubSeq(stack, 1, Len(stack) - 1)
            /\ imported' = imported \cup {Top.module} /\ UNCHANGED <<packs, owner, at>>
         \/ /\ Raise /\ stack' = <<>> /\ UNCHANGED <<imported, packs, owner>>
  <1>. USE DEF registries, reportVars, roundVars
  <1>0. ~importing => stack = <<>>
    BY DEF TypeOK
  <1>1. CASE Skip \/ Conclude \/ Report \/ \E d \in DisableOptions : Discover(d)
    <2>1. UNCHANGED <<stack, imported, packs, owner>> /\ stack = <<>>
      BY <1>0, <1>1 DEF Skip, AtEntry, Conclude, Report, Discover, TypeOK
    <2>. QED BY <2>1
  <1>2. CASE StartImport
    BY <1>0, <1>2, EntryFacts DEF StartImport, AtEntry
  <1>3. CASE RegisterPack \/ Add \/ Pass
    BY <1>3 DEF RegisterPack, Add, Pass
  <1>4. CASE Import
    <2>1. Statement.arg \in Modules
      BY <1>4, TopStatement DEF Import, Statements
    <2>. QED BY <1>4, <2>1 DEF Import
  <1>5. CASE Done
    BY <1>5 DEF Done
  <1>6. CASE Raise
    BY <1>6 DEF Raise
  <1>7. CASE UNCHANGED vars
    BY <1>7 DEF vars
  <1>. QED BY <1>1, <1>2, <1>3, <1>4, <1>5, <1>6, <1>7 DEF Next, Execute

LEMMA StackStep == TypeOK /\ StackInv /\ [Next]_vars => StackInv'
  <1> SUFFICES ASSUME TypeOK, StackInv, [Next]_vars PROVE StackInv'
    OBVIOUS
  <1>1. CASE UNCHANGED <<stack, imported>>
    BY <1>1 DEF StackInv
  <1>2. CASE /\ stack = <<>> /\ Entries[at].module \in Modules
             /\ stack' = WithImport(stack, Entries[at].module) /\ UNCHANGED imported
    <2>1. stack \in Seq(Frames) /\ DOMAIN stack = {}
      BY <1>2, StackType
    <2>2. \/ stack' = stack
          \/ /\ Entries[at].module \notin imported
             /\ \A i \in DOMAIN stack' : i = Len(stack) + 1
             /\ stack'[Len(stack) + 1] = [module |-> Entries[at].module, line |-> 1]
      BY <1>2, <2>1, PushFacts
    <2>. QED BY <1>2, <2>1, <2>2 DEF StackInv
  <1>3. CASE AtStatement /\ stack' = NextLine /\ UNCHANGED imported
    <2>1. DOMAIN stack' = DOMAIN stack /\ \A i \in DOMAIN stack : stack'[i].module = stack[i].module
      BY <1>3, NextLineFacts DEF AtStatement
    <2>. QED BY <1>3, <2>1 DEF StackInv
  <1>4. CASE /\ AtStatement /\ Statement.arg \in Modules
             /\ stack' = WithImport(NextLine, Statement.arg) /\ UNCHANGED imported
    <2>1. /\ NextLine \in Seq(Frames) /\ DOMAIN NextLine = DOMAIN stack
          /\ \A i \in DOMAIN stack : NextLine[i].module = stack[i].module
      BY <1>4, NextLineFacts DEF AtStatement
    <2>. DEFINE top == Len(NextLine) + 1
    <2>2. \/ stack' = NextLine
          \/ /\ Statement.arg \notin imported \cup BeingImported
             /\ DOMAIN stack' = DOMAIN stack \cup {top}
             /\ \A i \in DOMAIN stack : stack'[i] = NextLine[i] /\ i # top
             /\ stack'[top] = [module |-> Statement.arg, line |-> 1]
      BY <1>4, <2>1, PushFacts
    <2>3. CASE stack' = NextLine
      BY <1>4, <2>1, <2>3 DEF StackInv
    <2>. HIDE DEF top
    <2>4. CASE /\ Statement.arg \notin imported \cup BeingImported
               /\ DOMAIN stack' = DOMAIN stack \cup {top}
               /\ \A i \in DOMAIN stack : stack'[i] = NextLine[i] /\ i # top
               /\ stack'[top] = [module |-> Statement.arg, line |-> 1]
      <3>1. \A i \in DOMAIN stack : stack[i].module # Statement.arg
        BY <2>4, StackType
      <3>2. stack'[top].module = Statement.arg
        BY <2>4
      <3>3. \A i \in DOMAIN stack : stack'[i].module = stack[i].module
        BY <2>1, <2>4
      <3>. QED BY <1>4, <2>4, <3>1, <3>2, <3>3 DEF StackInv
    <2>. QED BY <2>2, <2>3, <2>4
  <1>5. CASE /\ Running /\ stack' = SubSeq(stack, 1, Len(stack) - 1)
             /\ imported' = imported \cup {Top.module}
    <2>1. DOMAIN stack' = DOMAIN stack \ {Len(stack)} /\ \A i \in DOMAIN stack' : stack'[i] = stack[i]
      BY <1>5, PopFacts
    <2>2. Top = stack[Len(stack)] /\ Len(stack) \in DOMAIN stack
      BY <1>5, StackType
    <2>. QED BY <1>5, <2>1, <2>2 DEF StackInv
  <1>6. CASE stack' = <<>>
    BY <1>6 DEF StackInv
  <1>. QED BY <1>1, <1>2, <1>3, <1>4, <1>5, <1>6, StepShapes

\* A module that another one imports, or an entry names, is of the same pack
\* if that pack is private.
LEMMA PrivateFacts ==
  ASSUME NEW m \in Modules, Private(Home[m])
  PROVE  /\ \A i \in Indices : Entries[i].module = m => Entries[i].name = Home[m]
         /\ \A o \in Modules : \A l \in DOMAIN Body[o] :
              Body[o][l] = [op |-> "import", arg |-> m] => Home[o] = Home[m]
  <1>1. m \in Own(Home[m])
    BY DEF Own
  <1>2. \A o \in Modules : Does(o, "import", m) => Home[o] = Home[m]
    BY <1>1 DEF Private, Own
  <1>. QED BY <1>1, <1>2 DEF Private, Does

LEMMA ImportStatement ==
  ASSUME TypeOK, AtStatement, Statement.op = "import"
  PROVE  /\ Statement.arg \in Modules
         /\ Body[Top.module][Top.line] = [op |-> "import", arg |-> Statement.arg]
  <1>1. Statement \in Statements /\ Statement = Body[Top.module][Top.line]
    BY TopStatement
  <1>2. Statement \in [op : {"import"}, arg : Modules]
    BY <1>1 DEF Statements
  <1>. QED BY <1>1, <1>2

LEMMA PrivateStep == TypeOK /\ PrivateInv /\ [Next]_vars => PrivateInv'
  <1> SUFFICES ASSUME TypeOK, PrivateInv, [Next]_vars PROVE PrivateInv'
    OBVIOUS
  <1>0. \A m : Private(Home[m])' = Private(Home[m])
    BY DEF Private, Own, Does
  <1>. DEFINE Right(m) == Private(Home[m]) => Home[m] = Entries[at].name
  <1>1. \A i \in DOMAIN stack : Right(stack[i].module)
    BY DEF PrivateInv, current_pack
  <1>2. ASSUME at' = at, \A i \in DOMAIN stack' : Right(stack'[i].module)
        PROVE  PrivateInv'
    BY <1>0, <1>2 DEF PrivateInv, current_pack
  <1>3. ASSUME stack' = <<>>
        PROVE  PrivateInv'
    BY <1>3 DEF PrivateInv
  <1>. HIDE DEF Right
  <1>4. CASE UNCHANGED stack /\ (at' = at \/ stack = <<>>)
    BY <1>1, <1>2, <1>3, <1>4
  <1>5. CASE /\ stack = <<>> /\ at \in Indices /\ Entries[at].module \in Modules
             /\ stack' = WithImport(stack, Entries[at].module) /\ at' = at
    <2>1. stack \in Seq(Frames) /\ DOMAIN stack = {}
      BY <1>5, StackType
    <2>4. \/ stack' = stack
          \/ /\ \A i \in DOMAIN stack' : i = Len(stack) + 1
             /\ stack'[Len(stack) + 1] = [module |-> Entries[at].module, line |-> 1]
      BY <1>5, <2>1, PushFacts
    <2>2. \A i \in DOMAIN stack' : stack'[i].module = Entries[at].module
      BY <2>1, <2>4
    <2>3. Right(Entries[at].module)
      BY <1>5, PrivateFacts DEF Right
    <2>. QED BY <1>2, <1>5, <2>2, <2>3
  <1>6. CASE AtStatement /\ stack' = NextLine /\ at' = at
    <2>1. DOMAIN stack' = DOMAIN stack /\ \A i \in DOMAIN stack : stack'[i].module = stack[i].module
      BY <1>6, NextLineFacts DEF AtStatement
    <2>. QED BY <1>1, <1>2, <1>6, <2>1
  <1>7. CASE /\ AtStatement /\ Statement.op = "import" /\ at' = at
             /\ stack' = WithImport(NextLine, Statement.arg)
    <2>1. /\ NextLine \in Seq(Frames) /\ DOMAIN NextLine = DOMAIN stack
          /\ \A i \in DOMAIN stack : NextLine[i].module = stack[i].module
      BY <1>7, NextLineFacts DEF AtStatement
    <2>2. /\ Statement.arg \in Modules /\ Top.module \in Modules
          /\ Top.line \in DOMAIN Body[Top.module]
          /\ Body[Top.module][Top.line] = [op |-> "import", arg |-> Statement.arg]
      BY <1>7, TopStatement, ImportStatement
    <2>3. Right(Top.module)
      BY <1>1, <1>7, StackType DEF AtStatement
    <2>4. Private(Home[Statement.arg]) => Home[Top.module] = Home[Statement.arg]
      BY <2>2, PrivateFacts
    <2>5. Right(Statement.arg)
      BY <2>3, <2>4 DEF Right
    <2>7. \/ stack' = NextLine /\ Statement.arg \in imported \cup BeingImported
          \/ /\ Statement.arg \notin imported \cup BeingImported
             /\ DOMAIN stack' = DOMAIN NextLine \cup {Len(NextLine) + 1}
             /\ \A i \in DOMAIN NextLine : stack'[i] = NextLine[i] /\ i # Len(NextLine) + 1
             /\ stack'[Len(NextLine) + 1] = [module |-> Statement.arg, line |-> 1]
      BY <1>7, <2>1, <2>2, PushFacts
    <2>6. \A i \in DOMAIN stack' : \/ i \in DOMAIN stack /\ stack'[i].module = stack[i].module
                                   \/ stack'[i].module = Statement.arg
      BY <2>1, <2>7
    <2>. QED BY <1>1, <1>2, <1>7, <2>5, <2>6
  <1>8. CASE Running /\ stack' = SubSeq(stack, 1, Len(stack) - 1) /\ at' = at
    <2>1. DOMAIN stack' = DOMAIN stack \ {Len(stack)} /\ \A i \in DOMAIN stack' : stack'[i] = stack[i]
      BY <1>8, PopFacts
    <2>. QED BY <1>1, <1>2, <1>8, <2>1
  <1>. QED BY <1>3, <1>4, <1>5, <1>6, <1>7, <1>8, StepShapes

\* What is in the registries was added by a module, in the name of its pack if
\* nobody else imports that pack's modules.
OwnerInv ==
  \A k \in DOMAIN owner : \E m \in Modules :
    Does(m, "add", k) /\ (Private(Home[m]) => owner[k] = Home[m])

LEMMA AddStatement ==
  ASSUME TypeOK, AtStatement, Statement.op = "add"
  PROVE  Statement.arg \in Keys /\ Statement = [op |-> "add", arg |-> Statement.arg]
  <1>1. Statement \in [op : {"add"}, arg : Keys]
    BY TopStatement DEF Statements
  <1>. QED BY <1>1

\* Only a registration changes the registries.
LEMMA AddFacts ==
  ASSUME Add
  PROVE  /\ AtStatement /\ Statement.op = "add" /\ Statement.arg \notin DOMAIN owner
         /\ DOMAIN owner' = DOMAIN owner \cup {Statement.arg}
         /\ \A k \in DOMAIN owner : owner'[k] = owner[k]
         /\ owner'[Statement.arg] = current_pack
  <1>1. AtStatement /\ Statement.op = "add" /\ Accepted
        /\ owner' = [k \in DOMAIN owner \cup {Statement.arg} |->
                       IF k \in DOMAIN owner THEN owner[k] ELSE current_pack]
    BY DEF Add
  <1>2. Statement.arg \notin DOMAIN owner
    BY <1>1 DEF Accepted
  <1>. QED BY <1>1, <1>2

LEMMA OwnerFacts ==
  ASSUME TypeOK, [Next]_vars
  PROVE  UNCHANGED owner \/ Add
  BY StepShapes DEF RegisterPack, Pass, registries

LEMMA OwnerStep == TypeOK /\ PrivateInv /\ OwnerInv /\ [Next]_vars => OwnerInv'
  <1> SUFFICES ASSUME TypeOK, PrivateInv, OwnerInv, [Next]_vars PROVE OwnerInv'
    OBVIOUS
  <1>1. CASE UNCHANGED owner
    BY <1>1 DEF OwnerInv, Does, Private, Own
  <1>2. CASE /\ AtStatement /\ Statement.op = "add" /\ Statement.arg \notin DOMAIN owner
             /\ DOMAIN owner' = DOMAIN owner \cup {Statement.arg}
             /\ \A k \in DOMAIN owner : owner'[k] = owner[k]
             /\ owner'[Statement.arg] = current_pack
    <2>1. /\ Top.module \in Modules
          /\ Does(Top.module, "add", Statement.arg)
      BY <1>2, TopStatement, AddStatement DEF Does
    <2>2. Private(Home[Top.module]) => Home[Top.module] = current_pack
      BY <1>2, StackType DEF PrivateInv, AtStatement
    <2>3. ASSUME NEW k \in DOMAIN owner'
          PROVE  \E m \in Modules :
                   Does(m, "add", k) /\ (Private(Home[m]) => owner'[k] = Home[m])
      <3>1. CASE k \in DOMAIN owner
        BY <1>2, <3>1 DEF OwnerInv
      <3>2. CASE k = Statement.arg
        BY <1>2, <2>1, <2>2, <3>2
      <3>. QED BY <1>2, <2>3, <3>1, <3>2
    <2>. QED BY <2>3 DEF OwnerInv, Does, Private, Own
  <1>. QED BY <1>1, <1>2, OwnerFacts, AddFacts

LEMMA Attributed == Spec => [](TypeOK /\ StackInv /\ PrivateInv /\ OwnerInv)
  <1>1. Init => StackInv /\ PrivateInv /\ OwnerInv
    BY DEF Init, StackInv, PrivateInv, OwnerInv
  <1>. QED BY <1>1, TypeInit, TypeStep, StackStep, PrivateStep, OwnerStep, PTL DEF Spec

\* No check that only disabled packs ship is run, and naming it is an error,
\* whatever was loaded before in the same process.
THEOREM DisabledAreSilent == Spec => []DisabledPacksAreSilent
  <1>1. OwnerInv => DisabledPacksAreSilent
    <2> SUFFICES ASSUME OwnerInv, NEW k \in Keys,
                        \A m \in Modules : Does(m, "add", k) => Home[m] \in disabled /\ Private(Home[m])
                 PROVE  k \notin Selected /\ SelectNamed({k}).error
      BY DEF DisabledPacksAreSilent
    <2>1. k \in DOMAIN owner => owner[k] \in disabled
      BY DEF OwnerInv
    <2>. QED BY <2>1 DEF Selected, SelectNamed
  <1>. QED BY <1>1, Attributed, PTL

LEMMA StatementShape ==
  ASSUME NEW m \in Modules, NEW l \in DOMAIN Body[m]
  PROVE  /\ Body[m][l] = [op |-> Body[m][l].op, arg |-> Body[m][l].arg]
         /\ Body[m][l].op = "register" => Body[m][l].arg \in Names
         /\ Body[m][l].op = "add" => Body[m][l].arg \in Keys
         /\ Body[m][l].op = "import" => Body[m][l].arg \in Modules
         /\ l \in Nat /\ 1 <= l /\ l <= Len(Body[m]) /\ Len(Body[m]) \in Nat
  <1>1. Body[m] \in Seq(Statements)
    BY PacksAssumption
  <1>2. DOMAIN Body[m] = 1..Len(Body[m]) /\ Len(Body[m]) \in Nat
    BY <1>1
  <1>3. Body[m][l] \in Statements
    BY <1>1, <1>2, ElementOfSeq
  <1>4. ASSUME NEW s \in Statements
        PROVE  /\ s = [op |-> s.op, arg |-> s.arg]
               /\ s.op = "register" => s.arg \in Names
               /\ s.op = "add" => s.arg \in Keys
               /\ s.op = "import" => s.arg \in Modules
    BY DEF Statements
  <1>. QED BY <1>2, <1>3, <1>4

\* The statements of a well-formed pack.
LEMMA OwnFacts ==
  ASSUME NEW i \in Indices, Good(i), NEW n, n = Entries[i].name
  PROVE  /\ Private(n) /\ n \notin OtherApi
         /\ Entries[i].module \in Own(n) /\ 1 \in DOMAIN Body[Entries[i].module]
         /\ Body[Entries[i].module][1] = [op |-> "register", arg |-> n]
  <1>. DEFINE e == Entries[i]
  <1>0. e.module \in Modules /\ Own(n) \subseteq Modules
    BY EntryFacts DEF Own
  <1>1. /\ Private(n) /\ n \notin OtherApi
        /\ Body[e.module] # <<>> /\ Body[e.module][1] = [op |-> "register", arg |-> n]
        /\ \A m \in Modules \ Own(n) : ~Does(m, "register", n)
    BY DEF Good, WellFormed, Alone
  <1>. HIDE DEF e
  <1>2. 1 \in DOMAIN Body[e.module]
    <2>1. Body[e.module] \in Seq(Statements)
      BY <1>0, PacksAssumption
    <2>. QED BY <1>1, <2>1
  <1>3. e.module \in Own(n)
    BY <1>0, <1>1, <1>2 DEF Does
  <1>. QED BY <1>1, <1>2, <1>3 DEF e

LEMMA OwnStatements ==
  ASSUME NEW i \in Indices, Good(i), NEW n, n = Entries[i].name,
         NEW m \in Own(n), NEW l \in DOMAIN Body[m]
  PROVE  /\ Body[m][l].op \in {"register", "add", "import"}
         /\ Body[m][l].op = "register" =>
              m = Entries[i].module /\ l = 1 /\ Body[m][l].arg = n
         /\ Body[m][l].op = "import" => Body[m][l].arg \in Own(n)
  <1>1. /\ Body[m][l].op \in {"register", "add", "import"}
        /\ Body[m][l].op = "register" => m = Entries[i].module /\ l = 1
        /\ Body[m][l].op = "import" => Body[m][l].arg \in Own(n)
    BY DEF Good, WellFormed
  <1>2. Body[Entries[i].module][1] = [op |-> "register", arg |-> n]
    BY OwnFacts
  <1>. QED BY <1>1, <1>2

LEMMA AddedOnce ==
  ASSUME NEW i \in Indices, Good(i), NEW n, n = Entries[i].name,
         NEW m \in Own(n), NEW l \in DOMAIN Body[m], NEW o \in Own(n), NEW j \in DOMAIN Body[o],
         Body[m][l].op = "add", Body[o][j].op = "add", Body[o][j].arg = Body[m][l].arg
  PROVE  o = m /\ j = l
  <1>1. m \in Modules /\ o \in Modules
    BY DEF Own
  <1>2. Body[o][j] = Body[m][l]
    BY <1>1, StatementShape
  <1>3. <<o, j>> = <<m, l>>
    BY <1>2 DEF Good, WellFormed
  <1>. QED BY <1>3

\* The statements of the other packs.
LEMMA OtherFacts ==
  ASSUME NEW i \in Indices, Good(i), NEW n, n = Entries[i].name,
         NEW m \in Modules \ Own(n), NEW l \in DOMAIN Body[m]
  PROVE  /\ Body[m][l].op = "register" => Body[m][l].arg # n
         /\ Body[m][l].op = "import" => Body[m][l].arg \notin Own(n)
         /\ Body[m][l].op = "add" =>
              \A o \in Own(n) : \A j \in DOMAIN Body[o] :
                Body[o][j].op = "add" => Body[o][j].arg # Body[m][l].arg
  <1>1. /\ ~Does(m, "register", n)
        /\ \A o \in Own(n) : ~Does(m, "import", o)
        /\ \A k \in Keys : Does(m, "add", k) => \A o \in Own(n) : ~Does(o, "add", k)
    BY DEF Good, Alone, Private
  <1>2. Does(m, Body[m][l].op, Body[m][l].arg)
    BY StatementShape DEF Does
  <1>3. Body[m][l].op = "add" => Body[m][l].arg \in Keys
    BY StatementShape
  <1>4. \A o \in Own(n) : \A j \in DOMAIN Body[o] : Does(o, Body[o][j].op, Body[o][j].arg)
    BY StatementShape DEF Does, Own
  <1>. QED BY <1>1, <1>2, <1>3, <1>4

LEMMA NotYetRan ==
  ASSUME TypeOK, StackInv, AtStatement
  PROVE  ~Ran(Top.module, Top.line)
  <1>1. /\ Len(stack) \in DOMAIN stack /\ Top = stack[Len(stack)]
        /\ Top.line \in Nat
    BY StackType DEF AtStatement
  <1>2. /\ Top.module \notin imported
        /\ \A j \in DOMAIN stack : stack[j].module = Top.module => stack[j].line = Top.line
    BY <1>1 DEF StackInv
  <1>. QED BY <1>1, <1>2 DEF Ran

\* A statement is run when the next line is reached.
LEMMA RanLine ==
  ASSUME TypeOK, AtStatement, stack' = NextLine, imported' = imported,
         NEW m, NEW l \in Nat \ {0}
  PROVE  /\ Ran(m, l)' <=> Ran(m, l) \/ (m = Top.module /\ l = Top.line)
         /\ BeingImported' = BeingImported
  <1>1. /\ DOMAIN stack' = DOMAIN stack
        /\ \A i \in DOMAIN stack : stack'[i].module = stack[i].module
        /\ \A i \in DOMAIN stack :
             stack'[i].line = IF i = Len(stack) THEN Top.line + 1 ELSE stack[i].line
    BY NextLineFacts DEF AtStatement
  <1>2. /\ Len(stack) \in DOMAIN stack /\ Top = stack[Len(stack)] /\ Top.line \in Nat
        /\ BeingImported = {stack[i].module : i \in DOMAIN stack}
    BY StackType DEF AtStatement
  <1>3. l < Top.line + 1 <=> l < Top.line \/ l = Top.line
    BY <1>2
  <1>4. ASSUME NEW i \in DOMAIN stack
        PROVE  (stack'[i].module = m /\ l < stack'[i].line) <=>
                 \/ stack[i].module = m /\ l < stack[i].line
                 \/ i = Len(stack) /\ m = Top.module /\ l = Top.line
    <2>1. CASE i = Len(stack)
      BY <1>1, <1>2, <1>3, <2>1
    <2>2. CASE i # Len(stack)
      BY <1>1, <2>2
    <2>. QED BY <2>1, <2>2
  <1>5. (\E i \in DOMAIN stack' : stack'[i].module = m /\ l < stack'[i].line) <=>
          \/ \E i \in DOMAIN stack : stack[i].module = m /\ l < stack[i].line
          \/ m = Top.module /\ l = Top.line
    BY <1>1, <1>2, <1>4
  <1>6. BeingImported' = BeingImported
    BY <1>1 DEF BeingImported
  <1>. QED BY <1>5, <1>6 DEF Ran

LEMMA RanImport ==
  ASSUME TypeOK, AtStatement, NEW a \in Modules, stack' = WithImport(NextLine, a),
         imported' = imported, NEW m, NEW l \in Nat \ {0}
  PROVE  /\ Ran(m, l)' <=> Ran(m, l) \/ (m = Top.module /\ l = Top.line)
         /\ BeingImported \subseteq BeingImported' /\ a \in imported' \cup BeingImported'
  <1>. DEFINE top == Len(NextLine) + 1
  <1>1. /\ NextLine \in Seq(Frames) /\ DOMAIN NextLine = DOMAIN stack
        /\ \A i \in DOMAIN stack : NextLine[i].module = stack[i].module
        /\ \A i \in DOMAIN stack :
             NextLine[i].line = IF i = Len(stack) THEN Top.line + 1 ELSE stack[i].line
    BY NextLineFacts DEF AtStatement
  <1>2. \/ stack' = NextLine /\ a \in imported \cup BeingImported
        \/ /\ a \notin imported \cup BeingImported
           /\ DOMAIN stack' = DOMAIN NextLine \cup {top}
           /\ \A i \in DOMAIN NextLine : stack'[i] = NextLine[i] /\ i # top
           /\ stack'[top] = [module |-> a, line |-> 1]
    BY <1>1, PushFacts
  <1>. HIDE DEF top
  <1>3. CASE stack' = NextLine /\ a \in imported \cup BeingImported
    BY <1>3, RanLine
  <1>4. CASE /\ DOMAIN stack' = DOMAIN NextLine \cup {top}
             /\ \A i \in DOMAIN NextLine : stack'[i] = NextLine[i] /\ i # top
             /\ stack'[top] = [module |-> a, line |-> 1]
    <2>1. /\ Len(stack) \in DOMAIN stack /\ Top = stack[Len(stack)] /\ Top.line \in Nat
      BY StackType DEF AtStatement
    <2>2. l < Top.line + 1 <=> l < Top.line \/ l = Top.line
      BY <2>1
    <2>3. stack'[top].module = a /\ stack'[top].line = 1 /\ ~(l < 1)
      BY <1>4
    <2>4. ASSUME NEW i \in DOMAIN stack
          PROVE  (stack'[i].module = m /\ l < stack'[i].line) <=>
                   \/ stack[i].module = m /\ l < stack[i].line
                   \/ i = Len(stack) /\ m = Top.module /\ l = Top.line
      <3>0. stack'[i] = NextLine[i]
        BY <1>1, <1>4
      <3>1. CASE i = Len(stack)
        BY <1>1, <2>1, <2>2, <3>0, <3>1
      <3>2. CASE i # Len(stack)
        BY <1>1, <3>0, <3>2
      <3>. QED BY <3>1, <3>2
    <2>5. DOMAIN stack' = DOMAIN stack \cup {top}
      BY <1>1, <1>4
    <2>6. (\E i \in DOMAIN stack' : stack'[i].module = m /\ l < stack'[i].line) <=>
            \/ \E i \in DOMAIN stack : stack[i].module = m /\ l < stack[i].line
            \/ m = Top.module /\ l = Top.line
      BY <2>1, <2>3, <2>4, <2>5
    <2>7. BeingImported' = {stack'[i].module : i \in DOMAIN stack'}
      BY DEF BeingImported
    <2>8. BeingImported \subseteq BeingImported' /\ a \in BeingImported'
      BY <1>1, <1>4, <2>3, <2>5, <2>7 DEF BeingImported
    <2>. QED BY <2>6, <2>8 DEF Ran
  <1>. QED BY <1>2, <1>3, <1>4

\* A module that is kept has run all its statements.
LEMMA RanDone ==
  ASSUME TypeOK, Running, ~AtStatement, stack' = SubSeq(stack, 1, Len(stack) - 1),
         imported' = imported \cup {Top.module}, NEW m \in Modules, NEW l \in DOMAIN Body[m]
  PROVE  /\ Ran(m, l)' <=> Ran(m, l)
         /\ imported \cup BeingImported \subseteq imported' \cup BeingImported'
  <1>1. /\ Len(stack) \in DOMAIN stack /\ Top = stack[Len(stack)] /\ Top.line \in Nat
        /\ BeingImported = {stack[i].module : i \in DOMAIN stack}
    BY StackType
  <1>2. /\ DOMAIN stack' = DOMAIN stack \ {Len(stack)}
        /\ \A i \in DOMAIN stack' : stack'[i] = stack[i]
    BY PopFacts
  <1>3. m = Top.module => l < Top.line
    BY <1>1, StatementShape DEF AtStatement
  <1>4. (\E i \in DOMAIN stack : stack[i].module = m /\ l < stack[i].line) <=>
          \/ \E i \in DOMAIN stack' : stack'[i].module = m /\ l < stack'[i].line
          \/ m = Top.module
    BY <1>1, <1>2, <1>3
  <1>5. Ran(m, l)' <=> Ran(m, l)
    BY <1>4 DEF Ran
  <1>6. BeingImported \subseteq BeingImported' \cup {Top.module}
    BY <1>1, <1>2 DEF BeingImported
  <1>. QED BY <1>5, <1>6

\* A statement of a well-formed pack does not fail.
LEMMA OwnAccepted ==
  ASSUME TypeOK, StackInv, AtStatement, NEW i \in Indices, Good(i), NEW n, n = Entries[i].name,
         Effects(n), Top.module \in Own(n)
  PROVE  Accepted /\ Statement.op # "flaky" /\ ~Raise
  <1>1. /\ Statement = Body[Top.module][Top.line] /\ Top.line \in DOMAIN Body[Top.module]
    BY TopStatement
  <1>2. NoEffect(n, Statement)
    BY <1>1, NotYetRan DEF Effects
  <1>3. /\ Statement.op \in {"register", "add", "import"}
        /\ Statement.op = "register" => Statement.arg = n
    BY <1>1, OwnStatements
  <1>4. n \notin OtherApi
    BY OwnFacts
  <1>. QED BY <1>2, <1>3, <1>4 DEF Accepted, NoEffect, Raise

LEMMA TogetherStep ==
  ASSUME TypeOK, [Next]_vars, NEW i \in Indices, Good(i), NEW n, n = Entries[i].name, Together(n)
  PROVE  Together(n)'
  <1>0. Own(n)' = Own(n)
    BY DEF Own
  <1>1. CASE UNCHANGED stack
    BY <1>0, <1>1 DEF Together
  <1>2. CASE /\ stack = <<>> /\ Entries[at].module \in Modules
             /\ stack' = WithImport(stack, Entries[at].module)
    <2>1. stack \in Seq(Frames) /\ DOMAIN stack = {}
      BY <1>2, StackType
    <2>2. \/ stack' = stack
          \/ /\ \A j \in DOMAIN stack' : j = Len(stack) + 1
             /\ stack'[Len(stack) + 1] = [module |-> Entries[at].module, line |-> 1]
      BY <1>2, <2>1, PushFacts
    <2>. QED BY <1>0, <2>1, <2>2 DEF Together
  <1>3. CASE AtStatement /\ stack' = NextLine
    <2>1. DOMAIN stack' = DOMAIN stack /\ \A j \in DOMAIN stack : stack'[j].module = stack[j].module
      BY <1>3, NextLineFacts DEF AtStatement
    <2>. QED BY <1>0, <2>1 DEF Together
  <1>4. CASE /\ AtStatement /\ Statement.op = "import" /\ Statement.arg \in Modules
             /\ stack' = WithImport(NextLine, Statement.arg)
    <2>1. /\ NextLine \in Seq(Frames) /\ DOMAIN NextLine = DOMAIN stack
          /\ \A j \in DOMAIN stack : NextLine[j].module = stack[j].module
      BY <1>4, NextLineFacts DEF AtStatement
    <2>2. \/ stack' = NextLine /\ Statement.arg \in imported \cup BeingImported
          \/ /\ Statement.arg \notin imported \cup BeingImported
             /\ DOMAIN stack' = DOMAIN NextLine \cup {Len(NextLine) + 1}
             /\ \A j \in DOMAIN NextLine : stack'[j] = NextLine[j] /\ j # Len(NextLine) + 1
             /\ stack'[Len(NextLine) + 1] = [module |-> Statement.arg, line |-> 1]
      BY <1>4, <2>1, PushFacts
    <2>3. \A j \in DOMAIN stack' :
            \/ j \in DOMAIN stack /\ stack'[j].module = stack[j].module
            \/ stack'[j].module = Statement.arg
      BY <2>1, <2>2
    <2>4. /\ Len(stack) \in DOMAIN stack /\ Top.module = stack[Len(stack)].module
          /\ Top.module \in Modules /\ Top.line \in DOMAIN Body[Top.module]
          /\ Statement = Body[Top.module][Top.line]
      BY <1>4, StackType, TopStatement
    <2>5. Top.module \in Own(n) <=> Statement.arg \in Own(n)
      <3>1. CASE Top.module \in Own(n)
        BY <1>4, <2>4, <3>1, OwnStatements
      <3>2. CASE Top.module \notin Own(n)
        BY <1>4, <2>4, <3>2, OtherFacts
      <3>. QED BY <3>1, <3>2
    <2>. QED BY <1>0, <2>3, <2>4, <2>5 DEF Together
  <1>5. CASE Running /\ stack' = SubSeq(stack, 1, Len(stack) - 1)
    <2>1. DOMAIN stack' = DOMAIN stack \ {Len(stack)} /\ \A j \in DOMAIN stack' : stack'[j] = stack[j]
      BY <1>5, PopFacts
    <2>. QED BY <1>0, <2>1 DEF Together
  <1>6. CASE stack' = <<>>
    BY <1>6 DEF Together
  <1>. QED BY <1>1, <1>2, <1>3, <1>4, <1>5, <1>6, StepShapes

\* A step that leaves the registries alone and runs no statement of pack n.
LEMMA EffectsQuiet ==
  ASSUME NEW i \in Indices, Good(i), NEW n, n = Entries[i].name, Effects(n),
         UNCHANGED <<packs, owner>>,
         \A m \in Own(n) : \A l \in DOMAIN Body[m] : Ran(m, l)' <=> Ran(m, l),
         \A o \in Own(n) : o \in imported \cup BeingImported => o \in imported' \cup BeingImported'
  PROVE  Effects(n)'
  <1> SUFFICES ASSUME NEW m \in Own(n), NEW l \in DOMAIN Body[m]
               PROVE  IF Ran(m, l)' THEN Effect(n, Body[m][l])' ELSE NoEffect(n, Body[m][l])'
    BY DEF Effects, Own
  <1>1. IF Ran(m, l) THEN Effect(n, Body[m][l]) ELSE NoEffect(n, Body[m][l])
    BY DEF Effects
  <1>2. Body[m][l].op = "import" => Body[m][l].arg \in Own(n)
    BY OwnStatements
  <1>3. Effect(n, Body[m][l]) => Effect(n, Body[m][l])'
    BY <1>2 DEF Effect
  <1>4. NoEffect(n, Body[m][l]) => NoEffect(n, Body[m][l])'
    BY DEF NoEffect
  <1>. QED BY <1>1, <1>3, <1>4

\* A step that runs a statement.
LEMMA EffectsStatement ==
  ASSUME TypeOK, PrivateInv, AtStatement, NEW i \in Indices, Good(i), NEW n, n = Entries[i].name,
         Effects(n),
         \A m \in Own(n) : \A l \in DOMAIN Body[m] :
           Ran(m, l)' <=> Ran(m, l) \/ (m = Top.module /\ l = Top.line),
         imported \cup BeingImported \subseteq imported' \cup BeingImported',
         packs' = IF Statement.op = "register" THEN packs \cup {Statement.arg} ELSE packs,
         IF Statement.op = "add"
         THEN /\ Statement.arg \notin DOMAIN owner
              /\ DOMAIN owner' = DOMAIN owner \cup {Statement.arg}
              /\ \A k \in DOMAIN owner : owner'[k] = owner[k]
              /\ owner'[Statement.arg] = current_pack
         ELSE owner' = owner,
         Statement.op = "import" => Statement.arg \in imported' \cup BeingImported'
  PROVE  Effects(n)'
  <1> SUFFICES ASSUME NEW m \in Own(n), NEW l \in DOMAIN Body[m]
               PROVE  IF Ran(m, l)' THEN Effect(n, Body[m][l])' ELSE NoEffect(n, Body[m][l])'
    BY DEF Effects, Own
  <1>1. IF Ran(m, l) THEN Effect(n, Body[m][l]) ELSE NoEffect(n, Body[m][l])
    BY DEF Effects
  <1>2. /\ Statement = Body[Top.module][Top.line] /\ Top.line \in DOMAIN Body[Top.module]
        /\ Top.module \in Modules
    BY TopStatement
  <1>3. Ran(m, l)' <=> Ran(m, l) \/ (m = Top.module /\ l = Top.line)
    OBVIOUS
  \* What a statement has put into the registries stays.
  <1>4. CASE Ran(m, l)
    BY <1>1, <1>3, <1>4 DEF Effect
  <1>5. CASE m = Top.module /\ l = Top.line
    <2>1. Body[m][l].op = "register" => Body[m][l].arg = n
      BY OwnStatements
    <2>2. current_pack = n
      <3>1. Private(n) /\ Home[m] = n
        BY OwnFacts DEF Own
      <3>2. Len(stack) \in DOMAIN stack /\ stack[Len(stack)].module = m
        BY <1>5, StackType DEF AtStatement
      <3>. QED BY <3>1, <3>2 DEF PrivateInv
    <2>3. Body[m][l] = Statement
      BY <1>2, <1>5
    <2>. QED BY <1>3, <1>5, <2>1, <2>2, <2>3 DEF Effect
  <1>6. CASE ~Ran(m, l) /\ ~(m = Top.module /\ l = Top.line)
    <2>0. NoEffect(n, Body[m][l]) /\ ~Ran(m, l)'
      BY <1>1, <1>3, <1>6
    <2>1. CASE Top.module \in Own(n)
      <3>1. ~(Statement.op = "register" /\ Body[m][l].op = "register")
        <4>1. Body[m][l].op = "register" => m = Entries[i].module /\ l = 1
          BY OwnStatements
        <4>2. Statement.op = "register" => Top.module = Entries[i].module /\ Top.line = 1
          BY <1>2, <2>1, OwnStatements
        <4>. QED BY <1>6, <4>1, <4>2
      <3>2. Statement.op = "add" /\ Body[m][l].op = "add" => Statement.arg # Body[m][l].arg
        BY <1>2, <1>6, <2>1, AddedOnce
      <3>. QED BY <2>0, <3>1, <3>2 DEF NoEffect
    <2>2. CASE Top.module \notin Own(n)
      <3>1. Statement.op = "register" => Statement.arg # n
        BY <1>2, <2>2, OtherFacts
      <3>2. Statement.op = "add" /\ Body[m][l].op = "add" => Statement.arg # Body[m][l].arg
        BY <1>2, <2>2, OtherFacts
      <3>. QED BY <2>0, <3>1, <3>2 DEF NoEffect
    <2>. QED BY <2>1, <2>2
  <1>. QED BY <1>4, <1>5, <1>6

LEMMA EffectsStep ==
  ASSUME TypeOK, StackInv, PrivateInv, [Next]_vars, NEW i \in Indices, Good(i),
         NEW n, n = Entries[i].name, Together(n), Effects(n)
  PROVE  Effects(n)'
  <1>0. \A m \in Own(n) : m \in Modules /\ \A l \in DOMAIN Body[m] : l \in Nat \ {0}
    <2> SUFFICES ASSUME NEW m \in Own(n), NEW l \in DOMAIN Body[m]
                 PROVE  l \in Nat \ {0}
      BY DEF Own
    <2>1. l \in Nat /\ 1 <= l
      BY StatementShape DEF Own
    <2>. QED BY <2>1
  <1>1. CASE UNCHANGED <<stack, imported, packs, owner>>
    <2>1. \A m \in Own(n) : \A l \in DOMAIN Body[m] : Ran(m, l)' <=> Ran(m, l)
      BY <1>1 DEF Ran
    <2>2. BeingImported' = BeingImported
      BY <1>1 DEF BeingImported
    <2>. QED BY <1>1, <2>1, <2>2, EffectsQuiet
  <1>2. CASE /\ stack = <<>> /\ Entries[at].module \in Modules
             /\ stack' = WithImport(stack, Entries[at].module)
             /\ UNCHANGED <<imported, packs, owner>>
    <2>1. stack \in Seq(Frames) /\ DOMAIN stack = {}
      BY <1>2, StackType
    <2>2. \/ stack' = stack
          \/ /\ \A j \in DOMAIN stack' : j = Len(stack) + 1
             /\ stack'[Len(stack) + 1] = [module |-> Entries[at].module, line |-> 1]
      BY <1>2, <2>1, PushFacts
    <2>3. ASSUME NEW m \in Own(n), NEW l \in DOMAIN Body[m]
          PROVE  Ran(m, l)' <=> Ran(m, l)
      <3>1. \A j \in DOMAIN stack' : ~(l < stack'[j].line)
        BY <1>0, <2>1, <2>2
      <3>. QED BY <1>2, <2>1, <3>1 DEF Ran
    <2>4. BeingImported = {}
      BY <2>1 DEF BeingImported
    <2>. QED BY <1>2, <2>3, <2>4, EffectsQuiet
  <1>3. CASE AtStatement /\ stack' = NextLine /\ imported' = imported /\ (RegisterPack \/ Add \/ Pass)
    <2>1. \A m \in Own(n) : \A l \in DOMAIN Body[m] :
            Ran(m, l)' <=> Ran(m, l) \/ (m = Top.module /\ l = Top.line)
      BY <1>0, <1>3, RanLine
    <2>2. imported \cup BeingImported \subseteq imported' \cup BeingImported'
      BY <1>3, RanLine
    <2>3. Statement.op # "import"
      BY <1>3 DEF RegisterPack, Add, Pass
    <2>4. packs' = IF Statement.op = "register" THEN packs \cup {Statement.arg} ELSE packs
      BY <1>3 DEF RegisterPack, Add, Pass, registries
    <2>5. Statement.op = "add" => Add
      BY <1>3 DEF RegisterPack, Pass
    <2>6. Statement.op # "add" => owner' = owner
      BY <1>3 DEF RegisterPack, Add, Pass, registries
    <2>7. Statement.op = "add" =>
            /\ Statement.arg \notin DOMAIN owner
            /\ DOMAIN owner' = DOMAIN owner \cup {Statement.arg}
            /\ \A k \in DOMAIN owner : owner'[k] = owner[k]
            /\ owner'[Statement.arg] = current_pack
      BY <2>5, AddFacts
    <2>. QED BY <1>3, <2>1, <2>2, <2>3, <2>4, <2>6, <2>7, EffectsStatement
  <1>4. CASE /\ AtStatement /\ Statement.op = "import" /\ Statement.arg \in Modules
             /\ stack' = WithImport(NextLine, Statement.arg)
             /\ UNCHANGED <<imported, packs, owner>>
    <2>1. \A m \in Own(n) : \A l \in DOMAIN Body[m] :
            Ran(m, l)' <=> Ran(m, l) \/ (m = Top.module /\ l = Top.line)
      BY <1>0, <1>4, RanImport
    <2>2. /\ imported \cup BeingImported \subseteq imported' \cup BeingImported'
          /\ Statement.arg \in imported' \cup BeingImported'
      BY <1>4, RanImport
    <2>. QED BY <1>4, <2>1, <2>2, EffectsStatement
  <1>5. CASE /\ Running /\ ~AtStatement /\ stack' = SubSeq(stack, 1, Len(stack) - 1)
             /\ imported' = imported \cup {Top.module} /\ UNCHANGED <<packs, owner>>
    <2>1. \A m \in Own(n) : \A l \in DOMAIN Body[m] : Ran(m, l)' <=> Ran(m, l)
      BY <1>0, <1>5, RanDone
    <2>2. ASSUME NEW o \in Own(n), o \in imported \cup BeingImported
          PROVE  o \in imported' \cup BeingImported'
      <3>1. CASE o \in imported
        BY <1>5, <3>1
      <3>2. CASE o \in BeingImported
        <4>1. PICK j \in DOMAIN stack : stack[j].module = o
          BY <3>2 DEF BeingImported
        <4>2. DOMAIN stack' = DOMAIN stack \ {Len(stack)} /\ \A k \in DOMAIN stack' : stack'[k] = stack[k]
          BY <1>5, PopFacts
        <4>3. Top = stack[Len(stack)]
          BY <1>5, StackType
        <4>4. CASE j = Len(stack)
          BY <1>5, <4>1, <4>3, <4>4
        <4>5. CASE j # Len(stack)
          BY <4>1, <4>2, <4>5 DEF BeingImported
        <4>. QED BY <4>4, <4>5
      <3>. QED BY <2>2, <3>1, <3>2
    <2>. QED BY <1>5, <2>1, <2>2, EffectsQuiet
  \* The statement that fails is not one of pack n, so no module of n runs.
  <1>6. CASE Raise /\ stack' = <<>> /\ UNCHANGED <<imported, packs, owner>>
    <2>1. AtStatement
      BY <1>6 DEF Raise
    <2>2. Top.module \notin Own(n)
      BY <1>6, <2>1, OwnAccepted
    <2>3. \A j \in DOMAIN stack : stack[j].module \notin Own(n)
      BY <2>1, <2>2, StackType DEF Together, AtStatement
    <2>4. \A m \in Own(n) : \A l \in DOMAIN Body[m] : Ran(m, l)' <=> Ran(m, l)
      BY <1>6, <2>3 DEF Ran
    <2>5. \A o \in Own(n) : o \notin BeingImported
      BY <2>3 DEF BeingImported
    <2>. QED BY <1>6, <2>4, <2>5, EffectsQuiet
  <1>. QED BY <1>1, <1>2, <1>3, <1>4, <1>5, <1>6, StepShapes

LEMMA PassedStep ==
  ASSUME IInv, StackInv, [Next]_vars, NEW i \in Indices, Good(i), NEW n, n = Entries[i].name,
         Together(n), Effects(n), Passed(i)
  PROVE  Passed(i)'
  <1>. USE DEF registries, reportVars, roundVars
  <1>. DEFINE e == Entries[i]
  <1>0. /\ TypeOK /\ at \in Nat \ {0} /\ i \in Nat \ {0}
        /\ ImportInv
    BY EntryFacts DEF IInv, TypeOK
  <1>. HIDE DEF e
  \* The entries passed before stay loaded.
  <1>a. ASSUME phase \in {"discovering", "reported"}, UNCHANGED <<at, disabled>>,
               loaded \subseteq loaded', imported \subseteq imported'
        PROVE  Passed(i)'
    BY <1>a DEF Passed
  <1>b. ASSUME phase = "discovering", at' = at + 1, UNCHANGED <<disabled, imported>>,
               loaded \subseteq loaded',
               i = at /\ e.name \notin disabled => i \in loaded' /\ e.module \in imported
        PROVE  Passed(i)'
    <2>1. i < at + 1 => i < at \/ i = at
      BY <1>0
    <2>. QED BY <1>b, <2>1 DEF Passed, e
  <1>1. CASE \E d \in DisableOptions : Discover(d)
    <2>1. at' = 1
      BY <1>1 DEF Discover
    <2>2. ~(i < at')
      BY <1>0, <2>1
    <2>. QED BY <2>2 DEF Passed
  <1>2. CASE Skip
    BY <1>2, <1>b DEF Skip, AtEntry, e
  <1>3. CASE Report
    <2>1. phase = "discovering" /\ UNCHANGED <<at, disabled, loaded, imported>>
      BY <1>3 DEF Report
    <2>. QED BY <2>1, <1>a
  <1>4. CASE StartImport \/ RegisterPack \/ Add \/ Import \/ Pass \/ Done
    <2>1. phase = "discovering"
      BY <1>0, <1>4, StatementFacts DEF StartImport, AtEntry, RegisterPack, Add, Import, Pass,
                                        Done, AtStatement
    <2>2. UNCHANGED <<at, disabled, loaded>> /\ imported \subseteq imported'
      BY <1>4 DEF StartImport, RegisterPack, Add, Import, Pass, Done
    <2>. QED BY <2>1, <2>2, <1>a
  <1>5. CASE Conclude
    <2>1. /\ phase = "discovering" /\ importing /\ stack = <<>> /\ at' = at + 1
          /\ UNCHANGED <<disabled, imported>> /\ loaded \subseteq loaded'
          /\ Entries[at].name \in packs => at \in loaded'
      BY <1>0, <1>5 DEF Conclude, TypeOK
    <2>2. ASSUME i = at
          PROVE  i \in loaded' /\ e.module \in imported
      <3>1. e.module \in imported
        BY <1>0, <2>1, <2>2 DEF ImportInv, e
      <3>2. /\ e.module \in Own(n) /\ 1 \in DOMAIN Body[e.module]
            /\ Body[e.module][1] = [op |-> "register", arg |-> n]
        BY OwnFacts DEF e
      <3>3. Effect(n, Body[e.module][1])
        BY <3>1, <3>2 DEF Effects, Ran
      <3>4. n \in packs
        BY <3>2, <3>3 DEF Effect
      <3>. QED BY <2>1, <2>2, <3>1, <3>4
    <2>. QED BY <2>1, <2>2, <1>b
  <1>6. CASE Raise
    <2>1. /\ AtStatement /\ phase = "discovering" /\ importing
          /\ UNCHANGED <<disabled, imported, loaded>>
      BY <1>0, <1>6, StatementFacts DEF Raise, AtStatement
    <2>2. i # at
      <3>1. SUFFICES ASSUME i = at PROVE FALSE
        OBVIOUS
      <3>2. /\ Len(stack) \in DOMAIN stack /\ DOMAIN stack = 1..Len(stack) /\ Len(stack) \in Nat
            /\ Top = stack[Len(stack)]
        BY <1>0, <2>1, StackType DEF AtStatement
      <3>3. 1 \in DOMAIN stack /\ stack # <<>>
        BY <2>1, <3>2 DEF AtStatement, Running
      <3>4. stack[1].module = Entries[at].module
        BY <1>0, <2>1, <3>3 DEF ImportInv
      <3>5. Entries[i].module \in Own(n)
        BY OwnFacts
      <3>6. Top.module \in Own(n)
        BY <3>1, <3>2, <3>3, <3>4, <3>5 DEF Together
      <3>. QED BY <1>0, <1>6, <2>1, <3>6, OwnAccepted
    <2>3. CASE IsBuiltin(at)
      BY <1>6, <2>3 DEF Raise, Passed
    <2>4. CASE ~IsBuiltin(at)
      BY <1>6, <2>1, <2>2, <2>4, <1>b DEF Raise
    <2>. QED BY <2>3, <2>4
  <1>7. CASE UNCHANGED vars
    BY <1>7 DEF vars, Passed
  <1>. QED BY <1>1, <1>2, <1>3, <1>4, <1>5, <1>6, <1>7 DEF Next, Execute

LEMMA GoodInit == Init => GoodInv
  <1> SUFFICES ASSUME Init, NEW i \in Indices, Good(i), NEW n, n = Entries[i].name
               PROVE  Together(n) /\ Effects(n) /\ Passed(i)
    BY DEF GoodInv
  <1>1. Together(n) /\ Passed(i)
    BY DEF Init, Together, Passed
  <1>2. ASSUME NEW m \in Own(n), NEW l \in DOMAIN Body[m]
        PROVE  ~Ran(m, l) /\ NoEffect(n, Body[m][l])
    BY DEF Init, Ran, NoEffect
  <1>. QED BY <1>1, <1>2 DEF Effects

LEMMA GoodStep == IInv /\ StackInv /\ PrivateInv /\ GoodInv /\ [Next]_vars => GoodInv'
  <1> SUFFICES ASSUME IInv, StackInv, PrivateInv, GoodInv, [Next]_vars,
                      NEW i \in Indices, Good(i), NEW n, n = Entries[i].name
               PROVE  Together(n)' /\ Effects(n)' /\ Passed(i)'
    BY DEF GoodInv, Good, WellFormed, Alone, Private, Reached, Own, Does
  <1>1. Together(n) /\ Effects(n) /\ Passed(i) /\ TypeOK
    BY DEF GoodInv, IInv
  <1>. QED BY <1>1, TogetherStep, EffectsStep, PassedStep

\* One broken pack costs nobody else a check: a well-formed pack that shares
\* nothing with another is loaded, with all it registers, by each discovery
\* that returns and does not disable it, whatever the modules of the other
\* packs do and wherever they fail (packs/__init__.py:164-167).
THEOREM GoodPacksAreLoaded == Spec => []GoodPacksLoad
  <1>1. IInv /\ GoodInv => GoodPacksLoad
    <2> SUFFICES ASSUME IInv, GoodInv, phase = "reported", NEW i \in Indices, Good(i),
                        NEW n, n = Entries[i].name, n \notin disabled
                 PROVE  LoadedWhole(i)
      BY DEF GoodPacksLoad, Good
    <2>1. Together(n) /\ Effects(n) /\ Passed(i)
      BY DEF GoodInv
    <2>2. i \in loaded /\ Entries[i].module \in imported
      <3>1. at \notin Indices /\ at \in Nat \ {0} /\ Len(Entries) \in Nat /\ i \in 1..Len(Entries)
        BY EntryFacts DEF IInv, TypeOK, AccountInv, Indices
      <3>2. i < at
        BY <3>1 DEF Indices
      <3>. QED BY <2>1, <3>2 DEF Passed
    <2>3. BeingImported = {}
      BY DEF IInv, TypeOK, BeingImported
    \* What has been imported is closed under the imports of the pack's modules.
    <2>4. ASSUME NEW m \in Own(n) \cap imported, NEW o \in Own(n), Does(m, "import", o)
          PROVE  o \in imported
      <3>1. PICK l \in DOMAIN Body[m] : Body[m][l] = [op |-> "import", arg |-> o]
        BY <2>4 DEF Does
      <3>2. Effect(n, Body[m][l])
        BY <2>1 DEF Effects, Ran
      <3>. QED BY <2>3, <3>1, <3>2 DEF Effect
    <2>5. Own(n) \cap imported = Own(n)
      <3>1. Entries[i].module \in Own(n)
        BY OwnFacts
      <3>2. Reached(Entries[i])
        BY DEF Good, WellFormed
      <3>. DEFINE ms == Own(n) \cap imported
      <3>3. ms \in SUBSET Own(n) /\ Entries[i].module \in ms
        BY <2>2, <3>1
      <3>4. \A m \in ms, o \in Own(n) : Does(m, "import", o) => o \in ms
        BY <2>4
      <3>. HIDE DEF ms
      <3>5. ms = Own(n)
        BY <3>2, <3>3, <3>4 DEF Reached
      <3>. QED BY <3>5 DEF ms
    <2>6. ASSUME NEW m \in Own(n), NEW k \in Keys, Does(m, "add", k)
          PROVE  k \in DOMAIN owner /\ owner[k] = n
      <3>1. PICK l \in DOMAIN Body[m] : Body[m][l] = [op |-> "add", arg |-> k]
        BY <2>6 DEF Does
      <3>2. Effect(n, Body[m][l])
        BY <2>1, <2>5 DEF Effects, Ran
      <3>. QED BY <3>1, <3>2 DEF Effect
    <2>. QED BY <2>2, <2>6 DEF LoadedWhole
  <1>2. Spec => []GoodInv
    <2>1. TypeOK /\ StackInv /\ PrivateInv /\ OwnerInv => StackInv /\ PrivateInv
      OBVIOUS
    <2>. QED BY <2>1, GoodInit, GoodStep, Inductive, Attributed, PTL DEF Spec
  <1>. QED BY <1>1, <1>2, Inductive, PTL

----------------------------------------------------------------------------
(* The refresh.                                                            *)

\* While the table is rewritten it is broken, and what is about to be written
\* has every section the replaced one had prices in.
WriteInv ==
  pc = "writing" =>
    /\ table = Broken
    /\ Whole(replaced) =>
         \A s \in DOMAIN replaced.sections :
           replaced.sections[s] # <<>> => Section([sections |-> payload], s) # <<>>

LEMMA InitSurvive == RefreshInit => WriteInv /\ RatesSurvive
  BY DEF RefreshInit, WriteInv, RatesSurvive, Whole

LEMMA NextSurvive == WriteInv /\ RatesSurvive /\ [RefreshNext]_refreshVars => (WriteInv /\ RatesSurvive)'
  <1>. SUFFICES ASSUME WriteInv, RatesSurvive, [RefreshNext]_refreshVars
                PROVE  WriteInv' /\ RatesSurvive'
    OBVIOUS
  <1>1. ASSUME NEW others, Start(others)
        PROVE  WriteInv' /\ RatesSurvive'
    BY <1>1 DEF Start, WriteInv, RatesSurvive, Whole
  <1>2. CASE ReadPage
    BY <1>2 DEF ReadPage, WriteInv, RatesSurvive, Whole
  <1>3. CASE Fetch
    <2>1. pc' # "writing" /\ UNCHANGED <<table, replaced>>
      BY <1>3 DEF Fetch, Over
    <2>. QED BY <2>1 DEF WriteInv, RatesSurvive, Whole
  <1>4. CASE Throttled \/ RequestFails \/ Refuse \/ Kill
    <2>1. pc' # "writing" /\ UNCHANGED <<table, replaced>>
      BY <1>4 DEF Throttled, RequestFails, Refuse, Kill, Over
    <2>. QED BY <2>1 DEF WriteInv, RatesSurvive, Whole
  <1>5. CASE Truncate
    <2>1. /\ table' = Broken /\ replaced' = table /\ payload' = payload
          /\ Whole(table) => Regressions = {}
      BY <1>5 DEF Truncate, Whole
    <2>2. ~Whole(table')
      BY <2>1 DEF Whole
    <2>3. Regressions = {} =>
            \A s \in DOMAIN table.sections :
              table.sections[s] # <<>> => Section([sections |-> payload], s) # <<>>
      BY DEF Regressions
    <2>4. Whole(replaced)' <=> Whole(table)
      BY <2>1 DEF Whole
    <2>5. WriteInv'
      BY <2>1, <2>3, <2>4 DEF WriteInv
    <2>6. RatesSurvive'
      BY <2>1, <2>2 DEF RatesSurvive, Whole
    <2>. QED BY <2>5, <2>6
  <1>6. CASE Write
    <2>1. /\ pc = "writing" /\ pc' = "idle" /\ replaced' = replaced
          /\ table' = [generated |-> edition, sections |-> payload]
      BY <1>6 DEF Write, Over
    <2>2. \A s : Section(table', s) = Section([sections |-> payload], s)
      BY <2>1 DEF Section
    <2>3. Whole(replaced)' => Whole(replaced)
      BY <2>1 DEF Whole
    <2>4. RatesSurvive'
      BY <2>1, <2>2, <2>3 DEF RatesSurvive, WriteInv
    <2>. QED BY <2>1, <2>4 DEF WriteInv
  <1>7. ASSUME NEW e \in Editions, Republish(e)
        PROVE  WriteInv' /\ RatesSurvive'
    BY <1>7 DEF Republish, WriteInv, RatesSurvive, Whole
  <1>8. CASE Discard
    BY <1>8 DEF Discard, WriteInv, RatesSurvive, Whole
  <1>9. CASE UNCHANGED refreshVars
    BY <1>9 DEF refreshVars, WriteInv, RatesSurvive, Whole
  <1>. QED BY <1>1, <1>2, <1>3, <1>4, <1>5, <1>6, <1>7, <1>8, <1>9 DEF RefreshNext, Step

\* A section that had prices has prices in the table that replaces it, whatever
\* the fetchers make of the catalog (pricing/refresh.py:752-791).
THEOREM NoRateIsLost == RefreshSpec => []RatesSurvive
  BY InitSurvive, NextSurvive, PTL DEF RefreshSpec

----------------------------------------------------------------------------
(* Whole answers.                                                          *)

\* Section s of a table is what a fetcher that kept to its sections made of
\* all the rows edition e answers it with.
Made(e, s, data) ==
  \E f \in Fetchers :
    LET produced == Produce(f, Catalog[e][f])
    IN  DOMAIN produced \subseteq Declared(f) /\ s \in DOMAIN produced /\ data = produced[s]

AllMade(e, sections) == \A s \in DOMAIN sections : Made(e, s, sections[s])

\* Every section built, and every section of a table that was written, is made
\* of a whole answer, all of one edition of the catalog: none of a part of the
\* pages, of rows read twice, or of another fetcher's rows (refresh.py:81-134).
MadeOfWholeAnswers ==
  /\ pc \in {"built", "writing"} => AllMade(edition, payload)
  /\ Whole(table) => table.generated \in Editions /\ AllMade(table.generated, table.sections)

\* What has been read is the beginning of the answer to the fetcher at work;
\* the catalog does not change under a refresh.
ReadInv ==
  /\ edition \in Editions
  /\ pc \in {"idle", "fetching", "built", "writing"}
  /\ pc = "fetching" =>
       /\ todo \in Seq(Fetchers) /\ todo # <<>>
       /\ \E n \in 0..Len(Answer) : rows = SubSeq(Answer, 1, n)
  /\ pc = "idle" => rows = <<>> /\ payload = <<>>
  /\ AllMade(edition, payload)
  /\ Whole(table) => table.generated \in Editions /\ AllMade(table.generated, table.sections)

LEMMA Retyped ==
  ASSUME NEW S, NEW s \in Seq(S), NEW F, \A i \in 1..Len(s) : s[i] \in F
  PROVE  s \in Seq(F)
  <1>1. s \in [1..Len(s) -> S] /\ Len(s) \in Nat
    BY LenProperties
  <1>2. s \in [1..Len(s) -> F]
    BY <1>1
  <1>. QED BY <1>1, <1>2, SeqDef

LEMMA FetcherFacts ==
  /\ Core \o Team \in Seq(Fetchers) /\ Core \o Team # <<>>
  /\ Core \o (Aks \o Team) \in Seq(Fetchers) /\ Core \o (Aks \o Team) # <<>>
  <1>. DEFINE U == ToSet(Core) \cup ToSet(Aks) \cup ToSet(Team)
  <1>1. Core \in Seq(ToSet(Core)) /\ Core # <<>>
    BY DEF Core, ToSet
  <1>2. Aks \in Seq(ToSet(Aks))
    BY DEF Aks, ToSet
  <1>3. Team \in Seq(ToSet(Team))
    BY DEF Team, ToSet
  <1>4. Core \in Seq(U) /\ Aks \in Seq(U) /\ Team \in Seq(U)
    BY <1>1, <1>2, <1>3, SeqMonotonic
  <1>5. ASSUME NEW S, NEW c \in Seq(S), NEW a \in Seq(S), NEW t \in Seq(S), c # <<>>
        PROVE  /\ c \o t \in Seq(ToSet(c \o a \o t)) /\ c \o t # <<>>
               /\ c \o (a \o t) \in Seq(ToSet(c \o a \o t)) /\ c \o (a \o t) # <<>>
    <2>. DEFINE all == c \o a \o t
                F == ToSet(all)
    <2>0. /\ all = c \o (a \o t) /\ all \in Seq(S) /\ DOMAIN all = 1..Len(all)
          /\ Len(all) = Len(c) + Len(a) + Len(t)
          /\ Len(c) \in Nat /\ Len(a) \in Nat /\ Len(t) \in Nat
      BY <1>5, ConcatAssociative, ConcatProperties
    <2>1. ASSUME NEW i \in 1..Len(c)
          PROVE  c[i] \in F
      <3>1. all[i] = c[i] /\ i \in DOMAIN all
        BY <2>0, ConcatProperties
      <3>. QED BY <3>1 DEF ToSet
    <2>2. ASSUME NEW i \in 1..Len(t)
          PROVE  t[i] \in F
      <3>1. all[Len(c) + Len(a) + i] = t[i] /\ Len(c) + Len(a) + i \in DOMAIN all
        BY <2>0, ConcatProperties
      <3>. QED BY <3>1 DEF ToSet
    <2>3. \A i \in 1..Len(all) : all[i] \in F
      BY <2>0 DEF ToSet
    <2>. HIDE DEF F, all
    <2>4. c \in Seq(F) /\ t \in Seq(F) /\ all \in Seq(F)
      BY <1>5, <2>0, <2>1, <2>2, <2>3, Retyped
    <2>. QED BY <1>5, <2>0, <2>4, ConcatProperties, ConcatEqualIffEmpty DEF all, F
  <1>. HIDE DEF U
  <1>. QED BY <1>1, <1>4, <1>5 DEF Fetchers

LEMMA AnswerIsSeq ==
  ASSUME NEW e \in Editions, NEW f \in Fetchers
  PROVE  \E S : Catalog[e][f] \in Seq(S)
  <1>1. Catalog \in [Editions -> [Fetchers -> Seq(Row)]]
    BY RefreshAssumption
  <1>2. Catalog[e][f] \in Seq(Row)
    BY <1>1
  <1>. QED BY <1>2

LEMMA AnswerFacts ==
  ASSUME ReadInv, pc = "fetching"
  PROVE  /\ Head(todo) \in Fetchers /\ Tail(todo) \in Seq(Fetchers)
         /\ \E S : Answer \in Seq(S)
  <1>1. todo \in Seq(Fetchers) /\ todo # <<>> /\ edition \in Editions
    BY DEF ReadInv
  <1>2. Head(todo) \in Fetchers /\ Tail(todo) \in Seq(Fetchers)
    BY <1>1
  <1>. QED BY <1>1, <1>2, AnswerIsSeq DEF Answer

\* At first nothing has been read.
LEMMA NoRows ==
  ASSUME NEW e \in Editions, NEW q \in Seq(Fetchers), q # <<>>
  PROVE  \E n \in 0..Len(Catalog[e][Head(q)]) : <<>> = SubSeq(Catalog[e][Head(q)], 1, n)
  <1>1. Head(q) \in Fetchers
    OBVIOUS
  <1>2. PICK S : Catalog[e][Head(q)] \in Seq(S)
    BY <1>1, AnswerIsSeq
  <1>3. 0 \in 0..Len(Catalog[e][Head(q)])
    BY <1>2
  <1>4. <<>> = SubSeq(Catalog[e][Head(q)], 1, 0)
    BY SubSeqEmpty
  <1>. QED BY <1>3, <1>4

\* The rows a fetcher is given are its whole answer.
LEMMA RowsRead ==
  ASSUME ReadInv, pc = "fetching"
  PROVE  /\ UpTo = Len(Answer) => rows \o SubSeq(Answer, Len(rows) + 1, UpTo) = Answer
         /\ UpTo < Len(Answer) => UpTo \in 0..Len(Answer)
  <1>1. PICK S : Answer \in Seq(S)
    BY AnswerFacts
  <1>2. PICK n \in 0..Len(Answer) : rows = SubSeq(Answer, 1, n)
    BY DEF ReadInv
  <1>3. Len(Answer) \in Nat /\ n \in Nat /\ n <= Len(Answer)
    BY <1>1
  <1>4. Len(rows) = n
    BY <1>1, <1>2, <1>3, SubSeqProperties
  <1>5. SubSeq(Answer, 1, n) \o SubSeq(Answer, n + 1, Len(Answer)) = SubSeq(Answer, 1, Len(Answer))
    <2>1. 1 \in 1..Len(Answer) + 1 /\ n \in 1 - 1..Len(Answer) /\ Len(Answer) \in n..Len(Answer)
      BY <1>3
    <2>. QED BY ONLY <1>1, <2>1, ConcatAdjacentSubSeq
  <1>6. SubSeq(Answer, 1, Len(Answer)) = Answer
    BY <1>1, SubSeqFull
  <1>7. UpTo \in Nat
    <2>1. n + PageSize \in Nat
      BY <1>3, RefreshAssumption
    <2>2. ASSUME NEW a \in Nat, NEW b \in Nat
          PROVE  Min({a, b}) \in Nat
      <3>1. \E x \in {a, b} : \A y \in {a, b} : x <= y
        OBVIOUS
      <3>. QED BY <3>1 DEF Min
    <2>. QED BY <1>3, <1>4, <2>1, <2>2 DEF UpTo
  <1>8. UpTo < Len(Answer) => UpTo \in 0..Len(Answer)
    BY <1>3, <1>7
  <1>. QED BY <1>2, <1>4, <1>5, <1>6, <1>8

LEMMA InitRead == RefreshInit => ReadInv
  BY RefreshAssumption DEF RefreshInit, ReadInv, AllMade, Whole

LEMMA NextRead == ReadInv /\ [RefreshNext]_refreshVars => ReadInv'
  <1>. SUFFICES ASSUME ReadInv, [RefreshNext]_refreshVars PROVE ReadInv'
    OBVIOUS
  <1>. DEFINE TableInv == Whole(table) => /\ table.generated \in Editions
                                          /\ AllMade(table.generated, table.sections)
  <1>0. edition \in Editions /\ AllMade(edition, payload) /\ TableInv
    BY DEF ReadInv
  <1>t. UNCHANGED table => TableInv'
    BY <1>0 DEF Whole
  <1>e. \A e : AllMade(e, <<>>)
    BY DEF AllMade
  <1>. HIDE DEF TableInv
  \* The process is over.
  <1>o. ASSUME Over, UNCHANGED edition, TableInv'
        PROVE  ReadInv'
    BY <1>o, <1>0, <1>e DEF Over, ReadInv, TableInv
  <1>1. ASSUME NEW others \in {Team, Aks \o Team}, Start(others)
        PROVE  ReadInv'
    <2>1. /\ pc' = "fetching" /\ todo' = Core \o others
          /\ UNCHANGED <<edition, rows, payload, table>> /\ rows = <<>>
      BY <1>1 DEF Start, ReadInv
    <2>2. todo' \in Seq(Fetchers) /\ todo' # <<>>
      BY <2>1, FetcherFacts
    <2>3. \E n \in 0..Len(Catalog[edition'][Head(todo')]) :
            rows' = SubSeq(Catalog[edition'][Head(todo')], 1, n)
      BY <1>0, <2>1, <2>2, NoRows
    <2>. QED BY <1>0, <1>t, <2>1, <2>2, <2>3 DEF ReadInv, TableInv, Answer
  <1>2. CASE ReadPage
    <2>1. /\ pc = "fetching" /\ pc' = pc /\ UpTo < Len(Answer)
          /\ rows' = SubSeq(Answer, 1, UpTo)
          /\ UNCHANGED <<edition, todo, payload, table>>
      BY <1>2 DEF ReadPage
    <2>2. UpTo \in 0..Len(Answer)
      BY <2>1, RowsRead
    <2>3. Answer' = Answer
      BY <2>1 DEF Answer
    <2>4. \E n \in 0..Len(Answer) : rows' = SubSeq(Answer, 1, n)
      BY <2>1, <2>2
    <2>. QED BY <1>0, <1>t, <2>1, <2>3, <2>4 DEF ReadInv, TableInv
  <1>3. CASE Fetch
    <2>. DEFINE f == Head(todo)
                all == rows \o SubSeq(Answer, Len(rows) + 1, UpTo)
                produced == Produce(f, all)
    <2>1. /\ pc = "fetching" /\ UpTo = Len(Answer) /\ UNCHANGED <<edition, table>>
          /\ IF DOMAIN produced \subseteq Declared(f)
             THEN /\ payload' = Updated(payload, produced) /\ todo' = Tail(todo)
                  /\ pc' = IF Tail(todo) = <<>> THEN "built" ELSE "fetching"
                  /\ rows' = <<>>
             ELSE Over
      BY <1>3 DEF Fetch
    <2>2. produced = Produce(f, Catalog[edition][f])
      BY <2>1, RowsRead DEF Answer
    <2>3. f \in Fetchers /\ Tail(todo) \in Seq(Fetchers)
      BY <2>1, AnswerFacts
    <2>. HIDE DEF produced, f
    <2>4. CASE ~(DOMAIN produced \subseteq Declared(f))
      BY <1>o, <1>t, <2>1, <2>4
    <2>5. CASE DOMAIN produced \subseteq Declared(f)
      <3>1. ASSUME NEW s \in DOMAIN Updated(payload, produced)
            PROVE  Made(edition, s, Updated(payload, produced)[s])
        <4>1. CASE s \in DOMAIN produced
          <5>1. Updated(payload, produced)[s] = produced[s]
            BY <3>1, <4>1 DEF Updated
          <5>. QED BY <2>2, <2>3, <2>5, <4>1, <5>1 DEF Made
        <4>2. CASE s \notin DOMAIN produced
          <5>1. s \in DOMAIN payload /\ Updated(payload, produced)[s] = payload[s]
            BY <3>1, <4>2 DEF Updated
          <5>. QED BY <1>0, <5>1 DEF AllMade
        <4>. QED BY <4>1, <4>2
      <3>2. AllMade(edition, payload)'
        BY <2>1, <2>5, <3>1 DEF AllMade
      <3>3. pc' = "fetching" => /\ todo' \in Seq(Fetchers) /\ todo' # <<>>
                                /\ \E n \in 0..Len(Answer') : rows' = SubSeq(Answer', 1, n)
        <4>. SUFFICES ASSUME pc' = "fetching"
                      PROVE  /\ todo' \in Seq(Fetchers) /\ todo' # <<>>
                             /\ \E n \in 0..Len(Answer') : rows' = SubSeq(Answer', 1, n)
          OBVIOUS
        <4>1. todo' \in Seq(Fetchers) /\ todo' # <<>> /\ edition' \in Editions /\ rows' = <<>>
          BY <1>0, <2>1, <2>3, <2>5
        <4>2. \E n \in 0..Len(Catalog[edition'][Head(todo')]) :
                rows' = SubSeq(Catalog[edition'][Head(todo')], 1, n)
          BY <4>1, NoRows
        <4>. QED BY <4>1, <4>2 DEF Answer
      <3>4. pc' \in {"built", "fetching"}
        BY <2>1, <2>5
      <3>. QED BY <1>0, <1>t, <2>1, <3>2, <3>3, <3>4 DEF ReadInv, TableInv
    <2>. QED BY <2>4, <2>5
  <1>4. CASE Throttled
    <2>1. CASE attempt < ThrottleRetries
      <3>1. pc' = pc /\ UNCHANGED <<todo, rows, payload, edition, table>>
        BY <1>4, <2>1 DEF Throttled
      <3>. QED BY <1>t, <3>1 DEF ReadInv, TableInv, Answer
    <2>2. CASE ~(attempt < ThrottleRetries)
      BY <1>4, <2>2, <1>o, <1>t DEF Throttled
    <2>. QED BY <2>1, <2>2
  <1>5. CASE RequestFails \/ Refuse \/ Kill
    BY <1>5, <1>o, <1>t DEF RequestFails, Refuse, Kill
  <1>6. CASE Truncate
    <2>1. pc' = "writing" /\ table' = Broken /\ UNCHANGED <<edition, payload>>
      BY <1>6 DEF Truncate
    <2>. QED BY <1>0, <2>1 DEF ReadInv, Whole
  <1>7. CASE Write
    <2>1. /\ Over /\ UNCHANGED edition
          /\ table' = [generated |-> edition, sections |-> payload]
      BY <1>7 DEF Write
    <2>2. TableInv'
      BY <1>0, <2>1 DEF TableInv
    <2>. QED BY <1>o, <2>1, <2>2
  <1>8. ASSUME NEW e \in Editions, Republish(e)
        PROVE  ReadInv'
    <2>1. /\ pc = "idle" /\ edition' = e /\ UNCHANGED <<pc, todo, rows, payload, table>>
      BY <1>8 DEF Republish
    <2>2. rows = <<>> /\ payload = <<>>
      BY <2>1 DEF ReadInv
    <2>. QED BY <1>e, <1>t, <2>1, <2>2 DEF ReadInv, TableInv
  <1>9. CASE Discard
    <2>1. pc = "idle" /\ table' = NoFile /\ UNCHANGED <<edition, pc, todo, rows, payload>>
      BY <1>9 DEF Discard
    <2>. QED BY <2>1 DEF ReadInv, Whole
  <1>10. CASE UNCHANGED refreshVars
    BY <1>10, <1>t DEF refreshVars, ReadInv, TableInv, Answer
  <1>. QED BY <1>1, <1>2, <1>3, <1>4, <1>5, <1>6, <1>7, <1>8, <1>9, <1>10 DEF RefreshNext, Step

\* The table has what each fetcher makes of the whole of its answer, from one
\* edition of the catalog, wherever the pages ended, however often they were
\* asked for again and whenever a refresh was killed (refresh.py:81-134,
\* 725-749).
THEOREM MadeOfWhole == RefreshSpec => []MadeOfWholeAnswers
  <1>1. ReadInv => MadeOfWholeAnswers
    BY DEF ReadInv, MadeOfWholeAnswers
  <1>. QED BY <1>1, InitRead, NextRead, PTL DEF RefreshSpec

-----------------------------------------------------------------------------
(* What a meter charges.                                                   *)

\* A set of numbers that has any has a least one.
LEMMA LeastNumber ==
  ASSUME NEW S \in SUBSET Nat, S # {}
  PROVE  \E n \in S : \A m \in S : n <= m
  <1> DEFINE R == OpToRel(<, Nat)
  <1>1. IsWellFoundedOn(R, Nat)
    BY NatLessThanWellFounded
  <1>2. \A x, y \in Nat : x < y => <<x, y>> \in R
    BY DEF OpToRel
  <1> HIDE DEF R
  <1>3. PICK n \in S : \A m \in S : <<m, n>> \notin R
    BY <1>1, WFMin
  <1>4. ASSUME NEW m \in S
        PROVE  n <= m
    <2>1. m \in Nat /\ n \in Nat /\ ~(m < n)
      BY <1>2, <1>3
    <2> QED
      BY <2>1
  <1> QED
    BY <1>4

\* A set of rows that has any has one of the lowest tier.
LEMMA LowestTier ==
  ASSUME NEW T, T # {}, \A r \in T : r.tier \in Nat
  PROVE  \E r \in T : \A q \in T : r.tier <= q.tier
  <1>1. {r.tier : r \in T} \in SUBSET Nat /\ {r.tier : r \in T} # {}
    OBVIOUS
  <1>2. PICK n \in {r.tier : r \in T} : \A m \in {r.tier : r \in T} : n <= m
    BY <1>1, LeastNumber
  <1> QED
    BY <1>2

\* The rows of an answer are numbered, and their tiers and prices numbers.
IsAnswer(all) ==
  /\ DOMAIN all \subseteq Nat
  /\ \A r \in ToSet(all) : r.tier \in Nat /\ r.price \in Nat

\* The first row of the lowest tier is one, and there is none lower.
LEMMA FirstTierFacts ==
  ASSUME NEW all, IsAnswer(all), NEW these \in SUBSET ToSet(all), these # {}
  PROVE  /\ FirstTier(all, these) \in these
         /\ \A q \in these : FirstTier(all, these).tier <= q.tier
  <1> DEFINE where == {i \in DOMAIN all : all[i] \in these}
             before(i, j) == all[i].tier < all[j].tier \/ (all[i].tier = all[j].tier /\ i <= j)
             first == CHOOSE i \in where : \A j \in where : before(i, j)
  <1>1. /\ where \subseteq Nat /\ \A i \in where : all[i] \in these
        /\ \A r \in these : \E i \in where : all[i] = r
    BY DEF IsAnswer, ToSet
  <1>2. \A r \in these : r.tier \in Nat
    BY DEF IsAnswer
  <1>3. PICK r \in these : \A q \in these : r.tier <= q.tier
    BY <1>2, LowestTier
  <1> HIDE DEF where
  <1> DEFINE low == {i \in where : all[i].tier = r.tier}
  <1>4. low \in SUBSET Nat /\ low # {}
    BY <1>1
  <1>5. PICK n \in low : \A m \in low : n <= m
    BY <1>4, LeastNumber
  <1>6. ASSUME NEW j \in where
        PROVE  before(n, j)
    <2>1. all[j] \in these /\ all[j].tier \in Nat /\ r.tier \in Nat /\ r.tier <= all[j].tier
      BY <1>1, <1>2, <1>3
    <2>2. CASE all[j].tier = r.tier
      BY <1>5, <2>2
    <2>3. CASE all[j].tier # r.tier
      BY <1>5, <2>1, <2>3
    <2> QED
      BY <2>2, <2>3
  <1>7. first \in where /\ \A j \in where : before(first, j)
    <2> HIDE DEF before
    <2> QED
      BY <1>5, <1>6
  <1>8. ASSUME NEW q \in these
        PROVE  all[first].tier <= q.tier
    <2>1. PICK j \in where : all[j] = q
      BY <1>1
    <2>2. before(first, j) /\ all[first].tier \in Nat /\ q.tier \in Nat
      BY <1>1, <1>2, <1>7
    <2> HIDE DEF first
    <2> QED
      BY <2>1, <2>2
  <1>9. FirstTier(all, these) = all[first]
    BY DEF FirstTier, where
  <1> QED
    BY <1>1, <1>7, <1>8, <1>9

\* Where the rows of a tier have one price, the first of the lowest tier
\* charges what any of that tier does.
LEMMA LowestPrice ==
  ASSUME NEW all, IsAnswer(all), NEW these \in SUBSET ToSet(all), these # {},
         \A q, r \in these : q.tier = r.tier => q.price = r.price
  PROVE  /\ FirstTier(all, these).price \in Nat
         /\ FirstTier(all, these).price
              = (CHOOSE r \in these : \A q \in these : r.tier <= q.tier).price
  <1> DEFINE first == FirstTier(all, these)
             lowest == CHOOSE r \in these : \A q \in these : r.tier <= q.tier
  <1>1. first \in these /\ \A q \in these : first.tier <= q.tier
    BY FirstTierFacts
  <1> HIDE DEF first
  <1>2. lowest \in these /\ \A q \in these : lowest.tier <= q.tier
    BY <1>1
  <1> HIDE DEF lowest
  <1>3. \A r \in these : r.tier \in Nat /\ r.price \in Nat
    BY DEF IsAnswer
  <1>4. first.tier = lowest.tier
    BY <1>1, <1>2, <1>3
  <1>5. first.price = lowest.price /\ first.price \in Nat
    BY <1>1, <1>2, <1>3, <1>4
  <1> QED
    BY <1>5 DEF first, lowest

\* What a meter charges.
LEMMA UnitCharge ==
  ASSUME NEW all, IsAnswer(all), NEW tiers \in SUBSET ToSet(all), tiers # {},
         \A q, r \in tiers : q.tier = r.tier => q.price = r.price
  PROVE  /\ UnitPrice(all, tiers) \in Nat
         /\ \A s : s \notin {"dns_zone_month", "acr_registry_day"} => UnitPrice(all, tiers) = Charge(s, tiers)
  <1> DEFINE charging == {r \in tiers : r.price # 0}
             lowest == CHOOSE r \in charging : \A q \in charging : r.tier <= q.tier
             charge == IF charging = {} THEN 0 ELSE lowest.price
  <1>1. ASSUME NEW s, s \notin {"dns_zone_month", "acr_registry_day"}
        PROVE  Charge(s, tiers) = charge
    BY <1>1 DEF Charge
  <1>2. UnitPrice(all, tiers) = IF charging = {} THEN 0 ELSE FirstTier(all, charging).price
    BY DEF UnitPrice
  <1>3. charging \in SUBSET ToSet(all) /\ \A q, r \in charging : q.tier = r.tier => q.price = r.price
    OBVIOUS
  <1> HIDE DEF charging
  <1>4. charging # {} => /\ FirstTier(all, charging).price \in Nat
                         /\ FirstTier(all, charging).price = lowest.price
    BY <1>3, LowestPrice
  <1>5. UnitPrice(all, tiers) = charge /\ UnitPrice(all, tiers) \in Nat
    BY <1>2, <1>4
  <1> QED
    BY <1>1, <1>5

LEMMA Commutes ==
  ASSUME NEW m \in Nat, NEW n \in Nat
  PROVE  m * n = n * m
  OBVIOUS

LEMMA OneTimes == ASSUME NEW n \in Nat PROVE 1 * n = n /\ n * 1 = n
  OBVIOUS

LEMMA TimesFacts ==
  ASSUME NEW s, NEW v
  PROVE  /\ Times(s, v) \in Nat
         /\ s \notin {"disk_gb_month", "container_apps_hour"} => Times(s, v) = 1
         /\ Times("disk_gb_month", v) = HoursPerMonth
  <1>1. CASE s = "disk_gb_month"
    <2>1. Times(s, v) = HoursPerMonth
      BY <1>1 DEF Times
    <2> QED
      BY <1>1, <2>1 DEF HoursPerMonth
  <1>2. CASE s = "container_apps_hour" /\ v \in {"idle_vcpu", "idle_gib"}
    <2>1. Times(s, v) = 3600
      BY <1>2 DEF Times
    <2>2. Times("disk_gb_month", v) = HoursPerMonth
      BY DEF Times
    <2> QED
      BY <1>2, <2>1, <2>2
  <1>3. CASE s # "disk_gb_month" /\ ~(s = "container_apps_hour" /\ v \in {"idle_vcpu", "idle_gib"})
    <2>1. Times(s, v) = 1
      BY <1>3 DEF Times
    <2>2. Times("disk_gb_month", v) = HoursPerMonth
      BY DEF Times
    <2> QED
      BY <1>3, <2>1, <2>2
  <1> QED
    BY <1>1, <1>2, <1>3

\* Rows of one key are of one meter.
LEMMA KeyCharge ==
  ASSUME NEW all, IsAnswer(all), NEW meter, DOMAIN meter \subseteq ToSet(all),
         NEW s, s \notin {"dns_zone_month", "acr_registry_day"}, OneCharge(s, meter),
         NEW k, Tiers(s, meter, k) # {}
  PROVE  /\ UnitPrice(all, Tiers(s, meter, k)) \in Nat
         /\ UnitPrice(all, Tiers(s, meter, k)) = Charge(s, Tiers(s, meter, k))
  <1> DEFINE tiers == Tiers(s, meter, k)
  <1>1. tiers \in SUBSET ToSet(all)
    BY DEF Priced, Tiers
  <1>2. \A q, r \in tiers : q.tier = r.tier => q.price = r.price
    BY DEF OneCharge, Tiers
  <1> HIDE DEF tiers
  <1>3. tiers # {}
    BY DEF tiers
  <1>4. UnitPrice(all, tiers) \in Nat /\ UnitPrice(all, tiers) = Charge(s, tiers)
    BY <1>1, <1>2, <1>3, UnitCharge
  <1> QED
    BY <1>4 DEF tiers

\* The variants a section is priced in, region by region.
In(s, meter, g) == {meter[r] : r \in {q \in Priced(s, meter) : q.region = g}}

\* The prices by region and variant are what the rows of each come to.
LEMMA RegionFacts ==
  ASSUME NEW all, IsAnswer(all), NEW meter, DOMAIN meter = ToSet(all),
         NEW s, s \notin GlobalSections \cup FlatSections, OneCharge(s, meter),
         NEW prices, prices = ByRegion(all, meter)
  PROVE  /\ DOMAIN prices = {r.region : r \in Priced(s, meter)}
         /\ \A g \in DOMAIN prices : DOMAIN prices[g] = In(s, meter, g)
         /\ \A g \in DOMAIN prices : \A v \in DOMAIN prices[g] :
              prices[g][v] \in Nat /\ prices[g][v] = Charge(s, Tiers(s, meter, <<g, v>>))
  <1> DEFINE named == {r \in ToSet(all) : meter[r] # None /\ r.region \notin {"", GlobalRegion}}
             in(g) == {r \in named : r.region = g}
             of(g, v) == {r \in in(g) : meter[r] = v}
             variants(g) == {meter[r] : r \in in(g)}
             tiers(k) == Tiers(s, meter, k)
  <1>1. prices
          = [g \in {r.region : r \in named} |-> [v \in variants(g) |-> UnitPrice(all, of(g, v))]]
    BY DEF ByRegion
  <1>2. Priced(s, meter) = named
    BY DEF Priced
  <1>3. \A r \in named : Of(s, meter, r) = <<r.region, meter[r]>>
    BY DEF Of
  <1>4. s \notin {"dns_zone_month", "acr_registry_day"} /\ DOMAIN meter \subseteq ToSet(all)
    BY DEF GlobalSections, LogSections
  <1> HIDE DEF named
  <1>5. ASSUME NEW g, NEW v
        PROVE  of(g, v) = tiers(<<g, v>>)
    <2>1. \A r : r \in of(g, v) <=> r \in named /\ r.region = g /\ meter[r] = v
      OBVIOUS
    <2>2. \A r : r \in tiers(<<g, v>>) <=> r \in named /\ <<r.region, meter[r]>> = <<g, v>>
      BY <1>2, <1>3 DEF Tiers
    <2>3. \A r : r \in of(g, v) <=> r \in tiers(<<g, v>>)
      BY <2>1, <2>2
    <2> HIDE DEF of, tiers
    <2> QED
      BY <2>3
  <1>6. DOMAIN prices = {r.region : r \in named}
    BY <1>1
  <1>7. ASSUME NEW g \in DOMAIN prices
        PROVE  prices[g] = [v \in variants(g) |-> UnitPrice(all, of(g, v))]
    <2> HIDE DEF of, variants
    <2> QED
      BY <1>1, <1>6
  <1>8. ASSUME NEW g \in DOMAIN prices
        PROVE  DOMAIN prices[g] = variants(g)
    <2> HIDE DEF of, variants
    <2> QED
      BY <1>7
  <1>9. ASSUME NEW g \in DOMAIN prices, NEW v \in DOMAIN prices[g]
        PROVE  prices[g][v] \in Nat /\ prices[g][v] = Charge(s, tiers(<<g, v>>))
    <2> DEFINE k == <<g, v>>
    <2>1. of(g, v) # {}
      <3>1. v \in variants(g)
        BY <1>8
      <3> QED
        BY <3>1
    <2>2. of(g, v) = tiers(k)
      <3> HIDE DEF of, tiers
      <3> QED
        BY <1>5
    <2>3. tiers(k) # {}
      <3> HIDE DEF of, tiers
      <3> QED
        BY <2>1, <2>2
    <2>4. prices[g][v] = UnitPrice(all, of(g, v))
      <3> HIDE DEF of, variants
      <3> QED
        BY <1>7, <1>8
    <2> HIDE DEF k, of
    <2>5. UnitPrice(all, tiers(k)) \in Nat /\ UnitPrice(all, tiers(k)) = Charge(s, tiers(k))
      BY <1>4, <2>3, KeyCharge
    <2>6. prices[g][v] \in Nat /\ prices[g][v] = Charge(s, tiers(k))
      BY <2>2, <2>4, <2>5
    <2> QED
      BY <2>6 DEF k
  <1>10. \A g : variants(g) = In(s, meter, g)
    BY <1>2 DEF In
  <1> HIDE DEF variants
  <1> QED
    BY <1>2, <1>6, <1>8, <1>9, <1>10

\* Section s holds these prices, each in its own unit.
Multiplied(s, prices, data) ==
  /\ DOMAIN data = DOMAIN prices
  /\ \A g \in DOMAIN data :
       /\ DOMAIN data[g] = DOMAIN prices[g]
       /\ \A v \in DOMAIN data[g] : data[g][v] = prices[g][v] * Times(s, v)

\* A section made of the prices by region and variant, each so many times
\* over, is what the catalog publishes.
LEMMA RegionPrices ==
  ASSUME NEW all, IsAnswer(all), NEW meter, DOMAIN meter = ToSet(all),
         NEW s, s \notin GlobalSections \cup FlatSections, OneCharge(s, meter),
         NEW data, Multiplied(s, ByRegion(all, meter), data)
  PROVE  Flattened(s, data) = PricesOf(s, meter)
  <1> DEFINE prices == ByRegion(all, meter)
             named == Priced(s, meter)
             in(g) == {r \in named : r.region = g}
             keys == UNION {{g} \X (DOMAIN data[g]) : g \in DOMAIN data}
             flat == [k \in keys |-> data[k[1]][k[2]]]
             published == [k \in {Of(s, meter, r) : r \in named} |->
                             Times(s, k[2]) * Charge(s, Tiers(s, meter, k))]
  <1>1. Flattened(s, data) = flat
    BY DEF Flattened
  <1>2. PricesOf(s, meter) = published
    BY DEF PricesOf
  <1>3. \A r \in named : Of(s, meter, r) = <<r.region, meter[r]>>
    BY DEF Of
  <1>4. /\ DOMAIN prices = {r.region : r \in named}
        /\ \A g \in DOMAIN prices : DOMAIN prices[g] = In(s, meter, g)
        /\ \A g \in DOMAIN prices : \A v \in DOMAIN prices[g] :
             prices[g][v] \in Nat /\ prices[g][v] = Charge(s, Tiers(s, meter, <<g, v>>))
    BY RegionFacts
  <1>10. \A g : In(s, meter, g) = {meter[r] : r \in in(g)}
    BY DEF In
  <1> HIDE DEF named, prices
  <1>5. /\ DOMAIN data = DOMAIN prices
        /\ \A g \in DOMAIN data : DOMAIN data[g] = DOMAIN prices[g]
        /\ \A g \in DOMAIN data : \A v \in DOMAIN data[g] : data[g][v] = prices[g][v] * Times(s, v)
    BY DEF Multiplied, prices
  <1>6. keys = {<<r.region, meter[r]>> : r \in named}
    <2>1. ASSUME NEW k \in keys
          PROVE  k \in {<<r.region, meter[r]>> : r \in named}
      <3>1. PICK g \in DOMAIN data : k \in {g} \X (DOMAIN data[g])
        OBVIOUS
      <3>2. PICK v \in DOMAIN data[g] : k = <<g, v>>
        BY <3>1
      <3>3. v \in {meter[r] : r \in in(g)}
        BY <1>4, <1>5, <1>10
      <3>4. PICK r \in in(g) : v = meter[r]
        BY <3>3
      <3>5. r \in named /\ r.region = g
        BY <3>4
      <3> QED
        BY <3>2, <3>4, <3>5
    <2>2. ASSUME NEW r \in named
          PROVE  <<r.region, meter[r]>> \in keys
      <3>1. r.region \in DOMAIN data /\ r \in in(r.region)
        BY <1>4, <1>5
      <3>2. meter[r] \in DOMAIN data[r.region]
        BY <1>4, <1>5, <1>10, <3>1
      <3> QED
        BY <3>1, <3>2
    <2> QED
      BY <2>1, <2>2
  <1>7. DOMAIN published = keys
    <2> HIDE DEF keys
    <2> QED
      BY <1>3, <1>6
  <1>8. ASSUME NEW k \in keys
        PROVE  flat[k] = published[k]
    <2>1. PICK g \in DOMAIN data : \E v \in DOMAIN data[g] : k = <<g, v>>
      OBVIOUS
    <2>2. PICK v \in DOMAIN data[g] : k = <<g, v>>
      BY <2>1
    <2> DEFINE charge == Charge(s, Tiers(s, meter, k))
    <2>3. prices[g][v] \in Nat /\ prices[g][v] = charge /\ data[g][v] = prices[g][v] * Times(s, v)
      <3> HIDE DEF keys
      <3> QED
        BY <1>4, <1>5, <2>2
    <2>4. prices[g][v] * Times(s, v) = Times(s, v) * charge
      BY <2>3, TimesFacts, Commutes
    <2>5. flat[k] = data[g][v]
      BY <2>2
    <2>6. published[k] = Times(s, v) * charge
      <3> HIDE DEF keys
      <3> QED
        BY <1>7, <2>2
    <2> HIDE DEF flat, published, charge
    <2> QED
      BY <2>3, <2>4, <2>5, <2>6
  <1> HIDE DEF keys
  <1>9. flat = published
    BY <1>7, <1>8
  <1> QED
    BY <1>1, <1>2, <1>9

\* The key of a price kept without a region.
Everywhere(s, v) == <<Origin(s), v>>

\* Each variant of a section has what its rows, wherever they are, come to.
Charged(s, meter, data) ==
  /\ DOMAIN data = {meter[r] : r \in Priced(s, meter)}
  /\ \A v \in DOMAIN data : data[v] \in Nat /\ data[v] = Charge(s, Tiers(s, meter, Everywhere(s, v)))

\* A section of prices for everywhere holds what the catalog publishes when
\* each variant has what its rows come to.
LEMMA GlobalPrices ==
  ASSUME NEW meter, NEW s \in GlobalSections,
         NEW data, Charged(s, meter, data)
  PROVE  Flattened(s, data) = PricesOf(s, meter)
  <1> DEFINE named == Priced(s, meter)
             vs == DOMAIN data
             place == Origin(s)
             keys == {place} \X vs
             flat == [k \in keys |-> data[k[2]]]
             published == [k \in {Of(s, meter, r) : r \in named} |->
                             Times(s, k[2]) * Charge(s, Tiers(s, meter, k))]
  <1>1. \A r \in named : Of(s, meter, r) = <<place, meter[r]>>
    BY DEF Of
  <1>2. vs = {meter[r] : r \in named}
    BY DEF Charged
  <1>3. \A v \in vs : data[v] \in Nat /\ data[v] = Charge(s, Tiers(s, meter, <<place, v>>))
    BY DEF Charged, Everywhere
  <1>4. Flattened(s, data) = flat
    BY DEF Flattened, FlatSections, GlobalSections, LogSections
  <1>5. PricesOf(s, meter) = published
    BY DEF PricesOf
  <1> HIDE DEF named, vs, place
  <1>6. DOMAIN published = keys
    <2>1. \A k : k \in keys <=> \E v \in vs : k = <<place, v>>
      OBVIOUS
    <2>2. \A k : k \in {Of(s, meter, r) : r \in named} <=> \E r \in named : k = <<place, meter[r]>>
      BY <1>1
    <2> HIDE DEF keys
    <2> QED
      BY <1>2, <2>1, <2>2
  <1>7. ASSUME NEW k \in keys
        PROVE  flat[k] = published[k]
    <2>1. PICK v \in vs : k = <<place, v>>
      OBVIOUS
    <2> DEFINE charge == Charge(s, Tiers(s, meter, k))
    <2>2. data[v] \in Nat /\ data[v] = charge
      BY <1>3, <2>1
    <2>3. Times(s, v) = 1
      BY TimesFacts DEF GlobalSections, LogSections
    <2>4. flat[k] = data[v]
      BY <2>1
    <2>5. published[k] = Times(s, v) * charge
      BY <1>6, <2>1
    <2>6. 1 * charge = charge
      BY <2>2, OneTimes
    <2> HIDE DEF charge, flat, published
    <2> QED
      BY <2>2, <2>3, <2>4, <2>5, <2>6
  <1> HIDE DEF keys
  <1>8. flat = published
    BY <1>6, <1>7
  <1> QED
    BY <1>4, <1>5, <1>8

\* A section with one price for everywhere.
LEMMA OnePrice ==
  ASSUME NEW all, IsAnswer(all), NEW meter, DOMAIN meter = ToSet(all),
         NEW s \in GlobalSections \ {"dns_zone_month", "acr_registry_day"}, OneCharge(s, meter),
         NEW keep, keep = {r \in ToSet(all) : meter[r] # None},
         \A r \in keep : meter[r] = "_value"
  PROVE  Flattened(s, FlatGlobal(all, keep)) = PricesOf(s, meter)
  <1> DEFINE data == FlatGlobal(all, keep)
  <1>1. Priced(s, meter) = keep
    BY DEF Priced
  <1>2. data = [v \in (IF keep = {} THEN {} ELSE {"_value"}) |-> UnitPrice(all, keep)]
    BY DEF FlatGlobal
  <1> HIDE DEF data
  <1>3. DOMAIN data = {meter[r] : r \in Priced(s, meter)}
    <2>1. CASE keep = {}
      BY <1>1, <1>2, <2>1
    <2>2. CASE keep # {}
      <3>1. {meter[r] : r \in keep} = {"_value"}
        BY <2>2
      <3> QED
        BY <1>1, <1>2, <2>2, <3>1
    <2> QED
      BY <2>1, <2>2
  <1>4. ASSUME NEW v \in DOMAIN data
        PROVE  data[v] \in Nat /\ data[v] = Charge(s, Tiers(s, meter, <<Origin(s), v>>))
    <2>1. v = "_value" /\ keep # {} /\ data[v] = UnitPrice(all, keep)
      BY <1>2
    <2>2. Tiers(s, meter, <<Origin(s), v>>) = keep
      <3>1. \A r \in keep : Of(s, meter, r) = <<Origin(s), v>>
        BY <2>1 DEF Of
      <3> QED
        BY <1>1, <3>1 DEF Tiers
    <2>3. s \notin {"dns_zone_month", "acr_registry_day"} /\ DOMAIN meter \subseteq ToSet(all)
      OBVIOUS
    <2> DEFINE k == <<Origin(s), v>>
    <2>4. Tiers(s, meter, k) # {}
      BY <2>1, <2>2
    <2> HIDE DEF k
    <2>5. /\ UnitPrice(all, Tiers(s, meter, k)) \in Nat
          /\ UnitPrice(all, Tiers(s, meter, k)) = Charge(s, Tiers(s, meter, k))
      BY <2>3, <2>4, KeyCharge
    <2> QED
      BY <2>1, <2>2, <2>5 DEF k
  <1>5. Flattened(s, data) = PricesOf(s, meter)
    BY <1>3, <1>4, GlobalPrices DEF Charged, Everywhere
  <1> QED
    BY <1>5 DEF data

\* A section with one price in each region.
LEMMA FlatPrices ==
  ASSUME NEW all, IsAnswer(all), NEW meter, DOMAIN meter = ToSet(all),
         NEW s \in FlatSections, OneCharge(s, meter),
         NEW keep, keep = {r \in ToSet(all) : meter[r] # None},
         \A r \in keep : meter[r] = "_value"
  PROVE  Flattened(s, FlatByRegion(all, keep)) = PricesOf(s, meter)
  <1> DEFINE data == FlatByRegion(all, keep)
             named == {r \in keep : r.region \notin {"", GlobalRegion}}
             in(g) == {r \in named : r.region = g}
             keys == (DOMAIN data) \X {"_value"}
             flat == [k \in keys |-> data[k[1]]]
             published == [k \in {Of(s, meter, r) : r \in Priced(s, meter)} |->
                             Times(s, k[2]) * Charge(s, Tiers(s, meter, k))]
  <1>0. s \notin GlobalSections /\ s \notin {"dns_zone_month", "acr_registry_day"}
        /\ DOMAIN meter \subseteq ToSet(all)
    BY DEF FlatSections, GlobalSections, LogSections
  <1>1. Priced(s, meter) = named
    BY <1>0 DEF Priced
  <1>2. data = [g \in {r.region : r \in named} |-> UnitPrice(all, in(g))]
    BY DEF FlatByRegion
  <1>3. \A r \in named : Of(s, meter, r) = <<r.region, "_value">>
    BY <1>0 DEF Of
  <1> HIDE DEF data, named
  <1>4. DOMAIN data = {r.region : r \in named} /\ \A g \in DOMAIN data : data[g] = UnitPrice(all, in(g))
    <2> HIDE DEF in
    <2> QED
      BY <1>2
  <1>5. DOMAIN published = keys
    <2>1. \A k : k \in keys <=> \E r \in named : k = <<r.region, "_value">>
      BY <1>4
    <2>2. \A k : k \in {Of(s, meter, r) : r \in Priced(s, meter)}
                  <=> \E r \in named : k = <<r.region, "_value">>
      BY <1>1, <1>3
    <2> HIDE DEF keys
    <2> QED
      BY <2>1, <2>2
  <1>6. ASSUME NEW k \in keys
        PROVE  flat[k] = published[k]
    <2>1. PICK g \in DOMAIN data : k = <<g, "_value">>
      OBVIOUS
    <2> DEFINE charge == Charge(s, Tiers(s, meter, k))
               unit == UnitPrice(all, in(g))
    <2>2. Tiers(s, meter, k) = in(g)
      <3>1. \A r : r \in Tiers(s, meter, k) <=> r \in named /\ <<r.region, "_value">> = <<g, "_value">>
        BY <1>1, <1>3, <2>1 DEF Tiers
      <3>2. \A r : r \in Tiers(s, meter, k) <=> r \in in(g)
        BY <3>1
      <3> HIDE DEF in
      <3> QED
        BY <3>2
    <2>3. in(g) # {}
      BY <1>4
    <2>4. unit \in Nat /\ unit = charge
      <3>1. Tiers(s, meter, k) # {}
        BY <2>2, <2>3
      <3> HIDE DEF keys, in
      <3>2. /\ UnitPrice(all, Tiers(s, meter, k)) \in Nat
            /\ UnitPrice(all, Tiers(s, meter, k)) = charge
        BY <1>0, <3>1, KeyCharge
      <3> QED
        BY <2>2, <3>2
    <2>5. Times(s, k[2]) = 1
      BY TimesFacts DEF FlatSections
    <2>6. flat[k] = unit
      <3> HIDE DEF in
      <3> QED
        BY <1>4, <2>1
    <2>7. published[k] = Times(s, k[2]) * charge
      <3> HIDE DEF keys
      <3> QED
        BY <1>5
    <2>8. 1 * charge = charge
      <3> HIDE DEF charge, unit
      <3> QED
        BY <2>4
    <2> HIDE DEF charge, flat, published, unit
    <2> QED
      BY <2>4, <2>5, <2>6, <2>7, <2>8
  <1>7. Flattened(s, data) = flat
    BY <1>0 DEF Flattened
  <1>8. PricesOf(s, meter) = published
    BY DEF PricesOf
  <1> HIDE DEF keys
  <1>9. flat = published
    BY <1>5, <1>6
  <1> QED
    BY <1>7, <1>8, <1>9 DEF data

\* A section of prices by region and variant, flattened.
LEMMA FlatFacts ==
  ASSUME NEW s, s \notin GlobalSections \cup FlatSections, NEW data
  PROVE  /\ \A k : k \in DOMAIN Flattened(s, data) <=>
                     \E g \in DOMAIN data : \E v \in DOMAIN data[g] : k = <<g, v>>
         /\ \A g \in DOMAIN data : \A v \in DOMAIN data[g] : Flattened(s, data)[<<g, v>>] = data[g][v]
         /\ Flattened(s, data) = [k \in DOMAIN Flattened(s, data) |-> Flattened(s, data)[k]]
  <1> DEFINE keys == UNION {{g} \X (DOMAIN data[g]) : g \in DOMAIN data}
             flat == [k \in keys |-> data[k[1]][k[2]]]
  <1>1. Flattened(s, data) = flat
    BY DEF Flattened
  <1>2. ASSUME NEW k
        PROVE  k \in keys <=> \E g \in DOMAIN data : \E v \in DOMAIN data[g] : k = <<g, v>>
    <2>1. k \in keys <=> \E g \in DOMAIN data : k \in {g} \X (DOMAIN data[g])
      OBVIOUS
    <2>2. \A g : k \in {g} \X (DOMAIN data[g]) <=> \E v \in DOMAIN data[g] : k = <<g, v>>
      OBVIOUS
    <2> HIDE DEF keys
    <2> QED
      BY <2>1, <2>2
  <1>3. ASSUME NEW g \in DOMAIN data, NEW v \in DOMAIN data[g]
        PROVE  flat[<<g, v>>] = data[g][v]
    <2>1. <<g, v>> \in keys
      BY <1>2
    <2> HIDE DEF keys
    <2> QED
      BY <2>1
  <1>4. DOMAIN flat = keys /\ flat = [k \in DOMAIN flat |-> flat[k]]
    <2> HIDE DEF keys
    <2> QED
      OBVIOUS
  <1> HIDE DEF flat, keys
  <1> QED
    BY <1>1, <1>2, <1>3, <1>4

\* One set of prices written over another.
LEMMA UpdatedFacts ==
  ASSUME NEW under, NEW over
  PROVE  /\ DOMAIN Updated(under, over) = DOMAIN under \cup DOMAIN over
         /\ \A k \in DOMAIN over : Updated(under, over)[k] = over[k]
         /\ \A k \in DOMAIN under \ DOMAIN over : Updated(under, over)[k] = under[k]
         /\ Updated(under, over) = [k \in DOMAIN Updated(under, over) |-> Updated(under, over)[k]]
  BY DEF Updated

LEMMA WithinFacts ==
  ASSUME NEW prices, NEW g, NEW v
  PROVE  /\ v \in DOMAIN Within(prices, g) <=> g \in DOMAIN prices /\ v \in DOMAIN prices[g]
         /\ v \in DOMAIN Within(prices, g) => Within(prices, g)[v] = prices[g][v]
  <1>1. CASE g \in DOMAIN prices
    BY <1>1 DEF Within
  <1>2. CASE g \notin DOMAIN prices
    <2>1. DOMAIN Within(prices, g) = {}
      <3>1. Within(prices, g) = <<>>
        BY <1>2 DEF Within
      <3> QED
        BY <3>1
    <2> QED
      BY <1>2, <2>1
  <1> QED
    BY <1>1, <1>2

\* The same, flattened.
LEMMA WithinFlat ==
  ASSUME NEW s, s \notin GlobalSections \cup FlatSections, NEW prices, NEW g, NEW v
  PROVE  /\ <<g, v>> \in DOMAIN Flattened(s, prices) <=> v \in DOMAIN Within(prices, g)
         /\ v \in DOMAIN Within(prices, g) => Flattened(s, prices)[<<g, v>>] = Within(prices, g)[v]
  <1> DEFINE flat == Flattened(s, prices)
  <1>1. /\ \A k : k \in DOMAIN flat <=> \E h \in DOMAIN prices : \E w \in DOMAIN prices[h] : k = <<h, w>>
        /\ \A h \in DOMAIN prices : \A w \in DOMAIN prices[h] : flat[<<h, w>>] = prices[h][w]
    BY FlatFacts
  <1> HIDE DEF flat
  <1>2. <<g, v>> \in DOMAIN flat <=> g \in DOMAIN prices /\ v \in DOMAIN prices[g]
    BY <1>1
  <1>3. <<g, v>> \in DOMAIN flat <=> v \in DOMAIN Within(prices, g)
    BY <1>2, WithinFacts
  <1>4. v \in DOMAIN Within(prices, g) => flat[<<g, v>>] = Within(prices, g)[v]
    BY <1>1, WithinFacts
  <1> QED
    BY <1>3, <1>4 DEF flat

\* Prices by region of which one's variants take the place of the other's.
Merged(under, over) ==
  [g \in DOMAIN over \cup DOMAIN under |-> Updated(Within(under, g), Within(over, g))]

LEMMA MergedPrices ==
  ASSUME NEW s, s \notin GlobalSections \cup FlatSections, NEW under, NEW over
  PROVE  Flattened(s, Merged(under, over)) = Updated(Flattened(s, under), Flattened(s, over))
  <1> DEFINE data == Merged(under, over)
             low == Flattened(s, under)
             high == Flattened(s, over)
             both == Updated(low, high)
             flat == Flattened(s, data)
  <1>1. DOMAIN data = DOMAIN over \cup DOMAIN under
        /\ \A g \in DOMAIN data : data[g] = Updated(Within(under, g), Within(over, g))
    BY DEF Merged
  <1>2. /\ DOMAIN both = DOMAIN low \cup DOMAIN high
        /\ \A k \in DOMAIN high : both[k] = high[k]
        /\ \A k \in DOMAIN low \ DOMAIN high : both[k] = low[k]
        /\ both = [k \in DOMAIN both |-> both[k]]
    <2> HIDE DEF low, high
    <2> QED
      BY UpdatedFacts
  <1>3. ASSUME NEW g, NEW v
        PROVE  v \in DOMAIN Within(data, g) <=> v \in DOMAIN Within(under, g) \cup DOMAIN Within(over, g)
    <2>1. v \in DOMAIN Within(under, g) \cup DOMAIN Within(over, g) => g \in DOMAIN data
      BY <1>1, WithinFacts
    <2>2. g \in DOMAIN data => DOMAIN data[g] = DOMAIN Within(under, g) \cup DOMAIN Within(over, g)
      <3> DEFINE low1 == Within(under, g)
                 high1 == Within(over, g)
      <3> HIDE DEF data, low1, high1
      <3>1. g \in DOMAIN data => data[g] = Updated(low1, high1)
        BY <1>1 DEF low1, high1
      <3>2. DOMAIN Updated(low1, high1) = DOMAIN low1 \cup DOMAIN high1
        BY UpdatedFacts
      <3> QED
        BY <3>1, <3>2 DEF low1, high1
    <2>3. v \in DOMAIN Within(data, g) <=> g \in DOMAIN data /\ v \in DOMAIN data[g]
      <3> HIDE DEF data
      <3> QED
        BY WithinFacts
    <2> HIDE DEF data
    <2> QED
      BY <2>1, <2>2, <2>3
  <1>4. ASSUME NEW g, NEW v \in DOMAIN Within(data, g)
        PROVE  /\ v \in DOMAIN Within(over, g) => Within(data, g)[v] = Within(over, g)[v]
               /\ v \notin DOMAIN Within(over, g) => Within(data, g)[v] = Within(under, g)[v]
    <2> HIDE DEF data
    <2>1. g \in DOMAIN data /\ v \in DOMAIN data[g] /\ Within(data, g)[v] = data[g][v]
      BY WithinFacts
    <2>2. data[g] = Updated(Within(under, g), Within(over, g))
      BY <1>1, <2>1
    <2>3. v \in DOMAIN Within(under, g) \cup DOMAIN Within(over, g)
      BY <1>3
    <2> DEFINE low1 == Within(under, g)
               high1 == Within(over, g)
               row == Updated(low1, high1)
    <2> HIDE DEF low1, high1
    <2>4. /\ \A k \in DOMAIN high1 : row[k] = high1[k]
          /\ \A k \in DOMAIN low1 \ DOMAIN high1 : row[k] = low1[k]
      BY DEF Updated
    <2> HIDE DEF row
    <2>5. data[g] = row /\ v \in DOMAIN low1 \cup DOMAIN high1
      BY <2>2, <2>3 DEF row, low1, high1
    <2>6. Within(data, g)[v] = row[v]
      BY <2>1, <2>5
    <2> QED
      BY <2>4, <2>5, <2>6 DEF low1, high1
  <1>5. ASSUME NEW g, NEW v
        PROVE  /\ <<g, v>> \in DOMAIN flat <=> <<g, v>> \in DOMAIN both
               /\ <<g, v>> \in DOMAIN flat => flat[<<g, v>>] = both[<<g, v>>]
    <2>1. /\ <<g, v>> \in DOMAIN flat <=> v \in DOMAIN Within(data, g)
          /\ v \in DOMAIN Within(data, g) => flat[<<g, v>>] = Within(data, g)[v]
      <3> HIDE DEF data
      <3> QED
        BY WithinFlat
    <2>2. /\ <<g, v>> \in DOMAIN low <=> v \in DOMAIN Within(under, g)
          /\ v \in DOMAIN Within(under, g) => low[<<g, v>>] = Within(under, g)[v]
      BY WithinFlat
    <2>3. /\ <<g, v>> \in DOMAIN high <=> v \in DOMAIN Within(over, g)
          /\ v \in DOMAIN Within(over, g) => high[<<g, v>>] = Within(over, g)[v]
      BY WithinFlat
    <2> DEFINE k == <<g, v>>
    <2> HIDE DEF both, low, high, flat, data, k
    <2>4. k \in DOMAIN flat <=> k \in DOMAIN both
      BY <1>2, <1>3, <2>1, <2>2, <2>3 DEF k
    <2>5. ASSUME k \in DOMAIN flat
          PROVE  flat[k] = both[k]
      BY <1>2, <1>3, <1>4, <2>1, <2>2, <2>3, <2>5 DEF k
    <2> QED
      BY <2>4, <2>5 DEF k
  <1>6. /\ \A k \in DOMAIN flat : \E g, v : k = <<g, v>>
        /\ flat = [k \in DOMAIN flat |-> flat[k]]
    <2> HIDE DEF data
    <2> QED
      BY FlatFacts
  <1>7. \A k \in DOMAIN low : \E g, v : k = <<g, v>>
    BY FlatFacts
  <1>8. \A k \in DOMAIN high : \E g, v : k = <<g, v>>
    BY FlatFacts
  <1> HIDE DEF both, low, high, flat
  <1>9. \A k \in DOMAIN both : \E g, v : k = <<g, v>>
    BY <1>2, <1>7, <1>8
  <1>10. DOMAIN flat = DOMAIN both /\ \A k \in DOMAIN flat : flat[k] = both[k]
    BY <1>5, <1>6, <1>9
  <1>11. flat = both
    BY <1>2, <1>6, <1>10
  <1> QED
    BY <1>11 DEF flat, both, data, low, high

\* Prices by region with one more variant, free, in each region.
Freed(prices, name) == [g \in DOMAIN prices |-> Updated(prices[g], [v \in {name} |-> 0])]
FreeIn(flat, name) == [k \in {<<q[1], name>> : q \in DOMAIN flat} |-> 0]

LEMMA FreePrices ==
  ASSUME NEW s, s \notin GlobalSections \cup FlatSections, NEW prices, NEW name,
         \A g \in DOMAIN prices : DOMAIN prices[g] # {}
  PROVE  Flattened(s, Freed(prices, name))
           = Updated(Flattened(s, prices), FreeIn(Flattened(s, prices), name))
  <1> DEFINE data == Freed(prices, name)
             flat == Flattened(s, prices)
             free == [g \in DOMAIN prices |-> [v \in {name} |-> 0]]
             flatFree == Flattened(s, free)
             zero == [k \in {<<q[1], name>> : q \in DOMAIN flat} |-> 0]
  <1>1. \A g \in DOMAIN prices : /\ Within(prices, g) = prices[g]
                                 /\ Within(free, g) = [v \in {name} |-> 0]
    BY DEF Within
  <1>2. data = Merged(prices, free)
    BY <1>1 DEF Merged, Freed
  <1>3. Flattened(s, data) = Updated(flat, flatFree)
    <2> HIDE DEF free
    <2> QED
      BY <1>2, MergedPrices
  <1>4. /\ \A k : k \in DOMAIN flat <=> \E g \in DOMAIN prices : \E v \in DOMAIN prices[g] : k = <<g, v>>
    BY FlatFacts
  <1>5. /\ \A k : k \in DOMAIN flatFree <=> \E g \in DOMAIN free : \E v \in DOMAIN free[g] : k = <<g, v>>
        /\ \A g \in DOMAIN free : \A v \in DOMAIN free[g] : flatFree[<<g, v>>] = free[g][v]
        /\ flatFree = [k \in DOMAIN flatFree |-> flatFree[k]]
    <2> HIDE DEF free
    <2> QED
      BY FlatFacts
  <1>6. \A g \in DOMAIN free : DOMAIN free[g] = {name} /\ free[g][name] = 0
    OBVIOUS
  <1>7. DOMAIN free = DOMAIN prices
    OBVIOUS
  <1> HIDE DEF free, flatFree
  <1>8. \A k : k \in DOMAIN flatFree <=> \E g \in DOMAIN prices : k = <<g, name>>
    BY <1>5, <1>6, <1>7
  <1>9. \A k \in DOMAIN flatFree : flatFree[k] = 0
    BY <1>5, <1>6
  <1>10. {q[1] : q \in DOMAIN flat} = DOMAIN prices
    <2>1. \A q \in DOMAIN flat : q[1] \in DOMAIN prices
      BY <1>4
    <2>2. ASSUME NEW g \in DOMAIN prices
          PROVE  \E q \in DOMAIN flat : q[1] = g
      <3>1. PICK v : v \in DOMAIN prices[g]
        OBVIOUS
      <3>2. <<g, v>> \in DOMAIN flat
        BY <1>4, <3>1
      <3> QED
        BY <3>2
    <2> QED
      BY <2>1, <2>2
  <1>11. \A k : k \in DOMAIN zero <=> \E g \in DOMAIN prices : k = <<g, name>>
    BY <1>10
  <1>12. DOMAIN flatFree = DOMAIN zero /\ zero = [k \in DOMAIN zero |-> 0]
    BY <1>8, <1>11
  <1>13. flatFree = zero
    BY <1>5, <1>9, <1>12
  <1> QED
    BY <1>3, <1>13 DEF FreeIn

-----------------------------------------------------------------------------
(* The fetchers, one by one.                                               *)

\* The variant of section s of each row of an answer.
MeterOf(s, all) == [r \in ToSet(all) |-> VariantOf(s, r)]

\* The sections of prices by region and variant, each as it was read.
LEMMA ReadPrices ==
  ASSUME NEW all, IsAnswer(all), NEW meter, DOMAIN meter = ToSet(all),
         NEW s, s \notin GlobalSections \cup FlatSections,
         s \notin {"disk_gb_month", "container_apps_hour"}, OneCharge(s, meter)
  PROVE  Flattened(s, ByRegion(all, meter)) = PricesOf(s, meter)
  <1> DEFINE prices == ByRegion(all, meter)
  <1>1. \A g \in DOMAIN prices : \A v \in DOMAIN prices[g] : prices[g][v] \in Nat
    BY RegionFacts
  <1>2. \A v : Times(s, v) = 1
    BY TimesFacts
  <1> HIDE DEF prices
  <1>3. \A g \in DOMAIN prices : \A v \in DOMAIN prices[g] : prices[g][v] = prices[g][v] * Times(s, v)
    BY <1>1, <1>2, OneTimes
  <1>4. Multiplied(s, prices, prices)
    BY <1>3 DEF Multiplied
  <1> QED
    BY <1>4, RegionPrices DEF prices

LEMMA RegionSections ==
  ASSUME NEW all, IsAnswer(all),
         NEW s \in {"disk_tier_month", "vm_hour", "ptu_hour", "app_service_hour", "sql_storage_gb_month"},
         OneCharge(s, MeterOf(s, all))
  PROVE  Flattened(s, Rewritten(s, all)) = PricesOf(s, MeterOf(s, all))
  <1> DEFINE meter == MeterOf(s, all)
  <1>1. Rewritten(s, all) = ByRegion(all, meter)
    <2>1. CASE s = "disk_tier_month"
      BY <2>1 DEF Rewritten, FetchDiskTiers, MeterOf, VariantOf
    <2>2. CASE s = "vm_hour"
      BY <2>2 DEF Rewritten, FetchVmRates, MeterOf, VariantOf
    <2>3. CASE s = "ptu_hour"
      BY <2>3 DEF Rewritten, FetchPtuRates, MeterOf, VariantOf
    <2>4. CASE s = "app_service_hour"
      BY <2>4 DEF Rewritten, FetchAppServiceRates, MeterOf, VariantOf
    <2>5. CASE s = "sql_storage_gb_month"
      BY <2>5 DEF Rewritten, FetchSqlStorageRates, MeterOf, VariantOf
    <2> QED
      BY <2>1, <2>2, <2>3, <2>4, <2>5
  <1>2. DOMAIN meter = ToSet(all)
    BY DEF MeterOf
  <1>3. s \notin GlobalSections \cup FlatSections /\ s \notin {"disk_gb_month", "container_apps_hour"}
    BY DEF GlobalSections, LogSections, FlatSections
  <1> HIDE DEF meter
  <1>4. OneCharge(s, meter)
    BY DEF meter
  <1>5. Flattened(s, ByRegion(all, meter)) = PricesOf(s, meter)
    BY <1>2, <1>3, <1>4, ReadPrices
  <1> QED
    BY <1>1, <1>5 DEF meter

LEMMA DiskPerGb ==
  ASSUME NEW all, IsAnswer(all), NEW s, s = "disk_gb_month", OneCharge(s, MeterOf(s, all))
  PROVE  Flattened(s, FetchDiskPerGb(all)) = PricesOf(s, MeterOf(s, all))
  <1> DEFINE meter == MeterOf(s, all)
             prices == ByRegion(all, meter)
             data == FetchDiskPerGb(all)
  <1>1. meter = [r \in ToSet(all) |-> GibDisk(r)]
    BY DEF MeterOf, VariantOf
  <1>2. data = [g \in DOMAIN prices |-> [v \in DOMAIN prices[g] |-> prices[g][v] * HoursPerMonth]]
    BY <1>1 DEF FetchDiskPerGb
  <1>3. DOMAIN meter = ToSet(all)
    BY DEF MeterOf
  <1>4. s \notin GlobalSections \cup FlatSections
    BY DEF GlobalSections, LogSections, FlatSections
  <1> HIDE DEF meter, prices, data
  <1>5. \A v : Times(s, v) = HoursPerMonth
    BY TimesFacts
  <1>6. Multiplied(s, prices, data)
    BY <1>2, <1>5 DEF Multiplied
  <1>7. OneCharge(s, meter)
    BY DEF meter
  <1>8. Flattened(s, data) = PricesOf(s, meter)
    BY <1>3, <1>4, <1>6, <1>7, RegionPrices DEF prices
  <1> QED
    BY <1>8 DEF meter, data

\* What each rate of Container Apps is multiplied by.
LEMMA PerHourFacts ==
  ASSUME NEW v
  PROVE  PerHour(v) = Times("container_apps_hour", v)
  <1>1. CASE v = "idle_vcpu"
    BY <1>1 DEF PerHour, UnitOf, Times
  <1>2. CASE v = "idle_gib"
    BY <1>2 DEF PerHour, UnitOf, Times
  <1>3. CASE v \notin {"idle_vcpu", "idle_gib"}
    BY <1>3 DEF PerHour, UnitOf, Times
  <1> QED
    BY <1>1, <1>2, <1>3

LEMMA ContainerApps ==
  ASSUME NEW all, IsAnswer(all), NEW s, s = "container_apps_hour", OneCharge(s, MeterOf(s, all))
  PROVE  Flattened(s, FetchContainerAppsRates(all)) = PricesOf(s, MeterOf(s, all))
  <1> DEFINE meter == MeterOf(s, all)
             prices == ByRegion(all, meter)
             data == FetchContainerAppsRates(all)
  <1>1. meter = [r \in ToSet(all) |-> ContainerAppsRate(r)]
    BY DEF MeterOf, VariantOf
  <1>2. data = [g \in DOMAIN prices |-> [v \in DOMAIN prices[g] |-> prices[g][v] * PerHour(v)]]
    BY <1>1 DEF FetchContainerAppsRates
  <1>3. DOMAIN meter = ToSet(all)
    BY DEF MeterOf
  <1>4. s \notin GlobalSections \cup FlatSections
    BY DEF GlobalSections, LogSections, FlatSections
  <1>5. OneCharge(s, meter)
    OBVIOUS
  <1> HIDE DEF meter
  <1>8. \A v : PerHour(v) = Times(s, v)
    BY PerHourFacts
  <1> HIDE DEF prices, data
  <1>9. Multiplied(s, prices, data)
    BY <1>2, <1>8 DEF Multiplied
  <1>10. Flattened(s, data) = PricesOf(s, meter)
    BY <1>3, <1>4, <1>5, <1>9, RegionPrices DEF prices
  <1> QED
    BY <1>10 DEF meter, data

\* The sections of one price in each region.
LEMMA FlatSectionPrices ==
  ASSUME NEW all, IsAnswer(all), NEW s \in FlatSections, OneCharge(s, MeterOf(s, all)),
         "_value" # None
  PROVE  Flattened(s, Rewritten(s, all)) = PricesOf(s, MeterOf(s, all))
  <1> DEFINE meter == MeterOf(s, all)
             keep == {r \in ToSet(all) : meter[r] # None}
  <1>1. DOMAIN meter = ToSet(all) /\ \A r \in ToSet(all) : meter[r] = VariantOf(s, r)
    BY DEF MeterOf
  <1>2. "_value" # None
    OBVIOUS
  <1>3. OneCharge(s, meter)
    OBVIOUS
  <1> HIDE DEF meter
  <1>4. (\A r \in keep : meter[r] = "_value") /\ Rewritten(s, all) = FlatByRegion(all, keep)
    <2>1. CASE s = "snapshot_gb_month"
      <3>1. \A r \in ToSet(all) : /\ meter[r] # None <=> "Snapshots" \in ToSet(r.meter)
                                  /\ meter[r] # None => meter[r] = "_value"
        BY <1>1, <1>2, <2>1 DEF VariantOf, When
      <3>2. keep = {r \in ToSet(all) : "Snapshots" \in ToSet(r.meter)}
        BY <3>1
      <3> QED
        BY <2>1, <3>1, <3>2 DEF Rewritten, FetchSnapshotRates
    <2>2. CASE s = "blob_gb_month"
      <3>1. \A r \in ToSet(all) : /\ meter[r] # None <=> r.meter = <<"Hot LRS", "Data Stored">>
                                  /\ meter[r] # None => meter[r] = "_value"
        BY <1>1, <1>2, <2>2 DEF VariantOf, When
      <3>2. keep = {r \in ToSet(all) : r.meter = <<"Hot LRS", "Data Stored">>}
        BY <3>1
      <3> QED
        BY <2>2, <3>1, <3>2 DEF Rewritten, FetchBlobRates
    <2>3. CASE s = "public_ip_hour"
      <3>1. \A r \in ToSet(all) : /\ meter[r] # None <=> r.meter = <<"Standard IPv4 Static Public IP">>
                                  /\ meter[r] # None => meter[r] = "_value"
        BY <1>1, <1>2, <2>3 DEF VariantOf, When
      <3>2. keep = {r \in ToSet(all) : r.meter = <<"Standard IPv4 Static Public IP">>}
        BY <3>1
      <3> QED
        BY <2>3, <3>1, <3>2 DEF Rewritten, FetchPublicIpRates
    <2> QED
      BY <2>1, <2>2, <2>3 DEF FlatSections
  <1> HIDE DEF keep
  <1>5. Flattened(s, FlatByRegion(all, keep)) = PricesOf(s, meter)
    BY <1>1, <1>3, <1>4, FlatPrices DEF keep
  <1> QED
    BY <1>4, <1>5 DEF meter

\* The sections of one price for everywhere.
LEMMA OneSectionPrices ==
  ASSUME NEW all, IsAnswer(all), NEW s \in GlobalSections \ {"dns_zone_month", "acr_registry_day"},
         OneCharge(s, MeterOf(s, all)), "_value" # None,
         NEW keep \in SUBSET ToSet(all),
         \A r \in ToSet(all) : VariantOf(s, r) = IF r \in keep THEN "_value" ELSE None
  PROVE  Flattened(s, FlatGlobal(all, keep)) = PricesOf(s, MeterOf(s, all))
  <1> DEFINE meter == MeterOf(s, all)
  <1>1. DOMAIN meter = ToSet(all) /\ \A r \in ToSet(all) : meter[r] = IF r \in keep THEN "_value" ELSE None
    BY DEF MeterOf
  <1>2. OneCharge(s, meter)
    OBVIOUS
  <1> HIDE DEF meter
  <1>3. keep = {r \in ToSet(all) : meter[r] # None}
    BY <1>1
  <1>4. \A r \in keep : meter[r] = "_value"
    BY <1>1
  <1>5. Flattened(s, FlatGlobal(all, keep)) = PricesOf(s, meter)
    BY <1>1, <1>2, <1>3, <1>4, OnePrice
  <1> QED
    BY <1>5 DEF meter

LEMMA NatRates ==
  ASSUME NEW all, IsAnswer(all), NEW s, s = "nat_gateway_hour",
         OneCharge(s, MeterOf(s, all)), "_value" # None
  PROVE  Flattened(s, FetchNatRates(all)) = PricesOf(s, MeterOf(s, all))
  <1> DEFINE keep == {r \in ToSet(all) : r.meter = <<"Standard Gateway">>}
  <1>1. \A r \in ToSet(all) : VariantOf(s, r) = IF r \in keep THEN "_value" ELSE None
    BY DEF VariantOf, When
  <1>2. FetchNatRates(all) = FlatGlobal(all, keep)
    BY DEF FetchNatRates
  <1>3. s \in GlobalSections \ {"dns_zone_month", "acr_registry_day"} /\ keep \in SUBSET ToSet(all)
    BY DEF GlobalSections, LogSections
  <1> HIDE DEF keep
  <1> QED
    BY <1>1, <1>2, <1>3, OneSectionPrices

LEMMA LoadBalancerRates ==
  ASSUME NEW all, IsAnswer(all), NEW s, s = "load_balancer_hour",
         OneCharge(s, MeterOf(s, all)), "_value" # None
  PROVE  Flattened(s, FetchLoadBalancerRates(all)) = PricesOf(s, MeterOf(s, all))
  <1> DEFINE keep == {r \in ToSet(all) : r.meter = <<"Standard Included LB Rules and Outbound Rules">>}
  <1>1. \A r \in ToSet(all) : VariantOf(s, r) = IF r \in keep THEN "_value" ELSE None
    BY DEF VariantOf, When
  <1>2. FetchLoadBalancerRates(all) = FlatGlobal(all, keep)
    BY DEF FetchLoadBalancerRates
  <1>3. s \in GlobalSections \ {"dns_zone_month", "acr_registry_day"} /\ keep \in SUBSET ToSet(all)
    BY DEF GlobalSections, LogSections
  <1> HIDE DEF keep
  <1> QED
    BY <1>1, <1>2, <1>3, OneSectionPrices

LEMMA LogRates ==
  ASSUME NEW all, IsAnswer(all), NEW s \in {"log_ingestion_gb", "log_retention_gb_month"},
         OneCharge(s, MeterOf(s, all)), "_value" # None
  PROVE  Flattened(s, FetchLogAnalyticsRates(all)[s]) = PricesOf(s, MeterOf(s, all))
  <1> DEFINE name == IF s = "log_ingestion_gb" THEN "Analytics Logs Data Ingestion"
                     ELSE "Analytics Logs Data Retention"
             keep == {r \in ToSet(all) : r.meter = <<name>>}
  <1>1. \A r \in ToSet(all) : VariantOf(s, r) = IF r \in keep THEN "_value" ELSE None
    <2>1. CASE s = "log_ingestion_gb"
      BY <2>1 DEF VariantOf, When
    <2>2. CASE s = "log_retention_gb_month"
      BY <2>2 DEF VariantOf, When
    <2> QED
      BY <2>1, <2>2
  <1>2. FetchLogAnalyticsRates(all)[s] = FlatGlobal(all, keep)
    BY DEF FetchLogAnalyticsRates, LogSections
  <1>3. s \in GlobalSections \ {"dns_zone_month", "acr_registry_day"} /\ keep \in SUBSET ToSet(all)
    BY DEF GlobalSections, LogSections
  <1> HIDE DEF keep
  <1> QED
    BY <1>1, <1>2, <1>3, OneSectionPrices

LEMMA TeamRates ==
  ASSUME NEW all, IsAnswer(all), NEW s, s = "team_month", OneCharge(s, MeterOf(s, all)),
         "_value" # None, DOMAIN FetchTeamRates(all) \subseteq {s}, s \in DOMAIN FetchTeamRates(all)
  PROVE  Flattened(s, FetchTeamRates(all)[s]) = PricesOf(s, MeterOf(s, all))
  <1> DEFINE keep == ToSet(all)
             of(name) == {r \in keep : r.meter[1] = name}
  <1>1. \A r \in ToSet(all) : VariantOf(s, r) = IF r \in keep THEN "_value" ELSE None
    BY DEF VariantOf, When
  <1> HIDE DEF keep
  <1>2. FetchTeamRates(all) = [n \in {r.meter[1] : r \in keep} |-> FlatGlobal(all, of(n))]
    BY DEF FetchTeamRates, keep
  <1>3. \A r \in keep : r.meter[1] = s
    BY <1>2
  <1>4. of(s) = keep
    BY <1>3
  <1>5. FetchTeamRates(all)[s] = FlatGlobal(all, keep)
    <2> HIDE DEF of
    <2> QED
      BY <1>2, <1>4
  <1>6. s \in GlobalSections \ {"dns_zone_month", "acr_registry_day"} /\ keep \in SUBSET ToSet(all)
    BY DEF GlobalSections, keep
  <1> QED
    BY <1>1, <1>5, <1>6, OneSectionPrices

\* The rows of one variant of a section of prices for everywhere.
LEMMA GlobalTiers ==
  ASSUME NEW s \in GlobalSections, NEW meter, NEW v, v # None
  PROVE  Tiers(s, meter, Everywhere(s, v)) = {r \in DOMAIN meter : meter[r] = v}
  <1> DEFINE place == Origin(s)
  <1>1. \A r : Of(s, meter, r) = <<place, meter[r]>>
    BY DEF Of
  <1>2. Priced(s, meter) = {r \in DOMAIN meter : meter[r] # None}
    BY DEF Priced
  <1> HIDE DEF place
  <1>3. Tiers(s, meter, <<place, v>>) = {r \in DOMAIN meter : meter[r] = v}
    BY <1>1, <1>2 DEF Tiers
  <1> QED
    BY <1>3 DEF place, Everywhere

LEMMA DnsRates ==
  ASSUME NEW all, IsAnswer(all), NEW s, s = "dns_zone_month", OneCharge(s, MeterOf(s, all)),
         None \notin {"first_25", "beyond_25"}
  PROVE  Flattened(s, FetchDnsRates(all)) = PricesOf(s, MeterOf(s, all))
  <1> DEFINE meter == MeterOf(s, all)
             data == FetchDnsRates(all)
             of(name) == {r \in ToSet(all) : DnsTier(r) = name}
  <1>1. DOMAIN meter = ToSet(all) /\ \A r \in ToSet(all) : meter[r] = DnsTier(r)
    BY DEF MeterOf, VariantOf
  <1>2. s \in GlobalSections
    BY DEF GlobalSections, LogSections
  <1>3. OneCharge(s, meter)
    OBVIOUS
  <1>4. data = [name \in {n \in {"first_25", "beyond_25"} : of(n) # {}} |-> FirstTier(all, of(name)).price]
    BY DEF FetchDnsRates
  <1>5. \A r : DnsTier(r) \in {None, "first_25", "beyond_25"}
    BY DEF DnsTier
  <1> HIDE DEF meter, data, of
  <1>6. DOMAIN data = {meter[r] : r \in Priced(s, meter)}
    <2>1. Priced(s, meter) = {r \in ToSet(all) : meter[r] # None}
      BY <1>1, <1>2 DEF Priced
    <2>2. \A v : v \in DOMAIN data <=> v \in {"first_25", "beyond_25"} /\ of(v) # {}
      BY <1>4
    <2>3. \A v : v \in {meter[r] : r \in Priced(s, meter)} <=>
                   v \in {"first_25", "beyond_25"} /\ \E r \in ToSet(all) : DnsTier(r) = v
      BY <1>1, <1>5, <2>1
    <2>4. \A v : of(v) # {} <=> \E r \in ToSet(all) : DnsTier(r) = v
      BY DEF of
    <2> QED
      BY <2>2, <2>3, <2>4
  <1>7. ASSUME NEW v \in DOMAIN data
        PROVE  data[v] \in Nat /\ data[v] = Charge(s, Tiers(s, meter, Everywhere(s, v)))
    <2>1. v # None /\ of(v) # {} /\ data[v] = FirstTier(all, of(v)).price
      BY <1>4
    <2>2. of(v) = {r \in ToSet(all) : meter[r] = v}
      BY <1>1 DEF of
    <2>3. Tiers(s, meter, Everywhere(s, v)) = of(v)
      BY <1>1, <1>2, <2>1, <2>2, GlobalTiers
    <2>4. \A q, r \in of(v) : q.tier = r.tier => q.price = r.price
      BY <1>3, <2>3 DEF OneCharge, Tiers
    <2>5. of(v) \in SUBSET ToSet(all)
      BY DEF of
    <2>6. /\ FirstTier(all, of(v)).price \in Nat
          /\ FirstTier(all, of(v)).price
               = (CHOOSE r \in of(v) : \A q \in of(v) : r.tier <= q.tier).price
      <3> DEFINE these == of(v)
      <3>1. /\ these # {} /\ these \in SUBSET ToSet(all)
            /\ \A q, r \in these : q.tier = r.tier => q.price = r.price
        BY <2>1, <2>4, <2>5
      <3> HIDE DEF these
      <3>2. /\ FirstTier(all, these).price \in Nat
            /\ FirstTier(all, these).price
                 = (CHOOSE r \in these : \A q \in these : r.tier <= q.tier).price
        BY <3>1, LowestPrice
      <3> QED
        BY <3>2 DEF these
    <2>7. Charge(s, of(v)) = (CHOOSE r \in of(v) : \A q \in of(v) : r.tier <= q.tier).price
      BY DEF Charge
    <2> QED
      BY <2>1, <2>3, <2>6, <2>7
  <1>8. Flattened(s, data) = PricesOf(s, meter)
    BY <1>2, <1>6, <1>7, GlobalPrices DEF Charged
  <1> QED
    BY <1>8 DEF meter, data

LEMMA RegistryRates ==
  ASSUME NEW all, IsAnswer(all), NEW s, s = "acr_registry_day", None \notin AcrTiers
  PROVE  Flattened(s, FetchAcrRates(all)) = PricesOf(s, MeterOf(s, all))
  <1> DEFINE meter == MeterOf(s, all)
             data == FetchAcrRates(all)
             named(tier) == <<tier, "Registry Unit">>
             of(tier) == {r \in ToSet(all) : r.meter = named(tier) /\ r.price # 0}
  <1>1. DOMAIN meter = ToSet(all)
        /\ \A r \in ToSet(all) :
             meter[r] = IF r.price # 0 /\ \E tier \in AcrTiers : r.meter = named(tier)
                        THEN r.meter[1] ELSE None
    BY DEF MeterOf, VariantOf
  <1>2. s \in GlobalSections
    BY DEF GlobalSections, LogSections
  <1>3. data = [tier \in {t \in AcrTiers : of(t) # {}} |-> Min({r.price : r \in of(tier)})]
    BY DEF FetchAcrRates
  <1>0. \A tier : named(tier)[1] = tier
    OBVIOUS
  <1> HIDE DEF named
  <1>4. \A r \in ToSet(all) : \A v \in AcrTiers : meter[r] = v <=> r \in of(v)
    <2> HIDE DEF meter
    <2> QED
      BY <1>0, <1>1
  <1>5. \A r \in ToSet(all) : meter[r] = None \/ \E v \in AcrTiers : meter[r] = v
    <2> HIDE DEF meter
    <2> QED
      BY <1>0, <1>1
  <1>9. \A v : of(v) \in SUBSET ToSet(all)
    OBVIOUS
  <1> HIDE DEF meter, data, of
  <1>6. DOMAIN data = {meter[r] : r \in Priced(s, meter)}
    <2>1. Priced(s, meter) = {r \in ToSet(all) : meter[r] # None}
      BY <1>1, <1>2 DEF Priced
    <2>2. \A v : v \in DOMAIN data <=> v \in AcrTiers /\ of(v) # {}
      BY <1>3
    <2>3. \A v : v \in {meter[r] : r \in Priced(s, meter)} <=>
                   v \in AcrTiers /\ \E r \in ToSet(all) : meter[r] = v
      BY <1>5, <2>1
    <2>4. \A v \in AcrTiers : of(v) # {} <=> \E r \in ToSet(all) : meter[r] = v
      BY <1>4, <1>9
    <2> QED
      BY <2>2, <2>3, <2>4
  <1>7. ASSUME NEW v \in DOMAIN data
        PROVE  data[v] \in Nat /\ data[v] = Charge(s, Tiers(s, meter, Everywhere(s, v)))
    <2> DEFINE prices == {r.price : r \in of(v)}
    <2>0. data[v] = Min(prices)
      BY <1>3
    <2>1. v \in AcrTiers /\ v # None /\ of(v) # {}
      BY <1>3
    <2>2. of(v) = {r \in ToSet(all) : meter[r] = v}
      BY <1>4, <1>9, <2>1
    <2>3. Tiers(s, meter, Everywhere(s, v)) = of(v)
      BY <1>1, <1>2, <2>1, <2>2, GlobalTiers
    <2>4. prices \in SUBSET Nat /\ prices # {}
      BY <1>9, <2>1 DEF IsAnswer
    <2>5. Charge(s, of(v)) = Min(prices)
      BY DEF Charge
    <2> HIDE DEF prices
    <2>6. Min(prices) \in Nat
      BY <2>4, LeastNumber DEF Min
    <2> QED
      BY <2>0, <2>3, <2>5, <2>6
  <1>8. Flattened(s, data) = PricesOf(s, meter)
    BY <1>2, <1>6, <1>7, GlobalPrices DEF Charged
  <1> QED
    BY <1>8 DEF meter, data

\* A price for everywhere written over others.
LEMMA GlobalUpdated ==
  ASSUME NEW s \in GlobalSections, NEW under, NEW v
  PROVE  Flattened(s, Updated(under, [n \in {v} |-> 0]))
           = Updated(Flattened(s, under), [k \in {Everywhere(s, v)} |-> 0])
  <1> DEFINE place == Origin(s)
             free == [n \in {v} |-> 0]
             data == Updated(under, free)
             flat(d) == [k \in {place} \X (DOMAIN d) |-> d[k[2]]]
             one == [k \in {<<place, v>>} |-> 0]
             both == Updated(flat(under), one)
  <1>1. Flattened(s, data) = flat(data) /\ Flattened(s, under) = flat(under)
    BY DEF Flattened, FlatSections, GlobalSections, LogSections
  <1>2. DOMAIN data = DOMAIN under \cup {v} /\ data[v] = 0 /\ \A n \in DOMAIN under \ {v} : data[n] = under[n]
    BY DEF Updated
  <1> HIDE DEF place, data
  <1>3. DOMAIN flat(data) = {place} \X (DOMAIN data)
        /\ \A n \in DOMAIN data : flat(data)[<<place, n>>] = data[n]
    OBVIOUS
  <1>4. DOMAIN flat(under) = {place} \X (DOMAIN under)
        /\ \A n \in DOMAIN under : flat(under)[<<place, n>>] = under[n]
    OBVIOUS
  <1>5. DOMAIN one = {<<place, v>>} /\ one[<<place, v>>] = 0
    OBVIOUS
  <1>6. flat(data) = [k \in DOMAIN flat(data) |-> flat(data)[k]]
    OBVIOUS
  <1> HIDE DEF flat, one
  <1>7. /\ DOMAIN both = DOMAIN flat(under) \cup DOMAIN one
        /\ \A k \in DOMAIN one : both[k] = one[k]
        /\ \A k \in DOMAIN flat(under) \ DOMAIN one : both[k] = flat(under)[k]
        /\ both = [k \in DOMAIN both |-> both[k]]
    BY DEF Updated
  <1> HIDE DEF both
  <1>8. DOMAIN both = DOMAIN flat(data)
    BY <1>2, <1>3, <1>4, <1>5, <1>7
  <1>9. ASSUME NEW k \in DOMAIN flat(data)
        PROVE  flat(data)[k] = both[k]
    <2>1. PICK n \in DOMAIN data : k = <<place, n>>
      BY <1>3
    <2>2. CASE n = v
      BY <1>2, <1>3, <1>5, <1>7, <2>1, <2>2
    <2>3. CASE n # v
      BY <1>2, <1>3, <1>4, <1>5, <1>7, <2>1, <2>3
    <2> QED
      BY <2>2, <2>3
  <1>10. flat(data) = both
    BY <1>6, <1>7, <1>8, <1>9
  <1> QED
    BY <1>1, <1>10 DEF both, one, place, data, Everywhere

LEMMA KeyVaultRates ==
  ASSUME NEW all, IsAnswer(all), NEW s, s = "keyvault_key_month", OneCharge(s, MeterOf(s, all))
  PROVE  Flattened(s, FetchKeyVaultRates(all))
           = Updated(PricesOf(s, MeterOf(s, all)), [k \in {Everywhere(s, "software")} |-> 0])
  <1> DEFINE meter == MeterOf(s, all)
             of(v) == {r \in ToSet(all) : KeyKind(r) = v}
             kinds == {KeyKind(r) : r \in ToSet(all)} \ {None}
             priced == [v \in kinds |-> UnitPrice(all, of(v))]
  <1>1. DOMAIN meter = ToSet(all) /\ \A r \in ToSet(all) : meter[r] = KeyKind(r)
    BY DEF MeterOf, VariantOf
  <1>2. s \in GlobalSections /\ s \notin {"dns_zone_month", "acr_registry_day"}
    BY DEF GlobalSections, LogSections
  <1>3. OneCharge(s, meter)
    OBVIOUS
  <1>4. FetchKeyVaultRates(all) = Updated(priced, [v \in {"software"} |-> 0])
    BY DEF FetchKeyVaultRates
  <1> HIDE DEF meter, of
  <1>5. DOMAIN priced = {meter[r] : r \in Priced(s, meter)}
    <2>1. Priced(s, meter) = {r \in ToSet(all) : meter[r] # None}
      BY <1>1, <1>2 DEF Priced
    <2> QED
      BY <1>1, <2>1
  <1>6. ASSUME NEW v \in DOMAIN priced
        PROVE  priced[v] \in Nat /\ priced[v] = Charge(s, Tiers(s, meter, Everywhere(s, v)))
    <2> DEFINE k == Everywhere(s, v)
    <2>1. v # None /\ priced[v] = UnitPrice(all, of(v)) /\ \E r \in ToSet(all) : v = KeyKind(r)
      OBVIOUS
    <2>2. of(v) = {r \in ToSet(all) : meter[r] = v}
      BY <1>1 DEF of
    <2>3. Tiers(s, meter, k) = of(v)
      BY <1>1, <1>2, <2>1, <2>2, GlobalTiers
    <2>4. of(v) # {}
      BY <2>1 DEF of
    <2> HIDE DEF k, priced
    <2>5. /\ UnitPrice(all, Tiers(s, meter, k)) \in Nat
          /\ UnitPrice(all, Tiers(s, meter, k)) = Charge(s, Tiers(s, meter, k))
      BY <1>1, <1>2, <1>3, <2>3, <2>4, KeyCharge
    <2> QED
      BY <2>1, <2>3, <2>5 DEF k
  <1> HIDE DEF priced
  <1>7. Flattened(s, priced) = PricesOf(s, meter)
    BY <1>2, <1>5, <1>6, GlobalPrices DEF Charged
  <1>8. Flattened(s, Updated(priced, [v \in {"software"} |-> 0]))
          = Updated(Flattened(s, priced), [k \in {Everywhere(s, "software")} |-> 0])
    BY <1>2, GlobalUpdated
  <1> QED
    BY <1>4, <1>7, <1>8 DEF meter

\* Hosts by both their names.
LEMMA HostRates ==
  ASSUME NEW all, IsAnswer(all), NEW s, s = "dedicated_host_hour",
         NEW aliases, aliases = [r \in ToSet(all) |-> HostAlias(r)],
         OneCharge(s, MeterOf(s, all)), OneCharge(s, aliases)
  PROVE  Flattened(s, FetchDedicatedHostRates(all))
           = Updated(PricesOf(s, aliases), PricesOf(s, MeterOf(s, all)))
  <1> DEFINE meter == MeterOf(s, all)
             low == ByRegion(all, aliases)
             high == ByRegion(all, meter)
  <1>1. meter = [r \in ToSet(all) |-> HostKey(r)] /\ DOMAIN meter = ToSet(all) /\ DOMAIN aliases = ToSet(all)
    BY DEF MeterOf, VariantOf
  <1>2. OneCharge(s, meter)
    OBVIOUS
  <1>3. s \notin GlobalSections \cup FlatSections /\ s \notin {"disk_gb_month", "container_apps_hour"}
    BY DEF GlobalSections, LogSections, FlatSections
  <1> HIDE DEF meter
  <1>4. FetchDedicatedHostRates(all) = Merged(low, high)
    BY <1>1 DEF FetchDedicatedHostRates, Merged
  <1>5. Flattened(s, low) = PricesOf(s, aliases)
    BY <1>1, <1>3, ReadPrices
  <1>6. Flattened(s, high) = PricesOf(s, meter)
    BY <1>1, <1>2, <1>3, ReadPrices
  <1> HIDE DEF low, high
  <1>7. Flattened(s, Merged(low, high)) = Updated(Flattened(s, low), Flattened(s, high))
    BY <1>3, MergedPrices
  <1> QED
    BY <1>4, <1>5, <1>6, <1>7 DEF meter

\* There is no region without a price.
LEMMA RegionsHavePrices ==
  ASSUME NEW all, NEW meter, NEW g \in DOMAIN ByRegion(all, meter)
  PROVE  DOMAIN ByRegion(all, meter)[g] # {}
  <1> DEFINE named == {r \in ToSet(all) : meter[r] # None /\ r.region \notin {"", GlobalRegion}}
             in(h) == {r \in named : r.region = h}
             variants(h) == {meter[r] : r \in in(h)}
             price(h, v) == UnitPrice(all, {r \in in(h) : meter[r] = v})
  <1>1. ByRegion(all, meter) = [h \in {r.region : r \in named} |-> [v \in variants(h) |-> price(h, v)]]
    BY DEF ByRegion
  <1> HIDE DEF named, price
  <1>2. g \in {r.region : r \in named}
    BY <1>1
  <1>3. variants(g) # {}
    BY <1>2
  <1> HIDE DEF variants
  <1>4. DOMAIN ByRegion(all, meter)[g] = variants(g)
    BY <1>1, <1>2
  <1> QED
    BY <1>3, <1>4

\* The fees of the cluster tiers, and of the free one.
LEMMA ClusterFees ==
  ASSUME NEW all, IsAnswer(all), NEW s, s = "aks_cluster_hour", OneCharge(s, MeterOf(s, all)),
         NEW published, published = PricesOf(s, MeterOf(s, all))
  PROVE  Flattened(s, FetchClusterFee(all))
           = Updated(published, [k \in {<<q[1], "Free">> : q \in DOMAIN published} |-> 0])
  <1> DEFINE meter == MeterOf(s, all)
             fees == ByRegion(all, meter)
             data == FetchClusterFee(all)
             free == "Free"
  <1>1. meter = [r \in ToSet(all) |-> ClusterTier(r)] /\ DOMAIN meter = ToSet(all)
    BY DEF MeterOf, VariantOf
  <1>2. OneCharge(s, meter)
    OBVIOUS
  <1>3. s \notin GlobalSections \cup FlatSections /\ s \notin {"disk_gb_month", "container_apps_hour"}
    BY DEF GlobalSections, LogSections, FlatSections
  <1>4. data = Freed(fees, free)
    BY <1>1 DEF FetchClusterFee, Freed
  <1> HIDE DEF meter, free
  <1>5. published = Flattened(s, fees)
    BY <1>1, <1>2, <1>3, ReadPrices DEF meter
  <1>6. \A g \in DOMAIN fees : DOMAIN fees[g] # {}
    BY RegionsHavePrices
  <1> HIDE DEF fees, data
  <1>7. Flattened(s, data) = Updated(published, FreeIn(published, free))
    BY <1>3, <1>4, <1>5, <1>6, FreePrices
  <1> QED
    BY <1>7 DEF data, free, FreeIn

-----------------------------------------------------------------------------
(* The fetchers together.                                                  *)

LEMMA CatalogAnswers ==
  ASSUME NEW e \in Editions, NEW f \in Fetchers
  PROVE  IsAnswer(Catalog[e][f])
  <1> DEFINE all == Catalog[e][f]
  <1>1. Catalog \in [Editions -> [Fetchers -> Seq(Row)]]
    BY RefreshAssumption
  <1>2. all \in Seq(Row)
    BY <1>1
  <1>3. \A r \in Row : r.tier \in Nat /\ r.price \in Nat
    BY DEF Row
  <1> HIDE DEF all
  <1>4. DOMAIN all \subseteq Nat /\ ToSet(all) \subseteq Row
    BY <1>2 DEF ToSet
  <1>5. IsAnswer(all)
    BY <1>3, <1>4 DEF IsAnswer
  <1> QED
    BY <1>5 DEF all

\* The fetchers by name, in four kinds.
Direct == {"disk_tier_month", "vm_hour", "ptu_hour", "app_service_hour", "sql_storage_gb_month"}
Other == {"disk_gb_month", "container_apps_hour", "nat_gateway_hour", "load_balancer_hour", "dns_zone_month",
          "acr_registry_day", "keyvault_key_month", "dedicated_host_hour", "aks_cluster_hour"}
Named == Direct \cup FlatSections \cup Other \cup {"log_analytics", "team_month"}

LEMMA FetcherNames == Fetchers \subseteq Named
  <1>1. Core \in Seq(Named)
    BY DEF Core, Named, Direct, FlatSections, Other
  <1>2. Aks \in Seq(Named) /\ Team \in Seq(Named)
    BY DEF Aks, Team, Named, Direct, FlatSections, Other
  <1> HIDE DEF Named
  <1>3. Core \o Aks \o Team \in Seq(Named)
    BY <1>1, <1>2, ConcatProperties
  <1>4. \A q \in Seq(Named) : ToSet(q) \subseteq Named
    BY DEF ToSet
  <1> QED
    BY <1>3, <1>4 DEF Fetchers

\* A section is made by the fetcher that declared it.
LEMMA DeclaredFacts ==
  ASSUME NEW f \in Fetchers, NEW s \in Declared(f)
  PROVE  /\ FetcherOf(s) = f
         /\ f = "log_analytics" <=> s \in {"log_ingestion_gb", "log_retention_gb_month"}
         /\ f # "log_analytics" => s = f /\ s \in Named \ {"log_analytics"}
  <1>1. f \in Named
    BY FetcherNames
  <1>2. CASE f = "log_analytics"
    <2>1. s \in {"log_ingestion_gb", "log_retention_gb_month"}
      BY <1>2 DEF Declared, LogSections
    <2> QED
      BY <1>2, <2>1 DEF FetcherOf, LogSections
  <1>3. CASE f # "log_analytics"
    <2>1. s = f
      BY <1>3 DEF Declared, LogSections
    <2>2. s \notin {"log_ingestion_gb", "log_retention_gb_month"}
      BY <1>1, <2>1 DEF Named, Direct, FlatSections, Other
    <2> QED
      BY <1>1, <1>3, <2>1, <2>2 DEF FetcherOf, LogSections
  <1> QED
    BY <1>2, <1>3

\* Each fetcher that makes one section makes the prices of it.
LEMMA RewrittenPrices ==
  ASSUME NEW e \in Editions, NEW s \in Fetchers \ {"log_analytics", "team_month"}, s \in Declared(s),
         TiersDiffer
  PROVE  Flattened(s, Rewritten(s, Catalog[e][s])) = Prices(e, s)
  <1> DEFINE all == Catalog[e][s]
             meter == MeterOf(s, all)
  <1>1. FetcherOf(s) = s /\ s \in Named
    BY DeclaredFacts
  <1>2. VariantsIn(e, s) = meter /\ Published(e, s) = PricesOf(s, meter)
    BY <1>1 DEF VariantsIn, MeterOf, Published
  <1>3. s # "acr_registry_day" => OneCharge(s, meter)
    BY <1>2 DEF TiersDiffer
  <1>4. IsAnswer(all)
    BY CatalogAnswers
  <1>5. "_value" # None /\ None \notin AcrTiers /\ None \notin {"first_25", "beyond_25"}
    BY RefreshAssumption
  <1>6. s \notin {"dedicated_host_hour", "keyvault_key_month", "aks_cluster_hour"} =>
          Prices(e, s) = PricesOf(s, meter)
    BY <1>2 DEF Prices
  <1>. SUFFICES Flattened(s, Rewritten(s, all)) = Prices(e, s)
    OBVIOUS
  <1> HIDE DEF all, meter
  <1>7. CASE s \in Direct
    BY <1>3, <1>4, <1>6, <1>7, RegionSections DEF Direct, meter
  <1>8. CASE s \in FlatSections
    BY <1>3, <1>4, <1>5, <1>6, <1>8, FlatSectionPrices DEF FlatSections, meter
  <1>9. CASE s = "disk_gb_month"
    <2>1. Flattened(s, FetchDiskPerGb(all)) = PricesOf(s, meter)
      BY <1>3, <1>4, <1>9, DiskPerGb DEF meter
    <2> QED
      BY <1>6, <1>9, <2>1 DEF Rewritten
  <1>10. CASE s = "container_apps_hour"
    <2>1. Flattened(s, FetchContainerAppsRates(all)) = PricesOf(s, meter)
      BY <1>3, <1>4, <1>10, ContainerApps DEF meter
    <2> QED
      BY <1>6, <1>10, <2>1 DEF Rewritten
  <1>11. CASE s = "nat_gateway_hour"
    <2>1. Flattened(s, FetchNatRates(all)) = PricesOf(s, meter)
      BY <1>3, <1>4, <1>5, <1>11, NatRates DEF meter
    <2> QED
      BY <1>6, <1>11, <2>1 DEF Rewritten
  <1>12. CASE s = "load_balancer_hour"
    <2>1. Flattened(s, FetchLoadBalancerRates(all)) = PricesOf(s, meter)
      BY <1>3, <1>4, <1>5, <1>12, LoadBalancerRates DEF meter
    <2> QED
      BY <1>6, <1>12, <2>1 DEF Rewritten
  <1>13. CASE s = "dns_zone_month"
    <2>1. Flattened(s, FetchDnsRates(all)) = PricesOf(s, meter)
      BY <1>3, <1>4, <1>5, <1>13, DnsRates DEF meter
    <2> QED
      BY <1>6, <1>13, <2>1 DEF Rewritten
  <1>14. CASE s = "acr_registry_day"
    <2>1. Flattened(s, FetchAcrRates(all)) = PricesOf(s, meter)
      BY <1>4, <1>5, <1>14, RegistryRates DEF meter
    <2> QED
      BY <1>6, <1>14, <2>1 DEF Rewritten
  <1>15. CASE s = "keyvault_key_month"
    <2>1. Flattened(s, FetchKeyVaultRates(all))
            = Updated(PricesOf(s, meter), [k \in {Everywhere(s, "software")} |-> 0])
      BY <1>3, <1>4, <1>15, KeyVaultRates DEF meter
    <2>2. Prices(e, s) = Updated(PricesOf(s, meter), [k \in {Everywhere(s, "software")} |-> 0])
      BY <1>2, <1>15 DEF Prices, Everywhere, Origin, LogSections
    <2> QED
      BY <1>15, <2>1, <2>2 DEF Rewritten
  <1>16. CASE s = "dedicated_host_hour"
    <2> DEFINE aliases == AliasesIn(e)
    <2>1. aliases = [r \in ToSet(all) |-> HostAlias(r)]
      BY <1>16 DEF AliasesIn, all
    <2>2. OneCharge(s, aliases)
      BY <1>16 DEF TiersDiffer
    <2> HIDE DEF aliases
    <2>3. Flattened(s, FetchDedicatedHostRates(all)) = Updated(PricesOf(s, aliases), PricesOf(s, meter))
      BY <1>3, <1>4, <1>16, <2>1, <2>2, HostRates DEF meter
    <2>4. Prices(e, s) = Updated(PricesOf(s, aliases), PricesOf(s, meter))
      BY <1>2, <1>16 DEF Prices, aliases
    <2> QED
      BY <1>16, <2>3, <2>4 DEF Rewritten
  <1>17. CASE s = "aks_cluster_hour"
    <2> DEFINE published == PricesOf(s, meter)
    <2>1. Flattened(s, FetchClusterFee(all))
            = Updated(published, [k \in {<<q[1], "Free">> : q \in DOMAIN published} |-> 0])
      BY <1>3, <1>4, <1>17, ClusterFees DEF meter
    <2>2. Prices(e, s) = Updated(published, [k \in {<<q[1], "Free">> : q \in DOMAIN published} |-> 0])
      BY <1>2, <1>17 DEF Prices
    <2> QED
      BY <1>17, <2>1, <2>2 DEF Rewritten
  <1> QED
    BY <1>1, <1>7, <1>8, <1>9, <1>10, <1>11, <1>12, <1>13, <1>14, <1>15, <1>16, <1>17 DEF Named, Other

\* Where the rows of a meter differ in their tier and price only, each fetcher
\* makes of a whole answer what the edition publishes (refresh.py:173-722,
\* packs/aks/refresh.py:24-37).
THEOREM FetchersMakePrices == TiersDiffer => FetchersAreRight
  <1>1. SUFFICES ASSUME TiersDiffer, NEW e \in Editions, NEW f \in Fetchers,
                        DOMAIN Produce(f, Catalog[e][f]) \subseteq Declared(f),
                        NEW s \in DOMAIN Produce(f, Catalog[e][f])
                 PROVE  Flattened(s, Produce(f, Catalog[e][f])[s]) = Prices(e, s)
    BY DEF FetchersAreRight
  <1> DEFINE all == Catalog[e][f]
             meter == MeterOf(s, all)
  <1>2. /\ s \in Declared(f) /\ FetcherOf(s) = f
        /\ f = "log_analytics" <=> s \in {"log_ingestion_gb", "log_retention_gb_month"}
        /\ f # "log_analytics" => s = f /\ s \in Named \ {"log_analytics"}
    BY <1>1, DeclaredFacts
  <1>3. VariantsIn(e, s) = meter /\ Published(e, s) = PricesOf(s, meter)
    BY <1>2 DEF VariantsIn, MeterOf, Published
  <1>4. s # "acr_registry_day" => OneCharge(s, meter)
    BY <1>1, <1>2, <1>3 DEF TiersDiffer
  <1>5. IsAnswer(all)
    BY CatalogAnswers
  <1>6. "_value" # None
    BY RefreshAssumption
  <1>7. CASE f = "log_analytics"
    <2>1. Produce(f, all)[s] = FetchLogAnalyticsRates(all)[s]
      BY <1>7 DEF Produce
    <2>2. Prices(e, s) = PricesOf(s, meter)
      BY <1>2, <1>3, <1>7 DEF Prices
    <2> HIDE DEF all
    <2>3. Flattened(s, FetchLogAnalyticsRates(all)[s]) = PricesOf(s, meter)
      BY <1>2, <1>4, <1>5, <1>6, <1>7, LogRates
    <2> QED
      BY <2>1, <2>2, <2>3 DEF all
  <1>8. CASE f = "team_month"
    <2>1. s = "team_month"
      BY <1>2, <1>8
    <2>2. Produce(f, all) = FetchTeamRates(all)
      BY <1>8 DEF Produce
    <2>3. DOMAIN FetchTeamRates(all) \subseteq {s} /\ s \in DOMAIN FetchTeamRates(all)
      BY <1>1, <1>8, <2>1, <2>2 DEF Declared
    <2>4. Prices(e, s) = PricesOf(s, meter)
      BY <1>3, <2>1 DEF Prices
    <2> HIDE DEF all
    <2>5. Flattened(s, FetchTeamRates(all)[s]) = PricesOf(s, meter)
      BY <1>4, <1>5, <1>6, <2>1, <2>3, TeamRates
    <2> QED
      BY <2>2, <2>4, <2>5 DEF all
  <1>9. CASE f \notin {"log_analytics", "team_month"}
    <2>1. s = f /\ Produce(f, all)[s] = Rewritten(s, all)
      BY <1>2, <1>9 DEF Produce
    <2> QED
      BY <1>1, <1>2, <1>9, <2>1, RewrittenPrices
  <1> QED
    BY <1>7, <1>8, <1>9

\* Where the rows of a meter differ in their tier and price only, a refresh
\* that read the catalog has exactly its prices, wherever a page ended, however
\* often it was asked for again, in whatever order the rows came, and whatever
\* the other fetchers made (refresh.py:104-134, 173-252, 736-747).
THEOREM PricesAreRight ==
  ASSUME TiersDiffer
  PROVE  RefreshSpec => []PricesAreTheCharges
  <1>1. ReadInv => PricesAreTheCharges
    <2>. SUFFICES ASSUME ReadInv, NEW s \in DOMAIN payload
                  PROVE  Flattened(s, payload[s]) = Prices(edition, s)
      BY DEF PricesAreTheCharges
    <2>1. edition \in Editions /\ Made(edition, s, payload[s])
      BY DEF ReadInv, AllMade
    <2>. QED BY <2>1, FetchersMakePrices DEF Made, FetchersAreRight
  <1>. QED BY <1>1, InitRead, NextRead, PTL DEF RefreshSpec

----------------------------------------------------------------------------
(* The rates a check reads from a table that holds the prices.             *)

\* Every section of table t holds what edition e publishes.
Right(t, e) ==
  /\ \A s \in DOMAIN t.sections : Flattened(s, t.sections[s]) = Prices(e, s)

\* Price p is what edition e publishes for that place and variant.
IsPrice(p, e, s, place, v) == <<place, v>> \in DOMAIN Prices(e, s) /\ Prices(e, s)[<<place, v>>] = p

\* A month at a rate is a month at what edition e publishes.
MonthOf(rate, e, spec, place, v) ==
  \E p : IsPrice(p, e, spec.section, place, v) /\ rate.usd = Monthly(p, spec)
AcrMonthOf(rate, e, v) ==
  \E p : IsPrice(p, e, "acr_registry_day", "", v) /\ rate.usd = (p * HoursPerMonth) \div 24
ZoneTier(e, s, v) == IF <<"", v>> \notin DOMAIN Prices(e, s) THEN "first_25" ELSE v
DnsMonthOf(rate, e, v) ==
  \E p : IsPrice(p, e, "dns_zone_month", "", ZoneTier(e, "dns_zone_month", v)) /\ rate.usd = p

\* What a section of each of the three shapes holds is published.
LEMMA GlobalPrice ==
  ASSUME NEW t, NEW e, Right(t, e), NEW s \in GlobalSections, NEW v \in DOMAIN Section(t, s)
  PROVE  IsPrice(Section(t, s)[v], e, s, Origin(s), v)
  <1> DEFINE data == t.sections[s]
             flat == [k \in {Origin(s)} \X (DOMAIN data) |-> data[k[2]]]
  <1>1. s \in DOMAIN t.sections /\ Section(t, s) = data
    <2>1. CASE s \notin DOMAIN t.sections
      BY <2>1 DEF Section
    <2> QED
      BY <2>1 DEF Section
  <1>2. Flattened(s, data) = flat
    BY DEF Flattened, FlatSections, GlobalSections, LogSections
  <1>3. Prices(e, s) = flat
    BY <1>1, <1>2 DEF Right
  <1>4. v \in DOMAIN data
    BY <1>1
  <1> HIDE DEF data
  <1>5. <<Origin(s), v>> \in {Origin(s)} \X (DOMAIN data)
    BY <1>4
  <1>6. <<Origin(s), v>> \in DOMAIN flat /\ flat[<<Origin(s), v>>] = data[v]
    BY <1>5
  <1> HIDE DEF flat
  <1> QED
    BY <1>1, <1>3, <1>6 DEF IsPrice

LEMMA FlatPrice ==
  ASSUME NEW t, NEW e, Right(t, e), NEW s \in FlatSections, NEW g \in DOMAIN Section(t, s)
  PROVE  IsPrice(Section(t, s)[g], e, s, g, "_value")
  <1> DEFINE data == t.sections[s]
             flat == [k \in (DOMAIN data) \X {"_value"} |-> data[k[1]]]
  <1>1. s \in DOMAIN t.sections /\ Section(t, s) = data
    <2>1. CASE s \notin DOMAIN t.sections
      BY <2>1 DEF Section
    <2> QED
      BY <2>1 DEF Section
  <1>2. Flattened(s, data) = flat
    BY DEF Flattened, FlatSections, GlobalSections, LogSections
  <1>3. Prices(e, s) = flat
    BY <1>1, <1>2 DEF Right
  <1>4. g \in DOMAIN data
    BY <1>1
  <1> HIDE DEF data
  <1>5. <<g, "_value">> \in (DOMAIN data) \X {"_value"}
    BY <1>4
  <1>6. <<g, "_value">> \in DOMAIN flat /\ flat[<<g, "_value">>] = data[g]
    BY <1>5
  <1> HIDE DEF flat
  <1> QED
    BY <1>1, <1>3, <1>6 DEF IsPrice

LEMMA VariantPrice ==
  ASSUME NEW t, NEW e, Right(t, e), NEW s, s \notin GlobalSections \cup FlatSections,
         NEW g \in DOMAIN Section(t, s), NEW v \in DOMAIN Section(t, s)[g]
  PROVE  IsPrice(Section(t, s)[g][v], e, s, g, v)
  <1> DEFINE data == t.sections[s]
             keys == UNION {{h} \X (DOMAIN data[h]) : h \in DOMAIN data}
             flat == [k \in keys |-> data[k[1]][k[2]]]
  <1>1. s \in DOMAIN t.sections /\ Section(t, s) = data
    <2>1. CASE s \notin DOMAIN t.sections
      BY <2>1 DEF Section
    <2> QED
      BY <2>1 DEF Section
  <1>2. Flattened(s, data) = flat
    BY DEF Flattened
  <1>3. Prices(e, s) = flat
    BY <1>1, <1>2 DEF Right
  <1>4. g \in DOMAIN data /\ v \in DOMAIN data[g]
    BY <1>1
  <1> HIDE DEF data
  <1>5. <<g, v>> \in keys
    BY <1>4
  <1> HIDE DEF keys
  <1>6. <<g, v>> \in DOMAIN flat /\ flat[<<g, v>>] = data[g][v]
    BY <1>5
  <1> HIDE DEF flat
  <1> QED
    BY <1>1, <1>3, <1>6 DEF IsPrice

\* The registered rates: which sections hold prices for everywhere, which by
\* region only.
Single == {"snapshot_gb_month", "blob_gb_month", "public_ip_hour", "nat_gateway_hour",
           "load_balancer_hour", "log_ingestion_gb", "log_retention_gb_month"}
Shaped(spec) ==
  /\ spec.key \notin Resolvers
  /\ spec.global <=> spec.section \in GlobalSections
  /\ ~spec.global => (spec.variants <=> spec.section \notin FlatSections)
  /\ ~spec.variants => spec.section \in Single

\* What a registration makes is of one of the shapes.
LEMMA SpecShapes ==
  ASSUME NEW k, k \notin Resolvers
  PROVE  /\ \A s \in FlatSections : Shaped(Regional(k, s)) /\ Shaped(Hourly(Regional(k, s)))
         /\ \A s \in Single \ FlatSections : Shaped(Global(k, s)) /\ Shaped(Hourly(Global(k, s)))
         /\ \A s : s \notin GlobalSections \cup FlatSections =>
              /\ Shaped(Variants(k, s)) /\ Shaped(Hourly(Variants(k, s)))
              /\ \A d : Shaped([Variants(k, s) EXCEPT !.default = d])
         /\ \A s \in GlobalSections : Shaped([Variants(k, s) EXCEPT !.global = TRUE])
  <1> USE DEF Shaped, Regional
  <1>1. \A s \in FlatSections : Shaped(Regional(k, s)) /\ Shaped(Hourly(Regional(k, s)))
    BY DEF FlatSections, GlobalSections, LogSections, Single, Hourly
  <1>2. \A s \in Single \ FlatSections : Shaped(Global(k, s)) /\ Shaped(Hourly(Global(k, s)))
    BY DEF FlatSections, GlobalSections, LogSections, Single, Hourly, Global
  <1>3. ASSUME NEW s, s \notin GlobalSections \cup FlatSections
        PROVE  /\ Shaped(Variants(k, s)) /\ Shaped(Hourly(Variants(k, s)))
               /\ \A d : Shaped([Variants(k, s) EXCEPT !.default = d])
    BY <1>3 DEF Variants, Hourly
  <1>4. \A s \in GlobalSections : Shaped([Variants(k, s) EXCEPT !.global = TRUE])
    BY DEF Variants
  <1> HIDE DEF Shaped, Regional
  <1> QED
    BY <1>1, <1>2, <1>3, <1>4

\* Each registered rate is.
LEMMA RatesShaped == \A spec \in Rates : Shaped(spec)
  <1>1. \A k \in {"snapshot.gb_month", "blob.gb_month", "public_ip.month", "nat_gateway.month",
                  "load_balancer.month", "log.ingestion_gb", "log.retention_gb_month",
                  "disk.tier_month", "disk.gb_month", "sql.storage_gb_month", "app_service.month",
                  "dedicated_host.month", "ptu.month", "container_apps.month", "keyvault.key_month",
                  "aks.cluster_month"} : k \notin Resolvers
    BY DEF Resolvers
  <1>2. /\ Shaped(Regional("snapshot.gb_month", "snapshot_gb_month"))
        /\ Shaped(Regional("blob.gb_month", "blob_gb_month"))
        /\ Shaped(Hourly(Regional("public_ip.month", "public_ip_hour")))
    BY <1>1, SpecShapes DEF FlatSections
  <1>3. /\ Shaped(Hourly(Global("nat_gateway.month", "nat_gateway_hour")))
        /\ Shaped(Hourly(Global("load_balancer.month", "load_balancer_hour")))
        /\ Shaped(Global("log.ingestion_gb", "log_ingestion_gb"))
        /\ Shaped(Global("log.retention_gb_month", "log_retention_gb_month"))
    BY <1>1, SpecShapes DEF Single, FlatSections
  <1>4. /\ Shaped(Variants("disk.tier_month", "disk_tier_month"))
        /\ Shaped(Variants("disk.gb_month", "disk_gb_month"))
        /\ Shaped([Variants("sql.storage_gb_month", "sql_storage_gb_month")
                     EXCEPT !.default = "general_purpose"])
    BY <1>1, SpecShapes DEF GlobalSections, LogSections, FlatSections
  <1>5. /\ Shaped(Hourly(Variants("app_service.month", "app_service_hour")))
        /\ Shaped(Hourly(Variants("dedicated_host.month", "dedicated_host_hour")))
        /\ Shaped(Hourly(Variants("ptu.month", "ptu_hour")))
        /\ Shaped(Hourly(Variants("container_apps.month", "container_apps_hour")))
        /\ Shaped(Hourly(Variants("aks.cluster_month", "aks_cluster_hour")))
    BY <1>1, SpecShapes DEF GlobalSections, LogSections, FlatSections
  <1>6. Shaped([Variants("keyvault.key_month", "keyvault_key_month") EXCEPT !.global = TRUE])
    BY <1>1, SpecShapes DEF GlobalSections, LogSections
  <1> QED
    BY <1>2, <1>3, <1>4, <1>5, <1>6 DEF Rates, AksRates

\* The specification registered for a key.
LEMMA RateSpecFacts ==
  ASSUME NEW spec \in Rates
  PROVE  RateSpec(spec.key) \in Rates /\ RateSpec(spec.key).key = spec.key
  BY DEF RateSpec

\* What is published is published of some row.
LEMMA PublishedOf ==
  ASSUME NEW e, NEW s, NEW k \in DOMAIN Published(e, s)
  PROVE  \E r : VariantOf(s, r) # None /\ k[2] = VariantOf(s, r)
  <1> DEFINE meter == VariantsIn(e, s)
             keys == {Of(s, meter, r) : r \in Priced(s, meter)}
             price(w) == Times(s, w[2]) * Charge(s, Tiers(s, meter, w))
  <1>1. Published(e, s) = [w \in keys |-> price(w)]
    BY DEF Published, PricesOf
  <1>2. \A r \in DOMAIN meter : meter[r] = VariantOf(s, r)
    BY DEF VariantsIn
  <1> HIDE DEF meter
  <1>3. k \in keys
    <2> HIDE DEF keys, price
    <2> QED
      BY <1>1
  <1>4. PICK r \in Priced(s, meter) : k = Of(s, meter, r)
    BY <1>3
  <1>5. r \in DOMAIN meter /\ meter[r] # None
    BY DEF Priced
  <1>6. k[2] = meter[r]
    BY <1>4 DEF Of
  <1> QED
    BY <1>2, <1>5, <1>6

\* Where a section has one price in each place, its variant is called "_value".
LEMMA OneVariant ==
  ASSUME NEW s \in Single, NEW v \in VariantsOf(s)
  PROVE  v = "_value"
  <1>1. PICK e \in Editions : \E k \in DOMAIN Prices(e, s) : v = k[2]
    BY DEF VariantsOf
  <1>2. Prices(e, s) = Published(e, s)
    BY DEF Prices, Single
  <1>3. PICK k \in DOMAIN Published(e, s) : v = k[2]
    BY <1>1, <1>2
  <1>4. PICK r : VariantOf(s, r) # None /\ v = VariantOf(s, r)
    BY <1>3, PublishedOf
  <1>5. \E c : VariantOf(s, r) = When(c)
    <2>1. CASE s = "snapshot_gb_month"
      BY <2>1 DEF VariantOf
    <2>2. CASE s = "blob_gb_month"
      BY <2>2 DEF VariantOf
    <2>3. CASE s = "public_ip_hour"
      BY <2>3 DEF VariantOf
    <2>4. CASE s = "nat_gateway_hour"
      BY <2>4 DEF VariantOf
    <2>5. CASE s = "load_balancer_hour"
      BY <2>5 DEF VariantOf
    <2>6. CASE s = "log_ingestion_gb"
      BY <2>6 DEF VariantOf
    <2>7. CASE s = "log_retention_gb_month"
      BY <2>7 DEF VariantOf
    <2> QED
      BY <2>1, <2>2, <2>3, <2>4, <2>5, <2>6, <2>7 DEF Single
  <1> QED
    BY <1>4, <1>5 DEF When

\* A snapshot's or a blob's price is a number.
LEMMA FlatCharge ==
  ASSUME NEW e \in Editions, NEW s \in FlatSections, NEW k \in DOMAIN Prices(e, s)
  PROVE  Prices(e, s)[k] \in Nat
  <1> DEFINE all == Catalog[e][FetcherOf(s)]
             meter == VariantsIn(e, s)
             tiers == Tiers(s, meter, k)
             charging == {r \in tiers : r.price # 0}
             lowest == CHOOSE r \in charging : \A q \in charging : r.tier <= q.tier
             charge == Charge(s, tiers)
             published == PricesOf(s, meter)
  <1>1. Prices(e, s) = published
    BY DEF Prices, Published, FlatSections
  <1>2. FetcherOf(s) \in Fetchers
    BY DEF FetcherOf, FlatSections, Fetchers, Core, Aks, Team, ToSet
  <1>3. \A r \in ToSet(all) : r.tier \in Nat /\ r.price \in Nat
    BY <1>2, CatalogAnswers DEF IsAnswer
  <1>4. DOMAIN meter = ToSet(all)
    BY DEF VariantsIn
  <1> HIDE DEF all, meter
  <1>5. charging \subseteq ToSet(all)
    BY <1>4 DEF Tiers, Priced
  <1>6. charge = IF charging = {} THEN 0 ELSE lowest.price
    BY DEF Charge, FlatSections
  <1>7. published[k] = Times(s, k[2]) * charge
    <2>1. k \in DOMAIN published
      BY <1>1
    <2> QED
      BY <2>1 DEF PricesOf
  <1>8. Times(s, k[2]) = 1
    BY TimesFacts DEF FlatSections
  <1> HIDE DEF charging, tiers, published
  <1>9. charging # {} => lowest \in charging
    BY <1>3, <1>5, LowestTier
  <1>10. charge \in Nat
    BY <1>3, <1>5, <1>6, <1>9
  <1> HIDE DEF charge
  <1> QED
    BY <1>1, <1>7, <1>8, <1>10, OneTimes

\* A rate of a section of prices for everywhere.
LEMMA GlobalExact ==
  ASSUME NEW t, NEW e, Right(t, e), NEW spec, Shaped(spec), spec.global, NEW v,
         ~spec.variants => v = "_value", NEW rate, rate = ApplyGlobal(t, spec, v), ~rate.approximate
  PROVE  MonthOf(rate, e, spec, Origin(spec.section), v)
  <1> DEFINE s == spec.section
             prices == Section(t, s)
             price == Entry(prices, v)
  <1>1. s \in GlobalSections
    BY DEF Shaped
  <1>2. rate = IF price = None THEN Unpriced ELSE Exactly(Monthly(price, spec))
    BY DEF ApplyGlobal
  <1>3. price # None /\ rate.usd = Monthly(price, spec)
    BY <1>2 DEF Unpriced, About, Exactly
  <1>4. v \in DOMAIN prices /\ price = prices[v]
    BY <1>3 DEF Entry
  <1>5. IsPrice(price, e, s, Origin(s), v)
    BY <1>1, <1>4, GlobalPrice
  <1> QED
    BY <1>3, <1>5 DEF MonthOf

\* Where the fallback region is looked up, the rate is approximate.
LEMMA LookupFacts ==
  ASSUME NEW t, NEW s, NEW region, ~Lookup(t, s, region).approximate
  PROVE  region \in DOMAIN Section(t, s) /\ Lookup(t, s, region).entry = Section(t, s)[region]
  BY DEF Lookup

\* A rate of a section of variants by region: the default is approximate.
LEMMA VariantExact ==
  ASSUME NEW t, NEW e, Right(t, e), NEW spec, Shaped(spec), ~spec.global, spec.variants, NEW v,
         NEW region, NEW rate, rate = ApplyVariant(spec, Lookup(t, spec.section, region), v),
         ~rate.approximate
  PROVE  MonthOf(rate, e, spec, region, v)
  <1> DEFINE s == spec.section
             found == Lookup(t, s, region)
             default == Entry(found.entry, spec.default)
  <1>1. s \notin GlobalSections \cup FlatSections
    BY DEF Shaped
  <1>2. found.entry # None /\ v \in DOMAIN found.entry
    <2>1. CASE found.entry = None
      <3>1. rate = Unpriced
        BY <2>1 DEF ApplyVariant
      <3> QED
        BY <3>1 DEF Unpriced, About
    <2>2. CASE found.entry # None /\ v \notin DOMAIN found.entry
      <3>1. rate = IF default = None THEN Unpriced ELSE About(Monthly(default, spec))
        BY <2>2 DEF ApplyVariant
      <3> HIDE DEF default
      <3>2. rate.approximate
        BY <3>1 DEF Unpriced, About
      <3> QED
        BY <3>2
    <2> QED
      BY <2>1, <2>2
  <1>3. rate = [usd |-> Monthly(found.entry[v], spec), approximate |-> found.approximate]
    BY <1>2 DEF ApplyVariant
  <1>4. ~found.approximate /\ rate.usd = Monthly(found.entry[v], spec)
    BY <1>3
  <1>5. region \in DOMAIN Section(t, s) /\ found.entry = Section(t, s)[region]
    BY <1>4, LookupFacts
  <1> HIDE DEF found
  <1>6. IsPrice(found.entry[v], e, s, region, v)
    BY <1>1, <1>2, <1>5, VariantPrice
  <1> QED
    BY <1>4, <1>6 DEF MonthOf

\* A rate of a section of one price by region: none there is is approximate,
\* and one that is zero is published as zero.
LEMMA FlatExact ==
  ASSUME NEW t, NEW e \in Editions, Right(t, e), NEW spec, Shaped(spec), ~spec.global, ~spec.variants,
         NEW region, NEW rate, rate = ApplyFlat(spec, Lookup(t, spec.section, region)),
         ~rate.approximate
  PROVE  MonthOf(rate, e, spec, region, "_value")
  <1> DEFINE s == spec.section
             found == Lookup(t, s, region)
             p == found.entry
  <1>1. s \in FlatSections
    BY DEF Shaped
  <1>2. ~found.approximate
    <2>1. CASE p \in {None, 0}
      BY <2>1 DEF ApplyFlat
    <2>2. CASE p \notin {None, 0}
      BY <2>2 DEF ApplyFlat
    <2> QED
      BY <2>1, <2>2
  <1>3. region \in DOMAIN Section(t, s) /\ p = Section(t, s)[region]
    BY <1>2, LookupFacts
  <1>4. IsPrice(p, e, s, region, "_value")
    BY <1>1, <1>3, FlatPrice
  <1>5. p \in Nat
    BY <1>1, <1>4, FlatCharge DEF IsPrice
  <1>6. rate.usd = Monthly(p, spec)
    <2>1. CASE p = 0
      <3>1. rate.usd = 0
        BY <2>1 DEF ApplyFlat
      <3>2. Monthly(p, spec) = 0
        BY <2>1 DEF Monthly, HoursPerMonth
      <3> QED
        BY <3>1, <3>2
    <2>2. CASE p # 0
      <3>1. p \notin {None, 0}
        BY <1>5, <2>2, RefreshAssumption
      <3> QED
        BY <3>1 DEF ApplyFlat
    <2> QED
      BY <2>1, <2>2
  <1> QED
    BY <1>4, <1>6 DEF MonthOf

\* So a registered rate, whatever its shape.
LEMMA ApplyExact ==
  ASSUME NEW t, NEW e \in Editions, Right(t, e), NEW spec, Shaped(spec), NEW region, NEW v,
         ~spec.variants => v = "_value", NEW rate, rate = Apply(t, spec, region, v), ~rate.approximate
  PROVE  MonthOf(rate, e, spec, IF spec.section \in GlobalSections THEN Origin(spec.section) ELSE region, v)
  <1> DEFINE place == IF spec.section \in GlobalSections THEN Origin(spec.section) ELSE region
  <1>1. place = IF spec.global THEN Origin(spec.section) ELSE region
    BY DEF Shaped
  <1> HIDE DEF place
  <1>2. CASE spec.global
    <2>1. rate = ApplyGlobal(t, spec, v)
      BY <1>2 DEF Apply
    <2>2. MonthOf(rate, e, spec, Origin(spec.section), v)
      BY <1>2, <2>1, GlobalExact
    <2>3. place = Origin(spec.section)
      BY <1>1, <1>2
    <2> QED
      BY <2>2, <2>3 DEF place
  <1>3. CASE ~spec.global /\ spec.variants
    <2>1. rate = ApplyVariant(spec, Lookup(t, spec.section, region), v)
      BY <1>3 DEF Apply
    <2>2. MonthOf(rate, e, spec, region, v)
      BY <1>3, <2>1, VariantExact
    <2>3. place = region
      BY <1>1, <1>3
    <2> QED
      BY <2>2, <2>3 DEF place
  <1>4. CASE ~spec.global /\ ~spec.variants
    <2>1. rate = ApplyFlat(spec, Lookup(t, spec.section, region))
      BY <1>4 DEF Apply
    <2>2. MonthOf(rate, e, spec, region, "_value")
      BY <1>4, <2>1, FlatExact
    <2>3. place = region /\ v = "_value"
      BY <1>1, <1>4
    <2> QED
      BY <2>2, <2>3 DEF place
  <1> QED
    BY <1>2, <1>3, <1>4

\* A VM size asked for in any case is the one published.
LEMMA VmExact ==
  ASSUME NEW t, NEW e \in Editions, Right(t, e), SizesDiffer, NEW region,
         NEW v \in VariantsOf("vm_hour"),
         NEW rate, rate = VmMonth(t, region, v), ~rate.approximate
  PROVE  \E p : IsPrice(p, e, "vm_hour", region, v) /\ rate.usd = p * HoursPerMonth
  <1> DEFINE found == Lookup(t, "vm_hour", region)
             same == IF found.entry = None THEN {}
                     ELSE {n \in DOMAIN found.entry : SizeNames[n] = SizeNames[v]}
             name == IF v \in same THEN v ELSE CHOOSE n \in same : TRUE
  <1>1. rate = IF same = {} THEN Unpriced
               ELSE [usd |-> found.entry[name] * HoursPerMonth, approximate |-> found.approximate]
    BY DEF VmMonth
  <1>2. \A n \in same : n \in DOMAIN found.entry /\ SizeNames[n] = SizeNames[v]
    OBVIOUS
  <1> HIDE DEF same, found
  <1>3. name \in same \/ same = {}
    OBVIOUS
  <1> HIDE DEF name
  <1>4. /\ same # {} /\ ~found.approximate
        /\ rate.usd = found.entry[name] * HoursPerMonth
    BY <1>1 DEF Unpriced, About
  <1>5. region \in DOMAIN Section(t, "vm_hour") /\ found.entry = Section(t, "vm_hour")[region]
    BY <1>4, LookupFacts DEF found
  <1>6. name \in DOMAIN found.entry /\ SizeNames[name] = SizeNames[v]
    BY <1>2, <1>3, <1>4
  <1>7. IsPrice(found.entry[name], e, "vm_hour", region, name)
    <2>1. "vm_hour" \notin GlobalSections \cup FlatSections
      BY DEF GlobalSections, LogSections, FlatSections
    <2> QED
      BY <1>5, <1>6, <2>1, VariantPrice
  <1>8. name \in VariantsOf("vm_hour")
    BY <1>7 DEF IsPrice, VariantsOf
  <1>9. name = v
    BY <1>6, <1>8 DEF SizesDiffer
  <1> QED
    BY <1>4, <1>7, <1>9

\* A registry's month, from the day's price of its tier.
LEMMA AcrExact ==
  ASSUME NEW t, NEW e, Right(t, e), NEW v,
         NEW rate, rate = AcrRegistryMonth(t, v), ~rate.approximate
  PROVE  AcrMonthOf(rate, e, v)
  <1> DEFINE prices == Section(t, "acr_registry_day")
             price == Entry(prices, v)
  <1>1. rate = IF price = None THEN Unpriced ELSE Exactly((price * HoursPerMonth) \div 24)
    BY DEF AcrRegistryMonth
  <1> HIDE DEF price
  <1>2. price # None /\ rate.usd = (price * HoursPerMonth) \div 24
    BY <1>1 DEF Unpriced, About, Exactly
  <1>3. v \in DOMAIN prices /\ price = prices[v]
    BY <1>2 DEF Entry, price
  <1>4. "acr_registry_day" \in GlobalSections
    BY DEF GlobalSections, LogSections
  <1>5. IsPrice(price, e, "acr_registry_day", "", v)
    BY <1>3, <1>4, GlobalPrice DEF Origin, LogSections
  <1> QED
    BY <1>2, <1>5 DEF AcrMonthOf

\* A tier that is published is in the table.
LEMMA GlobalKey ==
  ASSUME NEW t, NEW e, Right(t, e), NEW s \in GlobalSections, Section(t, s) # <<>>, NEW v,
         <<Origin(s), v>> \in DOMAIN Prices(e, s)
  PROVE  v \in DOMAIN Section(t, s)
  <1> DEFINE data == t.sections[s]
             keys == {Origin(s)} \X (DOMAIN data)
             flat == [k \in keys |-> data[k[2]]]
  <1>1. s \in DOMAIN t.sections /\ Section(t, s) = data
    BY DEF Section
  <1>2. Flattened(s, data) = flat
    BY DEF Flattened, FlatSections, GlobalSections, LogSections
  <1>3. Prices(e, s) = flat
    BY <1>1, <1>2 DEF Right
  <1>4. <<Origin(s), v>> \in keys
    <2> HIDE DEF keys
    <2> QED
      BY <1>3
  <1> HIDE DEF data
  <1> QED
    BY <1>1, <1>4

\* A zone among few or among many; with no price beyond the first 25, it is
\* charged at theirs.
LEMMA DnsExact ==
  ASSUME NEW t, NEW e, Right(t, e), NEW v \in {"first_25", "beyond_25"},
         NEW rate, rate = DnsZone(t, IF v = "first_25" THEN 1 ELSE 30), ~rate.approximate
  PROVE  DnsMonthOf(rate, e, v)
  <1> DEFINE s == "dns_zone_month"
             tiers == Section(t, s)
             zones == IF v = "first_25" THEN 1 ELSE 30
             tier == IF zones > 25 /\ "beyond_25" \in DOMAIN tiers THEN "beyond_25" ELSE "first_25"
  <1>1. s \in GlobalSections
    BY DEF GlobalSections, LogSections
  <1>2. tier = IF v = "beyond_25" /\ "beyond_25" \in DOMAIN tiers THEN "beyond_25" ELSE "first_25"
    OBVIOUS
  <1>3. tiers # <<>> /\ tier \in DOMAIN tiers /\ rate.usd = tiers[tier]
    <2> HIDE DEF tiers
    <2>1. CASE tiers = <<>>
      <3>1. rate = Unpriced
        BY <2>1 DEF DnsZone, tiers
      <3> QED
        BY <3>1 DEF Unpriced, About
    <2>2. CASE tiers # <<>> /\ tier \notin DOMAIN tiers
      <3>1. rate = About(tiers["beyond_25"])
        BY <2>2 DEF DnsZone, tiers
      <3> QED
        BY <3>1 DEF About
    <2>3. CASE tiers # <<>> /\ tier \in DOMAIN tiers
      <3>1. rate = Exactly(tiers[tier])
        BY <2>3 DEF DnsZone, tiers
      <3> QED
        BY <2>3, <3>1 DEF Exactly
    <2> QED
      BY <2>1, <2>2, <2>3
  <1> HIDE DEF tier, zones
  <1>4. IsPrice(tiers[tier], e, s, "", tier)
    BY <1>1, <1>3, GlobalPrice DEF Origin, LogSections
  <1>5. v = tier => <<"", v>> \in DOMAIN Prices(e, s)
    BY <1>4 DEF IsPrice
  <1>6. v # tier => tier = "first_25" /\ <<"", v>> \notin DOMAIN Prices(e, s)
    <2>1. v # tier => tier = "first_25" /\ v \notin DOMAIN tiers
      BY <1>2
    <2>2. <<"", v>> \in DOMAIN Prices(e, s) => v \in DOMAIN tiers
      BY <1>1, <1>3, GlobalKey DEF Origin, LogSections
    <2> QED
      BY <2>1, <2>2
  <1>7. tier = ZoneTier(e, s, v)
    BY <1>5, <1>6 DEF ZoneTier
  <1> QED
    BY <1>3, <1>4, <1>7 DEF DnsMonthOf

\* Zones are published in two tiers.
LEMMA DnsVariants ==
  ASSUME NEW v \in VariantsOf("dns_zone_month")
  PROVE  v \in {"first_25", "beyond_25"}
  <1> DEFINE s == "dns_zone_month"
  <1>1. PICK e \in Editions : \E k \in DOMAIN Prices(e, s) : v = k[2]
    BY DEF VariantsOf
  <1>2. Prices(e, s) = Published(e, s)
    BY DEF Prices
  <1>3. PICK k \in DOMAIN Published(e, s) : v = k[2]
    BY <1>1, <1>2
  <1>4. PICK r : VariantOf(s, r) # None /\ v = VariantOf(s, r)
    BY <1>3, PublishedOf
  <1>5. VariantOf(s, r) \in {None, "first_25", "beyond_25"}
    BY DEF VariantOf, DnsTier
  <1> QED
    BY <1>4, <1>5

\* The rate that answers a question, the place and the variant its price is
\* published for, and what it comes to in a month.
Answered(rate, e, q, region) ==
  \E p : /\ IsPrice(p, e, q.section, IF q.section \in GlobalSections THEN Origin(q.section) ELSE region,
                    IF q.key = "dns.zone_month" /\ <<"", q.variant>> \notin DOMAIN Prices(e, q.section)
                    THEN "first_25" ELSE q.variant)
         /\ rate.usd = CASE q.key = "acr.registry_month" -> (p * HoursPerMonth) \div 24
                          [] q.key = "vm.month" -> p * HoursPerMonth
                          [] q.key = "dns.zone_month" -> p
                          [] OTHER -> Monthly(p, RateSpec(q.key))

LEMMA AnswerExact ==
  ASSUME NEW t, NEW e \in Editions, Right(t, e), SizesDiffer, NEW q \in Questions, NEW region,
         NEW rate,
         rate = Rate(t, q.key, region,
                     IF q.key = "dns.zone_month" THEN IF q.variant = "first_25" THEN 1 ELSE 30
                     ELSE q.variant),
         ~rate.approximate
  PROVE  Answered(rate, e, q, region)
  <1> DEFINE place == IF q.section \in GlobalSections THEN Origin(q.section) ELSE region
             v == q.variant
  <1>1. /\ q.key \in {spec.key : spec \in Rates} \cup Resolvers
        /\ q.section = SectionOf(q.key) /\ v \in VariantsOf(SectionOf(q.key))
    <2> DEFINE keys == {spec.key : spec \in Rates} \cup Resolvers
               vs(k) == VariantsOf(SectionOf(k))
    <2>1. q \in UNION {{[key |-> k, section |-> SectionOf(k), variant |-> w] : w \in vs(k)} : k \in keys}
      BY DEF Questions
    <2> HIDE DEF keys, vs
    <2>2. PICK k \in keys : \E w \in vs(k) : q = [key |-> k, section |-> SectionOf(k), variant |-> w]
      BY <2>1
    <2> QED
      BY <2>2 DEF keys, vs
  <1>2. CASE q.key = "vm.month"
    <2>1. q.section = "vm_hour" /\ v \in VariantsOf("vm_hour")
      BY <1>1, <1>2 DEF SectionOf
    <2>2. rate = VmMonth(t, region, v)
      BY <1>2 DEF Rate
    <2>3. PICK p : IsPrice(p, e, "vm_hour", region, v) /\ rate.usd = p * HoursPerMonth
      BY <2>1, <2>2, VmExact
    <2>4. place = region
      BY <2>1 DEF GlobalSections, LogSections
    <2> QED
      BY <1>2, <2>1, <2>3, <2>4 DEF Answered
  <1>3. CASE q.key = "acr.registry_month"
    <2>1. q.section = "acr_registry_day"
      BY <1>1, <1>3 DEF SectionOf
    <2>2. rate = AcrRegistryMonth(t, v)
      BY <1>3 DEF Rate
    <2>a. AcrMonthOf(rate, e, v)
      BY <2>2, AcrExact
    <2>3. PICK p : /\ IsPrice(p, e, "acr_registry_day", "", v)
                   /\ rate.usd = (p * HoursPerMonth) \div 24
      BY <2>a DEF AcrMonthOf
    <2>4. place = ""
      BY <2>1 DEF GlobalSections, Origin, LogSections
    <2> QED
      BY <1>3, <2>1, <2>3, <2>4 DEF Answered
  <1>4. CASE q.key = "dns.zone_month"
    <2>1. q.section = "dns_zone_month" /\ v \in {"first_25", "beyond_25"}
      BY <1>1, <1>4, DnsVariants DEF SectionOf
    <2>2. rate = DnsZone(t, IF v = "first_25" THEN 1 ELSE 30)
      BY <1>4 DEF Rate
    <2>a. DnsMonthOf(rate, e, v)
      BY <2>1, <2>2, DnsExact
    <2>3. PICK p : IsPrice(p, e, q.section, "", ZoneTier(e, q.section, v)) /\ rate.usd = p
      BY <2>1, <2>a DEF DnsMonthOf
    <2>4. place = ""
      BY <2>1 DEF GlobalSections, Origin, LogSections
    <2> QED
      BY <1>4, <2>1, <2>3, <2>4 DEF Answered, ZoneTier
  <1>5. CASE q.key \notin Resolvers
    <2>1. PICK entry \in Rates : q.key = entry.key
      BY <1>1, <1>5
    <2> DEFINE spec == RateSpec(q.key)
    <2>2. spec \in Rates
      BY <2>1, RateSpecFacts
    <2>3. Shaped(spec)
      BY <2>2, RatesShaped
    <2>4. q.key # "vm.month" /\ q.key # "acr.registry_month" /\ q.key # "dns.zone_month"
      BY <1>5 DEF Resolvers
    <2>5. q.section = spec.section /\ v \in VariantsOf(spec.section)
      BY <1>1, <2>4 DEF SectionOf
    <2>6. rate = Apply(t, spec, region, v)
      BY <2>4 DEF Rate
    <2> HIDE DEF spec
    <2>7. ~spec.variants => v = "_value"
      BY <2>3, <2>5, OneVariant DEF Shaped
    <2>8. MonthOf(rate, e, spec, IF spec.section \in GlobalSections THEN Origin(spec.section) ELSE region, v)
      BY <2>3, <2>6, <2>7, ApplyExact
    <2>9. PICK p : IsPrice(p, e, q.section, place, v) /\ rate.usd = Monthly(p, spec)
      BY <2>5, <2>8 DEF MonthOf
    <2> QED
      BY <2>4, <2>9 DEF spec, Answered
  <1> QED
    BY <1>2, <1>3, <1>4, <1>5 DEF Resolvers

\* Where the rows of a meter differ in their tier and price only and no two VM
\* sizes in their case only, a rate that a check is not told is approximate is
\* what the catalog published for that very region and variant, or for
\* everywhere, when the table was made, through every refresh, and every way a
\* rate is looked up; of log rates, what it published for the fallback region
\* (pricing/__init__.py:44-99, rates.py:214-234, refresh.py:708).
THEOREM RatesArePublished ==
  ASSUME TiersDiffer, SizesDiffer
  PROVE  RefreshSpec => []ExactIsPublished
  <1>1. ReadInv => ExactIsPublished
    <2> SUFFICES ASSUME ReadInv, Whole(table)
                 PROVE  ExactIsPublished
      BY DEF ExactIsPublished
    <2> DEFINE e == table.generated
    <2>1. e \in Editions /\ AllMade(e, table.sections)
      BY DEF ReadInv
    <2>2. Right(table, e)
      BY <2>1, FetchersMakePrices DEF Right, AllMade, Made, FetchersAreRight
    <2> HIDE DEF e
    <2>3. ASSUME NEW q \in Questions, NEW region
          PROVE  LET zones == IF q.variant = "first_25" THEN 1 ELSE 30
                     rate  == Rate(table, q.key, region,
                                   IF q.key = "dns.zone_month" THEN zones ELSE q.variant)
                     place == IF q.section \in GlobalSections THEN Origin(q.section) ELSE region
                     published == Prices(e, q.section)
                     variant == IF q.key = "dns.zone_month" /\ <<"", q.variant>> \notin DOMAIN published
                                THEN "first_25" ELSE q.variant
                     month(price) == CASE q.key = "acr.registry_month" -> (price * HoursPerMonth) \div 24
                                       [] q.key = "vm.month" -> price * HoursPerMonth
                                       [] q.key = "dns.zone_month" -> price
                                       [] OTHER -> Monthly(price, RateSpec(q.key))
                 IN  rate.approximate \/ (/\ <<place, variant>> \in DOMAIN published
                                          /\ rate.usd = month(published[<<place, variant>>]))
      <3> DEFINE zones == IF q.variant = "first_25" THEN 1 ELSE 30
                 rate  == Rate(table, q.key, region,
                               IF q.key = "dns.zone_month" THEN zones ELSE q.variant)
                 place == IF q.section \in GlobalSections THEN Origin(q.section) ELSE region
                 variant == IF q.key = "dns.zone_month"
                               /\ <<"", q.variant>> \notin DOMAIN Prices(e, q.section)
                            THEN "first_25" ELSE q.variant
                 month(price) == CASE q.key = "acr.registry_month" -> (price * HoursPerMonth) \div 24
                                   [] q.key = "vm.month" -> price * HoursPerMonth
                                   [] q.key = "dns.zone_month" -> price
                                   [] OTHER -> Monthly(price, RateSpec(q.key))
      <3>1. ~rate.approximate =>
              \E p : IsPrice(p, e, q.section, place, variant) /\ rate.usd = month(p)
        <4>1. ~rate.approximate => Answered(rate, e, q, region)
          BY <2>1, <2>2, AnswerExact
        <4> QED
          BY <4>1 DEF Answered
      <3> HIDE DEF rate, place, variant, month
      <3>2. ~rate.approximate =>
              /\ <<place, variant>> \in DOMAIN Prices(e, q.section)
              /\ rate.usd = month(Prices(e, q.section)[<<place, variant>>])
        BY <3>1 DEF IsPrice
      <3> QED
        BY <3>2 DEF rate, place, variant, month
    <2> QED
      BY <2>3 DEF ExactIsPublished, e
  <1> QED
    BY <1>1, InitRead, NextRead, PTL DEF RefreshSpec
=============================================================================
