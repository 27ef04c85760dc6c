-------------------------------- MODULE Packs --------------------------------
(***************************************************************************)
(* packs.discover: the packs that ship with zombiescan, then the installed *)
(* ones, are imported in turn, and what their modules do while they are    *)
(* imported fills the registries of the process.  A statement may fail; an *)
(* exception ends the import of a whole pack.  Python keeps the modules    *)
(* that were imported to their end and runs the others again next time.    *)
(*                                                                         *)
(* A command discovers once.  The MCP server discovers in each tool call,  *)
(* with another set of disabled packs each time, in one process.           *)
(***************************************************************************)
EXTENDS Integers, Sequences

CONSTANTS
  Builtin, Installed,  \* entries: records of a pack's name and its module
  Body,            \* Body[m]: the statements of module m
  Home,            \* Home[m]: the name of the pack whose directory m is in
  OtherApi,        \* packs built against another PACK_API_VERSION
  Names, Keys,     \* names of packs; names of checks, cleaners and rates
  DisableOptions,  \* the sets of packs that are disabled
  MaxRounds        \* bound: discoveries in one process

Modules == DOMAIN Body
Entries == Builtin \o Installed
Indices == 1..Len(Entries)
IsBuiltin(i) == i <= Len(Builtin)

\* register_pack | @check, @cleaner, register_rate | import | an exception |
\* an exception now and then
Statements ==
       [op : {"register"}, arg : Names] \cup [op : {"add"}, arg : Keys]
  \cup [op : {"import"}, arg : Modules] \cup [op : {"raise", "flaky"}, arg : {0}]

ASSUME PacksAssumption ==
  /\ Builtin \in Seq([name : Names, module : Modules])
  /\ Installed \in Seq([name : Names, module : Modules])
  /\ \A m \in Modules : Body[m] \in Seq(Statements)
  /\ Home \in [Modules -> Names]
  /\ OtherApi \subseteq Names /\ DisableOptions \subseteq SUBSET Names
  /\ MaxRounds \in Nat

VARIABLES
  packs,           \* PACKS: the names registered
  owner,           \* the registries: owner[k] is the pack k is attributed to
  imported,        \* sys.modules, without those being imported
  stack,           \* the modules being imported, each at its next statement
  disabled,        \* the argument of discover
  at, importing,   \* the entry discover is at; whether _load_module is running
  loaded, failed, skipped,  \* the LoadReport, as indices of entries
  phase,           \* "idle", "discovering", "reported" or "crashed"
  everLoaded,      \* entries loaded by an earlier discovery that returned
  rounds

registries == <<packs, owner>>
reportVars == <<loaded, failed, skipped>>
roundVars == <<disabled, everLoaded, rounds>>
vars == <<registries, imported, stack, at, importing, reportVars, phase, roundVars>>

----------------------------------------------------------------------------
(* discover.                                                               *)

Discover(d) ==
  /\ phase # "discovering" /\ rounds < MaxRounds
  /\ phase' = "discovering" /\ rounds' = rounds + 1
  /\ disabled' = d /\ at' = 1
  /\ loaded' = {} /\ failed' = {} /\ skipped' = {}
  /\ everLoaded' = IF phase = "reported" THEN everLoaded \cup loaded ELSE everLoaded
  /\ UNCHANGED <<registries, imported, stack, importing>>

AtEntry == phase = "discovering" /\ ~importing /\ at \in Indices

Skip ==
  /\ AtEntry /\ Entries[at].name \in disabled
  /\ skipped' = skipped \cup {at} /\ at' = at + 1
  /\ UNCHANGED <<registries, imported, stack, importing, loaded, failed, phase, roundVars>>

BeingImported == {stack[i].module : i \in DOMAIN stack}

\* import_module: a module that is in sys.modules is not run.
WithImport(frames, m) ==
  IF m \in imported \cup BeingImported
  THEN frames
  ELSE Append(frames, [module |-> m, line |-> 1])

StartImport ==
  /\ AtEntry /\ Entries[at].name \notin disabled
  /\ importing' = TRUE
  /\ stack' = WithImport(stack, Entries[at].module)
  /\ UNCHANGED <<registries, imported, at, reportVars, phase, roundVars>>

\* The import ended well.
Conclude ==
  /\ importing /\ stack = <<>>
  /\ importing' = FALSE /\ at' = at + 1
  /\ IF Entries[at].name \in packs
     THEN loaded' = loaded \cup {at} /\ UNCHANGED failed
     ELSE /\ failed' = IF IsBuiltin(at) THEN failed ELSE failed \cup {at}
          /\ UNCHANGED loaded
  /\ UNCHANGED <<registries, imported, stack, skipped, phase, roundVars>>

Report ==
  /\ phase = "discovering" /\ at \notin Indices
  /\ phase' = "reported"
  /\ UNCHANGED <<registries, imported, stack, at, importing, reportVars, roundVars>>

----------------------------------------------------------------------------
(* The import of a module, a statement at a time.                          *)

Running == stack # <<>>
Top == stack[Len(stack)]
AtStatement == Running /\ Top.line <= Len(Body[Top.module])
Statement == Body[Top.module][Top.line]
NextLine == [stack EXCEPT ![Len(stack)].line = @ + 1]
current_pack == Entries[at].name

Accepted ==
  CASE Statement.op = "register" -> Statement.arg \notin packs \cup OtherApi
    [] Statement.op = "add"      -> Statement.arg \notin DOMAIN owner
    [] OTHER                     -> Statement.op # "raise"

RegisterPack ==
  /\ AtStatement /\ Statement.op = "register" /\ Accepted
  /\ packs' = packs \cup {Statement.arg} /\ stack' = NextLine
  /\ UNCHANGED <<owner, imported, at, importing, reportVars, phase, roundVars>>

Add ==
  /\ AtStatement /\ Statement.op = "add" /\ Accepted
  /\ owner' = [k \in DOMAIN owner \cup {Statement.arg} |->
                 IF k \in DOMAIN owner THEN owner[k] ELSE current_pack]
  /\ stack' = NextLine
  /\ UNCHANGED <<packs, imported, at, importing, reportVars, phase, roundVars>>

Import ==
  /\ AtStatement /\ Statement.op = "import"
  /\ stack' = WithImport(NextLine, Statement.arg)
  /\ UNCHANGED <<registries, imported, at, importing, reportVars, phase, roundVars>>

Pass ==
  /\ AtStatement /\ Statement.op = "flaky" /\ stack' = NextLine
  /\ UNCHANGED <<registries, imported, at, importing, reportVars, phase, roundVars>>

\* Mutant: the module is not kept, and runs again when it is imported again.
Done_Forgotten ==
  /\ Running /\ ~AtStatement
  /\ stack' = SubSeq(stack, 1, Len(stack) - 1)
  /\ UNCHANGED <<registries, imported, at, importing, reportVars, phase, roundVars>>

Done ==
  /\ Running /\ ~AtStatement
  /\ imported' = imported \cup {Top.module}
  /\ stack' = SubSeq(stack, 1, Len(stack) - 1)
  /\ UNCHANGED <<registries, at, importing, reportVars, phase, roundVars>>

\* Mutant: what is being loaded is not put back (no "finally").
Raise_NoFinally ==
  /\ AtStatement /\ (~Accepted \/ Statement.op = "flaky")
  /\ stack' = <<>>
  /\ IF IsBuiltin(at)
     THEN phase' = "crashed" /\ UNCHANGED <<failed, at>>
     ELSE failed' = failed \cup {at} /\ at' = at + 1 /\ UNCHANGED phase
  /\ UNCHANGED <<registries, imported, importing, loaded, skipped, roundVars>>

\* Mutant: one broken pack ends the discovery.
Raise_Aborts ==
  /\ AtStatement /\ (~Accepted \/ Statement.op = "flaky")
  /\ stack' = <<>> /\ importing' = FALSE
  /\ failed' = IF IsBuiltin(at) THEN failed ELSE failed \cup {at}
  /\ phase' = IF IsBuiltin(at) THEN "crashed" ELSE "reported"
  /\ UNCHANGED <<registries, imported, at, loaded, skipped, roundVars>>

\* An exception, which nothing catches before discover.  From a pack that
\* ships with zombiescan it is not caught there either.
Raise ==
  /\ AtStatement /\ (~Accepted \/ Statement.op = "flaky")
  /\ stack' = <<>> /\ importing' = FALSE
  /\ IF IsBuiltin(at)
     THEN phase' = "crashed" /\ UNCHANGED <<failed, at>>
     ELSE failed' = failed \cup {at} /\ at' = at + 1 /\ UNCHANGED phase
  /\ UNCHANGED <<registries, imported, loaded, skipped, roundVars>>

----------------------------------------------------------------------------
Init ==
  /\ packs = {} /\ owner = [k \in {} |-> k] /\ imported = {} /\ stack = <<>>
  /\ disabled = {} /\ at = 1 /\ importing = FALSE
  /\ loaded = {} /\ failed = {} /\ skipped = {}
  /\ phase = "idle" /\ everLoaded = {} /\ rounds = 0

Execute == RegisterPack \/ Add \/ Import \/ Pass \/ Done \/ Raise

Next ==
  \/ \E d \in DisableOptions : Discover(d)
  \/ Skip \/ StartImport \/ Conclude \/ Report
  \/ Execute

Spec == Init /\ [][Next]_vars

----------------------------------------------------------------------------
(* engine.select_checks.                                                   *)

\* Mutant: the option is honoured only when packs are loaded.
Selected_All == DOMAIN owner

\* The checks of a scan that names none.
Selected == {k \in DOMAIN owner : owner[k] \notin disabled}

\* The checks of a scan that names them: none if one is unknown, or belongs
\* to a pack that is disabled.
SelectNamed(wanted) ==
  LET bad == ~(wanted \subseteq DOMAIN owner) \/ \E k \in wanted : owner[k] \in disabled
  IN [error |-> bad, checks |-> IF bad THEN {} ELSE wanted]

----------------------------------------------------------------------------
(* Properties.                                                             *)

\* The registries, the stack and the report keep their types, and modules are
\* on the stack only while a pack is being imported.
TypeOK ==
  /\ packs \subseteq Names /\ imported \subseteq Modules
  /\ DOMAIN owner \subseteq Keys /\ \A k \in DOMAIN owner : owner[k] \in Names
  /\ stack \in Seq([module : Modules, line : Nat \ {0}])
  /\ disabled \subseteq Names
  /\ at \in Nat \ {0} /\ at <= Len(Entries) + 1
  /\ importing \in BOOLEAN /\ (importing => phase = "discovering" /\ at \in Indices)
  /\ (stack # <<>> => importing)
  /\ loaded \subseteq Indices /\ failed \subseteq Indices /\ skipped \subseteq Indices
  /\ everLoaded \subseteq Indices
  /\ phase \in {"idle", "discovering", "reported", "crashed"}
  /\ rounds \in 0..MaxRounds

\* A pack that was loaded once and is enabled is loaded again, whatever other
\* packs did in between: importing twice is no duplicate registration
\* (test_packs.py:42-51).
DiscoveryIsRepeatable ==
  phase = "reported" =>
    \A i \in everLoaded : Entries[i].name \notin disabled => i \in loaded /\ i \notin failed

\* An installed pack is reported in exactly one way; none is left out in
\* silence (cli.py:42-44).
EveryPackIsReported ==
  phase = "reported" =>
    /\ \A i \in Indices \ DOMAIN Builtin : i \in loaded \cup failed \cup skipped
    /\ loaded \cap failed = {} /\ loaded \cap skipped = {} /\ failed \cap skipped = {}

Does(m, op, arg) == \E l \in DOMAIN Body[m] : Body[m][l] = [op |-> op, arg |-> arg]
Own(n) == {m \in Modules : Home[m] = n}

\* Importing the pack's module imports all it has: no fewer of its modules
\* would do (import_pack_modules).
Reached(e) ==
  \A ms \in SUBSET Own(e.name) :
    /\ e.module \in ms
    /\ \A m \in ms, n \in Own(e.name) : Does(m, "import", n) => n \in ms
    => ms = Own(e.name)

\* A pack written as docs/PACKS.md says: it registers itself first, imports
\* modules of its own, adds no name twice and does not fail.
WellFormed(e) ==
  /\ e.name \notin OtherApi
  /\ Body[e.module] # <<>> /\ Body[e.module][1] = [op |-> "register", arg |-> e.name]
  /\ Reached(e)
  /\ \A m \in Own(e.name) : \A l \in DOMAIN Body[m] :
       /\ Body[m][l].op \in {"register", "add", "import"}
       /\ Body[m][l].op = "register" => m = e.module /\ l = 1
       /\ Body[m][l].op = "import" => Body[m][l].arg \in Own(e.name)
       /\ Body[m][l].op = "add" =>
            \A n \in Own(e.name) : \A j \in DOMAIN Body[n] :
              Body[n][j] = Body[m][l] => <<n, j>> = <<m, l>>

\* Nobody else imports the modules of pack n, by a statement or as an entry.
Private(n) ==
  /\ \A m \in Modules \ Own(n), o \in Own(n) : ~Does(m, "import", o)
  /\ \A i \in Indices : Entries[i].module \in Own(n) => Entries[i].name = n

\* No other pack adds its names, takes its name or imports its modules.
Alone(e) ==
  /\ Private(e.name)
  /\ \A m \in Modules \ Own(e.name) :
       /\ ~Does(m, "register", e.name)
       /\ \A k \in Keys : Does(m, "add", k) => \A n \in Own(e.name) : ~Does(n, "add", k)

LoadedWhole(i) ==
  /\ i \in loaded
  /\ \A m \in Own(Entries[i].name), k \in Keys :
       Does(m, "add", k) => k \in DOMAIN owner /\ owner[k] = Entries[i].name

\* One broken pack costs nobody else a check: a well-formed pack that shares
\* nothing with another is loaded whole (packs/__init__.py:164-167).
GoodPacksLoad ==
  phase = "reported" =>
    \A i \in Indices :
      /\ Entries[i].name \notin disabled
      /\ WellFormed(Entries[i]) /\ Alone(Entries[i])
      => LoadedWhole(i)

\* No check that only disabled packs ship is run, though the packs were loaded
\* by an earlier call in the same process, and naming it is an error
\* (engine.py:166-194).  It asks that nobody else imports their modules: what
\* they register is attributed to the pack being loaded (registry.py:81).
DisabledPacksAreSilent ==
  phase = "reported" =>
    \A k \in Keys :
      (\A m \in Modules : Does(m, "add", k) => Home[m] \in disabled /\ Private(Home[m]))
      => k \notin Selected /\ SelectNamed({k}).error
=============================================================================
