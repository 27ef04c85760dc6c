------------------------------- MODULE MCPacks -------------------------------
(***************************************************************************)
(* An instance of Packs for TLC: the core pack and the AKS pack, and packs *)
(* that third parties may install.                                         *)
(***************************************************************************)
EXTENDS Packs, TLC

Do(op, arg) == [op |-> op, arg |-> arg]
Entry(name) == [name |-> name, module |-> name]

\* acme is written as docs/PACKS.md says.  broken fails now and then after its
\* first check, silent never registers, old targets another API.
MCBody ==
  "core"        :> <<Do("register", "core"), Do("import", "core_disk")>>
  @@ "core_disk"   :> <<Do("add", "unattached-disk")>>
  @@ "aks"         :> <<Do("register", "aks"), Do("add", "aks-idle-cluster"), Do("flaky", 0)>>
  @@ "acme"        :> <<Do("register", "acme"), Do("import", "acme_rates"),
                        Do("import", "acme_widget")>>
  @@ "acme_rates"  :> <<Do("add", "acme-rate")>>
  @@ "acme_widget" :> <<Do("add", "idle-widget")>>
  @@ "broken"      :> <<Do("register", "broken"), Do("add", "broken-check"), Do("flaky", 0)>>
  @@ "silent"      :> <<>>
  @@ "old"         :> <<Do("register", "old"), Do("add", "old-check")>>

MCHome ==
  [m \in DOMAIN MCBody |->
     CASE m = "core_disk" -> "core"
       [] m \in {"acme_rates", "acme_widget"} -> "acme"
       [] OTHER -> m]

MCNames == {"core", "aks", "acme", "broken", "silent", "old"}
MCKeys ==
  {"unattached-disk", "aks-idle-cluster", "acme-rate", "idle-widget", "broken-check",
   "old-check"}

\* The modules of the packs of a run.
BodyOf(names) == [m \in {n \in DOMAIN MCBody : MCHome[n] \in names} |-> MCBody[m]]
HomeOf(names) == [m \in {n \in DOMAIN MCBody : MCHome[n] \in names} |-> MCHome[m]]

Shipped == <<Entry("core"), Entry("aks")>>

LoadInstalled == <<Entry("broken"), Entry("acme"), Entry("silent"), Entry("old")>>
LoadNames == {"core", "aks", "broken", "acme", "silent", "old"}
LoadBody == BodyOf(LoadNames)
LoadHome == HomeOf(LoadNames)
LoadOptions == {{}, {"core", "aks"}, {"acme", "broken"}}
=============================================================================
