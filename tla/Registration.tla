---------------------------- MODULE Registration -----------------------------
(***************************************************************************)
(* Building and tearing down a job.  PHLEX registers the modules one after *)
(* another on the main thread; each registration (register_shapes.hpp)     *)
(* reads its ports, constructs an executor, which initializes a            *)
(* WireCell::Main there and then (Executor.cpp, ShapeExecutors.hpp), and   *)
(* declares a PHLEX node.  Any step may throw, and then the job is over.   *)
(*                                                                         *)
(* Every Main instantiates its components in one process-wide factory: a   *)
(* (type, name) that exists is returned as it is and configured again.     *)
(* When an executor is destroyed its Main finalizes the terminal           *)
(* components (file writers) of its configuration.                         *)
(***************************************************************************)
EXTENDS Shapes, FiniteSets

CONSTANTS Modules,       \* nodes to register: one executor each
          Configs,       \* the configurations a module may be given
          NoLabel,       \* no module_label in the configuration
          DefaultScope,  \* "wcphlex", the m_scope of an executor without label
          None,          \* no module
          Feeds          \* pairs <<m, n>>: the product of m is an input of n

(* A configuration is a record:
     via, inTypes, outTypes    the node's shape (module Shapes)
     label      module_label as executor_config_from sees it, or NoLabel
     wctConfig  whether wct_config is given and not empty
     in, out    number of elements of the "inputs" and "outputs" arrays
     layers     whether every element that needs a layer has one
     extra      an element of "outputs" sets creator or layer
     graphIn, graphOut  boundary nodes the Jsonnet sub-graph instantiates
     parts      other components of the sub-graph: records with a type, the
                name the Jsonnet gives it, and its settings              *)

\* What every executor is configured with, none of it left out.
ExecutorConfig(label) == [label |-> label, wctConfig |-> TRUE]

\* Components that executors give to the sub-graph, or that its last line makes:
\* Jsonnet files have no boundary nodes and no app of their own.
Wiring == {"BoundarySource", "BoundarySink", "Pgrapher"}

ASSUME RegistrationAssumption ==
  /\ IsFiniteSet(Modules) /\ None \notin Modules
  /\ Feeds \subseteq Modules \X Modules
  /\ \A c \in Configs : \A p \in c.parts : p.type \notin Wiring

VARIABLES conf,       \* [Modules -> Configs]: the job's configuration
          job,        \* "registering", "failed", "running", "ended"
          current,    \* the module being registered, or None
          stage,      \* the next thing current's registration does
          nodes,      \* modules whose PHLEX node is declared
          executors,  \* modules whose executor exists
          bound,      \* [Modules -> boundary components the executor holds]
          factory,    \* the process-wide factory: component -> settings
          inited,     \* history: modules in the order of Main::initialize()
          destroyed   \* history: modules whose Main was destroyed after that

vars == <<conf, job, current, stage, nodes, executors, bound, factory, inited, destroyed>>

-----------------------------------------------------------------------------
(* Names.  Executor() sets m_scope; the ports and the app are named after  *)
(* it, all other components by the Jsonnet file alone.                     *)

Scope(m) == IF conf[m].label = NoLabel THEN DefaultScope ELSE conf[m].label

Component(type, data, name) == <<type, data, name>>

\* Variants: boundary sources, or the app, named without the scope.
SourcePortUnscoped(m, i) == Component("BoundarySource", conf[m].inTypes[i], <<DefaultScope, i>>)
AppUnscoped(m)           == Component("Pgrapher", "none", DefaultScope)

SourcePort(m, i) == Component("BoundarySource", conf[m].inTypes[i], <<Scope(m), i>>)
SinkPort(m, j)   == Component("BoundarySink", conf[m].outTypes[j], <<Scope(m), j>>)
App(m)           == Component("Pgrapher", "none", Scope(m))
PartId(p)        == Component(p.type, "none", p.name)

\* The "sources" and "sinks" a constructor gives to the Jsonnet function; all of
\* them are what initialize_ports() looks up.  The graph makes those it uses.
SourcePorts(m) == {SourcePort(m, i) : i \in 1..WantIn(conf[m])}
SinkPorts(m)   == {SinkPort(m, j) : j \in 1..WantOut(conf[m])}
Ports(m)       == SourcePorts(m) \cup SinkPorts(m)
GraphPorts(m) == {SourcePort(m, i) : i \in (1..conf[m].graphIn) \cap (1..WantIn(conf[m]))}
                 \cup {SinkPort(m, j) : j \in (1..conf[m].graphOut) \cap (1..WantOut(conf[m]))}

\* The sub-graph uses the ports it was given, of classes the factory can make.
Evaluates(c)  == c.graphIn <= WantIn(c) /\ c.graphOut <= WantOut(c)
HasClasses(c) == /\ \A i \in 1..c.graphIn : c.inTypes[i] \in SourceClasses
                 /\ \A j \in 1..c.graphOut : c.outTypes[j] \in SinkClasses

PartIds(m)     == {PartId(p) : p \in conf[m].parts}
Components(m)  == GraphPorts(m) \cup {App(m)} \cup PartIds(m)
SettingOf(m, c) == IF c \in PartIds(m)
                   THEN (CHOOSE p \in conf[m].parts : PartId(p) = c).settings
                   ELSE Scope(m)

Init ==
  /\ conf \in [Modules -> Configs]
  /\ job = "registering"
  /\ current = None
  /\ stage = "arity"
  /\ nodes = {}
  /\ executors = {}
  /\ bound = [m \in Modules |-> {}]
  /\ factory = <<>>
  /\ inited = <<>>
  /\ destroyed = {}

-----------------------------------------------------------------------------
(* One registration.                                                       *)

Begin(m) ==
  /\ job = "registering" /\ current = None
  /\ m \notin nodes
  /\ current' = m
  /\ stage' = "arity"
  /\ UNCHANGED <<conf, job, nodes, executors, bound, factory, inited, destroyed>>

At(s) == job = "registering" /\ current # None /\ stage = s

\* An exception ends the registration; executors made so far still exist.
Fail == job' = "failed" /\ UNCHANGED <<current, stage>>
GoOn(s) == stage' = s /\ UNCHANGED <<job, current>>

\* Variant: check_arity looks at the outputs only.
CheckOutputs ==
  /\ At("arity")
  /\ LET c == conf[current] IN IF c.out # WantOut(c) THEN Fail ELSE GoOn("construct")
  /\ UNCHANGED <<conf, nodes, executors, bound, factory, inited, destroyed>>

\* read_ports and check_arity; a source reads its output's layer here as well.
BadArity(c) == c.in # WantIn(c) \/ c.out # WantOut(c)
CheckArity ==
  /\ At("arity")
  /\ LET c == conf[current] IN
       IF BadArity(c) \/ (c.via = "provide" /\ ~c.layers) THEN Fail ELSE GoOn("construct")
  /\ UNCHANGED <<conf, nodes, executors, bound, factory, inited, destroyed>>

\* wct_config is required: to_executor_config throws if it is absent, and the
\* constructor of Executor if it is empty.
BadConfig(c) == ~c.wctConfig
ConstructBase ==
  /\ At("construct")
  /\ IF BadConfig(conf[current]) THEN Fail ELSE GoOn("initialize")
  /\ UNCHANGED <<conf, nodes, executors, bound, factory, inited, destroyed>>

\* Main::initialize() finds or creates every component of the sub-graph and
\* configures it, so a component that was there gets the new settings.
Configured(m) ==
  [c \in DOMAIN factory \cup Components(m) |->
     IF c \in Components(m) THEN SettingOf(m, c) ELSE factory[c]]

\* A Jsonnet file that indexes a port it was not given does not evaluate, and
\* a boundary class nobody registered cannot be made.
Initialize ==
  /\ At("initialize")
  /\ IF Evaluates(conf[current]) /\ HasClasses(conf[current])
     THEN /\ GoOn("ports")
          /\ factory' = Configured(current)
          /\ inited' = Append(inited, current)
     ELSE Fail /\ UNCHANGED <<factory, inited>>
  /\ UNCHANGED <<conf, nodes, executors, bound, destroyed>>

\* find_boundary() finds every port.
Found(m) == Ports(m) \subseteq DOMAIN factory

\* Variant: a boundary node that is not found is left null.
BindFound ==
  /\ At("ports")
  /\ GoOn("declare")
  /\ bound' = [bound EXCEPT ![current] = Ports(current) \cap DOMAIN factory]
  /\ executors' = executors \cup {current}
  /\ UNCHANGED <<conf, nodes, factory, inited, destroyed>>

\* initialize_ports(): find_boundary throws for a port the factory has not, and
\* the half-made executor's Main is destroyed.
BindPorts ==
  /\ At("ports")
  /\ IF Found(current)
     THEN /\ GoOn("declare")
          /\ bound' = [bound EXCEPT ![current] = Ports(current)]
          /\ executors' = executors \cup {current}
          /\ UNCHANGED destroyed
     ELSE /\ Fail
          /\ UNCHANGED <<bound, executors>>
          /\ destroyed' = destroyed \cup {current}
  /\ UNCHANGED <<conf, nodes, factory, inited>>

\* m.transform(...), observe or provide.  input_selector throws if an input has
\* no layer and transform_output_suffix if an output has more than a suffix;
\* by then the WCT graph is built.
BadPort(c) == \/ c.via # "provide" /\ ~c.layers
              \/ c.via = "transform" /\ c.extra
Declare ==
  /\ At("declare")
  /\ IF BadPort(conf[current])
     THEN Fail /\ UNCHANGED nodes
     ELSE /\ nodes' = nodes \cup {current}
          /\ job' = IF nodes' = Modules THEN "running" ELSE job
          /\ current' = None
          /\ UNCHANGED stage
  /\ UNCHANGED <<conf, executors, bound, factory, inited, destroyed>>

-----------------------------------------------------------------------------
(* The end of the job: PHLEX destroys the nodes, they their executors, and *)
(* each Main::~Main() finalizes its terminal components.                   *)

Finish == /\ job = "running"
          /\ job' = "ended"
          /\ UNCHANGED <<conf, current, stage, nodes, executors, bound, factory, inited, destroyed>>

\* Variant: executors keep each other alive, and only the last one is freed.
DestroyLast(m) ==
  /\ job \in {"failed", "ended"}
  /\ executors = {m}
  /\ executors' = {}
  /\ destroyed' = destroyed \cup {m}
  /\ UNCHANGED <<conf, job, current, stage, nodes, bound, factory, inited>>

Destroy(m) ==
  /\ job \in {"failed", "ended"}
  /\ m \in executors
  /\ executors' = executors \ {m}
  /\ destroyed' = destroyed \cup {m}
  /\ UNCHANGED <<conf, job, current, stage, nodes, bound, factory, inited>>

Next == \/ \E m \in Modules : Begin(m) \/ Destroy(m)
        \/ CheckArity \/ ConstructBase \/ Initialize \/ BindPorts \/ Declare
        \/ Finish

\* The main thread keeps registering and, at the end of a job that ran,
\* destroying.  How far PHLEX unwinds after a failed registration is its own
\* affair: the executors may be destroyed then, or the process may just exit.
Spec == Init /\ [][Next]_vars /\ WF_vars(job # "failed" /\ Next)

-----------------------------------------------------------------------------
(* Properties.                                                             *)

\* An executor holds all of its boundary nodes or none (initialize_ports()), and
\* the factory has components of the job's sub-graphs only.
TypeOK ==
  /\ conf \in [Modules -> Configs]
  /\ job \in {"registering", "failed", "running", "ended"}
  /\ current \in Modules \cup {None}
  /\ stage \in {"arity", "construct", "initialize", "ports", "declare"}
  /\ nodes \subseteq Modules
  /\ executors \subseteq Modules
  /\ DOMAIN bound = Modules /\ \A m \in Modules : bound[m] \in {{}, Ports(m)}
  /\ DOMAIN factory \subseteq UNION {Components(m) : m \in Modules}
  /\ inited \in Seq(Modules)
  /\ destroyed \subseteq Modules

Initialized == {inited[n] : n \in DOMAIN inited}

DistinctScopes == \A m, n \in Modules : m # n => Scope(m) # Scope(n)

\* Modules that name the same component give it the same settings.
PartsAgree ==
  \A m, n \in Modules : \A c \in PartIds(m) \cap PartIds(n) : SettingOf(m, c) = SettingOf(n, c)

\* With a label each, no executor ever holds a boundary node of another one's
\* graph, not even when its own Jsonnet file forgot to make one: find_boundary
\* must fail then, and not find a stranger of the same name.
PortsAreOwn ==
  DistinctScopes => \A m \in executors :
    /\ bound[m] = GraphPorts(m)
    /\ \A n \in executors \ {m} : bound[m] \cap bound[n] = {}

\* While the job runs every component has the settings that each executor using
\* it was configured with, whichever was initialized last, provided that modules
\* sharing a service agree on it.
SettingsHold ==
  DistinctScopes /\ PartsAgree /\ job = "running" =>
    \A m \in Modules : \A c \in Components(m) : factory[c] = SettingOf(m, c)

\* The job runs only if every single module got through its registration: a
\* node is never declared over an executor that is missing or half bound.
RunsWhole ==
  /\ nodes \subseteq {m \in Modules : bound[m] = Ports(m)}
  /\ job = "running" => /\ nodes = Modules /\ executors = Modules
                        /\ \A m \in Modules : Ports(m) \subseteq DOMAIN factory
                        /\ \A m \in Modules : ~BadPort(conf[m]) /\ ~BadArity(conf[m])

\* A job whose modules all registered ends with every initialized Main destroyed,
\* so that file writers are finalized and their files complete; and a Main whose
\* executor could not be completed does not outlive the attempt.
MainsFinalized ==
  /\ <>[](job = "failed" \/ (job = "ended" /\ destroyed = Initialized))
  /\ [](At("ports") \/ Initialized \subseteq executors \cup destroyed)

\* A job of the repository's module files registers if its configurations are
\* right: whatever the files and their order, no registration throws, and every
\* port type of theirs has its boundary class in the factory.
Right(c) == /\ Shape(c.via, c.inTypes, c.outTypes) \in ModuleFiles
            /\ ~BadConfig(c) /\ c.layers /\ ~BadArity(c) /\ ~BadPort(c)
            /\ c.graphIn = WantIn(c) /\ c.graphOut = WantOut(c)
RightJobRuns == (\A m \in Modules : Right(conf[m])) => job # "failed"

\* docs/services.md:77: "the upstream node always initializes before the
\* downstream node".
UpstreamFirst ==
  \A p \in Feeds : p[2] \in Initialized => p[1] \in Initialized

\* docs/executors.md:254: instance names include the scope "to prevent collisions
\* when multiple instances load the same config".
NoCollision ==
  DistinctScopes => \A m, n \in executors : m # n => PartIds(m) \cap PartIds(n) = {}
=============================================================================
