# TLA+ models of wire-cell-phlex

wire-cell-phlex lets a [PHLEX](https://github.com/Framework-R-D/phlex) job run
Wire-Cell Toolkit (WCT) sub-graphs as PHLEX nodes. PHLEX calls a node once per
data cell (event, APA, ...) and expects a function of the products it passes.
A WCT graph is a push/pull data-flow engine with a state of its own, driven by
an end-of-stream (EOS) protocol in which a null pointer is the marker. The code
of this repository is the adapter between the two, and most of what can go
wrong in it is about the state that survives from one call to the next.

This directory holds TLA+ modules of that adapter, TLC configurations that
check them on small instances, and proofs checked by TLAPS.

    tlc -config ported.cfg ShapeExecutor.tla      # one run
    tlapm ShapeExecutor_proofs.tla                # the proofs

## 1. The system

| Part | State | Operations | Modelled in |
|---|---|---|---|
| Boundary source (`BoundarySource.hpp`) | `m_queue`, `m_eos_sent` | `fill` (PHLEX side), `operator()(out)` (graph side) | `BoundaryNodes`, `BoundaryPair` |
| Boundary sink (`BoundarySink.hpp`) | `m_queue` | `operator()(in)` (graph side), `drain` (PHLEX side) | `BoundaryNodes`, `BoundaryPair` |
| Shape executors (`ShapeExecutors.hpp`): function, sink, join, split, fan-in, fan-out, collect | the bound boundary nodes, and through `m_wcmain` a persistent WCT graph | `operator()` = fill, `run_graph`, drain | `ShapeExecutor` |
| Source executor (`ShapeExecutors.hpp:412`) | `m_ran`, one boundary sink, the graph | `operator()` = run once, drain one | `SourceExecutor` |
| Executor base (`Executor.cpp`), `find_boundary.hpp`, `Config*.hpp` | `m_scope`, `m_app_name`, `m_wcmain` | constructor, `initialize_now`, `initialize_ports`, `run_graph`, destructor | `Registration` |
| Registration helpers (`register_shapes.hpp`, `executor_config.hpp`) | none | `register_<shape>`: read ports, check arity, construct, declare | `Shapes`, `Registration`, `Workflow` |
| Module files (`src/modules/*.cpp`) | none | one registration call each | `Shapes`, `MCRegistration` |
| Generators, observers, wire schema nodes (`*_gen.cpp`, `*_observer.cpp`, `wire_schema_source.cpp`) | none | stateless lambdas | `Workflow` |
| A workflow (`src/test/*-workflow.jsonnet`) | PHLEX's products, all executors | calls for several data cells, interleaved | `Workflow`, `MCWorkflow` |
| Data wrappers (`Data.hpp`) | a `shared_ptr` that may be null | | `Products` in `BoundaryPair` |
| WCT sub-graphs (`src/cfg/**.jsonnet`) | edges; blobs kept by clustering; position of a random service | evaluated by `WireCell::Main`; driven by the engine | `Topologies`, `Islands`; names in `MCRegistration` |
| `FacadeWireSchema` (kept, not built) | static registry `s_stores` and its mutex, `m_store` | `register_store`, `configure`, `wire_schema_store`; the validator | `WireGeometry` |
| `TrivialDepoFramer` | none | one frame for one deposition set | a node of kind `function` in `Islands` |

External parts, modelled from how this repository uses them: PHLEX (calls
nodes, registers modules on one thread), the WCT graph engine and nodes (the
"island" between the boundary nodes), and WCT's process-wide named factory.
What an island's nodes do is external; which nodes there are, how they are
connected and what they are named is in `src/cfg` and modelled from there.

**Interaction.** PHLEX registers modules one by one. Each registration builds
an executor; its constructor evaluates a Jsonnet sub-graph, which makes all
components *in one factory shared by the process*, and then looks its boundary
nodes up there by name. At run time PHLEX calls the executor with data
products; the executor puts the pointers into the boundary sources, runs the
graph in the caller's thread until no node does any work, and takes the result
out of the boundary sinks. The graph is not rebuilt between calls. At the end
executors are destroyed and each `Main` finalizes its file writers.

**What is hard.**

* *State across calls.* `m_eos_sent`, both queues, and everything inside the
  graph survive a call. A leftover is served to the next event.
* *Null has two meanings*: a data product that wraps nothing, and EOS.
* *Order inside the graph.* The engine picks which node to call next, over N
  inputs; items and markers of different calls must not be paired.
* *Concurrency.* `register_source` names no concurrency, all other nodes are
  `phlex::concurrency::serial`; the boundary nodes do not lock.
* *Failure*: an exception in a node or in any step of a registration leaves
  what earlier steps did.
* *Global names.* Two executors meet in the factory when names coincide: in
  settings, in blobs that wait for the end of a stream, in random numbers, in
  the geometry registered for a scope.

The full list, with source lines and the properties aimed at each, is
`hazards` in `PROJECT.json`.

What makes each part correct:

* boundary pair: every non-null item once, in order; one EOS per batch, after
  the batch; the engine's loop ends;
* shape executor: a call is a pure function of its arguments; the graph run is
  complete when it ends; nothing of a call is left behind; calls return;
* source executor: one run of the graph; the file's items in order, each
  once, then nulls; a drain never precedes the run;
* islands: slices of one frame meet in step; the cluster of a frame meets that
  frame's depositions; a graph is empty between calls; what its components
  remember is its own;
* wire geometry: a graph is initialized with the geometry its executor was given;
* workflow: what a node publishes for a cell was made from that cell's inputs;
  a null stays in its cell; a file sink writes every cell once;
* registration: an executor is bound to its own boundary nodes; its components
  keep the settings it was configured with; a job runs complete or not at all;
  every initialized `Main` is finalized.

## 2. Modules

`BoundaryNodes` holds both buffers as operators on their state. The modules
that use a buffer extend it, so there is one definition of `fill`,
`operator()` and `drain`.

| TLA+ | Code |
|---|---|
| `Fill(s, data)` | `BoundarySource::fill`: push, `m_eos_sent = false` |
| `SourceOk`, `SourceOut`, `AfterCall` | return value, out parameter and effect of `BoundarySource::operator()` |
| `Accept` | `BoundarySink::operator()`: EOS is ignored, data queued |
| `DrainOut`, `AfterDrain` | return value and effect of `BoundarySink::drain` |

`BoundaryPair` joins a source and a sink by a pass-through graph (the graph of
`test_boundary.cpp` and `frame-passthrough-generic.jsonnet`) and lets the
client fill and drain at any time. It implements `Fifo`, a FIFO channel.

`ShapeExecutor` is one executor for all shapes that take input; the constants
choose the shape (number of in- and out-ports, one item per sink or all).
`FillAll`, `EndRun`, `DrainAll` are the three statements of `operator()`;
`RejectSize` is the throw at the top of `FaninExecutor::operator()`. Between
`FillAll` and `EndRun` the engine interleaves `CallSource(i)`, the island
(`ProcessData`, `ProcessEos`) and `CallSink(j)` freely. `NodeThrows` is an
exception from a WCT node; neither `run_graph` nor `operator()` catches it.
The abstract specification is `PureCall`: call, then return one of the results
that are right for these arguments, or throw.

The island is external and stands for any sub-graph that keeps these rules,
which this repository relies on without stating them in one place: it takes
one value from every in-edge; a null on an in-edge makes it flush what it holds
back and pass EOS on; it may be driven again after EOS; and with a shape that
drains one item per sink it makes at most one product of every input tuple
(`ShapeAssumption`). Without the last rule the code is wrong: the second
product is returned by the next call. A product is the record of the tuple it
was made from, so data of different calls stay distinguishable.

`SourceExecutor` is `SourceExecutor::operator()` called for many data cells.
`Exchange` is the atomic `m_ran.exchange(true)`. PHLEX's default concurrency
for `provide` is not visible in this repository, so both possibilities are
behaviours of the model: the variable `serial` has either value and keeps it.
With concurrent calls the unlocked `std::queue` is a data race as soon as
another caller is inside it (`Contended`); then a drain returns anything or does not
return (`RacingDrain`). `NodeThrows` is an exception out of `run_graph()`: it leaves
the call with `m_ran` set, and what had come to the sink is there for later calls.

`Shapes` says what each helper of `register_shapes.hpp` makes of its template
arguments: the declaration to PHLEX and the data type of every port; and, one
definition for each, what the module files register. `SourceClasses` and
`SinkClasses` are the boundary classes in WCT's factory.

`Registration` extends it; it is the main thread. `conf` is the job's configuration (any
function from modules to configurations); `Begin`, `CheckArity`,
`ConstructBase`, `Initialize`, `BindPorts`, `Declare` are the steps of one
registration in the order of the code, each with its way to throw; `factory`
is WCT's named factory, a map from component to the settings it was last
configured with. `MCRegistration` supplies configurations: right ones, file
writers, a shared service, one for every way to throw, and all module files.

`Topologies` has the graphs that `src/cfg` builds, as nodes with a kind and
edges into numbered ports: the imaging files (slicing, two faces, clustering,
with and without depositions), drift, simulation, simulation with signal
processing, conversion and fan-in. `Islands` puts executors around
them, with a queue on every edge and calls on a thread each. Where `ShapeExecutor`
takes the island for one node that keeps its rules, this module shows the rules
kept by the graphs: end of stream exactly once to every node, a tuple's data
together. Memory that outlives a call is indexed by the component's name
(`Service`): blobs that `Cluster` collects (`held`) and the position of the random
service (`drawn`). Two islands with one scope share it, as in the process-wide
factory. `MCIslands` is every island alone, and pairs that share a component, a
service, or nothing. A frame may have no slices: the slicers of the imaging files skip
what has no charge (`img.jsonnet:15-19`). Such a frame has no cluster, and in the graph
with depositions these then meet nothing at the join (`Starved`). `WellFormed` collects the conditions on a graph under which its
calls leave nothing behind, `Whole` those under which, besides, all that goes into a call
comes out as its one result. The theorems assume them of all graphs.

`WireGeometry` is `FacadeWireSchema`. Its registry is a map from scopes to
stores behind a mutex (`holder`); `BeginConfigure` locks and looks up, and throws if
nothing is registered, `EndConfigure` copies and unlocks, `Validate` and
`ConfigureAnode` read the facade through a reference without the lock, and see
anything while another executor writes the same component (`Seen`). The source file
describes a protocol of an earlier design, initialization at the first event, and
executors now initialize when constructed; here an executor initializes at any time,
with a geometry registered or without.

`Workflow` is a job: nodes connected by product selectors (`Matches`, from
`input_selector`), several data cells in flight in the layer of each node, PHLEX
calling a node for a cell once its inputs exist. `workflow` is the job's
configuration, one of those `MCWorkflow` takes from `src/test`. A call of an
executor is three steps, `FillSources`,
`RunGraph`, `DrainSinks`, so that the calls of different cells interleave as
threads would; what keeps the calls of one node apart is the guard that stands
for `concurrency::serial`. The graph run is one step here (`ShapeExecutor` takes
it apart, and its theorems `RunsAreComplete` and `CallsArePure` are why that is
enough); the queues are kept, with the operators of `BoundaryNodes`. `ReadRecord`
is a source executor whose calls do not overlap (`asked` records their order), `LoadSchema` reads the wire
geometry of the job or fails, `Observe` is an observer, whose failed assertion
aborts the process.

Definitions under a comment *Variant* are not part of the model. Each is a
plausible mistake in the code (a reset forgotten, a check too late, ...), kept
beside the definition it would replace; substituting it makes the property named
in `PROJECT.json` (`mutants`) fail, which shows that the property depends on
that line of code.

## 3. Runs

| Run | Instance | Properties | Shows |
|---|---|---|---|
| `boundary_pair` | 2 items and null, 4 fills | `TypeOK` `ExactlyOnceInOrder` `EosClosesBatches` `EngineLoopEnds` `ImplementsFifo` | delivery and EOS under any interleaving of fill, engine, drain |
| `ported` | 2 in, 2 out, island makes 0 or 1, 3 calls | `TypeOK` `NoForeignProduct` `ImplementsPureCall` | join and split at once; a dropped input yields null and disturbs no later call |
| `fanin` | 3 in, 1 out, size check, 3 calls | `RunIsDataThenEos` `NoResidue` `CallsReturn` | complete runs, no leftovers, termination |
| `collect` | 1 in, 1 out, stream of 0 or 3, 3 calls | `NoResidue` `ImplementsPureCall` | the whole stream is returned, held-back items too |
| `source` | 4 cells, 2 items, calls overlapping or not, nodes that throw | `TypeOK` `ServedInOrder` `DrainAfterRun` `OneRun` `EveryCallReturns` | the graph is driven once whatever races or throws; one call at a time, calls return or throw, the file's items in order, then null |
| `registration` | 2 modules, every pair of 58 configurations, all module files among them | `TypeOK` `PortsAreOwn` `SettingsHold` `RunsWhole` `RightJobRuns` `MainsFinalized` | names, failures, finalization; every port type has its boundary class |
| `workflows` | 5 workflows, below, 3 events | `TypeOK` `NoAbort` `EachCellItsOwn` `WritesOnce` `SameRecord` `AllDone` | products stay in their cell, one write per cell, files in step if asked in step, no assertion fails |
| `islands` | 5 islands alone, 4 pairs, 2 calls each, imaging 3, 0 or 2 slices | `TypeOK` `NoResidue` `ResultIsOwn` `DepositionsLag` `CallsReturn` | whatever the engine's order, results are of their call alone and graphs end empty, until a frame without slices comes to the join with depositions; what is paired with what from then on |
| `geometry` | 2 executors, 2 scopes, 2 geometries | `TypeOK` `RunsOnOwnGeometry` `InitializationsEnd` | a scope of one's own gives one's own geometry; the lock is given back |
| `file_sinks` | 2 frame sinks | `NoCollision` | **violated**, see below |
| `upstream_first` | 2 functions, one feeding the other | `UpstreamFirst` | **violated**, see below |
| `drift_reproduced` | drift and simulation islands, 2 calls each | `DriftReproduced` | **violated**, see below |

Bounds. Three calls are enough for an effect of one call on the next, and on
the one after that when the next is refused or null; nothing in the executor
counts calls. Two in-ports suffice to pair wrong inputs, and the fan-in run has
three. A stream has no or three products,
so one that is cut short is not a legal outcome. Two non-null items distinguish reordering; four fills allow two batches
of two. In `source` there are more cells than items, so exhaustion is
reached, and so it is in the workflows with files. Two modules are what a
collision of names needs. The workflows are: two instances of one module
(generator, filter, observer of both); a file fanned out to two simulations,
one of which drops inputs, in again and to a file sink, 2 records for 3 cells;
a join of two files of 3 and 2 records; a geometry of the job's one cell beside
events; a conversion with observer. Three cells let one be inside an executor
while a second waits and a third is done. PHLEX asks each node for the cells in an
order of its own, the two files of the join included. Two calls of an
island are enough for a leftover to meet the next call, two slices for a wrong
pairing of faces; with depositions a third call meets what two frames without slices
have left. Of two executors with a geometry one is the disturber of the
other, in a scope of its own or in the same. `MaxFills`,
`MaxCalls`, `NumItems`, `items`, `Counts` and `Cells` are the only bounds on
behaviours.
All runs have `CHECK_DEADLOCK FALSE` because the systems stop: the calls are
used up, every cell has been answered, the job has ended.

Fairness. `WF(Tick)`, `WF(RunStep)`: the engine calls nodes as long as one of
them does work (the loop inside `m_wcmain()`), and a thread inside `operator()`
keeps running. No fairness makes PHLEX start a call in `ShapeExecutor`, makes
the client fill in `BoundaryPair`, or chooses among the engine's steps. In
`SourceExecutor` PHLEX eventually asks for every cell, since a provider's
products are requested for each of them, unless an exception has come out of a call;
that a node throws is never forced. In `Workflow` some step is taken as long
as some node is ready for some cell or inside a call (weak fairness of `Steps`);
as there are finitely many of them, all are. Nothing is assumed of which cell
comes first. In `Islands` the thread of each executor keeps
running, whatever the others do; in `WireGeometry` an initialization that began
goes on, and no executor need be called. In `Registration` the main thread
goes on while the job has not failed; after a failure nothing is assumed,
because what PHLEX then unwinds is not visible here.

Three violations are differences between documents, or comments, and code:

* `docs/executors.md:254-256` says instance names of components other than
  boundary nodes *must include the APA or scope identifier to prevent
  collisions*. `cfg/frame-file-sink.jsonnet:34` names every writer `file_sink`,
  so two frame sinks in one job share one writer: the second configuration wins.
* `docs/services.md:77-78` says *the upstream node always initializes before
  the downstream node*, at its first call. Executors initialize in their
  constructors, in registration order (`ShapeExecutors.hpp:194`).
* `cfg/dune/wct/job/drift.jsonnet:14-18` says a random service of its own makes the
  drift job yield the same draws, *hence the SAME drifted depos*, as the drifter of
  `sim.jsonnet`. There the same service also feeds the transform and the noise and
  is not reseeded between events, so this is true of the first event only.

## 4. Proofs

`ShapeExecutor_proofs` proves, for any finite set of ports, any shape, any
island that keeps `ShapeAssumption` and any number of calls:

* `TypeCorrect` (`TypeOK`), `CallsLeaveNothing` (`NoResidue`), `RunsAreComplete`
  (`RunIsDataThenEos`), `ProductsAreOwn` (`NoForeignProduct`);
* `CallsArePure`: the executor implements `PureCall`.

None of these is inductive. `Inv` adds what is true in the middle of a run.
For the inputs, `fired` (0, 1, 2) says how far the island is, and each port is
described alone: the item is still in the source, or in the edge, or has gone;
the EOS behind it likewise. For the outputs there is a conservation law: at
every port, what is in the sink, then in the edge, then held back by the
island is the sequence of products of these arguments, and once EOS was taken
nothing is held and a null ends the edge. At `EndRun` the queues are empty, so
`fired = 2` and the sink holds exactly the products; `DrainAll` then returns
what `Outcomes` allows and empties the sink, which for one-item shapes is
where `AtMostOne` is used. `MoveHead`, `CutSeq`, `ConcatParts` (in `Induction`)
are facts about sequences for the conservation law.
The proof has one lemma for each action, combined in `NextInv`.

`BoundaryPair_proofs` proves for any items and any number of fills `PairTypes`
(`TypeOK`), `EosOncePerBatch` (`EosClosesBatches`), `NothingLost`
(`ExactlyOnceInOrder`) and `StepsOfAFifo`, the safety part of `ImplementsFifo`: every
step is a step of `Fifo` or a stutter. The strengthening `PairInv`
says that no EOS was recorded beyond the current number of fills and that an
item in the queue means the source is armed. `ExactlyOnceInOrder` itself is then
inductive, with laws of the filter `NonNull`: what it makes of a sequence with
one more value, and with its head taken off (`NonNullAppend`, `NonNullHead`).

Those laws need induction over sequences. The library states induction with the
property as an operator, which the provers cannot instantiate. `Induction` states
it with sets instead: a set of numbers with 0 and every successor has all numbers
(`NatSetInduction`, from the well-foundedness of `<`), likewise for sequences
(`SeqSetInduction`), and a recursive function whose step is given as a function
exists (`RecursionExists`). It also has the facts about sequences that several
proofs use.

`SourceExecutor_proofs` proves for any cells and any length of the file `RunsOnce`
(`OneRun`) and `SourceTypes`, which hold however calls overlap, and, for calls
that do not, `FileInOrder` (`ServedInOrder`) and `DrainsAfterRun`
(`DrainAfterRun`). The run may throw at any point. The first two need that nobody runs
before `m_ran` is set and then its runner alone (`PlainInv`). `SerialInv` says of the calls that have
drained, the sink and the edge that they are the beginning of what the graph's
source delivers, cut at three places: before the run all are empty; in the run
no call has drained, and sink and edge together reach to what has been read;
after it the edge is empty and the sink starts behind the last call.

`Registration_proofs` proves for any modules and configurations `OwnPorts`
(`PortsAreOwn`), `SettingsAreKept` (`SettingsHold`), `JobsAreWhole` (`RunsWhole`),
`RightJobsRegister` (`RightJobRuns`) and `RegistrationTypes` (`TypeOK`). The lemma behind the first two is
`SharedAreParts`: with a scope each, two sub-graphs have no component in common
but parts that both files name, since boundary nodes and apps bear the scope.
It rests on `RegistrationAssumption`: no sub-graph file makes boundary nodes or
an app besides those it is handed (`Wiring`). The invariant says what each stage
of a registration has passed, that bound boundary nodes are in the factory, and
that whoever has been initialized finds its settings there; of the next
`Initialize` it then follows that components in common get equal settings.
`RightJobsRegister` needs of the 18 module files one fact, that every port type
has its boundary class (`FilesHaveClasses`), and of the steps before `BindPorts`
that they leave all components of the module in the factory (`MadeForPorts`).

`WireGeometry_proofs` proves for any executors, scopes and geometries `OwnGeometry`
(`RunsOnOwnGeometry`) and `GeometryTypes` (`TypeOK`). `Carried` follows the geometry of an executor with a
scope of its own from the registry to the facade and to the anode plane, which
works because every step of another executor writes under another scope.

`Workflow_proofs` proves for any workflows and cells `CellsKeepApart`
(`EachCellItsOwn`). The invariant is `OneCallInTheGraph`: at most one call is inside
an executor (`Single`, from `concurrency::serial`), its sources have exactly that
call's arguments until it runs the graph, its sinks exactly what was made of them
until it drains, and between calls all are empty. A graph therefore never sees more
than one tuple (`AcceptOne`), which is why no induction over queues is needed.
`Published` and `Fed` say that a node's arguments exist before its call begins and
are not replaced during it. On top of that invariant it proves

* `FilesWrittenOnce` (`WritesOnce`): `Writing` says that what a sink executor has
  written are the tuples without a null of the cells whose call has run the graph,
  and as many tuples as there are such cells, so that none is written twice;
* `FilesInStep` (`SameRecord`), for sources of one layer: `Files` says that a sink
  which has run holds the records behind the first *n*, *n* being the number of calls
  done, and that a cell got the record whose number is its place among the cells the
  source was asked for. That PHLEX asks two files for the cells in one order is no
  hypothesis but one side of what is proved: where it does not, the records differ;
* `WorkflowTypes` (`TypeOK`), from both;
* `ObserversAccept` (`NoAbort`), for the workflows that satisfy `ObserversFed`: an
  observer aborts on a null and, comparing two products, on one and the same object.
  `ObserversFed` says of the configuration alone where an observer's products come
  from: a generator, a schema that loads, or executors that drop nothing, and two
  compared ones from different makers. TLC evaluates it for all workflows of `MCWorkflow`.
  A file cannot take a generator's place: its nulls after the last record would
  abort the job. `NullIsNoRecord` (a product is not null) is the other hypothesis.

Assumed (`WorkflowAssumption`): every input selects one product, an executor has an
input and a provider one output, the cells of a layer are finitely many numbers, the
length of a file is a number, and no record is null.

`Islands_proofs` proves for any jobs of executors around any well-formed graphs, any
number of calls and any order in which engine and threads take their steps:

* `IslandTypes` (`TypeOK`): nulls never get into a boundary sink nor into clustering;
* `NothingRemains` (`NoResidue`), for jobs in which no two executors share a
  clustering component (`OwnClusterings`): between its calls a graph is empty, edges,
  boundary nodes and collected blobs, until a frame without slices comes to a join with
  a second source (`Starved`). A frame without slices elsewhere leaves nothing;
* `ResultsAreOwn` (`ResultIsOwn`), for jobs whose graphs are `Whole`: every call ever
  made returned what was made of its own arguments, all of them and nothing else, or
  nothing if one was a null, and its random nodes drew the executor's own next numbers;
  where executors whose graphs remember something have scopes of their own
  (`Independent`, the hypothesis of the property itself), and again until a join starves.

The condition is the code's and not the proof's. What happens at a starved join is
`DepositionsLag`, checked by TLC for `img.jsonnet` with depositions: every frame without
slices leaves one value more on the edge from the depositions, for ever. After one, the
clusters of all later calls meet an end of stream there and the calls return null; after
two, they meet the depositions of the call before.

`WellFormed` (in `Topologies`) is what the proof needs of a graph, and TLC evaluates
it for the graphs of `src/cfg` that `MCIslands` uses. `IsGraph`: edges connect what exists,
every node has an in-edge, only synchronising nodes have several, there is no cycle.
`Rated` says how many values each node puts out in a call: a plain node two, data
and end of stream; behind the slicer as many as there were slices, and one more;
clustering alone two or, of a frame without slices, one. Nodes that synchronise must
get all their inputs at one rate, and a sink that keeps one item must not get slices.
A graph that breaks these rules leaves something on an edge.

`Whole` says more of a graph. From every set of nodes an edge leads out, so that
whatever is put out gets to the sink. What the first source gives goes to the slicer and
nowhere else, and only that goes there (`Upstream`): what is behind the slicer has that
source's frame in slices, each once. Random nodes occur in graphs of one source without
a slicer only: with two sources, of which one has a null, a node behind the other would
draw numbers for a call that returns nothing, and the next call would not have the next
ones. A node that collects gets slices that no clustering has joined, or there would be
nothing to collect. TLC evaluates `Whole`, too, for the graphs of `src/cfg`
(`GraphsAreWhole`).

The inductive invariant is `CallsApart`, of every executor whose join has not starved: it
is `Quiet` between calls, in a call `Flowing`, and what its earlier calls returned is
`Answered`. A call in progress is described without fixing the order of its steps: there is a *stream* for every place,
the values it has put out so far, and a number of values it has taken, such that every
queue is the stream of its tail after what its head took (`Streams`). On this footing
each node is described by its own stream alone, in three respects.

* `Flow` is about lengths and nulls. A source gives its argument and one end of
  stream (`Fed`), a plain node's stream has at most two values of which the second is
  null (`Pair`), nodes behind the slicer repeat the pattern of nulls of the slicer
  (`SamePattern`), the slicer and clustering relate what they took to what they gave
  (`SlicerAt`, `ClusterAt`).
* `Made` is about contents. Each value is what its place makes of the values in the
  same row of the streams it takes from; the slicer cuts its frame, clustering joins
  what it has collected.
* `Numbers` is about the random service: a node without its value yet has drawn nothing
  in this call, one with it has drawn one number, and all of those come from the block
  of numbers that begins where the executor's calls before have stopped.

There is one lemma for each kind of node (`SourceFlows`, `PlainFlows`, `SlicerFlows`,
`ClusterFlows`, `SinkFlows`). When no node has work, `RunsDry` shows, along the absence
of cycles, that every place has put out all that it ever will, and that all of it was
taken (`Ended`). What the sink has then follows along the edges (`Over`). Nothing that
it should not have: a value with a foreign part or a foreign number is traced back to a
first place that has it, and there is none. Everything that it should have: the places
whose streams lack a part of the arguments include no source of it, and those that have
it lead on, edge by edge, to the sink. The conservation of numbers says the same of the
random nodes.

`OwnClusterings` is a real condition, not one of the proof: with a shared clustering
component another executor's end of stream takes the blobs of this one's frame, and a
cluster too many waits in a sink that is drained of one. Names made of `service_prefix`
and anode are what provides it.

Only model-checked:

* `DepositionsLag`: it is about one topology, and two unequal streams at its join;
* liveness (`EngineLoopEnds`, `CallsReturn`, `EveryCallReturns`, `MainsFinalized`,
  `AllDone`, `InitializationsEnd`) and with it the fairness of `Fifo` in
  `ImplementsFifo`: TLAPS does not reason about fairness and `ENABLED` here.

## 5. Not modelled

* Physics: contents of frames and depositions, what the WCT nodes compute, Jsonnet
  evaluation (only its outcome: the components, or a failure).
* Build files, comparison scripts, log settings of WCT.
* Use of an executor after a node threw, but for the source executor, whose later calls
  go on. PHLEX's handling of exceptions is not visible here, so elsewhere a call that
  throws is the last one. The state it leaves is not clean: nothing clears the queues
  (variant `NodeThrowsAway`).
* The `stage` of selectors, and nodes whose inputs are of different layers: PHLEX
  resolves them. Two products of one name: `WorkflowAssumption` excludes them, since
  what PHLEX does with them is not visible here.
* `README.md:73` and `docs/howto-new-workflow.md:217` describe an option `use_wire_schema`; the code
  has no such option, and nothing calls `FacadeWireSchema::register_store`. Who
  registers a geometry in `WireGeometry` is taken from the protocol its header
  describes.
* Data races inside WCT components that graphs of different threads share:
  `Islands` interleaves the calls of nodes, and one call is one step. A call's
  random draws are counted as one.
* What blob clustering does with slices of one frame that are apart: it is taken to make
  one cluster of all slices it has at the end of the stream, and none of no slices.
* Sub-graph files whose graph is a chain of stateless nodes like those of
  `Topologies`: another chain adds nothing.

## 6. Plan

Order of work, the most important behaviour first.

1. `BoundaryNodes`, `BoundaryPair` / `Fifo` — done, safety and steps of the refinement proved.
2. `ShapeExecutor` / `PureCall` — done, safety and refinement proved.
3. `SourceExecutor` — done, safety proved.
4. `Registration` — done, safety proved.
5. `Shapes`, `Workflow` — done, safety proved.
6. `Topologies`, `Islands` — done, safety proved.
7. `WireGeometry` — done, safety proved.
8. Left: `RunGraph` of `Workflow` as a step of `PureCall`, so that the composition of
   the two modules is a refinement and not an argument in this file.
9. Left: an island that survives an exception.
