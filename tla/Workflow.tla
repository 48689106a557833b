------------------------------ MODULE Workflow -------------------------------
(***************************************************************************)
(* A PHLEX job of several nodes, with several data cells in flight.        *)
(* Generators and source executors provide products, executors transform   *)
(* or (without outputs) write them, observers assert on them; PHLEX calls  *)
(* a node for a cell once all its input products of that cell exist.  The  *)
(* threads of calls for different cells interleave between the three       *)
(* statements of an executor's operator(): fill, run_graph, drain.  The    *)
(* run itself is one step here; module ShapeExecutor takes it apart.       *)
(***************************************************************************)
EXTENDS BoundaryNodes, Integers, FiniteSets, SequencesExt

CONSTANTS Cells,      \* [layers -> data_cell_index::number() of the layer's cells]
          Workflows,  \* set of workflows
          Unset       \* a product that does not exist yet

(* A workflow is a function [module labels -> configuration], and a
   configuration is a record:
     kind     "gen", "schema", "source", "executor" or "observer"
     layer    the layer of its inputs and outputs
     inputs   selectors [creator, suffix]; the creator may be "", that is any
     outputs  the suffixes of the outputs
     passes   an executor whose graph hands its input on untouched
     drops    an executor whose graph may make nothing of an input
     items    for a source: the number of records in its file              *)

Select(creator, suffix) == [creator |-> creator, suffix |-> suffix]

Node(kind, layer, inputs, outputs) ==
  [kind |-> kind, layer |-> layer, inputs |-> inputs, outputs |-> outputs,
   passes |-> FALSE, drops |-> FALSE, items |-> 0]

\* The module files that register a lambda and no executor.
FrameGen(layer, suffix)       == Node("gen", layer, <<>>, <<suffix>>)
DepoSetGen(layer)             == Node("gen", layer, <<>>, <<"deposet">>)
WireSchemaSource(layer)       == Node("schema", layer, <<>>, <<"wire_schema">>)
FrameObserver(layer, from)    == Node("observer", layer, <<Select(from, "frame")>>, <<>>)
DepoSetObserver(layer, from)  == Node("observer", layer, <<Select(from, "deposet")>>, <<>>)
TwoFrameObserver(layer, a, b) ==
  Node("observer", layer, <<Select(a, "frame"), Select(b, "frame")>>, <<>>)
WireSchemaObserver(layer)     ==
  Node("observer", layer, <<Select("input", "wire_schema")>>, <<>>)

Providers == {"gen", "schema", "source"}

PortsOf(nodes) == UNION {{n} \X DOMAIN nodes[n].outputs : n \in DOMAIN nodes}

\* Providers publish as "input", transforms under their module label.
Creator(nodes, n) == IF nodes[n].kind \in Providers THEN "input" ELSE n

\* Output port p is what node n selects by sel.
Matches(nodes, n, sel, p) ==
  /\ sel.creator \in {"", Creator(nodes, p[1])}
  /\ sel.suffix = nodes[p[1]].outputs[p[2]]
  /\ nodes[n].layer = nodes[p[1]].layer

\* Every input is one product: no two outputs have the same name.  An executor
\* has an input, for one without is a source executor.  A provider has one
\* output, and the records of a file are not null.
ASSUME WorkflowAssumption ==
  /\ \A layer \in DOMAIN Cells : Cells[layer] \subseteq Nat /\ IsFiniteSet(Cells[layer])
  /\ \A w \in Workflows : \A n \in DOMAIN w :
       /\ w[n].layer \in DOMAIN Cells
       /\ w[n].kind = "executor" => 1 \in DOMAIN w[n].inputs
       /\ w[n].kind \in Providers => DOMAIN w[n].outputs = {1}
       /\ w[n].items \in Nat
       /\ \A k \in 1..w[n].items : [from |-> n, ident |-> k] # Null
       /\ \A i \in DOMAIN w[n].inputs :
            LET matching == {p \in PortsOf(w) :
                               Matches(w, n, w[n].inputs[i], p)}
            IN  \E p \in matching : matching = {p}

VARIABLES workflow, \* the job's workflow: one of Workflows
          product,  \* [Ports -> [cells -> product, Null or Unset]]: PHLEX's stores
          pc,       \* [Labels -> [cells -> where the call is]]
          src,      \* [Labels -> boundary sources, one for each input]
          snk,      \* [Labels -> boundary sinks, one for each output]
          ran,      \* source executors that have run their graph (m_ran)
          written,  \* [Labels -> the input tuples its graph has written to a file]
          asked,    \* history: [Labels -> the cells of the calls of a source, in order]
          job       \* "running", "aborted" by an assertion, "failed" by an exception

vars == <<workflow, product, pc, src, snk, ran, written, asked, job>>

Config     == workflow
Labels     == DOMAIN Config
Of(kind)   == {n \in Labels : Config[n].kind = kind}
Ports      == PortsOf(Config)
CellsOf(n) == Cells[Config[n].layer]

Feeder(n, i) == CHOOSE p \in Ports : Matches(Config, n, Config[n].inputs[i], p)

Init ==
  /\ workflow \in Workflows
  /\ product = [p \in Ports |-> [c \in CellsOf(p[1]) |-> Unset]]
  /\ pc = [n \in Labels |-> [c \in CellsOf(n) |-> "waiting"]]
  /\ src = [n \in Labels |-> [i \in DOMAIN Config[n].inputs |-> NewSource]]
  /\ snk = [n \in Labels |-> [j \in DOMAIN Config[n].outputs |-> NewSink]]
  /\ ran = {}
  /\ written = [n \in Labels |-> <<>>]
  /\ asked = [n \in Labels |-> <<>>]
  /\ job = "running"

-----------------------------------------------------------------------------
(* What PHLEX does around every call.                                      *)

Args(n, c) == [i \in DOMAIN Config[n].inputs |-> product[Feeder(n, i)][c]]

Ready(n, c) == /\ job = "running"
               /\ pc[n][c] = "waiting"
               /\ \A i \in DOMAIN Config[n].inputs : Args(n, c)[i] # Unset

Goto(n, c, stage) == pc' = [pc EXCEPT ![n][c] = stage]

\* Node n publishes values[j] as its j-th product of cell c.
Publish(n, c, values) ==
  product' = [p \in Ports |-> IF p[1] = n THEN [product[p] EXCEPT ![c] = values[p[2]]]
                                          ELSE product[p]]

-----------------------------------------------------------------------------
(* Providers.                                                              *)

\* A generator makes a new object that carries the cell's number.
Generate(n, c) ==
  /\ n \in Of("gen")
  /\ Ready(n, c)
  /\ Publish(n, c, <<[from |-> n, ident |-> c]>>)
  /\ Goto(n, c, "done")
  /\ UNCHANGED <<workflow, src, snk, ran, written, asked, job>>

\* wire_schema_source loads its file, which may fail, at every call.
LoadSchema(n, c) ==
  /\ n \in Of("schema")
  /\ Ready(n, c)
  /\ \/ /\ Publish(n, c, <<[from |-> n, ident |-> c]>>)
        /\ Goto(n, c, "done")
        /\ UNCHANGED job
     \/ /\ job' = "failed"
        /\ UNCHANGED <<product, pc>>
  /\ UNCHANGED <<workflow, src, snk, ran, written, asked>>

Records(n) == [k \in 1..Config[n].items |-> [from |-> n, ident |-> k]]

\* A boundary sink called with one value after another (a recursive function
\* rather than FoldLeft, which the proofs of Workflow_proofs could not unfold).
AcceptEach(sink, values) ==
  LET after[k \in 0..Len(values)] == IF k = 0 THEN sink ELSE Accept(after[k - 1], values[k])
  IN  after[Len(values)]

\* The boundary sink of a source executor when a call comes to drain it.
Loaded(n) == IF n \in ran THEN snk[n][1] ELSE AcceptEach(snk[n][1], Records(n))

\* Variant: a call that finds the file exhausted waits for more.
ReadRecordWaits(n, c) ==
  /\ n \in Of("source")
  /\ Ready(n, c)
  /\ Loaded(n) # <<>>
  /\ Publish(n, c, <<DrainOut(Loaded(n))>>)
  /\ snk' = [snk EXCEPT ![n][1] = AfterDrain(Loaded(n))]
  /\ ran' = ran \cup {n}
  /\ asked' = [asked EXCEPT ![n] = Append(@, c)]
  /\ Goto(n, c, "done")
  /\ UNCHANGED <<workflow, src, written, job>>

\* SourceExecutor::operator(), whose calls do not overlap (module
\* SourceExecutor says what happens if they do).  PHLEX asks for the cells in any
\* order, of each source in its own; the cell itself is ignored.
ReadRecord(n, c) ==
  /\ n \in Of("source")
  /\ Ready(n, c)
  /\ Publish(n, c, <<DrainOut(Loaded(n))>>)
  /\ snk' = [snk EXCEPT ![n][1] = AfterDrain(Loaded(n))]
  /\ ran' = ran \cup {n}
  /\ asked' = [asked EXCEPT ![n] = Append(@, c)]
  /\ Goto(n, c, "done")
  /\ UNCHANGED <<workflow, src, written, job>>

-----------------------------------------------------------------------------
(* Executors.                                                              *)

Inside(n) == {c \in CellsOf(n) : pc[n][c] \in {"filled", "ran"}}

\* Variant: the node is registered with concurrency::unlimited.
FillSourcesUnlimited(n, c) ==
  /\ n \in Of("executor")
  /\ Ready(n, c)
  /\ src' = [src EXCEPT ![n] = [i \in DOMAIN @ |-> Fill(@[i], Args(n, c)[i])]]
  /\ Goto(n, c, "filled")
  /\ UNCHANGED <<workflow, product, snk, ran, written, asked, job>>

\* concurrency::serial: one call of this node at a time.
FillSources(n, c) ==
  /\ n \in Of("executor")
  /\ Ready(n, c)
  /\ Inside(n) = {}
  /\ src' = [src EXCEPT ![n] = [i \in DOMAIN @ |-> Fill(@[i], Args(n, c)[i])]]
  /\ Goto(n, c, "filled")
  /\ UNCHANGED <<workflow, product, snk, ran, written, asked, job>>

\* The tuples waiting in the sources of n, oldest first.
Waiting(n) == [k \in DOMAIN src[n][1].queue |-> [i \in DOMAIN src[n] |-> src[n][i].queue[k]]]

NullFree(t) == \A i \in DOMAIN t : t[i] # Null

\* What the graph of n sends to its j-th sink for tuple t.
Made(n, t, j) == IF ~NullFree(t) THEN Null
                 ELSE IF Config[n].passes THEN t[1] ELSE [from |-> n, port |-> j, args |-> t]

\* Variant: operator() hands out the front of the queue without popping it.
SpentPeeks(s) == [s EXCEPT !.eosSent = TRUE]

\* A source after a run: it gave out all it had, and then end of stream.
Spent(s) == [queue |-> <<>>, eosSent |-> TRUE]

\* run_graph(): the waiting tuples go through; the graph may drop some.
RunGraph(n, c) ==
  /\ job = "running"
  /\ pc[n][c] = "filled"
  /\ \E dropped \in SUBSET DOMAIN Waiting(n) :
       /\ dropped # {} => Config[n].drops
       /\ snk' = [snk EXCEPT ![n] = [j \in DOMAIN @ |->
            AcceptEach(@[j], [k \in DOMAIN Waiting(n) |->
              IF k \in dropped THEN Null ELSE Made(n, Waiting(n)[k], j)])]]
  /\ written' = [written EXCEPT ![n] = IF Config[n].outputs = <<>>
                                       THEN @ \o Filtered(Waiting(n), NullFree) ELSE @]
  /\ src' = [src EXCEPT ![n] = [i \in DOMAIN @ |-> Spent(@[i])]]
  /\ Goto(n, c, "ran")
  /\ UNCHANGED <<workflow, product, ran, asked, job>>

DrainSinks(n, c) ==
  /\ job = "running"
  /\ pc[n][c] = "ran"
  /\ Publish(n, c, [j \in DOMAIN snk[n] |-> DrainOut(snk[n][j])])
  /\ snk' = [snk EXCEPT ![n] = [j \in DOMAIN @ |-> AfterDrain(@[j])]]
  /\ Goto(n, c, "done")
  /\ UNCHANGED <<workflow, src, ran, written, asked, job>>

\* An exception out of run_graph(), in an executor or in the first call of a source
\* executor, ends the job.  How far data had got into the buffers of n is left open:
\* no call begins or goes on in a job that failed.
NodeThrows(n, c) ==
  /\ job = "running"
  /\ \/ /\ pc[n][c] = "filled"
        /\ UNCHANGED ran
     \/ /\ n \in Of("source") \ ran
        /\ Ready(n, c)
        /\ ran' = ran \cup {n}
  /\ job' = "failed"
  /\ UNCHANGED <<workflow, product, pc, src, snk, written, asked>>

-----------------------------------------------------------------------------
(* Observers assert that what they get is not null, and two frames that     *)
(* they are different objects; a failed assertion aborts the process.      *)

Acceptable(t) == NullFree(t) /\ \A i, k \in DOMAIN t : i # k => t[i] # t[k]

Observe(n, c) ==
  /\ n \in Of("observer")
  /\ Ready(n, c)
  /\ job' = IF Acceptable(Args(n, c)) THEN job ELSE "aborted"
  /\ Goto(n, c, "done")
  /\ UNCHANGED <<workflow, product, src, snk, ran, written, asked>>

-----------------------------------------------------------------------------
Step(n, c) == \/ Generate(n, c) \/ LoadSchema(n, c) \/ ReadRecord(n, c)
              \/ FillSources(n, c) \/ RunGraph(n, c) \/ DrainSinks(n, c)
              \/ Observe(n, c)

Steps == \E n \in Labels : \E c \in CellsOf(n) : Step(n, c)

Next == Steps \/ \E n \in Labels : \E c \in CellsOf(n) : NodeThrows(n, c)

\* While some node is ready for some cell, PHLEX goes on calling nodes.
Spec == Init /\ [][Next]_vars /\ WF_vars(Steps)

-----------------------------------------------------------------------------
(* Properties.                                                             *)

\* With concurrency::serial a boundary source never has more than the one item of
\* the call in progress waiting, and a boundary sink never holds a null.
TypeOK ==
  /\ workflow \in Workflows
  /\ DOMAIN product = Ports
  /\ DOMAIN pc = Labels
  /\ \A n \in Labels : pc[n] \in [CellsOf(n) -> {"waiting", "filled", "ran", "done"}]
  /\ \A n \in Labels : /\ \A i \in DOMAIN src[n] : src[n][i].queue = <<>> \/ Len(src[n][i].queue) = 1
                       /\ \A j \in DOMAIN snk[n] : \A k \in DOMAIN snk[n][j] : snk[n][j][k] # Null
  /\ ran \subseteq Of("source")
  /\ \A n \in Of("source") : asked[n] \in Seq(CellsOf(n))
  /\ job \in {"running", "aborted", "failed"}

\* What an executor publishes for a cell was made from the products its inputs
\* have for that very cell, whatever other cells its graph has processed
\* before or is given meanwhile; a null argument gives a null product for that
\* cell and no other.  This is what concurrency::serial buys.
EachCellItsOwn ==
  \A p \in Ports : \A c \in CellsOf(p[1]) :
    p[1] \in Of("executor") /\ product[p][c] # Unset =>
      \/ product[p][c] = Made(p[1], Args(p[1], c), p[2])
      \/ product[p][c] = Null /\ Config[p[1]].drops

\* A sink executor writes every cell's input to its file exactly once (cells
\* with a null product not at all), in whatever order the cells arrive.
WritesOnce ==
  \A n \in Of("executor") : Config[n].outputs = <<>> =>
    LET cells == {c \in CellsOf(n) : pc[n][c] \in {"ran", "done"} /\ NullFree(Args(n, c))} IN
    /\ Len(written[n]) = Cardinality(cells)
    /\ Range(written[n]) = {Args(n, c) : c \in cells}

\* No observer's assertion fails.
NoAbort == job # "aborted"

\* What that takes of a workflow: the observers are fed by generators, or by
\* executors that are and whose graphs drop nothing, and the products an observer
\* compares come from different makers (a node that passes its input on is none).
ObserversFed(nodes) ==
  LET from(n, i) == CHOOSE m \in DOMAIN nodes :
                      \E j \in DOMAIN nodes[m].outputs :
                        Matches(nodes, n, nodes[n].inputs[i], <<m, j>>)
  IN \E fed \in SUBSET DOMAIN nodes : \E maker \in [fed -> DOMAIN nodes] :
       /\ \A n \in fed :
            \/ nodes[n].kind \in {"gen", "schema"} /\ maker[n] = n
            \/ /\ nodes[n].kind = "executor" /\ ~nodes[n].drops
               /\ \A i \in DOMAIN nodes[n].inputs : from(n, i) \in fed
               /\ maker[n] = IF nodes[n].passes THEN maker[from(n, 1)] ELSE n
       /\ \A n \in DOMAIN nodes : nodes[n].kind = "observer" =>
            \A i, k \in DOMAIN nodes[n].inputs :
              /\ from(n, i) \in fed
              /\ i # k => maker[from(n, i)] # maker[from(n, k)]

\* The turn of cell c among the calls of source n.
Turn(n, c) == CHOOSE k \in DOMAIN asked[n] : asked[n][k] = c

\* Two files read side by side, for the cells of one layer, give a cell the same
\* record if the cell had the same turn in both, and otherwise different ones: a
\* source goes by the number of its calls, so that files stay in step if PHLEX asks
\* for the cells of both in one order, however it asks for anything else.
SameRecord ==
  \A m, n \in Of("source") : \A c \in CellsOf(m) : Config[m].layer = Config[n].layer =>
    LET a == product[<<m, 1>>][c]
        b == product[<<n, 1>>][c]
    IN  {a, b} \cap {Unset, Null} = {} => (a.ident = b.ident <=> Turn(m, c) = Turn(n, c))

\* Unless the job fails, every node is called for every cell and returns.
AllDone == <>(job # "running" \/ \A n \in Labels : \A c \in CellsOf(n) : pc[n][c] = "done")
=============================================================================
