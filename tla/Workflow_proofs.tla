--------------------------- MODULE Workflow_proofs ---------------------------
(***************************************************************************)
(* Proofs about Workflow, for any set of workflows and any cells.  What    *)
(* concurrency::serial buys: the graph of an executor never has data of    *)
(* more than the one call in progress, so every product is its cell's own. *)
(* A file sink writes every cell once, files read side by side stay in     *)
(* step, and no assertion of an observer fails.                            *)
(***************************************************************************)
EXTENDS Workflow, Induction, FiniteSetTheorems

Stages == {"waiting", "filled", "ran", "done"}

-----------------------------------------------------------------------------
(* Sequences.                                                              *)

\* A sink called once.
LEMMA AcceptOne ==
  ASSUME NEW sink, NEW x, NEW values, values = <<x>>
  PROVE  AcceptEach(sink, values) = Accept(sink, x)
<1> DEFINE Body(f) == [k \in 0..1 |-> IF k = 0 THEN sink ELSE Accept(f[k - 1], values[k])]
           after == CHOOSE f : f = Body(f)
           g == [k \in 0..1 |-> IF k = 0 THEN sink ELSE Accept(sink, x)]
<1>1. Len(values) = 1 /\ values[1] = x
  OBVIOUS
<1>2. g = Body(g)
  <2>1. \A k \in 0..1 : g[k] = Body(g)[k]
    <3> TAKE k \in 0..1
    <3>1. CASE k = 0
      BY <3>1
    <3>2. CASE k = 1
      <4>1. g[k - 1] = sink
        BY <3>2
      <4> QED
        BY <1>1, <3>2, <4>1
    <3> QED
      BY <3>1, <3>2
  <2> QED
    BY <2>1
<1>3. after = Body(after)
  <2>1. \E f : f = Body(f)
    BY <1>2
  <2> HIDE DEF Body
  <2> QED
    BY <2>1
<1>4. after[0] = sink /\ after[1] = Accept(sink, x)
  <2> HIDE DEF after
  <2>1. after[0] = sink
    BY <1>3
  <2>2. after[1] = Accept(after[0], values[1])
    BY <1>3
  <2> QED
    BY <2>1, <2>2, <1>1
<1>5. AcceptEach(sink, values) = after[1]
  BY <1>1 DEF AcceptEach
<1> QED
  BY <1>4, <1>5

\* Values in a queue of one.
LEMMA OneTuple ==
  ASSUME NEW x
  PROVE  [k \in 1..1 |-> x] = <<x>>
OBVIOUS

\* A sink that got at most one thing hands it out and is empty.
LEMMA DrainOne ==
  ASSUME NEW x
  PROVE  /\ DrainOut(Accept(<<>>, x)) = x
         /\ AfterDrain(Accept(<<>>, x)) = <<>>
         /\ DrainOut(<<>>) = Null /\ AfterDrain(<<>>) = <<>>
         /\ Accept(<<>>, Null) = <<>>
BY DEF DrainOut, AfterDrain, Accept

-----------------------------------------------------------------------------
(* Names and wires of the workflow.                                        *)

\* The job's workflow is given once and for all.
LEMMA NamesStay ==
  ASSUME workflow' = workflow
  PROVE  /\ Config' = Config /\ Labels' = Labels /\ Ports' = Ports
         /\ \A n \in Labels : CellsOf(n)' = CellsOf(n)
         /\ \A n \in Labels : \A i \in DOMAIN Config[n].inputs : Feeder(n, i)' = Feeder(n, i)
         /\ \A kind : Of(kind)' = Of(kind)
<1>1. Config' = Config
  BY DEF Config
<1>2. Labels' = Labels /\ Ports' = Ports
  BY <1>1 DEF Labels, Ports
<1>3. ASSUME NEW n \in Labels PROVE CellsOf(n)' = CellsOf(n)
  BY <1>1 DEF CellsOf
<1>4. ASSUME NEW n \in Labels, NEW i \in DOMAIN Config[n].inputs
      PROVE  Feeder(n, i)' = Feeder(n, i)
  BY <1>1, <1>2 DEF Feeder
<1>5. ASSUME NEW kind PROVE Of(kind)' = Of(kind)
  BY <1>1, <1>2 DEF Of
<1> QED
  BY <1>1, <1>2, <1>3, <1>4, <1>5

\* Every input is an output of a node of the same layer.
LEMMA FeederIsPort ==
  ASSUME workflow \in Workflows, NEW n \in Labels, NEW i \in DOMAIN Config[n].inputs
  PROVE  /\ Feeder(n, i) \in Ports /\ Feeder(n, i)[1] \in Labels
         /\ CellsOf(Feeder(n, i)[1]) = CellsOf(n)
<1>1. \E p \in Ports : Matches(Config, n, Config[n].inputs[i], p)
  BY WorkflowAssumption DEF Config, Labels, Ports
<1>2. Feeder(n, i) \in Ports /\ Matches(Config, n, Config[n].inputs[i], Feeder(n, i))
  BY <1>1 DEF Feeder
<1>3. Feeder(n, i)[1] \in Labels
  BY <1>2 DEF Ports, PortsOf, Labels
<1> QED
  BY <1>2, <1>3 DEF Matches, CellsOf

\* An executor's first input, by which its graph counts tuples.
LEMMA HasInput ==
  ASSUME workflow \in Workflows, NEW n \in Of("executor")
  PROVE  n \in Labels /\ 1 \in DOMAIN Config[n].inputs
BY WorkflowAssumption DEF Of, Labels, Config

\* A port is a node's label and the number of one of its outputs.
LEMMA PortParts ==
  ASSUME NEW p \in Ports
  PROVE  p[1] \in Labels /\ p[2] \in DOMAIN Config[p[1]].outputs
BY DEF Ports, PortsOf, Labels

-----------------------------------------------------------------------------
(* The invariant.                                                          *)

Types ==
  /\ workflow \in Workflows
  /\ DOMAIN product = Ports
  /\ \A p \in Ports : DOMAIN product[p] = CellsOf(p[1])
  /\ DOMAIN pc = Labels
  /\ \A n \in Labels : pc[n] \in [CellsOf(n) -> Stages]
  /\ \A n \in Labels : n \notin Of("executor") =>
       \A c \in CellsOf(n) : pc[n][c] \in {"waiting", "done"}
  /\ DOMAIN src = Labels /\ DOMAIN snk = Labels
  /\ \A n \in Labels : /\ DOMAIN src[n] = DOMAIN Config[n].inputs
                       /\ DOMAIN snk[n] = DOMAIN Config[n].outputs

\* A product appears when its node is done with the cell.
Published == \A p \in Ports : \A c \in CellsOf(p[1]) : product[p][c] # Unset => pc[p[1]][c] = "done"

\* A node is called when all that feed it are done with the cell.
Fed == \A n \in Labels : \A c \in CellsOf(n) : pc[n][c] # "waiting" =>
         \A i \in DOMAIN Config[n].inputs : pc[Feeder(n, i)[1]][c] = "done"

\* concurrency::serial.
Single(n) == \A c, d \in Inside(n) : c = d

\* The sources of an executor have the arguments of the one call that filled
\* them and has not run its graph yet.
SourcesOwn(n) ==
  /\ \A c \in CellsOf(n) : pc[n][c] = "filled" =>
       \A i \in DOMAIN src[n] : src[n][i].queue = <<Args(n, c)[i]>>
  /\ (\A c \in CellsOf(n) : pc[n][c] # "filled") =>
       \A i \in DOMAIN src[n] : src[n][i].queue = <<>>

\* The sinks have what was made of them, until that call drains it.
SinksOwn(n) ==
  /\ \A c \in CellsOf(n) : pc[n][c] = "ran" =>
       \A j \in DOMAIN snk[n] : \/ snk[n][j] = Accept(<<>>, Made(n, Args(n, c), j))
                                \/ snk[n][j] = <<>> /\ Config[n].drops
  /\ (\A c \in CellsOf(n) : pc[n][c] # "ran") =>
       \A j \in DOMAIN snk[n] : snk[n][j] = <<>>

\* What was published is what was made of them.
ProductsOwn(n) ==
  \A p \in Ports : p[1] = n => \A c \in CellsOf(n) : product[p][c] # Unset =>
    \/ product[p][c] = Made(n, Args(n, c), p[2])
    \/ product[p][c] = Null /\ Config[n].drops

NodeOwn(n) == Single(n) /\ SourcesOwn(n) /\ SinksOwn(n) /\ ProductsOwn(n)

Inv == Types /\ Published /\ Fed /\ \A n \in Of("executor") : NodeOwn(n)

-----------------------------------------------------------------------------
\* At the start nothing is published and no queue has anything.
LEMMA InitInv == Init => Inv
<1> SUFFICES ASSUME Init PROVE Inv
  OBVIOUS
<1>1. Types
  BY DEF Init, Types, Stages
<1>2. Published /\ Fed
  BY PortParts DEF Init, Published, Fed
<1>3. ASSUME NEW n \in Of("executor") PROVE NodeOwn(n)
  <2>1. n \in Labels /\ \A c \in CellsOf(n) : pc[n][c] = "waiting"
    BY DEF Init, Of
  <2>2. Single(n)
    BY <2>1 DEF Single, Inside
  <2>3. SourcesOwn(n) /\ SinksOwn(n)
    BY <2>1 DEF Init, SourcesOwn, SinksOwn, NewSource, NewSink
  <2>4. ProductsOwn(n)
    BY DEF Init, ProductsOwn
  <2> QED
    BY <2>2, <2>3, <2>4 DEF NodeOwn
<1> QED
  BY <1>1, <1>2, <1>3 DEF Inv

\* What all steps have in common: one call gets on, and only a call that ends
\* publishes, for its cell.  Arguments of calls that began stay what they are.
LEMMA Progress ==
  ASSUME Types, Published, Fed, workflow' = workflow,
         NEW n \in Labels, NEW c \in CellsOf(n), NEW stage \in Stages \ {"waiting"},
         pc[n][c] # "done", Goto(n, c, stage),
         \/ product' = product
         \/ stage = "done" /\ \E values : Publish(n, c, values),
         pc[n][c] = "waiting" => \A i \in DOMAIN Config[n].inputs : Args(n, c)[i] # Unset
  PROVE  /\ DOMAIN product' = Ports /\ \A p \in Ports : DOMAIN product'[p] = CellsOf(p[1])
         /\ DOMAIN pc' = Labels /\ \A m \in Labels : pc'[m] \in [CellsOf(m) -> Stages]
         /\ Published' /\ Fed'
         /\ \A m \in Labels : \A d \in CellsOf(m) : pc[m][d] # "waiting" => Args(m, d)' = Args(m, d)
         /\ Args(n, c)' = Args(n, c)
<1>a. /\ Config' = Config /\ Labels' = Labels /\ Ports' = Ports
      /\ \A m \in Labels : CellsOf(m)' = CellsOf(m)
      /\ \A m \in Labels : \A i \in DOMAIN Config[m].inputs : Feeder(m, i)' = Feeder(m, i)
  BY NamesStay
<1>b. \A m \in Labels : \A i \in DOMAIN Config[m].inputs :
        /\ Feeder(m, i) \in Ports /\ Feeder(m, i)[1] \in Labels
        /\ CellsOf(Feeder(m, i)[1]) = CellsOf(m)
  BY FeederIsPort DEF Types
<1>1. DOMAIN product' = Ports /\ \A p \in Ports : DOMAIN product'[p] = CellsOf(p[1])
  BY DEF Types, Publish
<1>2. DOMAIN pc' = Labels /\ \A m \in Labels : pc'[m] \in [CellsOf(m) -> Stages]
  BY DEF Types, Goto
<1>3. \A m \in Labels : \A d \in CellsOf(m) :
        pc'[m][d] = IF m = n /\ d = c THEN stage ELSE pc[m][d]
  BY DEF Types, Goto
<1>4. \A p \in Ports : \A d \in CellsOf(p[1]) : pc[p[1]][d] = "done" =>
        product'[p][d] = product[p][d] /\ pc'[p[1]][d] = "done"
  BY <1>3, PortParts DEF Types, Publish
<1>5. Published'
  <2> SUFFICES ASSUME NEW p \in Ports, NEW d \in CellsOf(p[1]), product'[p][d] # Unset
               PROVE  pc'[p[1]][d] = "done"
    BY <1>a, PortParts DEF Published
  <2>1. CASE product'[p][d] = product[p][d]
    BY <2>1, <1>4 DEF Published
  <2>2. CASE product'[p][d] # product[p][d]
    <3>1. p[1] = n /\ d = c /\ stage = "done"
      BY <2>2 DEF Publish, Types
    <3> QED
      BY <3>1, <1>3
  <2> QED
    BY <2>1, <2>2
<1>6. ASSUME NEW m \in Labels, NEW d \in CellsOf(m), pc[m][d] # "waiting" \/ (m = n /\ d = c)
      PROVE  \A i \in DOMAIN Config[m].inputs : pc[Feeder(m, i)[1]][d] = "done"
  <2>1. CASE pc[m][d] # "waiting"
    BY <2>1 DEF Fed
  <2>2. CASE pc[m][d] = "waiting"
    <3> TAKE i \in DOMAIN Config[m].inputs
    <3>1. product[Feeder(m, i)][d] # Unset
      BY <1>6, <2>2 DEF Args
    <3> QED
      BY <3>1, <1>b DEF Published
  <2> QED
    BY <2>1, <2>2
<1>7. Fed'
  <2> SUFFICES ASSUME NEW m \in Labels, NEW d \in CellsOf(m), pc'[m][d] # "waiting",
                      NEW i \in DOMAIN Config[m].inputs
               PROVE  pc'[Feeder(m, i)[1]][d] = "done"
    BY <1>a DEF Fed
  <2>1. pc[Feeder(m, i)[1]][d] = "done"
    BY <1>3, <1>6
  <2> QED
    BY <2>1, <1>b, <1>4
<1>8. ASSUME NEW m \in Labels, NEW d \in CellsOf(m), pc[m][d] # "waiting" \/ (m = n /\ d = c)
      PROVE  Args(m, d)' = Args(m, d)
  <2>1. \A i \in DOMAIN Config[m].inputs : product'[Feeder(m, i)][d] = product[Feeder(m, i)][d]
    BY <1>4, <1>6, <1>8, <1>b
  <2> QED
    BY <2>1, <1>a DEF Args
<1> QED
  BY <1>1, <1>2, <1>5, <1>7, <1>8

\* What is published stays what was made of the cell's arguments.
LEMMA ProductsKeep ==
  ASSUME Published, workflow' = workflow, NEW n \in Of("executor"), ProductsOwn(n),
         \A p \in Ports : p[1] = n => product'[p] = product[p],
         \A c \in CellsOf(n) : pc[n][c] # "waiting" => Args(n, c)' = Args(n, c)
  PROVE  ProductsOwn(n)'
<1>1. /\ n \in Labels /\ Config' = Config /\ CellsOf(n)' = CellsOf(n) /\ Ports' = Ports
      /\ \A t, j : Made(n, t, j)' = Made(n, t, j)
  BY NamesStay DEF Of, Made
<1> SUFFICES ASSUME NEW p \in Ports, p[1] = n, NEW c \in CellsOf(n), product[p][c] # Unset
             PROVE  \/ product[p][c] = Made(n, Args(n, c)', p[2])
                    \/ product[p][c] = Null /\ Config[n].drops
  BY <1>1 DEF ProductsOwn
<1>2. pc[n][c] # "waiting"
  BY DEF Published
<1> QED
  BY <1>2 DEF ProductsOwn

\* A step of one node leaves the graphs of the others alone.
LEMMA OthersKeep ==
  ASSUME Inv, workflow' = workflow, NEW n \in Labels, NEW m \in Of("executor"), m # n,
         pc'[m] = pc[m], src'[m] = src[m], snk'[m] = snk[m],
         \A p \in Ports : p[1] = m => product'[p] = product[p],
         \A d \in CellsOf(m) : pc[m][d] # "waiting" => Args(m, d)' = Args(m, d)
  PROVE  NodeOwn(m)'
<1>a. m \in Labels /\ Config' = Config /\ CellsOf(m)' = CellsOf(m) /\ Ports' = Ports
  BY NamesStay DEF Of
<1>b. NodeOwn(m)
  BY DEF Inv
<1>1. Single(m)'
  BY <1>a, <1>b DEF NodeOwn, Single, Inside
<1>2. SourcesOwn(m)'
  BY <1>a, <1>b DEF NodeOwn, SourcesOwn
<1>m. \A t, j : Made(m, t, j)' = Made(m, t, j)
  BY <1>a DEF Made
<1>3. SinksOwn(m)'
  BY <1>a, <1>b, <1>m DEF NodeOwn, SinksOwn
<1>4. ProductsOwn(m)'
  BY <1>b, ProductsKeep DEF Inv, NodeOwn
<1> QED
  BY <1>1, <1>2, <1>3, <1>4 DEF NodeOwn

\* Steps that only end the job, or nothing.
LEMMA StandStill ==
  ASSUME Inv, UNCHANGED <<workflow, product, pc, src, snk>>
  PROVE  Inv'
<1>a. /\ Config' = Config /\ Labels' = Labels /\ Ports' = Ports
      /\ \A m \in Labels : CellsOf(m)' = CellsOf(m)
      /\ \A m \in Labels : \A i \in DOMAIN Config[m].inputs : Feeder(m, i)' = Feeder(m, i)
      /\ Of("executor")' = Of("executor")
  BY NamesStay
<1>1. Types'
  <2>1. Types
    BY DEF Inv
  <2>2. \A p \in Ports : DOMAIN product'[p] = CellsOf(p[1])'
    BY <1>a, <2>1, PortParts DEF Types
  <2>3. \A m \in Labels : pc'[m] \in [CellsOf(m)' -> Stages]
    BY <1>a, <2>1 DEF Types
  <2> QED
    BY <1>a, <2>1, <2>2, <2>3 DEF Types
<1>2. Published' /\ Fed'
  BY <1>a, PortParts DEF Inv, Published, Fed
<1>3. ASSUME NEW m \in Of("executor") PROVE NodeOwn(m)'
  <2>1. m \in Labels /\ NodeOwn(m)
    BY DEF Of, Inv
  <2>2. \A d : Args(m, d)' = Args(m, d)
    BY <1>a, <2>1 DEF Args
  <2>3. \A t, j : Made(m, t, j)' = Made(m, t, j)
    BY <1>a DEF Made
  <2> QED
    BY <1>a, <2>1, <2>2, <2>3
    DEF NodeOwn, Single, SourcesOwn, SinksOwn, ProductsOwn, Inside
<1> QED
  BY <1>a, <1>1, <1>2, <1>3 DEF Inv

\* A call that began is not waiting any more.
LEMMA ReadyArgs ==
  ASSUME NEW n, NEW c, Ready(n, c)
  PROVE  pc[n][c] = "waiting" /\ \A i \in DOMAIN Config[n].inputs : Args(n, c)[i] # Unset
BY DEF Ready

\* Providers and observers touch no executor.
LEMMA ProviderInv ==
  ASSUME Inv, NEW n \in Labels, NEW c \in CellsOf(n),
         Generate(n, c) \/ LoadSchema(n, c) \/ ReadRecord(n, c) \/ Observe(n, c)
  PROVE  Inv'
<1>1. CASE UNCHANGED <<workflow, product, pc, src, snk>>
  BY <1>1, StandStill
<1>2. CASE ~UNCHANGED <<workflow, product, pc, src, snk>>
  <2>1. /\ n \notin Of("executor") /\ Ready(n, c) /\ workflow' = workflow /\ src' = src
        /\ Goto(n, c, "done")
        /\ product' = product \/ \E values : Publish(n, c, values)
        /\ snk' = snk \/ \E x : snk' = [snk EXCEPT ![n][1] = x]
    BY <1>2 DEF Generate, LoadSchema, ReadRecord, Observe, Of
  <2>a. /\ Config' = Config /\ Labels' = Labels /\ Ports' = Ports
        /\ \A m \in Labels : CellsOf(m)' = CellsOf(m)
        /\ Of("executor")' = Of("executor")
    BY <2>1, NamesStay
  <2>b. Types /\ Published /\ Fed /\ "done" \in Stages \ {"waiting"}
    BY DEF Inv, Stages
  <2>2. /\ DOMAIN product' = Ports /\ \A p \in Ports : DOMAIN product'[p] = CellsOf(p[1])
        /\ DOMAIN pc' = Labels /\ \A m \in Labels : pc'[m] \in [CellsOf(m) -> Stages]
        /\ Published' /\ Fed'
        /\ \A m \in Labels : \A d \in CellsOf(m) : pc[m][d] # "waiting" => Args(m, d)' = Args(m, d)
    BY <2>1, <2>b, ReadyArgs, Progress
  <2>3. \A m \in Labels : pc'[m] = IF m = n THEN [pc[n] EXCEPT ![c] = "done"] ELSE pc[m]
    BY <2>1, <2>b DEF Goto, Types
  <2>4. DOMAIN snk' = Labels /\ \A m \in Labels : DOMAIN snk'[m] = DOMAIN Config[m].outputs
    BY <2>1, <2>b DEF Types
  <2>5. Types'
    <3>1. \A m \in Labels : m \notin Of("executor") =>
            \A d \in CellsOf(m) : pc'[m][d] \in {"waiting", "done"}
      BY <2>3, <2>b DEF Types
    <3> QED
      BY <2>1, <2>2, <2>4, <2>a, <2>b, <3>1, PortParts DEF Types
  <2>6. ASSUME NEW m \in Of("executor") PROVE NodeOwn(m)'
    <3>1. m # n /\ m \in Labels
      BY <2>1 DEF Of
    <3>2. pc'[m] = pc[m] /\ src'[m] = src[m] /\ snk'[m] = snk[m]
      BY <2>1, <2>3, <2>b, <3>1 DEF Types
    <3>3. \A p \in Ports : p[1] = m => product'[p] = product[p]
      BY <2>1, <3>1 DEF Publish
    <3> QED
      BY <2>1, <2>2, <3>1, <3>2, <3>3, OthersKeep
  <2> QED
    BY <2>2, <2>5, <2>6, <2>a DEF Inv
<1> QED
  BY <1>1, <1>2

\* The three statements of operator(): what they have in common.
LEMMA ExecutorStep ==
  ASSUME Inv, workflow' = workflow,
         NEW n \in Of("executor"), NEW c \in CellsOf(n), NEW stage \in Stages \ {"waiting"},
         pc[n][c] # "done", Goto(n, c, stage),
         \/ product' = product
         \/ stage = "done" /\ \E values : Publish(n, c, values),
         pc[n][c] = "waiting" => \A i \in DOMAIN Config[n].inputs : Args(n, c)[i] # Unset,
         src' = src \/ \E f : DOMAIN f = DOMAIN src[n] /\ src' = [src EXCEPT ![n] = f],
         snk' = snk \/ \E f : DOMAIN f = DOMAIN snk[n] /\ snk' = [snk EXCEPT ![n] = f],
         (\A d \in CellsOf(n) : pc[n][d] # "waiting" \/ d = c => Args(n, d)' = Args(n, d))
           => NodeOwn(n)'
  PROVE  Inv'
<1>a. /\ Config' = Config /\ Labels' = Labels /\ Ports' = Ports
      /\ \A m \in Labels : CellsOf(m)' = CellsOf(m)
      /\ Of("executor")' = Of("executor")
  BY NamesStay
<1>b. Types /\ Published /\ Fed /\ n \in Labels
  BY DEF Inv, Of
<1>1. /\ DOMAIN product' = Ports /\ \A p \in Ports : DOMAIN product'[p] = CellsOf(p[1])
      /\ DOMAIN pc' = Labels /\ \A m \in Labels : pc'[m] \in [CellsOf(m) -> Stages]
      /\ Published' /\ Fed'
      /\ \A m \in Labels : \A d \in CellsOf(m) : pc[m][d] # "waiting" => Args(m, d)' = Args(m, d)
      /\ Args(n, c)' = Args(n, c)
  BY <1>b, Progress
<1>2. \A m \in Labels : m # n => pc'[m] = pc[m] /\ src'[m] = src[m] /\ snk'[m] = snk[m]
  BY <1>b DEF Goto, Types
<1>3. Types'
  <2>1. /\ DOMAIN src' = Labels /\ DOMAIN snk' = Labels
        /\ \A m \in Labels : /\ DOMAIN src'[m] = DOMAIN Config[m].inputs
                             /\ DOMAIN snk'[m] = DOMAIN Config[m].outputs
    BY <1>b DEF Types
  <2>2. \A m \in Labels : m \notin Of("executor") =>
          \A d \in CellsOf(m) : pc'[m][d] \in {"waiting", "done"}
    BY <1>b, <1>2 DEF Types
  <2> QED
    BY <1>1, <1>a, <1>b, <2>1, <2>2, PortParts DEF Types
<1>4. ASSUME NEW m \in Of("executor"), m # n PROVE NodeOwn(m)'
  <2>1. m \in Labels
    BY DEF Of
  <2>2. \A p \in Ports : p[1] = m => product'[p] = product[p]
    BY <1>4 DEF Publish
  <2> QED
    BY <1>1, <1>2, <1>4, <1>b, <2>1, <2>2, OthersKeep
<1>5. \A m \in Of("executor") : NodeOwn(m)'
  BY <1>1, <1>4, <1>b
<1> QED
  BY <1>1, <1>3, <1>5, <1>a DEF Inv

\* fill_all: the arguments are all that is in the sources.
LEMMA FillInv ==
  ASSUME Inv, NEW n \in Labels, NEW c \in CellsOf(n), FillSources(n, c)
  PROVE  Inv'
<1>a. /\ n \in Of("executor") /\ Ready(n, c) /\ Inside(n) = {}
      /\ UNCHANGED <<workflow, product, snk>>
      /\ src' = [src EXCEPT ![n] = [i \in DOMAIN src[n] |-> Fill(src[n][i], Args(n, c)[i])]]
      /\ Goto(n, c, "filled")
  BY DEF FillSources
<1>b. Types /\ NodeOwn(n) /\ "filled" \in Stages \ {"waiting"}
  BY <1>a DEF Inv, Stages
<1>d. Published
  BY DEF Inv
<1>c. /\ Config' = Config /\ CellsOf(n)' = CellsOf(n) /\ Ports' = Ports
      /\ \A t, j : Made(n, t, j)' = Made(n, t, j)
  BY <1>a, NamesStay DEF Made
<1>1. \A d \in CellsOf(n) : pc[n][d] \in {"waiting", "done"}
  BY <1>a, <1>b DEF Inside, Types, Stages
<1>2. \A d \in CellsOf(n) : pc'[n][d] = IF d = c THEN "filled" ELSE pc[n][d]
  BY <1>a, <1>b DEF Goto, Types
<1>3. ASSUME \A d \in CellsOf(n) : pc[n][d] # "waiting" \/ d = c => Args(n, d)' = Args(n, d)
      PROVE  NodeOwn(n)'
  <2>1. Single(n)'
    BY <1>1, <1>2, <1>c DEF Single, Inside
  <2>2. \A i \in DOMAIN src[n] : src'[n][i].queue = <<Args(n, c)[i]>>
    <3> TAKE i \in DOMAIN src[n]
    <3>1. src[n][i].queue = <<>>
      BY <1>1, <1>b DEF NodeOwn, SourcesOwn
    <3>2. src'[n][i] = Fill(src[n][i], Args(n, c)[i])
      BY <1>a, <1>b DEF Types
    <3> QED
      BY <3>1, <3>2 DEF Fill
  <2>3. DOMAIN src'[n] = DOMAIN src[n]
    BY <1>a, <1>b DEF Types
  <2>4. SourcesOwn(n)'
    BY <1>1, <1>2, <1>3, <1>c, <2>2, <2>3 DEF SourcesOwn
  <2>5. SinksOwn(n)'
    BY <1>1, <1>2, <1>a, <1>b, <1>c DEF NodeOwn, SinksOwn
  <2>6. ProductsOwn(n)'
    BY <1>3, <1>a, <1>b, <1>d, ProductsKeep DEF NodeOwn
  <2> QED
    BY <2>1, <2>4, <2>5, <2>6 DEF NodeOwn
<1>4. \E f : DOMAIN f = DOMAIN src[n] /\ src' = [src EXCEPT ![n] = f]
  BY <1>a
<1>5. pc[n][c] = "waiting" /\ \A i \in DOMAIN Config[n].inputs : Args(n, c)[i] # Unset
  BY <1>a, ReadyArgs
<1> QED
  BY <1>3, <1>4, <1>5, <1>a, <1>b, ExecutorStep

\* run_graph(): the one tuple goes through, and the sinks get what is made of it.
LEMMA RunInv ==
  ASSUME Inv, NEW n \in Labels, NEW c \in CellsOf(n), RunGraph(n, c)
  PROVE  Inv'
<1>a. /\ pc[n][c] = "filled" /\ UNCHANGED <<workflow, product>>
      /\ src' = [src EXCEPT ![n] = [i \in DOMAIN src[n] |-> Spent(src[n][i])]]
      /\ Goto(n, c, "ran")
  BY DEF RunGraph
<1>b. Types /\ Published /\ "ran" \in Stages \ {"waiting"}
  BY DEF Inv, Stages
<1>c. n \in Of("executor") /\ NodeOwn(n) /\ 1 \in DOMAIN Config[n].inputs
  <2>1. n \in Of("executor")
    BY <1>a, <1>b DEF Types
  <2> QED
    BY <2>1, <1>b, HasInput DEF Inv, Types
<1>d. /\ Config' = Config /\ CellsOf(n)' = CellsOf(n)
      /\ \A t, j : Made(n, t, j)' = Made(n, t, j)
  BY <1>a, NamesStay DEF Made
<1>1. \A d \in CellsOf(n) : d # c => pc[n][d] \in {"waiting", "done"}
  <2>1. \A d \in CellsOf(n) : pc[n][d] \in Stages
    BY <1>b DEF Types
  <2> QED
    BY <2>1, <1>a, <1>c DEF NodeOwn, Single, Inside, Stages
<1>2. \A d \in CellsOf(n) : pc'[n][d] = IF d = c THEN "ran" ELSE pc[n][d]
  BY <1>a, <1>b DEF Goto, Types
<1>3. Waiting(n) = <<Args(n, c)>>
  <2>1. DOMAIN src[n] = DOMAIN Config[n].inputs
    BY <1>b DEF Types
  <2>2. \A i \in DOMAIN src[n] : src[n][i].queue = <<Args(n, c)[i]>>
    BY <1>a, <1>c DEF NodeOwn, SourcesOwn
  <2>3. DOMAIN src[n][1].queue = 1..1
    BY <2>1, <2>2, <1>c
  <2>4. \A k \in 1..1 : [i \in DOMAIN src[n] |-> src[n][i].queue[k]] = Args(n, c)
    <3> TAKE k \in 1..1
    <3>1. \A i \in DOMAIN src[n] : src[n][i].queue[k] = Args(n, c)[i]
      BY <2>2
    <3> QED
      BY <3>1, <2>1 DEF Args
  <2>5. Waiting(n) = [k \in 1..1 |-> Args(n, c)]
    BY <2>3, <2>4 DEF Waiting
  <2> QED
    BY <2>5, OneTuple
<1>4. PICK dropped \in SUBSET DOMAIN Waiting(n) :
        /\ dropped # {} => Config[n].drops
        /\ snk' = [snk EXCEPT ![n] = [j \in DOMAIN snk[n] |->
             AcceptEach(snk[n][j], [k \in DOMAIN Waiting(n) |->
               IF k \in dropped THEN Null ELSE Made(n, Waiting(n)[k], j)])]]
  BY DEF RunGraph
<1>5. ASSUME NEW j \in DOMAIN snk[n]
      PROVE  \/ snk'[n][j] = Accept(<<>>, Made(n, Args(n, c), j))
             \/ snk'[n][j] = <<>> /\ Config[n].drops
  <2> DEFINE x == IF 1 \in dropped THEN Null ELSE Made(n, Args(n, c), j)
             values == [k \in DOMAIN Waiting(n) |->
                          IF k \in dropped THEN Null ELSE Made(n, Waiting(n)[k], j)]
  <2>1. snk[n][j] = <<>>
    <3>1. \A d \in CellsOf(n) : pc[n][d] # "ran"
      BY <1>1, <1>a
    <3> QED
      BY <3>1, <1>c DEF NodeOwn, SinksOwn
  <2>2. values = <<x>>
    <3>1. DOMAIN Waiting(n) = 1..1 /\ Waiting(n)[1] = Args(n, c)
      BY <1>3
    <3>2. \A k \in 1..1 : k = 1
      OBVIOUS
    <3>3. values = [k \in 1..1 |-> x]
      BY <3>1, <3>2
    <3> HIDE DEF values, x
    <3> QED
      BY <3>3, OneTuple
  <2>3. snk'[n][j] = AcceptEach(<<>>, values)
    BY <1>4, <1>b, <2>1 DEF Types
  <2>4. snk'[n][j] = Accept(<<>>, x)
    <3> HIDE DEF values, x
    <3> QED
      BY <2>2, <2>3, AcceptOne
  <2>5. CASE 1 \in dropped
    BY <2>4, <2>5, <1>4, DrainOne
  <2>6. CASE 1 \notin dropped
    BY <2>4, <2>6
  <2> QED
    BY <2>5, <2>6
<1>6. DOMAIN src'[n] = DOMAIN src[n] /\ DOMAIN snk'[n] = DOMAIN snk[n]
  BY <1>a, <1>b, <1>4 DEF Types
<1>7. ASSUME \A d \in CellsOf(n) : pc[n][d] # "waiting" \/ d = c => Args(n, d)' = Args(n, d)
      PROVE  NodeOwn(n)'
  <2>1. Single(n)'
    BY <1>1, <1>2, <1>d DEF Single, Inside
  <2>2. SourcesOwn(n)'
    <3>1. \A i \in DOMAIN src[n] : src'[n][i].queue = <<>>
      BY <1>a, <1>b DEF Types, Spent
    <3> QED
      BY <3>1, <1>1, <1>2, <1>d, <1>6 DEF SourcesOwn
  <2>3. SinksOwn(n)'
    BY <1>1, <1>2, <1>5, <1>6, <1>7, <1>d DEF SinksOwn
  <2>4. ProductsOwn(n)'
    BY <1>7, <1>a, <1>b, <1>c, ProductsKeep DEF NodeOwn
  <2> QED
    BY <2>1, <2>2, <2>3, <2>4 DEF NodeOwn
<1>8. \E f : DOMAIN f = DOMAIN snk[n] /\ snk' = [snk EXCEPT ![n] = f]
  BY <1>4
<1>9. \E f : DOMAIN f = DOMAIN src[n] /\ src' = [src EXCEPT ![n] = f]
  BY <1>a
<1> QED
  BY <1>7, <1>8, <1>9, <1>a, <1>b, <1>c, ExecutorStep

\* drain: what the sinks have is published, and they are empty.
LEMMA DrainInv ==
  ASSUME Inv, NEW n \in Labels, NEW c \in CellsOf(n), DrainSinks(n, c)
  PROVE  Inv'
<1>a. /\ pc[n][c] = "ran" /\ UNCHANGED <<workflow, src>>
      /\ Publish(n, c, [j \in DOMAIN snk[n] |-> DrainOut(snk[n][j])])
      /\ snk' = [snk EXCEPT ![n] = [j \in DOMAIN snk[n] |-> AfterDrain(snk[n][j])]]
      /\ Goto(n, c, "done")
  BY DEF DrainSinks
<1>b. Types /\ Published /\ "done" \in Stages \ {"waiting"}
  BY DEF Inv, Stages
<1>c. n \in Of("executor") /\ NodeOwn(n)
  <2>1. n \in Of("executor")
    BY <1>a, <1>b DEF Types
  <2> QED
    BY <2>1 DEF Inv
<1>d. /\ Config' = Config /\ CellsOf(n)' = CellsOf(n) /\ Ports' = Ports
      /\ \A t, j : Made(n, t, j)' = Made(n, t, j)
  BY <1>a, NamesStay DEF Made
<1>1. \A d \in CellsOf(n) : d # c => pc[n][d] \in {"waiting", "done"}
  <2>1. \A d \in CellsOf(n) : pc[n][d] \in Stages
    BY <1>b DEF Types
  <2> QED
    BY <2>1, <1>a, <1>c DEF NodeOwn, Single, Inside, Stages
<1>2. \A d \in CellsOf(n) : pc'[n][d] = IF d = c THEN "done" ELSE pc[n][d]
  BY <1>a, <1>b DEF Goto, Types
<1>3. \A j \in DOMAIN snk[n] : \/ snk[n][j] = Accept(<<>>, Made(n, Args(n, c), j))
                               \/ snk[n][j] = <<>> /\ Config[n].drops
  BY <1>a, <1>c DEF NodeOwn, SinksOwn
<1>4. \A j \in DOMAIN snk[n] : /\ AfterDrain(snk[n][j]) = <<>>
                               /\ \/ DrainOut(snk[n][j]) = Made(n, Args(n, c), j)
                                  \/ DrainOut(snk[n][j]) = Null /\ Config[n].drops
  BY <1>3, DrainOne
<1>5. DOMAIN snk'[n] = DOMAIN snk[n] /\ \A j \in DOMAIN snk[n] : snk'[n][j] = <<>>
  BY <1>4, <1>a, <1>b DEF Types
<1>6. ASSUME \A d \in CellsOf(n) : pc[n][d] # "waiting" \/ d = c => Args(n, d)' = Args(n, d)
      PROVE  NodeOwn(n)'
  <2>1. Single(n)'
    BY <1>1, <1>2, <1>d DEF Single, Inside
  <2>2. SourcesOwn(n)'
    <3>1. \A i \in DOMAIN src[n] : src[n][i].queue = <<>>
      BY <1>1, <1>a, <1>c DEF NodeOwn, SourcesOwn
    <3> QED
      BY <3>1, <1>1, <1>2, <1>a, <1>d DEF SourcesOwn
  <2>3. SinksOwn(n)'
    BY <1>1, <1>2, <1>5, <1>d DEF SinksOwn
  <2>4. ProductsOwn(n)'
    <3> SUFFICES ASSUME NEW p \in Ports, p[1] = n, NEW d \in CellsOf(n), product'[p][d] # Unset
                 PROVE  \/ product'[p][d] = Made(n, Args(n, d)', p[2])
                        \/ product'[p][d] = Null /\ Config[n].drops
      BY <1>d DEF ProductsOwn
    <3>1. CASE d = c
      <4>1. p[2] \in DOMAIN snk[n]
        BY <1>b, PortParts DEF Types
      <4>2. product'[p][d] = DrainOut(snk[n][p[2]])
        BY <3>1, <4>1, <1>a, <1>b DEF Publish, Types
      <4>3. Args(n, d)' = Args(n, c)
        BY <1>6, <3>1
      <4> QED
        BY <4>1, <4>2, <4>3, <1>4
    <3>2. CASE d # c
      <4>1. product'[p][d] = product[p][d]
        BY <3>2, <1>a, <1>b DEF Publish, Types
      <4>2. pc[n][d] # "waiting"
        BY <4>1, <1>b DEF Published
      <4> QED
        BY <4>1, <4>2, <1>6, <1>c DEF NodeOwn, ProductsOwn
    <3> QED
      BY <3>1, <3>2
  <2> QED
    BY <2>1, <2>2, <2>3, <2>4 DEF NodeOwn
<1>7. \E f : DOMAIN f = DOMAIN snk[n] /\ snk' = [snk EXCEPT ![n] = f]
  BY <1>a
<1> QED
  BY <1>6, <1>7, <1>a, <1>b, <1>c, ExecutorStep

-----------------------------------------------------------------------------
\* Every step keeps the invariant.
LEMMA NextInv == Inv /\ [Next]_vars => Inv'
<1> SUFFICES ASSUME Inv, [Next]_vars PROVE Inv'
  OBVIOUS
<1>1. CASE UNCHANGED vars
  BY <1>1, StandStill DEF vars
<1>2. CASE Steps
  <2> PICK n \in Labels : \E c \in CellsOf(n) : Step(n, c)
    BY <1>2 DEF Steps
  <2> PICK c \in CellsOf(n) : Step(n, c)
    OBVIOUS
  <2>1. CASE Generate(n, c) \/ LoadSchema(n, c) \/ ReadRecord(n, c) \/ Observe(n, c)
    BY <2>1, ProviderInv
  <2>2. CASE FillSources(n, c)
    BY <2>2, FillInv
  <2>3. CASE RunGraph(n, c)
    BY <2>3, RunInv
  <2>4. CASE DrainSinks(n, c)
    BY <2>4, DrainInv
  <2> QED
    BY <2>1, <2>2, <2>3, <2>4 DEF Step
<1>3. CASE \E n \in Labels : \E c \in CellsOf(n) : NodeThrows(n, c)
  BY <1>3, StandStill DEF NodeThrows
<1> QED
  BY <1>1, <1>2, <1>3 DEF Next

\* The graph of an executor never has anything but the tuple of the one call in
\* progress, and what it published is its cells' own.
THEOREM OneCallInTheGraph == Spec => []Inv
BY InitInv, NextInv, PTL DEF Spec

\* In every workflow, what an executor publishes for a cell was made from the
\* products its inputs have for that very cell (fill_all(), run_graph() and
\* drain() in operator(), registered with concurrency::serial).
THEOREM CellsKeepApart == Spec => []EachCellItsOwn
<1>1. Inv => EachCellItsOwn
  <2> SUFFICES ASSUME Inv, NEW p \in Ports, NEW c \in CellsOf(p[1]), p[1] \in Of("executor"),
                      product[p][c] # Unset
               PROVE  \/ product[p][c] = Made(p[1], Args(p[1], c), p[2])
                      \/ product[p][c] = Null /\ Config[p[1]].drops
    BY DEF EachCellItsOwn
  <2> QED
    BY DEF Inv, NodeOwn, ProductsOwn
<1> QED
  BY <1>1, OneCallInTheGraph, PTL

-----------------------------------------------------------------------------
(* What a step leaves alone.                                               *)

\* A step is a step of one node for one cell, or moves no call.
LEMMA WhoSteps ==
  ASSUME Inv, [Next]_vars
  PROVE  \/ UNCHANGED <<workflow, product, pc, src, snk, written, asked>>
         \/ \E n \in Labels : \E c \in CellsOf(n) : Step(n, c) /\ pc[n][c] # "done"
<1>1. CASE UNCHANGED vars
  BY <1>1 DEF vars
<1>2. CASE \E n \in Labels : \E c \in CellsOf(n) : NodeThrows(n, c)
  BY <1>2 DEF NodeThrows
<1>3. CASE Steps
  <2> PICK n \in Labels : \E c \in CellsOf(n) : Step(n, c)
    BY <1>3 DEF Steps
  <2> PICK c \in CellsOf(n) : Step(n, c)
    OBVIOUS
  <2>1. pc[n][c] # "done"
    BY DEF Step, Generate, LoadSchema, ReadRecord, FillSources, RunGraph, DrainSinks, Observe, Ready
  <2> QED
    BY <2>1
<1> QED
  BY <1>1, <1>2, <1>3 DEF Next

\* What a call of node n for cell c may change: the products of n for c when it
\* ends, where the call is, and the buffers of n.
LEMMA OneStep ==
  ASSUME Inv, NEW n \in Labels, NEW c \in CellsOf(n), Step(n, c)
  PROVE  /\ workflow' = workflow
         /\ \A m \in Labels : m # n => /\ pc'[m] = pc[m] /\ src'[m] = src[m] /\ snk'[m] = snk[m]
                                       /\ m \in ran' <=> m \in ran
                                       /\ asked'[m] = asked[m]
         /\ written' = written \/ \E s : written' = [written EXCEPT ![n] = s]
         /\ \A p \in Ports : p[1] # n => product'[p] = product[p]
         /\ \A p \in Ports : \A d \in CellsOf(p[1]) :
              p[1] = n /\ d # c => product'[p][d] = product[p][d]
         /\ \A d \in CellsOf(n) : d # c => pc'[n][d] = pc[n][d]
<1>a. Types
  BY DEF Inv
<1>1. CASE Generate(n, c)
  BY <1>1, <1>a DEF Generate, Publish, Goto, Types
<1>2. CASE LoadSchema(n, c)
  BY <1>2, <1>a DEF LoadSchema, Publish, Goto, Types
<1>3. CASE ReadRecord(n, c)
  BY <1>3, <1>a DEF ReadRecord, Publish, Goto, Types
<1>4. CASE FillSources(n, c)
  BY <1>4, <1>a DEF FillSources, Goto, Types
<1>5. CASE RunGraph(n, c)
  <2>1. /\ UNCHANGED <<workflow, product, ran, asked>> /\ Goto(n, c, "ran")
        /\ \E f : snk' = [snk EXCEPT ![n] = f]
        /\ \E f : src' = [src EXCEPT ![n] = f]
        /\ \E s : written' = [written EXCEPT ![n] = s]
    BY <1>5 DEF RunGraph
  <2> QED
    BY <2>1, <1>a DEF Goto, Types
<1>6. CASE DrainSinks(n, c)
  BY <1>6, <1>a DEF DrainSinks, Publish, Goto, Types
<1>7. CASE Observe(n, c)
  BY <1>7, <1>a DEF Observe, Goto, Types
<1> QED
  BY <1>1, <1>2, <1>3, <1>4, <1>5, <1>6, <1>7 DEF Step

\* The arguments of a call that began, and the products of one that ended, stay.
LEMMA BegunStays ==
  ASSUME Inv, [Next]_vars
  PROVE  /\ workflow' = workflow
         /\ \A p \in Ports : \A d \in CellsOf(p[1]) : pc[p[1]][d] = "done" =>
              product'[p][d] = product[p][d]
         /\ \A m \in Labels : \A d \in CellsOf(m) : pc[m][d] # "waiting" =>
              Args(m, d)' = Args(m, d)
<1>a. Types /\ Fed
  BY DEF Inv
<1>1. /\ workflow' = workflow
      /\ \A p \in Ports : \A d \in CellsOf(p[1]) : pc[p[1]][d] = "done" =>
           product'[p][d] = product[p][d]
  <2>1. CASE UNCHANGED <<workflow, product, pc, src, snk, written, asked>>
    BY <2>1
  <2>2. CASE \E n \in Labels : \E c \in CellsOf(n) : Step(n, c) /\ pc[n][c] # "done"
    <3> PICK n \in Labels : \E c \in CellsOf(n) : Step(n, c) /\ pc[n][c] # "done"
      BY <2>2
    <3> PICK c \in CellsOf(n) : Step(n, c) /\ pc[n][c] # "done"
      OBVIOUS
    <3> QED
      BY OneStep
  <2> QED
    BY <2>1, <2>2, WhoSteps
<1>2. ASSUME NEW m \in Labels, NEW d \in CellsOf(m), pc[m][d] # "waiting"
      PROVE  Args(m, d)' = Args(m, d)
  <2>1. \A i \in DOMAIN Config[m].inputs : pc[Feeder(m, i)[1]][d] = "done"
    BY <1>2, <1>a DEF Fed
  <2>2. \A i \in DOMAIN Config[m].inputs : product'[Feeder(m, i)][d] = product[Feeder(m, i)][d]
    BY <1>1, <1>a, <2>1, FeederIsPort DEF Types
  <2>3. /\ Config' = Config
        /\ \A i \in DOMAIN Config[m].inputs : Feeder(m, i)' = Feeder(m, i)
    BY <1>1, NamesStay
  <2> QED
    BY <2>2, <2>3 DEF Args
<1> QED
  BY <1>1, <1>2

-----------------------------------------------------------------------------
(* What the graph of a sink executor has written.                          *)

\* Of one tuple, it goes to the file or is left out.
LEMMA FilteredOne ==
  ASSUME NEW t
  PROVE  Filtered(<<t>>, NullFree) = IF NullFree(t) THEN <<t>> ELSE <<>>
<1> DEFINE one == <<t>>
           out == IF NullFree(t) THEN <<t>> ELSE <<>>
           Body(f) == [k \in 0..Len(one) |-> IF k = 0 THEN <<>>
                                             ELSE IF NullFree(one[k]) THEN Append(f[k - 1], one[k])
                                             ELSE f[k - 1]]
           kept == CHOOSE f : f = Body(f)
           g == [k \in 0..1 |-> IF k = 0 THEN <<>> ELSE out]
<1>1. Len(one) = 1 /\ one[1] = t /\ Append(<<>>, t) = <<t>>
  OBVIOUS
<1>2. g = Body(g)
  <2>1. \A k \in 0..1 : g[k] = Body(g)[k]
    <3> TAKE k \in 0..1
    <3>1. CASE k = 0
      BY <1>1, <3>1
    <3>2. CASE k = 1
      <4>1. g[k - 1] = <<>> /\ g[k] = out /\ k \in 0..Len(one) /\ one[k] = t
        BY <1>1, <3>2
      <4>2. Body(g)[k] = IF NullFree(one[k]) THEN Append(g[k - 1], one[k]) ELSE g[k - 1]
        BY <4>1, <3>2
      <4> HIDE DEF g, one
      <4> QED
        BY <1>1, <4>1, <4>2
    <3> QED
      BY <3>1, <3>2
  <2> QED
    BY <1>1, <2>1
<1>3. kept = Body(kept)
  <2>1. \E f : f = Body(f)
    BY <1>2
  <2> HIDE DEF Body
  <2> QED
    BY <2>1
<1>4. kept[0] = <<>> /\ kept[1] = out
  <2> HIDE DEF kept
  <2>1. kept[0] = <<>>
    BY <1>1, <1>3
  <2>2. kept[1] = IF NullFree(one[1]) THEN Append(kept[0], one[1]) ELSE kept[0]
    <3>1. 1 \in 0..Len(one) /\ 1 - 1 = 0 /\ 1 # 0
      BY <1>1
    <3>2. Body(kept)[1] = IF NullFree(one[1]) THEN Append(kept[1 - 1], one[1]) ELSE kept[1 - 1]
      BY <3>1
    <3> HIDE DEF Body, one
    <3> QED
      BY <1>3, <3>1, <3>2
  <2> HIDE DEF one
  <2> QED
    BY <1>1, <2>1, <2>2
<1>5. Filtered(<<t>>, NullFree) = kept[Len(one)]
  BY DEF Filtered
<1> HIDE DEF kept, one
<1> QED
  BY <1>1, <1>4, <1>5

\* The cells whose call has run the graph, those of them with all products, and
\* what that says of the file.
Ran(n) == {c \in CellsOf(n) : pc[n][c] \in {"ran", "done"}}

WrittenBy(n) == {c \in Ran(n) : NullFree(Args(n, c))}

WrittenOwn(n) ==
  /\ \E S : written[n] \in Seq(S)
  /\ Len(written[n]) = Cardinality(WrittenBy(n))
  /\ Range(written[n]) = {Args(n, c) : c \in WrittenBy(n)}

Writing ==
  /\ DOMAIN written = Labels
  /\ \A n \in Of("executor") : Config[n].outputs = <<>> => WrittenOwn(n)

\* Nothing has run and nothing is written.
LEMMA WritingInit == Init => Writing
<1> SUFFICES ASSUME Init PROVE Writing
  OBVIOUS
<1>1. ASSUME NEW n \in Of("executor") PROVE WrittenOwn(n)
  <2>1. n \in Labels /\ written[n] = <<>> /\ WrittenBy(n) = {}
    BY DEF Init, Of, WrittenBy, Ran
  <2>2. Cardinality({}) = 0
    BY FS_EmptySet
  <2>3. <<>> \in Seq({}) /\ Len(<<>>) = 0 /\ Range(<<>>) = {}
    BY DEF Range
  <2> QED
    BY <2>1, <2>2, <2>3 DEF WrittenOwn
<1> QED
  BY <1>1 DEF Init, Writing

\* The tuple that waits for the call in progress.
LEMMA OneWaiting ==
  ASSUME Inv, NEW n \in Of("executor"), NEW c \in CellsOf(n), pc[n][c] = "filled"
  PROVE  Waiting(n) = <<Args(n, c)>>
<1>1. n \in Labels /\ 1 \in DOMAIN Config[n].inputs /\ DOMAIN src[n] = DOMAIN Config[n].inputs
  BY HasInput DEF Inv, Types
<1>2. \A i \in DOMAIN src[n] : src[n][i].queue = <<Args(n, c)[i]>>
  BY DEF Inv, NodeOwn, SourcesOwn
<1>3. DOMAIN src[n][1].queue = 1..1
  BY <1>1, <1>2
<1>4. \A k \in 1..1 : [i \in DOMAIN src[n] |-> src[n][i].queue[k]] = Args(n, c)
  <2> TAKE k \in 1..1
  <2>1. \A i \in DOMAIN src[n] : src[n][i].queue[k] = Args(n, c)[i]
    BY <1>2
  <2> QED
    BY <1>1, <2>1 DEF Args
<1>5. Waiting(n) = [k \in 1..1 |-> Args(n, c)]
  BY <1>3, <1>4 DEF Waiting
<1> QED
  BY <1>5, OneTuple

\* A run writes the tuple of its cell.
LEMMA RunWrites ==
  ASSUME Inv, Writing, NEW n \in Of("executor"), Config[n].outputs = <<>>,
         NEW c \in CellsOf(n), RunGraph(n, c)
  PROVE  WrittenOwn(n)'
<1>a. Types /\ n \in Labels /\ pc[n][c] = "filled" /\ Goto(n, c, "ran")
  BY DEF RunGraph, Inv, Of
<1>b. /\ workflow' = workflow
      /\ \A d \in CellsOf(n) : pc[n][d] # "waiting" => Args(n, d)' = Args(n, d)
  BY <1>a, BegunStays DEF Next, Steps, Step
<1>c. CellsOf(n)' = CellsOf(n)
  BY <1>a, <1>b, NamesStay
<1>d. WrittenOwn(n)
  BY DEF Writing
<1>1. Ran(n)' = Ran(n) \cup {c} /\ c \notin Ran(n)
  BY <1>a, <1>c DEF Ran, Goto, Types
<1>2. \A d \in Ran(n) \cup {c} : Args(n, d)' = Args(n, d)
  BY <1>a, <1>b DEF Ran
<1>3. WrittenBy(n)' = IF NullFree(Args(n, c)) THEN WrittenBy(n) \cup {c} ELSE WrittenBy(n)
  BY <1>1, <1>2 DEF WrittenBy
<1>4. c \notin WrittenBy(n) /\ IsFiniteSet(WrittenBy(n))
  <2>1. IsFiniteSet(CellsOf(n))
    BY <1>a, WorkflowAssumption DEF CellsOf, Config, Labels, Types
  <2> QED
    BY <1>1, <2>1, FS_Subset DEF WrittenBy, Ran
<1>5. written'[n] = written[n] \o (IF NullFree(Args(n, c)) THEN <<Args(n, c)>> ELSE <<>>)
  <2>1. written'[n] = written[n] \o Filtered(Waiting(n), NullFree)
    BY <1>a DEF RunGraph, Writing
  <2> QED
    BY <2>1, <1>a, OneWaiting, FilteredOne
<1>6. PICK S : written[n] \in Seq(S)
  BY <1>d DEF WrittenOwn
<1>7. CASE NullFree(Args(n, c))
  <2> DEFINE x == Args(n, c)
             T == S \cup {x}
             s == written[n]
  <2>1. s \in Seq(T) /\ x \in T
    BY <1>6, SeqMonotonic
  <2>2. written'[n] = Append(s, x)
    BY <1>5, <1>7, <2>1, AppendIsConcat
  <2>3. Cardinality(WrittenBy(n)') = Cardinality(WrittenBy(n)) + 1
    BY <1>3, <1>4, <1>7, FS_AddElement
  <2>4. {Args(n, d)' : d \in WrittenBy(n)'} = {Args(n, d) : d \in WrittenBy(n)} \cup {x}
    BY <1>2, <1>3, <1>7 DEF WrittenBy
  <2> HIDE DEF x, T, s
  <2>5. Append(s, x) \in Seq(T) /\ Len(Append(s, x)) = Len(s) + 1
    BY <2>1, AppendProperties
  <2>6. Range(Append(s, x)) = Range(s) \cup {x}
    <3>1. /\ DOMAIN s = 1..Len(s) /\ DOMAIN Append(s, x) = 1..(Len(s) + 1)
          /\ Len(s) \in Nat
          /\ \A k \in 1..Len(s) : Append(s, x)[k] = s[k]
          /\ Append(s, x)[Len(s) + 1] = x
      BY <2>1, <2>5, AppendProperties, LenProperties
    <3>2. 1..(Len(s) + 1) = 1..Len(s) \cup {Len(s) + 1}
      BY <3>1
    <3> QED
      BY <3>1, <3>2, Zenon DEF Range
  <2> QED
    BY <1>d, <2>2, <2>3, <2>4, <2>5, <2>6 DEF WrittenOwn, s
<1>8. CASE ~NullFree(Args(n, c))
  <2>1. written'[n] = written[n]
    BY <1>5, <1>6, <1>8, ConcatEmptySeq
  <2>2. {Args(n, d)' : d \in WrittenBy(n)'} = {Args(n, d) : d \in WrittenBy(n)}
    BY <1>2, <1>3, <1>8 DEF WrittenBy
  <2> QED
    BY <1>3, <1>8, <1>d, <2>1, <2>2 DEF WrittenOwn
<1> QED
  BY <1>7, <1>8

\* All other steps write nothing and run no call of n.
LEMMA WritingNext == Inv /\ Writing /\ [Next]_vars => Writing'
<1> SUFFICES ASSUME Inv, Writing, [Next]_vars PROVE Writing'
  OBVIOUS
<1>a. /\ workflow' = workflow
      /\ \A m \in Labels : \A d \in CellsOf(m) : pc[m][d] # "waiting" => Args(m, d)' = Args(m, d)
  BY BegunStays
<1>b. /\ Config' = Config /\ Labels' = Labels /\ Of("executor")' = Of("executor")
      /\ \A m \in Labels : CellsOf(m)' = CellsOf(m)
  BY <1>a, NamesStay
<1>1. ASSUME NEW m \in Of("executor"), Config[m].outputs = <<>>,
             written'[m] = written[m], Ran(m)' = Ran(m)
      PROVE  WrittenOwn(m)'
  <2>1. m \in Labels /\ WrittenOwn(m)
    BY <1>1 DEF Of, Writing
  <2>2. \A d \in Ran(m) : Args(m, d)' = Args(m, d)
    BY <1>a, <2>1 DEF Ran
  <2>3. WrittenBy(m)' = WrittenBy(m)
    BY <1>1, <2>2 DEF WrittenBy
  <2>4. {Args(m, d)' : d \in WrittenBy(m)'} = {Args(m, d) : d \in WrittenBy(m)}
    BY <2>2, <2>3 DEF WrittenBy
  <2> QED
    BY <1>1, <2>1, <2>3, <2>4 DEF WrittenOwn
<1>2. CASE UNCHANGED <<workflow, product, pc, src, snk, written, asked>>
  <2>1. ASSUME NEW m \in Of("executor") PROVE Ran(m)' = Ran(m) /\ written'[m] = written[m]
    BY <1>2, <1>b DEF Ran, Of
  <2> QED
    BY <1>1, <1>2, <1>b, <2>1 DEF Writing
<1>3. CASE \E n \in Labels : \E c \in CellsOf(n) : Step(n, c) /\ pc[n][c] # "done"
  <2> PICK n \in Labels : \E c \in CellsOf(n) : Step(n, c) /\ pc[n][c] # "done"
    BY <1>3
  <2> PICK c \in CellsOf(n) : Step(n, c) /\ pc[n][c] # "done"
    OBVIOUS
  <2>1. /\ \A m \in Labels : m # n => pc'[m] = pc[m]
        /\ written' = written \/ \E s : written' = [written EXCEPT ![n] = s]
        /\ \A d \in CellsOf(n) : d # c => pc'[n][d] = pc[n][d]
    BY OneStep
  <2>2. DOMAIN written' = Labels /\ \A m \in Labels : m # n => written'[m] = written[m]
    BY <2>1 DEF Writing
  <2>3. ASSUME NEW m \in Of("executor"), m # n, Config[m].outputs = <<>> PROVE WrittenOwn(m)'
    <3>1. m \in Labels
      BY DEF Of
    <3>2. Ran(m)' = Ran(m) /\ written'[m] = written[m]
      BY <1>b, <2>1, <2>2, <2>3, <3>1 DEF Ran
    <3> QED
      BY <1>1, <2>3, <3>2
  <2>4. ASSUME n \in Of("executor"), Config[n].outputs = <<>> PROVE WrittenOwn(n)'
    <3>1. CASE RunGraph(n, c)
      BY <2>4, <3>1, RunWrites
    <3>2. CASE ~RunGraph(n, c)
      <4>1. /\ written' = written
            /\ \/ pc[n][c] = "waiting" /\ pc'[n][c] = "filled"
               \/ pc[n][c] = "ran" /\ pc'[n][c] = "done"
        <5>1. FillSources(n, c) \/ DrainSinks(n, c)
          BY <2>4, <3>2 DEF Step, Of, Generate, LoadSchema, ReadRecord, Observe
        <5> QED
          BY <5>1 DEF FillSources, DrainSinks, Goto, Ready, Inv, Types
      <4>2. Ran(n)' = Ran(n)
        BY <1>b, <2>1, <4>1 DEF Ran
      <4> QED
        BY <1>1, <2>4, <4>1, <4>2
    <3> QED
      BY <3>1, <3>2
  <2> QED
    BY <1>b, <2>2, <2>3, <2>4 DEF Writing
<1> QED
  BY <1>2, <1>3, WhoSteps

\* However the calls for different cells interleave, a file sink writes the
\* products of every cell that has them once, and nothing else.
THEOREM FilesWrittenOnce == Spec => []WritesOnce
<1>1. Writing => WritesOnce
  BY DEF Writing, WritesOnce, WrittenOwn, WrittenBy, Ran
<1> QED
  BY <1>1, WritingInit, WritingNext, OneCallInTheGraph, PTL DEF Spec

-----------------------------------------------------------------------------
(* The buffers of the nodes without a graph, and the records of a file.     *)

\* A sink given a sequence without nulls has that sequence.
LEMMA AcceptAllOf ==
  ASSUME NEW S, Null \notin S, NEW values \in Seq(S)
  PROVE  AcceptEach(<<>>, values) = values
<1> DEFINE n == Len(values)
           Body(f) == [k \in 0..n |-> IF k = 0 THEN <<>> ELSE Accept(f[k - 1], values[k])]
           after == CHOOSE f : f = Body(f)
           g == [k \in 0..n |-> SubSeq(values, 1, k)]
<1>1. n \in Nat
  BY LenProperties
<1>2. g[0] = <<>> /\ g[n] = values
  BY <1>1, SubSeqEmpty, SubSeqFull
<1>3. ASSUME NEW k \in 1..n
      PROVE  g[k] = Accept(g[k - 1], values[k])
  <2>1. k \in 1..k /\ 1 \in 1..n /\ k - 1 \in 0..n /\ k \in 0..n
    BY <1>1
  <2>2. values[k] \in S /\ values[k] # Null
    BY <2>1, LenProperties
  <2>3. SubSeq(values, 1, k) = SubSeq(values, 1, k - 1) \o <<values[k]>>
    BY <2>1, SubSeqRecursiveSecond
  <2>4. SubSeq(values, 1, k - 1) \in Seq(S)
    <3>1. k - 1 \in 0..Len(values)
      BY <2>1
    <3> QED
      BY <3>1, CutSeq
  <2> QED
    BY <2>1, <2>2, <2>3, <2>4, AppendIsConcat DEF Accept
<1> HIDE DEF g
<1>4. g = Body(g)
  <2>1. \A k \in 0..n : g[k] = Body(g)[k]
    <3> TAKE k \in 0..n
    <3>1. CASE k = 0
      BY <3>1, <1>2
    <3>2. CASE k # 0
      <4>1. k \in 1..n
        BY <1>1, <3>2
      <4> QED
        BY <1>3, <3>2, <4>1
    <3> QED
      BY <3>1, <3>2
  <2> QED
    BY <2>1 DEF g
<1>5. after = Body(after)
  <2>1. \E f : f = Body(f)
    BY <1>4
  <2> HIDE DEF Body
  <2> QED
    BY <2>1
<1> HIDE DEF after
<1>6. \A k \in 0..n : after[k] = IF k = 0 THEN <<>> ELSE Accept(after[k - 1], values[k])
  BY <1>5
<1>7. after[n] = g[n]
  <2> DEFINE P == {k \in 0..n : after[k] = g[k]}
  <2>1. 0 \in P
    BY <1>1, <1>2, <1>6
  <2>2. ASSUME NEW k \in 0..(n - 1), k \in P PROVE k + 1 \in P
    <3>1. k + 1 \in 0..n /\ k + 1 \in 1..n /\ (k + 1) - 1 = k /\ k + 1 # 0
      BY <1>1
    <3>2. after[k + 1] = Accept(after[k], values[k + 1])
      BY <1>6, <3>1
    <3>3. g[k + 1] = Accept(g[k], values[k + 1])
      BY <1>3, <3>1
    <3> QED
      BY <2>2, <3>1, <3>2, <3>3
  <2>3. 0..n \subseteq P
    <3> HIDE DEF P
    <3> QED
      BY <1>1, <2>1, <2>2, BoundedInduction
  <2> QED
    BY <1>1, <2>3
<1> QED
  BY <1>2, <1>7 DEF AcceptEach, after, Body

\* The records of a file are a sequence without nulls.
LEMMA RecordsSeq ==
  ASSUME workflow \in Workflows, NEW n \in Labels
  PROVE  /\ Config[n].items \in Nat
         /\ Len(Records(n)) = Config[n].items
         /\ \E S : Null \notin S /\ Records(n) \in Seq(S)
         /\ \A k \in 1..Config[n].items : /\ Records(n)[k] = [from |-> n, ident |-> k]
                                          /\ Records(n)[k] # Null
<1>1. /\ Config[n].items \in Nat
      /\ \A k \in 1..Config[n].items : [from |-> n, ident |-> k] # Null
  BY WorkflowAssumption DEF Labels, Config
<1> DEFINE items == Config[n].items
           S == {[from |-> n, ident |-> k] : k \in 1..items}
<1>2. Null \notin S
  BY <1>1
<1>3. Records(n) \in [1..items -> S]
  BY DEF Records
<1>4. \A k \in 1..items : Records(n)[k] = [from |-> n, ident |-> k]
  BY DEF Records
<1> HIDE DEF S
<1>5. Records(n) \in Seq(S) /\ Len(Records(n)) = items
  BY <1>1, <1>3, SeqDef, LenProperties
<1> QED
  BY <1>1, <1>2, <1>4, <1>5

Done(n) == {c \in CellsOf(n) : pc[n][c] = "done"}

\* The records that no call has taken yet.
Rest(n) == SubSeq(Records(n), Len(asked[n]) + 1, Config[n].items)

Buffers ==
  /\ \A n \in Labels \ Of("executor") : \A i \in DOMAIN src[n] : src[n][i].queue = <<>>
  /\ \A n \in Labels \ (Of("executor") \cup Of("source")) :
       \A j \in DOMAIN snk[n] : snk[n][j] = <<>>
  /\ ran \subseteq Of("source")
  /\ DOMAIN asked = Labels
  /\ job \in {"running", "aborted", "failed"}

\* What the k-th call of source n gets.
NthRecord(n, k) == IF k <= Config[n].items THEN Records(n)[k] ELSE Null

\* The sink of a source holds the rest of the file once it was read (if the job
\* fails in the middle, nobody drains it any more), and its calls got the records
\* before in their order.
FileOwn(n) ==
  /\ asked[n] \in Seq(CellsOf(n))
  /\ snk[n][1] = <<>> \/ snk[n][1] = Rest(n)
  /\ n \notin ran => snk[n][1] = <<>> /\ asked[n] = <<>>
  /\ n \in ran /\ job = "running" => snk[n][1] = Rest(n)
  /\ \A k \in DOMAIN asked[n] : asked[n][k] \in Done(n)
  /\ \A c \in Done(n) : \E k \in DOMAIN asked[n] : asked[n][k] = c
  /\ \A k \in DOMAIN asked[n] : product[<<n, 1>>][asked[n][k]] = NthRecord(n, k)

Files == Buffers /\ \A n \in Of("source") : FileOwn(n)

\* A source has one output.
LEMMA SourceParts ==
  ASSUME Inv, NEW n \in Of("source")
  PROVE  /\ n \in Labels /\ n \notin Of("executor")
         /\ DOMAIN Config[n].outputs = {1} /\ DOMAIN snk[n] = {1} /\ <<n, 1>> \in Ports
<1>1. n \in Labels /\ n \notin Of("executor") /\ DOMAIN Config[n].outputs = {1}
  BY WorkflowAssumption DEF Inv, Types, Of, Labels, Config, Providers
<1>2. DOMAIN snk[n] = {1}
  BY <1>1 DEF Inv, Types
<1>3. <<n, 1>> \in Ports
  BY <1>1 DEF Ports, PortsOf, Labels
<1> QED
  BY <1>1, <1>2, <1>3

\* Nothing is read.
LEMMA FilesInit == Init => Files
<1> SUFFICES ASSUME Init PROVE Files
  OBVIOUS
<1>1. ASSUME NEW n \in Of("source")
      PROVE  n \in Labels /\ Done(n) = {} /\ snk[n][1] = <<>> /\ n \notin ran /\ asked[n] = <<>>
  <2>1. Inv
    BY InitInv
  <2>2. n \in Labels /\ DOMAIN Config[n].outputs = {1}
    BY <2>1, SourceParts
  <2> QED
    BY <2>2 DEF Init, Done, NewSink
<1>2. Buffers
  BY <1>1 DEF Init, Buffers, NewSource, NewSink
<1>3. ASSUME NEW n \in Of("source") PROVE FileOwn(n)
  <2>1. <<>> \in Seq(CellsOf(n)) /\ asked[n] = <<>>
    BY <1>1
  <2>2. asked[n] \in Seq(CellsOf(n)) /\ DOMAIN asked[n] = {}
    BY <2>1
  <2> QED
    BY <1>1, <2>2 DEF FileOwn
<1> QED
  BY <1>2, <1>3 DEF Files

\* What a call of a source finds to drain, and what it leaves.
LEMMA DrainRest ==
  ASSUME Inv, NEW n \in Of("source"), FileOwn(n), job = "running"
  PROVE  LET k == Len(asked[n]) + 1
         IN  /\ Loaded(n) = Rest(n)
             /\ DrainOut(Rest(n)) = NthRecord(n, k)
             /\ AfterDrain(Rest(n)) = SubSeq(Records(n), k + 1, Config[n].items)
<1> DEFINE k == Len(asked[n]) + 1
           N == Config[n].items
<1>1. n \in Labels /\ workflow \in Workflows /\ k \in Nat \ {0}
  <2>1. n \in Labels
    BY SourceParts
  <2>2. workflow \in Workflows
    BY DEF Inv, Types
  <2>3. Len(asked[n]) \in Nat
    BY DEF FileOwn
  <2> QED
    BY <2>1, <2>2, <2>3
<1>2. N \in Nat /\ Len(Records(n)) = N
  BY <1>1, RecordsSeq
<1>3. PICK S : Null \notin S /\ Records(n) \in Seq(S)
  BY <1>1, RecordsSeq
<1>4. Loaded(n) = Rest(n)
  <2>1. CASE n \in ran
    BY <2>1 DEF Loaded, FileOwn
  <2>2. CASE n \notin ran
    <3>1. snk[n][1] = <<>> /\ asked[n] = <<>>
      BY <2>2 DEF FileOwn
    <3>2. Len(asked[n]) = 0
      BY <3>1
    <3>3. Rest(n) = Records(n)
      BY <1>2, <1>3, <3>2, SubSeqFull DEF Rest
    <3>4. AcceptEach(<<>>, Records(n)) = Records(n)
      BY <1>3, AcceptAllOf
    <3> QED
      BY <2>2, <3>1, <3>3, <3>4 DEF Loaded
  <2> QED
    BY <2>1, <2>2
<1>5. Rest(n) = SubSeq(Records(n), k, N)
  BY DEF Rest
<1> HIDE DEF k, N
<1>6. CASE k <= N
  <2>1. k \in 1..Len(Records(n)) /\ N \in k..Len(Records(n))
    BY <1>1, <1>2, <1>6
  <2>2. /\ Head(Rest(n)) = Records(n)[k]
        /\ Tail(Rest(n)) = SubSeq(Records(n), k + 1, N)
    BY <1>3, <1>5, <2>1, HeadTailOfSubSeq
  <2>3. Rest(n) # <<>>
    <3>1. /\ k \in Int /\ N \in Int
          /\ \A i \in k..N : Records(n)[i] \in S
      BY <1>1, <1>2, <1>3, <2>1, LenProperties
    <3>2. Len(Rest(n)) = N - k + 1 /\ Len(Rest(n)) # 0
      BY <1>5, <1>6, <3>1, SubSeqProperties
    <3> QED
      BY <3>2
  <2> QED
    BY <1>4, <1>6, <2>2, <2>3 DEF DrainOut, AfterDrain, NthRecord, k, N
<1>7. CASE ~(k <= N)
  <2>1. k \in Int /\ N \in Int /\ N < k /\ k + 1 \in Int /\ N < k + 1
    BY <1>1, <1>2, <1>7
  <2>2. Rest(n) = <<>> /\ SubSeq(Records(n), k + 1, N) = <<>>
    BY <1>5, <2>1, SubSeqEmpty
  <2> QED
    BY <1>4, <1>7, <2>2 DEF DrainOut, AfterDrain, NthRecord, k, N
<1> QED
  BY <1>6, <1>7

\* A source that is not called keeps its buffers and records.
LEMMA SourceKeeps ==
  ASSUME Inv, workflow' = workflow, NEW n \in Of("source"), FileOwn(n),
         pc'[n] = pc[n], snk'[n] = snk[n], asked'[n] = asked[n],
         n \in ran => n \in ran',
         job' = "running" => (n \in ran' => n \in ran) /\ job = "running",
         \A p \in Ports : p[1] = n => product'[p] = product[p]
  PROVE  FileOwn(n)'
<1>1. /\ n \in Labels /\ <<n, 1>> \in Ports
      /\ Config' = Config /\ CellsOf(n)' = CellsOf(n)
  BY SourceParts, NamesStay
<1>2. Done(n)' = Done(n) /\ Records(n)' = Records(n)
  BY <1>1 DEF Done, Records
<1>3. Rest(n)' = Rest(n) /\ \A k : NthRecord(n, k)' = NthRecord(n, k)
  BY <1>1, <1>2 DEF Rest, NthRecord
<1>5. product'[<<n, 1>>] = product[<<n, 1>>]
  BY <1>1
<1> QED
  BY <1>1, <1>2, <1>3, <1>5 DEF FileOwn

\* A call takes the first record that is left.
LEMMA CallTakesRecord ==
  ASSUME Inv, Files, NEW n \in Of("source"), NEW c \in CellsOf(n), ReadRecord(n, c)
  PROVE  FileOwn(n)'
<1> DEFINE k == Len(asked[n]) + 1
<1>1. n \in Labels /\ <<n, 1>> \in Ports /\ DOMAIN snk[n] = {1}
  BY SourceParts
<1>2. Types /\ Published /\ Buffers /\ FileOwn(n)
  BY DEF Inv, Files
<1>3. /\ UNCHANGED <<workflow, src>> /\ Goto(n, c, "done") /\ Publish(n, c, <<DrainOut(Loaded(n))>>)
      /\ snk' = [snk EXCEPT ![n][1] = AfterDrain(Loaded(n))] /\ ran' = ran \cup {n}
      /\ asked' = [asked EXCEPT ![n] = Append(@, c)]
      /\ pc[n][c] = "waiting" /\ job = "running"
  BY DEF ReadRecord, Ready
<1>4. Config' = Config /\ CellsOf(n)' = CellsOf(n) /\ Records(n)' = Records(n)
  BY <1>1, <1>3, NamesStay DEF Records
<1>5. /\ Loaded(n) = Rest(n)
      /\ DrainOut(Rest(n)) = NthRecord(n, k)
      /\ AfterDrain(Rest(n)) = SubSeq(Records(n), k + 1, Config[n].items)
  BY <1>2, <1>3, DrainRest
<1>6. Done(n)' = Done(n) \cup {c} /\ c \notin Done(n)
  BY <1>1, <1>2, <1>3, <1>4 DEF Done, Goto, Types
<1>7. /\ asked[n] \in Seq(CellsOf(n)) /\ asked'[n] = Append(asked[n], c)
      /\ asked'[n] \in Seq(CellsOf(n)) /\ Len(asked[n]) \in Nat /\ Len(asked'[n]) = k
      /\ DOMAIN asked[n] = 1..Len(asked[n]) /\ DOMAIN asked'[n] = 1..k
      /\ asked'[n][k] = c
      /\ \A i \in 1..Len(asked[n]) : asked'[n][i] = asked[n][i]
  <2>1. asked[n] \in Seq(CellsOf(n)) /\ asked'[n] = Append(asked[n], c)
    BY <1>1, <1>2, <1>3 DEF FileOwn, Buffers
  <2> QED
    BY <2>1
<1>8. snk'[n][1] = Rest(n)'
  <2>1. snk'[n][1] = SubSeq(Records(n), k + 1, Config[n].items)
    BY <1>1, <1>2, <1>3, <1>5 DEF Types
  <2>2. Rest(n)' = SubSeq(Records(n), Len(asked'[n]) + 1, Config[n].items)
    BY <1>4 DEF Rest
  <2> QED
    BY <1>7, <2>1, <2>2
<1>9. product'[<<n, 1>>][c] = NthRecord(n, k)
  <2> DEFINE out == DrainOut(Rest(n))
  <2>1. Publish(n, c, <<out>>)
    BY <1>3, <1>5
  <2>2. <<n, 1>>[1] = n /\ <<n, 1>>[2] = 1 /\ <<out>>[1] = out
    OBVIOUS
  <2> HIDE DEF out
  <2>3. product'[<<n, 1>>] = [product[<<n, 1>>] EXCEPT ![c] = out]
    BY <1>1, <2>1, <2>2 DEF Publish
  <2>4. c \in DOMAIN product[<<n, 1>>]
    BY <1>1, <1>2, <2>2 DEF Types
  <2> QED
    BY <1>5, <2>3, <2>4 DEF out
<1>10. \A d \in Done(n) : product'[<<n, 1>>][d] = product[<<n, 1>>][d]
  BY <1>1, <1>2, <1>3, <1>6 DEF Publish, Types
<1>11. \A i : NthRecord(n, i)' = NthRecord(n, i)
  BY <1>4 DEF NthRecord
<1> HIDE DEF k
<1>12. \A i \in DOMAIN asked'[n] : /\ asked'[n][i] \in Done(n)'
                                  /\ product'[<<n, 1>>][asked'[n][i]] = NthRecord(n, i)'
  <2> TAKE i \in DOMAIN asked'[n]
  <2>1. CASE i = k
    BY <1>6, <1>7, <1>9, <1>11, <2>1
  <2>2. CASE i # k
    <3>1. i \in 1..Len(asked[n])
      BY <1>7, <2>2 DEF k
    <3>2. asked[n][i] \in Done(n) /\ product[<<n, 1>>][asked[n][i]] = NthRecord(n, i)
      BY <1>2, <1>7, <3>1 DEF FileOwn
    <3> QED
      BY <1>6, <1>7, <1>10, <1>11, <3>1, <3>2
  <2> QED
    BY <2>1, <2>2
<1>13. \A d \in Done(n)' : \E i \in DOMAIN asked'[n] : asked'[n][i] = d
  <2> TAKE d \in Done(n)'
  <2>1. CASE d = c
    BY <1>7, <2>1 DEF k
  <2>2. CASE d # c
    <3>1. PICK i \in DOMAIN asked[n] : asked[n][i] = d
      BY <1>2, <1>6, <2>2 DEF FileOwn
    <3> QED
      BY <1>7, <3>1 DEF k
  <2> QED
    BY <2>1, <2>2
<1> QED
  BY <1>3, <1>4, <1>7, <1>8, <1>12, <1>13 DEF FileOwn

\* A step that moves no call can only end the job.
LEMMA RanKeeps ==
  ASSUME Inv, Buffers, [Next]_vars, UNCHANGED <<pc, asked>>
  PROVE  \/ ran' = ran
         \/ job' = "failed" /\ ran \subseteq ran' /\ ran' \subseteq Of("source")
<1>1. CASE UNCHANGED vars
  BY <1>1 DEF vars
<1>2. CASE \E n \in Labels : \E c \in CellsOf(n) : NodeThrows(n, c)
  BY <1>2 DEF NodeThrows, Buffers
<1>3. ASSUME NEW n \in Labels, NEW c \in CellsOf(n), Step(n, c) PROVE ran' = ran
  <2>1. ASSUME ReadRecord(n, c) PROVE FALSE
    BY <2>1 DEF ReadRecord, Ready, Goto, Inv, Types
  <2> QED
    BY <1>3, <2>1 DEF Step, Generate, LoadSchema, FillSources, RunGraph, DrainSinks, Observe
<1> QED
  BY <1>1, <1>2, <1>3 DEF Next, Steps

\* Every step keeps the buffers and the order of the records.
LEMMA FilesNext == Inv /\ Files /\ [Next]_vars => Files'
<1> SUFFICES ASSUME Inv, Files, [Next]_vars PROVE Files'
  OBVIOUS
<1>a. workflow' = workflow
  BY BegunStays
<1>b. /\ Config' = Config /\ Labels' = Labels
      /\ Of("executor")' = Of("executor") /\ Of("source")' = Of("source")
  BY <1>a, NamesStay
<1>c. Types /\ Buffers
  BY DEF Inv, Files
<1>d. job' \in {"running", "aborted", "failed"}
  <2>1. \A n, c : Step(n, c) => job' \in {job, "aborted", "failed"}
    <3> TAKE n, c
    <3>1. RunGraph(n, c) => job' = job
      BY DEF RunGraph
    <3>2. Observe(n, c) => job' \in {job, "aborted"}
      BY DEF Observe
    <3> QED
      BY <3>1, <3>2 DEF Step, Generate, LoadSchema, ReadRecord, FillSources, DrainSinks
  <2> QED
    BY <1>c, <2>1 DEF Buffers, Next, Steps, vars, NodeThrows
<1>e. job' = "running" => job = "running"
  <2>1. \A n, c : Step(n, c) => job = "running"
    <3> TAKE n, c
    <3>1. RunGraph(n, c) => job = "running"
      BY DEF RunGraph
    <3>2. DrainSinks(n, c) => job = "running"
      BY DEF DrainSinks
    <3> QED
      BY <3>1, <3>2 DEF Step, Generate, LoadSchema, ReadRecord, FillSources, Observe, Ready
  <2> QED
    BY <2>1 DEF Next, Steps, vars, NodeThrows
<1>1. CASE UNCHANGED <<workflow, product, pc, src, snk, written, asked>>
  <2>1. \/ ran' = ran
        \/ job' = "failed" /\ ran \subseteq ran' /\ ran' \subseteq Of("source")
    BY <1>1, RanKeeps DEF Files
  <2>2. ASSUME NEW n \in Of("source") PROVE FileOwn(n)'
    BY <1>1, <1>e, <2>1, <2>2, SourceKeeps DEF Files
  <2>3. Buffers'
    BY <1>1, <1>b, <1>c, <1>d, <2>1 DEF Buffers
  <2> QED
    BY <1>b, <2>2, <2>3 DEF Files
<1>2. CASE \E n \in Labels : \E c \in CellsOf(n) : Step(n, c) /\ pc[n][c] # "done"
  <2> PICK n \in Labels : \E c \in CellsOf(n) : Step(n, c) /\ pc[n][c] # "done"
    BY <1>2
  <2> PICK c \in CellsOf(n) : Step(n, c) /\ pc[n][c] # "done"
    OBVIOUS
  <2>1. /\ \A m \in Labels : m # n => /\ pc'[m] = pc[m] /\ src'[m] = src[m] /\ snk'[m] = snk[m]
                                      /\ m \in ran' <=> m \in ran
                                      /\ asked'[m] = asked[m]
        /\ \A p \in Ports : p[1] # n => product'[p] = product[p]
    BY OneStep
  <2>2. ASSUME NEW m \in Of("source"), m # n PROVE FileOwn(m)'
    <3>1. m \in Labels /\ FileOwn(m)
      BY DEF Of, Files
    <3> QED
      BY <1>a, <1>e, <2>1, <2>2, <3>1, SourceKeeps
  <2>3. n \notin Of("executor") =>
          Generate(n, c) \/ LoadSchema(n, c) \/ ReadRecord(n, c) \/ Observe(n, c)
    BY <1>c DEF Step, FillSources, RunGraph, DrainSinks, Types
  <2>4. n \in Of("source") => ReadRecord(n, c)
    BY <2>3 DEF Of, Generate, LoadSchema, Observe
  <2>5. n \in Of("source") => FileOwn(n)'
    BY <2>4, CallTakesRecord
  <2>6. ran' \subseteq Of("source") /\ DOMAIN asked' = Labels
    BY <1>c DEF Buffers, Step, Generate, LoadSchema, ReadRecord, FillSources, RunGraph, DrainSinks,
                Observe
  <2>7. n \notin Of("executor") => src' = src
    BY <2>3 DEF Generate, LoadSchema, ReadRecord, Observe
  <2>8. n \notin Of("executor") \cup Of("source") => snk' = snk
    BY <2>3 DEF Generate, LoadSchema, ReadRecord, Observe
  <2>9. /\ \A m \in Labels \ Of("executor") : src'[m] = src[m]
        /\ \A m \in Labels \ (Of("executor") \cup Of("source")) : snk'[m] = snk[m]
    BY <2>1, <2>7, <2>8
  <2>10. Buffers'
    BY <1>b, <1>c, <1>d, <2>6, <2>9 DEF Buffers
  <2> QED
    BY <1>b, <2>2, <2>5, <2>10 DEF Files
<1> QED
  BY <1>1, <1>2, WhoSteps

THEOREM FilesAreRead == Spec => []Files
BY FilesInit, FilesNext, OneCallInTheGraph, PTL DEF Spec

\* The type invariant: no boundary source has more than one item waiting, no
\* boundary sink ever has a null.
THEOREM WorkflowTypes == Spec => []TypeOK
<1>1. Inv /\ Files => TypeOK
  <2> SUFFICES ASSUME Inv, Files PROVE TypeOK
    OBVIOUS
  <2>a. Types /\ Buffers
    BY DEF Inv, Files
  <2>1. ASSUME NEW n \in Labels, NEW i \in DOMAIN src[n]
        PROVE  src[n][i].queue = <<>> \/ Len(src[n][i].queue) = 1
    <3>1. CASE n \in Of("executor")
      <4>1. SourcesOwn(n)
        BY <3>1 DEF Inv, NodeOwn
      <4>2. CASE \E c \in CellsOf(n) : pc[n][c] = "filled"
        <5> PICK c \in CellsOf(n) : pc[n][c] = "filled"
          BY <4>2
        <5>1. src[n][i].queue = <<Args(n, c)[i]>>
          BY <4>1 DEF SourcesOwn
        <5> QED
          BY <5>1
      <4>3. CASE \A c \in CellsOf(n) : pc[n][c] # "filled"
        BY <4>1, <4>3 DEF SourcesOwn
      <4> QED
        BY <4>2, <4>3
    <3>2. CASE n \notin Of("executor")
      BY <2>a, <3>2 DEF Buffers
    <3> QED
      BY <3>1, <3>2
  <2>2. ASSUME NEW n \in Labels, NEW j \in DOMAIN snk[n]
        PROVE  \A k \in DOMAIN snk[n][j] : snk[n][j][k] # Null
    <3>1. CASE n \in Of("executor")
      <4>1. SinksOwn(n)
        BY <3>1 DEF Inv, NodeOwn
      <4>2. snk[n][j] = <<>> \/ \E x : snk[n][j] = Accept(<<>>, x)
        <5>1. CASE \E c \in CellsOf(n) : pc[n][c] = "ran"
          BY <4>1, <5>1 DEF SinksOwn
        <5>2. CASE \A c \in CellsOf(n) : pc[n][c] # "ran"
          BY <4>1, <5>2 DEF SinksOwn
        <5> QED
          BY <5>1, <5>2
      <4>3. ASSUME NEW x, x # Null, snk[n][j] = Append(<<>>, x)
            PROVE  DOMAIN snk[n][j] = 1..1 /\ snk[n][j][1] = x
        BY <4>3
      <4>4. CASE snk[n][j] = <<>>
        BY <4>4
      <4>5. ASSUME NEW x, snk[n][j] = Accept(<<>>, x), snk[n][j] # <<>>
            PROVE  DOMAIN snk[n][j] = 1..1 /\ snk[n][j][1] # Null
        BY <4>3, <4>5 DEF Accept
      <4>6. CASE snk[n][j] # <<>>
        <5>1. DOMAIN snk[n][j] = 1..1 /\ snk[n][j][1] # Null
          BY <4>2, <4>5, <4>6
        <5> QED
          BY <5>1
      <4> QED
        BY <4>4, <4>6
    <3>2. CASE n \in Of("source")
      <4>1. j = 1
        <5>1. DOMAIN snk[n] = {1}
          BY <3>2, SourceParts
        <5> QED
          BY <5>1
      <4>2. CASE snk[n][1] = Rest(n)
        <5> DEFINE m == Len(asked[n]) + 1
        <5>1. snk[n][j] = SubSeq(Records(n), m, Config[n].items)
          BY <4>1, <4>2 DEF Rest
        <5>2. m \in Nat \ {0} /\ Config[n].items \in Nat
          <6>1. Len(asked[n]) \in Nat
            BY <3>2 DEF Files, FileOwn
          <6> QED
            BY <2>a, <6>1, RecordsSeq DEF Types
        <5>3. PICK S : Null \notin S /\ Records(n) \in Seq(S)
          BY <2>a, RecordsSeq DEF Types
        <5>4. \A i \in m..Config[n].items : Records(n)[i] \in S
          BY <2>a, <5>2, <5>3, RecordsSeq, LenProperties DEF Types
        <5> HIDE DEF m
        <5>5. snk[n][j] \in Seq(S)
          BY <5>1, <5>2, <5>4, SubSeqProperties
        <5> QED
          BY <5>3, <5>5, LenProperties
      <4>3. CASE snk[n][1] = <<>>
        BY <4>1, <4>3
      <4> QED
        BY <3>2, <4>2, <4>3 DEF Files, FileOwn
    <3>3. CASE n \notin Of("executor") \cup Of("source")
      BY <2>a, <3>3 DEF Buffers
    <3> QED
      BY <3>1, <3>2, <3>3
  <2> QED
    BY <2>a, <2>1, <2>2 DEF TypeOK, Types, Buffers, Stages, Files, FileOwn
<1> QED
  BY <1>1, OneCallInTheGraph, FilesAreRead, PTL

\* Whatever the files, the layers, the cells and the order in which PHLEX asks for
\* them: two source executors give a cell the record of the same number if and only
\* if the cell had the same turn in both.
THEOREM FilesInStep == Spec => []SameRecord
<1>1. Inv /\ Files => SameRecord
  <2> SUFFICES ASSUME Inv, Files,
                      NEW m \in Of("source"), NEW n \in Of("source"), NEW c \in CellsOf(m),
                      Config[m].layer = Config[n].layer,
                      {product[<<m, 1>>][c], product[<<n, 1>>][c]} \cap {Unset, Null} = {}
               PROVE  product[<<m, 1>>][c].ident = product[<<n, 1>>][c].ident
                        <=> Turn(m, c) = Turn(n, c)
    BY DEF SameRecord
  <2>1. CellsOf(m) = CellsOf(n)
    BY DEF CellsOf
  <2>2. ASSUME NEW s \in Of("source"), CellsOf(s) = CellsOf(m),
               product[<<s, 1>>][c] # Unset, product[<<s, 1>>][c] # Null
        PROVE  product[<<s, 1>>][c].ident = Turn(s, c)
    <3>1. s \in Labels /\ <<s, 1>> \in Ports
      BY SourceParts
    <3>2. c \in Done(s)
      <4>1. <<s, 1>>[1] = s
        OBVIOUS
      <4> QED
        BY <2>2, <3>1, <4>1 DEF Inv, Published, Done
    <3>3. Turn(s, c) \in DOMAIN asked[s] /\ asked[s][Turn(s, c)] = c
      BY <3>2 DEF Files, FileOwn, Turn
    <3> DEFINE k == Turn(s, c)
    <3> HIDE DEF k
    <3>4. k \in DOMAIN asked[s] /\ asked[s][k] = c
      BY <3>3 DEF k
    <3>5. product[<<s, 1>>][c] = NthRecord(s, k) /\ asked[s] \in Seq(CellsOf(s))
      BY <3>4 DEF Files, FileOwn
    <3>6. k <= Config[s].items /\ product[<<s, 1>>][c] = Records(s)[k]
      BY <2>2, <3>5 DEF NthRecord
    <3>7. k \in 1..Config[s].items
      <4>1. Config[s].items \in Nat
        BY <3>1, RecordsSeq DEF Inv, Types
      <4> QED
        BY <3>4, <3>5, <3>6, <4>1
    <3>8. Records(s)[k] = [from |-> s, ident |-> k]
      BY <3>1, <3>7, RecordsSeq DEF Inv, Types
    <3> QED
      BY <3>6, <3>8 DEF k
  <2> QED
    BY <2>1, <2>2
<1> QED
  BY <1>1, OneCallInTheGraph, FilesAreRead, PTL

-----------------------------------------------------------------------------
(* The observers' assertions.                                              *)

\* Null is not an object.
NullIsNoRecord ==
  /\ \A n, k : [from |-> n, ident |-> k] # Null
  /\ \A n, j, t : [from |-> n, port |-> j, args |-> t] # Null

\* The nodes of fed, and no other, feed each other and the observers, and maker
\* says who made what they publish: ObserversFed, for the job's workflow.
FedBy(fed, maker) ==
  /\ fed \subseteq Labels
  /\ \A n \in fed :
       \/ n \in Of("gen") \cup Of("schema") /\ maker[n] = n
       \/ /\ n \in Of("executor") /\ ~Config[n].drops
          /\ \A i \in DOMAIN Config[n].inputs : Feeder(n, i)[1] \in fed
          /\ maker[n] = IF Config[n].passes THEN maker[Feeder(n, 1)[1]] ELSE n
  /\ \A n \in Of("observer") : \A i, k \in DOMAIN Config[n].inputs :
       /\ Feeder(n, i)[1] \in fed
       /\ i # k => maker[Feeder(n, i)[1]] # maker[Feeder(n, k)[1]]

\* ObserversFed speaks of the node at the other end of an input, and so of Feeder.
LEMMA FedWorkflow ==
  ASSUME workflow \in Workflows, ObserversFed(Config)
  PROVE  \E fed, maker : FedBy(fed, maker)
<1> DEFINE from(n, i) == CHOOSE m \in DOMAIN Config :
                           \E j \in DOMAIN Config[m].outputs :
                             Matches(Config, n, Config[n].inputs[i], <<m, j>>)
<1>1. ASSUME NEW n \in Labels, NEW i \in DOMAIN Config[n].inputs
      PROVE  from(n, i) = Feeder(n, i)[1]
  <2> DEFINE sel == Config[n].inputs[i]
  <2>1. PICK p \in Ports : \A q \in Ports : Matches(Config, n, sel, q) => q = p
    BY WorkflowAssumption DEF Config, Labels, Ports
  <2>2. Feeder(n, i) \in Ports /\ Matches(Config, n, sel, Feeder(n, i))
    <3>1. \E q \in Ports : Matches(Config, n, sel, q)
      BY WorkflowAssumption DEF Config, Labels, Ports
    <3> QED
      BY <3>1 DEF Feeder
  <2>3. \A m \in Labels : \A j \in DOMAIN Config[m].outputs :
          <<m, j>> \in Ports /\ <<m, j>>[1] = m
    BY DEF Ports, PortsOf, Labels
  <2>4. \E m \in Labels : \E j \in DOMAIN Config[m].outputs : Matches(Config, n, sel, <<m, j>>)
    <3>1. PICK m \in Labels : \E j \in DOMAIN Config[m].outputs : Feeder(n, i) = <<m, j>>
      BY <2>2 DEF Ports, PortsOf, Labels
    <3> QED
      BY <2>2, <3>1
  <2>5. PICK j \in DOMAIN Config[from(n, i)].outputs : Matches(Config, n, sel, <<from(n, i), j>>)
    BY <2>4 DEF Labels
  <2>6. from(n, i) \in Labels
    BY <2>4 DEF Labels
  <2> HIDE DEF from
  <2>7. <<from(n, i), j>> = p /\ Feeder(n, i) = p /\ <<from(n, i), j>>[1] = from(n, i)
    BY <2>1, <2>2, <2>3, <2>5, <2>6
  <2> QED
    BY <2>7
<1>2. PICK fed \in SUBSET Labels : \E maker \in [fed -> Labels] :
       /\ \A n \in fed :
            \/ Config[n].kind \in {"gen", "schema"} /\ maker[n] = n
            \/ /\ Config[n].kind = "executor" /\ ~Config[n].drops
               /\ \A i \in DOMAIN Config[n].inputs : from(n, i) \in fed
               /\ maker[n] = IF Config[n].passes THEN maker[from(n, 1)] ELSE n
       /\ \A n \in Labels : Config[n].kind = "observer" =>
            \A i, k \in DOMAIN Config[n].inputs :
              /\ from(n, i) \in fed
              /\ i # k => maker[from(n, i)] # maker[from(n, k)]
  BY DEF ObserversFed, Labels
<1>3. PICK maker :
       /\ \A n \in fed :
            \/ Config[n].kind \in {"gen", "schema"} /\ maker[n] = n
            \/ /\ Config[n].kind = "executor" /\ ~Config[n].drops
               /\ \A i \in DOMAIN Config[n].inputs : from(n, i) \in fed
               /\ maker[n] = IF Config[n].passes THEN maker[from(n, 1)] ELSE n
       /\ \A n \in Labels : Config[n].kind = "observer" =>
            \A i, k \in DOMAIN Config[n].inputs :
              /\ from(n, i) \in fed
              /\ i # k => maker[from(n, i)] # maker[from(n, k)]
  BY <1>2
<1> HIDE DEF from
<1>4. ASSUME NEW n \in fed
      PROVE  \/ n \in Of("gen") \cup Of("schema") /\ maker[n] = n
             \/ /\ n \in Of("executor") /\ ~Config[n].drops
                /\ \A i \in DOMAIN Config[n].inputs : Feeder(n, i)[1] \in fed
                /\ maker[n] = IF Config[n].passes THEN maker[Feeder(n, 1)[1]] ELSE n
  <2>1. n \in Labels
    BY <1>2
  <2>2. CASE Config[n].kind \in {"gen", "schema"} /\ maker[n] = n
    BY <2>1, <2>2 DEF Of
  <2>3. CASE /\ Config[n].kind = "executor" /\ ~Config[n].drops
             /\ \A i \in DOMAIN Config[n].inputs : from(n, i) \in fed
             /\ maker[n] = IF Config[n].passes THEN maker[from(n, 1)] ELSE n
    <3>1. n \in Of("executor") /\ 1 \in DOMAIN Config[n].inputs
      BY <2>1, <2>3, HasInput DEF Of
    <3> QED
      BY <1>1, <2>1, <2>3, <3>1
  <2> QED
    BY <1>3, <2>2, <2>3
<1>5. ASSUME NEW n \in Of("observer"), NEW i \in DOMAIN Config[n].inputs,
             NEW k \in DOMAIN Config[n].inputs
      PROVE  /\ Feeder(n, i)[1] \in fed
             /\ i # k => maker[Feeder(n, i)[1]] # maker[Feeder(n, k)[1]]
  <2>1. n \in Labels /\ Config[n].kind = "observer"
    BY DEF Of
  <2> QED
    BY <1>1, <1>3, <2>1
<1>6. fed \subseteq Labels
  BY <1>2
<1>7. FedBy(fed, maker)
  BY <1>4, <1>5, <1>6 DEF FedBy
<1> QED
  BY <1>7

\* A node is called when it has all its inputs.
Supplied == \A n \in Labels : \A c \in CellsOf(n) : pc[n][c] # "waiting" =>
              \A i \in DOMAIN Config[n].inputs : Args(n, c)[i] # Unset

\* What a node of fed publishes is not null and shows who made it.
MadeBy(fed, maker) ==
  \A p \in Ports : p[1] \in fed => \A c \in CellsOf(p[1]) : product[p][c] # Unset =>
    product[p][c] # Null /\ product[p][c].from = maker[p[1]]

\* The arguments of a call of a fed node.
LEMMA FedArgs ==
  ASSUME Inv, NEW fed, NEW maker, MadeBy(fed, maker), NEW n \in Labels, NEW c \in CellsOf(n),
         NEW i \in DOMAIN Config[n].inputs, Args(n, c)[i] # Unset, Feeder(n, i)[1] \in fed
  PROVE  Args(n, c)[i] # Null /\ Args(n, c)[i].from = maker[Feeder(n, i)[1]]
<1>1. Args(n, c)[i] = product[Feeder(n, i)][c]
  BY DEF Args
<1>2. Feeder(n, i) \in Ports /\ c \in CellsOf(Feeder(n, i)[1])
  BY FeederIsPort DEF Inv, Types
<1> QED
  BY <1>1, <1>2 DEF MadeBy

\* A step of a fed node publishes what the maker made.
LEMMA FedPublish ==
  ASSUME NullIsNoRecord, Inv, Supplied, NEW fed, NEW maker, FedBy(fed, maker), MadeBy(fed, maker),
         NEW n \in fed, NEW c \in CellsOf(n), Step(n, c),
         NEW p \in Ports, p[1] = n, product'[p][c] # Unset, product'[p][c] # product[p][c]
  PROVE  product'[p][c] # Null /\ product'[p][c].from = maker[n]
<1>a. n \in Labels /\ Types
  BY DEF FedBy, Inv
<1>b. [Next]_vars /\ Inv'
  <2>1. [Next]_vars
    BY <1>a DEF Next, Steps
  <2> QED
    BY <2>1, NextInv
<1>1. CASE n \in Of("gen") \cup Of("schema") /\ maker[n] = n
  <2>1. Publish(n, c, <<[from |-> n, ident |-> c]>>)
    <3>1. /\ n \notin Of("executor") /\ n \notin Of("source") /\ n \notin Of("observer")
          /\ pc[n][c] \in {"waiting", "done"}
      BY <1>1, <1>a DEF Of, Types
    <3>2. Generate(n, c) \/ LoadSchema(n, c)
      BY <3>1 DEF Step, ReadRecord, FillSources, RunGraph, DrainSinks, Observe
    <3> QED
      BY <3>2 DEF Generate, LoadSchema
  <2>2. p[2] = 1
    <3>1. DOMAIN Config[n].outputs = {1}
      BY <1>1, <1>a, WorkflowAssumption DEF Types, Of, Labels, Config, Providers
    <3> QED
      BY <3>1, PortParts
  <2>3. product'[p] = [product[p] EXCEPT ![c] = [from |-> n, ident |-> c]]
    BY <2>1, <2>2 DEF Publish
  <2>4. product'[p][c] = [from |-> n, ident |-> c]
    BY <1>a, <2>3 DEF Types
  <2> QED
    BY <1>1, <2>4 DEF NullIsNoRecord
<1>2. CASE /\ n \in Of("executor") /\ ~Config[n].drops
           /\ \A i \in DOMAIN Config[n].inputs : Feeder(n, i)[1] \in fed
           /\ maker[n] = IF Config[n].passes THEN maker[Feeder(n, 1)[1]] ELSE n
  <2>1. DrainSinks(n, c) /\ pc[n][c] = "ran"
    <3>1. DrainSinks(n, c)
      <4>1. ~FillSources(n, c) /\ ~RunGraph(n, c)
        BY DEF FillSources, RunGraph
      <4> QED
        BY <1>2, <4>1 DEF Step, Of, Generate, LoadSchema, ReadRecord, Observe
    <3> QED
      BY <3>1 DEF DrainSinks
  <2>2. /\ workflow' = workflow /\ Args(n, c)' = Args(n, c)
    BY <1>a, <1>b, <2>1, BegunStays
  <2>3. /\ Config' = Config /\ Ports' = Ports /\ CellsOf(n)' = CellsOf(n)
        /\ Of("executor")' = Of("executor")
    BY <1>a, <2>2, NamesStay
  <2>4. product'[p][c] = Made(n, Args(n, c), p[2])
    <3>1. ProductsOwn(n)'
      BY <1>2, <1>b, <2>3 DEF Inv, NodeOwn
    <3>2. \A t, j : Made(n, t, j)' = Made(n, t, j)
      BY <2>3 DEF Made
    <3> QED
      BY <1>2, <2>2, <2>3, <3>1, <3>2 DEF ProductsOwn
  <2>5. ASSUME NEW i \in DOMAIN Config[n].inputs
        PROVE  Args(n, c)[i] # Null /\ Args(n, c)[i].from = maker[Feeder(n, i)[1]]
    <3>1. Args(n, c)[i] # Unset
      BY <1>a, <2>1 DEF Supplied
    <3> QED
      BY <1>2, <1>a, <3>1, FedArgs
  <2>6. NullFree(Args(n, c)) /\ 1 \in DOMAIN Config[n].inputs
    BY <1>2, <1>a, <2>5, HasInput DEF NullFree, Args, Types
  <2> QED
    BY <1>2, <2>4, <2>5, <2>6 DEF Made, NullIsNoRecord
<1> QED
  BY <1>1, <1>2 DEF FedBy

\* An observer of fed nodes accepts what it gets.
LEMMA FedObserver ==
  ASSUME Inv, NEW fed, NEW maker, FedBy(fed, maker), MadeBy(fed, maker),
         NEW n \in Of("observer"), NEW c \in CellsOf(n),
         \A i \in DOMAIN Config[n].inputs : Args(n, c)[i] # Unset
  PROVE  Acceptable(Args(n, c))
<1>1. n \in Labels /\ DOMAIN Args(n, c) = DOMAIN Config[n].inputs
  BY DEF Of, Args
<1>2. ASSUME NEW i \in DOMAIN Config[n].inputs
      PROVE  Args(n, c)[i] # Null /\ Args(n, c)[i].from = maker[Feeder(n, i)[1]]
  <2>1. Feeder(n, i)[1] \in fed
    BY DEF FedBy
  <2> QED
    BY <1>1, <2>1, FedArgs
<1>3. ASSUME NEW i \in DOMAIN Config[n].inputs, NEW k \in DOMAIN Config[n].inputs, i # k
      PROVE  Args(n, c)[i] # Args(n, c)[k]
  <2>1. maker[Feeder(n, i)[1]] # maker[Feeder(n, k)[1]]
    BY <1>3 DEF FedBy
  <2> QED
    BY <1>2, <2>1
<1> QED
  BY <1>1, <1>2, <1>3 DEF Acceptable, NullFree

Accepted == Supplied /\ NoAbort /\ \E fed, maker : FedBy(fed, maker) /\ MadeBy(fed, maker)

\* Nothing is published, and no assertion has failed.
LEMMA AcceptedInit ==
  ASSUME \A w \in Workflows : ObserversFed(w)
  PROVE  Init => Accepted
<1> SUFFICES ASSUME Init PROVE Accepted
  OBVIOUS
<1>1. workflow \in Workflows /\ ObserversFed(Config)
  BY DEF Init, Config
<1>2. PICK fed, maker : FedBy(fed, maker)
  BY <1>1, FedWorkflow
<1>3. Supplied /\ NoAbort
  BY DEF Init, Supplied, NoAbort
<1>4. MadeBy(fed, maker)
  BY PortParts DEF Init, MadeBy
<1> QED
  BY <1>2, <1>3, <1>4 DEF Accepted

\* Every step keeps that.
LEMMA AcceptedNext ==
  ASSUME NullIsNoRecord
  PROVE  Inv /\ Accepted /\ [Next]_vars => Accepted'
<1> SUFFICES ASSUME Inv, Accepted, [Next]_vars PROVE Accepted'
  OBVIOUS
<1>a. /\ workflow' = workflow
      /\ \A p \in Ports : \A d \in CellsOf(p[1]) : pc[p[1]][d] = "done" =>
           product'[p][d] = product[p][d]
      /\ \A m \in Labels : \A d \in CellsOf(m) : pc[m][d] # "waiting" => Args(m, d)' = Args(m, d)
  BY BegunStays
<1>b. /\ Config' = Config /\ Labels' = Labels /\ Ports' = Ports
      /\ \A m \in Labels : CellsOf(m)' = CellsOf(m)
      /\ \A m \in Labels : \A i \in DOMAIN Config[m].inputs : Feeder(m, i)' = Feeder(m, i)
      /\ \A kind : Of(kind)' = Of(kind)
  BY <1>a, NamesStay
<1>c. Types /\ Published
  BY DEF Inv
<1>1. PICK fed, maker : FedBy(fed, maker) /\ MadeBy(fed, maker)
  BY DEF Accepted
<1>2. FedBy(fed, maker)'
  <2>1. \A n \in fed : n \in Labels
    BY <1>1 DEF FedBy
  <2>2. \A n \in Of("executor") : 1 \in DOMAIN Config[n].inputs
    BY <1>c, HasInput DEF Types
  <2>3. \A kind : Of(kind) \subseteq Labels
    BY DEF Of
  <2> QED
    BY <1>1, <1>b, <2>1, <2>2, <2>3 DEF FedBy
<1>3. ASSUME NEW n \in Labels, NEW c \in CellsOf(n), Ready(n, c)
      PROVE  Args(n, c)' = Args(n, c)
  <2>1. \A i \in DOMAIN Config[n].inputs : product'[Feeder(n, i)][c] = product[Feeder(n, i)][c]
    <3> TAKE i \in DOMAIN Config[n].inputs
    <3>1. /\ Feeder(n, i) \in Ports /\ Feeder(n, i)[1] \in Labels
          /\ CellsOf(Feeder(n, i)[1]) = CellsOf(n)
      BY <1>c, FeederIsPort DEF Types
    <3>2. product[Feeder(n, i)][c] # Unset
      BY <1>3 DEF Ready, Args
    <3> QED
      BY <1>a, <1>c, <3>1, <3>2 DEF Published
  <2> QED
    BY <1>b, <2>1 DEF Args
<1>4. CASE UNCHANGED <<workflow, product, pc, src, snk, written, asked>>
  <2>1. Supplied'
    BY <1>4, <1>a, <1>b DEF Accepted, Supplied
  <2>2. MadeBy(fed, maker)'
    BY <1>4, <1>1, <1>b, PortParts DEF MadeBy
  <2>3. NoAbort'
    <3>1. \A n \in Labels : \A c \in CellsOf(n) : ~Step(n, c) \/ pc'[n][c] # pc[n][c] \/ job' # "aborted"
      <4> TAKE n \in Labels
      <4> TAKE c \in CellsOf(n)
      <4>1. ASSUME Step(n, c) PROVE pc'[n][c] # pc[n][c] \/ job' # "aborted"
        <5>1. CASE RunGraph(n, c)
          BY <1>c, <5>1 DEF RunGraph, Goto, Types
        <5>2. CASE ~RunGraph(n, c)
          BY <1>c, <4>1, <5>2 DEF Step, Generate, LoadSchema, ReadRecord, FillSources,
             DrainSinks, Observe, Ready, Goto, Types
        <5> QED
          BY <5>1, <5>2
      <4> QED
        BY <4>1
    <3> QED
      BY <1>4, <3>1 DEF Next, Steps, NodeThrows, vars, Accepted, NoAbort
  <2> QED
    BY <1>2, <2>1, <2>2, <2>3 DEF Accepted
<1>5. CASE \E n \in Labels : \E c \in CellsOf(n) : Step(n, c) /\ pc[n][c] # "done"
  <2> PICK n \in Labels : \E c \in CellsOf(n) : Step(n, c) /\ pc[n][c] # "done"
    BY <1>5
  <2> PICK c \in CellsOf(n) : Step(n, c) /\ pc[n][c] # "done"
    OBVIOUS
  <2>1. /\ \A m \in Labels : m # n => pc'[m] = pc[m]
        /\ \A p \in Ports : p[1] # n => product'[p] = product[p]
        /\ \A p \in Ports : \A d \in CellsOf(p[1]) :
             p[1] = n /\ d # c => product'[p][d] = product[p][d]
        /\ \A d \in CellsOf(n) : d # c => pc'[n][d] = pc[n][d]
    BY OneStep
  <2>2. pc[n][c] = "waiting" => Ready(n, c)
    BY DEF Step, Generate, LoadSchema, ReadRecord, FillSources, RunGraph, DrainSinks, Observe
  <2>3. Supplied'
    <3> SUFFICES ASSUME NEW m \in Labels, NEW d \in CellsOf(m), pc'[m][d] # "waiting",
                        NEW i \in DOMAIN Config[m].inputs
                 PROVE  Args(m, d)'[i] # Unset
      BY <1>b DEF Supplied
    <3>1. CASE pc[m][d] # "waiting"
      BY <1>a, <3>1 DEF Accepted, Supplied
    <3>2. CASE pc[m][d] = "waiting"
      <4>1. m = n /\ d = c
        BY <2>1, <3>2
      <4> QED
        BY <1>3, <2>2, <3>2, <4>1 DEF Ready
    <3> QED
      BY <3>1, <3>2
  <2>4. MadeBy(fed, maker)'
    <3> SUFFICES ASSUME NEW p \in Ports, p[1] \in fed, NEW d \in CellsOf(p[1]),
                        product'[p][d] # Unset
                 PROVE  product'[p][d] # Null /\ product'[p][d].from = maker[p[1]]
      BY <1>b, PortParts DEF MadeBy
    <3>1. CASE product'[p][d] = product[p][d]
      BY <1>1, <3>1 DEF MadeBy
    <3>2. CASE product'[p][d] # product[p][d]
      <4>1. p[1] = n /\ d = c
        BY <2>1, <3>2
      <4> QED
        BY <1>1, <3>2, <4>1, FedPublish DEF Accepted
    <3> QED
      BY <3>1, <3>2
  <2>5. NoAbort'
    <3>1. CASE Observe(n, c)
      <4>1. n \in Of("observer") /\ \A i \in DOMAIN Config[n].inputs : Args(n, c)[i] # Unset
        BY <3>1 DEF Observe, Ready
      <4>2. Acceptable(Args(n, c))
        BY <1>1, <4>1, FedObserver
      <4> QED
        BY <3>1, <4>2 DEF Observe, Accepted, NoAbort
    <3>2. CASE ~Observe(n, c)
      <4>1. RunGraph(n, c) => job' = job
        BY DEF RunGraph
      <4> QED
        BY <3>2, <4>1 DEF Step, Generate, LoadSchema, ReadRecord, FillSources, DrainSinks,
           Accepted, NoAbort
    <3> QED
      BY <3>1, <3>2
  <2> QED
    BY <1>2, <2>3, <2>4, <2>5 DEF Accepted
<1> QED
  BY <1>4, <1>5, WhoSteps

\* In every workflow whose observers are fed by generators (as those of src/test
\* are), no assertion of an observer fails, whatever the order of the calls.
THEOREM ObserversAccept ==
  ASSUME NullIsNoRecord, \A w \in Workflows : ObserversFed(w)
  PROVE  Spec => []NoAbort
<1>1. Init => Accepted
  BY AcceptedInit
<1>2. Inv /\ Accepted /\ [Next]_vars => Accepted'
  BY AcceptedNext
<1>3. Accepted => NoAbort
  BY DEF Accepted
<1> QED
  BY <1>1, <1>2, <1>3, OneCallInTheGraph, PTL DEF Spec
=============================================================================
