--------------------------- MODULE Islands_proofs ----------------------------
(***************************************************************************)
(* Proofs about Islands, for any jobs of executors around any well-formed  *)
(* graphs, called any number of times, whose nodes are driven in any order *)
(* and interleaved in any way.                                             *)
(*                                                                         *)
(* The order of the steps drops out of the argument with streams: all that *)
(* a place of the graph has put out in a call so far.  A queue is what is  *)
(* left of its tail's stream.  Then                                        *)
(*   Flow     says how long the streams are, and where they end;           *)
(*   Made     says what is in them, place by place: each value is what the *)
(*            place makes of the values it took, row by row;               *)
(*   Numbers  says which random numbers were drawn in the call;            *)
(* and every step of the engine keeps them.  When no node has work, the    *)
(* streams are whole (Ended, Over), and what came to the sink follows along*)
(* the edges of the graph: back from a first place that has something it   *)
(* should not, or on to the sink from where something should go on.        *)
(* CallsApart puts it together for all executors; it is the inductive      *)
(* invariant of the theorems at the end.                                   *)
(***************************************************************************)
EXTENDS Islands, Induction, FiniteSetTheorems

\* What travels on the edges, and the states of a boundary source.
Values == Items \cup {Null}
SourceStates == [queue : Seq(Values), eosSent : BOOLEAN]

-----------------------------------------------------------------------------
(* Items.                                                                  *)

\* What is made of items is an item.
LEMMA MergeItems ==
  ASSUME NEW items \in SUBSET Items
  PROVE  Merge(items) \in Items
<1>1. \A x \in items : x.parts \subseteq Atoms /\ x.draws \subseteq NodeNames \X (Nat \ {0})
  BY DEF Items
<1>2. /\ UNION {x.parts : x \in items} \subseteq Atoms
      /\ UNION {x.draws : x \in items} \subseteq NodeNames \X (Nat \ {0})
  BY <1>1
<1> QED
  BY <1>2 DEF Merge, Items

\* An argument or a slice is an item.
LEMMA AtomItem ==
  ASSUME NEW n \in Nat, NEW i \in Nat, NEW s \in Nat
  PROVE  Item({Atom(n, i, s)}) \in Items
<1>1. Atom(n, i, s) \in Atoms
  BY DEF Atom, Atoms
<1> QED
  BY <1>1 DEF Item, Items

\* So is a random number of one node.
LEMMA DrawItem ==
  ASSUME NEW n \in NodeNames, NEW k \in Nat \ {0}
  PROVE  [parts |-> {}, draws |-> {<<n, k>>}] \in Items
  BY DEF Items

\* A node without memory makes an item of items, and an end of stream of one.
LEMMA OneForOneValue ==
  ASSUME NEW values \in SUBSET Values
  PROVE  /\ OneForOne(values) \in Values
         /\ OneForOne(values) = Null <=> Null \in values
<1>1. Null \notin values => OneForOne(values) \in Items
  BY MergeItems DEF OneForOne, Values
<1> QED
  BY <1>1, IslandsAssumption DEF OneForOne, Values

-----------------------------------------------------------------------------
(* Types.                                                                  *)

\* What an executor has.
TypedExecutor(e) ==
  /\ src[e] \in [DOMAIN job[e].sources -> SourceStates]
  /\ edge[e] \in [job[e].edges -> Seq(Values)]
  /\ snk[e] \in Seq(Items)
  /\ phase[e] \in {"idle", "running"}
  /\ given[e] \in Seq([DOMAIN job[e].sources -> Values]) /\ Len(given[e]) <= MaxCalls[e]
  /\ empty[e] \in Nat
  /\ sliced[e] \in Seq(Nat) /\ Len(sliced[e]) = Len(given[e])
  /\ returned[e] \in Seq(Values \cup Seq(Items))
  /\ Len(returned[e]) = Len(given[e]) - (IF phase[e] = "running" THEN 1 ELSE 0)

\* What its components remember under their names.
Shared ==
  /\ held \in [Scopes -> SUBSET Items]
  /\ drawn \in [Scopes -> Nat]

\* All together.
Types ==
  /\ job \in Jobs
  /\ DOMAIN src = Executors /\ DOMAIN edge = Executors /\ DOMAIN snk = Executors
  /\ DOMAIN phase = Executors /\ DOMAIN given = Executors /\ DOMAIN sliced = Executors
  /\ DOMAIN returned = Executors /\ DOMAIN empty = Executors
  /\ \A e \in Executors : TypedExecutor(e)
  /\ Shared

\* A step of one executor.
StepOf(e) == \/ \E a \in ArgsOf(e, Len(given[e]) + 1) : Call(e, a)
             \/ RunStep(e)

\* The graphs of a job are well-formed.
LEMMA GraphOf ==
  ASSUME Types, NEW e \in Executors
  PROVE  /\ WellFormed(job[e]) /\ IsGraph(job[e])
         /\ DOMAIN job[e].sources = 1..Len(job[e].sources) /\ Len(job[e].sources) \in 1..3
         /\ DOMAIN job[e].kinds \subseteq NodeNames
         /\ Service(job[e]) \in Scopes
<1>1. WellFormed(job[e])
  BY IslandsAssumption DEF Types, Executors
<1>2. IsGraph(job[e])
  BY <1>1 DEF WellFormed
<1>3. DOMAIN job[e].sources = 1..Len(job[e].sources) /\ Len(job[e].sources) \in 1..3
  <2>1. job[e].sources \in Seq(SourceNames(job[e])) /\ Len(job[e].sources) \in 1..Len(Sources)
    BY <1>2 DEF IsGraph
  <2>2. Len(Sources) = 3
    BY DEF Sources
  <2> QED
    BY <2>1, <2>2, LenProperties
<1>4. DOMAIN job[e].kinds \subseteq NodeNames
  BY DEF Types, NodeNames, Executors
<1>5. Service(job[e]) \in Scopes
  BY DEF Service, Scopes
<1> QED
  BY <1>1, <1>2, <1>3, <1>4, <1>5

\* Its calls have a bound.
LEMMA BoundOf ==
  ASSUME Types, NEW e \in Executors
  PROVE  MaxCalls[e] \in Nat
<1>1. e \in Names
  BY DEF Types, Executors, Names
<1> QED
  BY <1>1, IslandsAssumption

\* A step of one executor leaves the graphs and calls of the others alone.
LEMMA Others ==
  ASSUME Types, NEW e \in Executors, StepOf(e)
  PROVE  /\ job' = job /\ Executors' = Executors /\ Scopes' = Scopes
         /\ \A f \in Executors \ {e} :
              /\ src'[f] = src[f] /\ edge'[f] = edge[f] /\ snk'[f] = snk[f]
              /\ phase'[f] = phase[f] /\ given'[f] = given[f] /\ sliced'[f] = sliced[f]
              /\ returned'[f] = returned[f] /\ empty'[f] = empty[f]
         /\ DOMAIN src' = Executors /\ DOMAIN edge' = Executors /\ DOMAIN snk' = Executors
         /\ DOMAIN phase' = Executors /\ DOMAIN given' = Executors /\ DOMAIN sliced' = Executors
         /\ DOMAIN returned' = Executors /\ DOMAIN empty' = Executors
<1> DEFINE Rest == /\ job' = job
                   /\ \A f \in Executors \ {e} :
                        /\ src'[f] = src[f] /\ edge'[f] = edge[f] /\ snk'[f] = snk[f]
                        /\ phase'[f] = phase[f] /\ given'[f] = given[f]
                        /\ sliced'[f] = sliced[f] /\ returned'[f] = returned[f]
                        /\ empty'[f] = empty[f]
                   /\ DOMAIN src' = Executors /\ DOMAIN edge' = Executors
                   /\ DOMAIN snk' = Executors /\ DOMAIN phase' = Executors
                   /\ DOMAIN given' = Executors /\ DOMAIN sliced' = Executors
                   /\ DOMAIN returned' = Executors /\ DOMAIN empty' = Executors
<1> SUFFICES Rest
  BY DEF Executors, Scopes
<1>1. CASE \E a \in ArgsOf(e, Len(given[e]) + 1) : Call(e, a)
  BY <1>1 DEF Call, Types
<1>2. CASE \E i \in DOMAIN src[e] : CallSource(e, i)
  BY <1>2 DEF CallSource, Types
<1>3. CASE \E n \in DOMAIN job[e].kinds : Fire(e, n)
  <2> PICK n \in DOMAIN job[e].kinds : Fire(e, n)
    BY <1>3
  <2>1. CASE Transform(e, n) \/ PassEos(e, n)
    BY <2>1 DEF Transform, PassEos, Types
  <2>2. CASE Fluctuate(e, n)
    BY <2>2 DEF Fluctuate, Types
  <2>3. CASE Slice(e, n)
    BY <2>3 DEF Slice, Types
  <2>4. CASE Cluster(e, n)
    BY <2>4 DEF Cluster, Types
  <2> QED
    BY <2>1, <2>2, <2>3, <2>4 DEF Fire
<1>4. CASE CallSink(e)
  BY <1>4 DEF CallSink, Types
<1>5. CASE EndRun(e)
  BY <1>5 DEF EndRun, Types
<1> QED
  BY <1>1, <1>2, <1>3, <1>4, <1>5 DEF StepOf, RunStep
\* A queue that loses its head and one that gains values are queues.
LEMMA MovedTypes ==
  ASSUME NEW e, NEW n, edge[e] \in [job[e].edges -> Seq(Values)], NEW values \in Seq(Values),
         Ready(e, n)
  PROVE  Moved(e, n, values) \in [job[e].edges -> Seq(Values)]
<1>1. ASSUME NEW x \in job[e].edges
      PROVE  /\ x.head = n => Tail(edge[e][x]) \in Seq(Values)
             /\ edge[e][x] \o values \in Seq(Values) /\ edge[e][x] \in Seq(Values)
  <2>1. edge[e][x] \in Seq(Values)
    OBVIOUS
  <2>2. x.head = n => edge[e][x] # <<>>
    BY DEF Ready, InEdges, Into
  <2> QED
    BY <2>1, <2>2, HeadTailProperties, ConcatProperties
<1> QED
  BY <1>1 DEF Moved

\* The values a node finds at its ports.
LEMMA HeadsTypes ==
  ASSUME NEW e, NEW n, edge[e] \in [job[e].edges -> Seq(Values)], Ready(e, n)
  PROVE  Heads(e, n) \subseteq Values
<1>1. ASSUME NEW x \in InEdges(e, n) PROVE Head(edge[e][x]) \in Values
  <2>1. edge[e][x] \in Seq(Values) /\ edge[e][x] # <<>>
    BY DEF Ready, InEdges, Into
  <2> QED
    BY <2>1, HeadTailProperties
<1> QED
  BY <1>1 DEF Heads

\* A source has no in-edge.
LEMMA SourceReady ==
  ASSUME NEW e, IsGraph(job[e]), NEW i \in DOMAIN job[e].sources
  PROVE  InEdges(e, job[e].sources[i]) = {} /\ Ready(e, job[e].sources[i])
<1>1. job[e].sources[i] \notin Takers(job[e])
  BY DEF IsGraph, SourceNames, Takers, Nodes
<1> QED
  BY <1>1 DEF IsGraph, InEdges, Into, Ready

\* The arguments of a call are values.
LEMMA ArgsTypes ==
  ASSUME Types, NEW e \in Executors, NEW a \in ArgsOf(e, Len(given[e]) + 1)
  PROVE  a \in [DOMAIN job[e].sources -> Values]
<1> DEFINE g == job[e]
<1>1. \A i \in 1..3 : Item({Atom(Len(given[e]) + 1, i, 0)}) \in Items
  <2>1. Len(given[e]) \in Nat
    BY LenProperties DEF Types, TypedExecutor
  <2> QED
    BY <2>1, AtomItem
<1>2. {Item({Atom(Len(given[e]) + 1, i, 0)}) : i \in 1..3} \cup {Null} \subseteq Values
  BY <1>1 DEF Values
<1>3. a \in [DOMAIN g.sources -> {Item({Atom(Len(given[e]) + 1, i, 0)}) : i \in 1..3}
                                  \cup {Null}]
  BY DEF ArgsOf
<1> HIDE DEF g
<1>4. a \in [DOMAIN g.sources -> Values]
  BY <1>2, <1>3
<1> QED
  BY <1>4 DEF g

\* A call fills the sources and is entered in the histories.
LEMMA CallTypes ==
  ASSUME Types, NEW e \in Executors, NEW a \in ArgsOf(e, Len(given[e]) + 1), Call(e, a)
  PROVE  TypedExecutor(e)' /\ Shared'
<1> USE DEF TypedExecutor, Types
<1> DEFINE g == job[e]
<1>1. DOMAIN g.sources = 1..Len(g.sources) /\ Len(g.sources) \in 1..3
  BY GraphOf
<1>2. a \in [DOMAIN g.sources -> Values]
  BY ArgsTypes
<1>3. src'[e] \in [DOMAIN g.sources -> SourceStates]
  <2>1. ASSUME NEW i \in DOMAIN g.sources PROVE Fill(src[e][i], a[i]) \in SourceStates
    <3>1. a[i] \in Values /\ src[e][i] \in SourceStates
      BY <1>2
    <3>2. Append(src[e][i].queue, a[i]) \in Seq(Values)
      BY <3>1, AppendProperties DEF SourceStates
    <3> QED
      BY <3>2 DEF Fill, SourceStates
  <2> QED
    BY <2>1 DEF Call
<1>4. /\ given'[e] = Append(given[e], a) /\ sliced'[e] = Append(sliced[e], 0)
      /\ returned' = returned /\ empty' = empty /\ phase[e] = "idle" /\ phase'[e] = "running"
      /\ edge' = edge /\ snk' = snk /\ job' = job /\ held' = held /\ drawn' = drawn
      /\ Len(given[e]) < MaxCalls[e]
  BY DEF Call
<1>5. /\ given'[e] \in Seq([DOMAIN g.sources -> Values]) /\ Len(given'[e]) = Len(given[e]) + 1
      /\ sliced'[e] \in Seq(Nat) /\ Len(sliced'[e]) = Len(given[e]) + 1
      /\ Len(given[e]) \in Nat
  <2>1. given[e] \in Seq([DOMAIN g.sources -> Values]) /\ sliced[e] \in Seq(Nat)
    OBVIOUS
  <2> QED
    BY <1>2, <1>4, <2>1, AppendProperties, LenProperties
<1>6. Shared'
  BY <1>4 DEF Shared, Scopes, Executors
<1>7. Len(given'[e]) <= MaxCalls[e]
  <2>1. MaxCalls[e] \in Nat
    BY BoundOf
  <2> QED
    BY <1>4, <1>5, <2>1
<1>8. empty'[e] \in Nat /\ job' = job
  BY <1>4
<1> QED
  BY <1>3, <1>4, <1>5, <1>6, <1>7, <1>8

\* A source gives a value or the end of stream to its edges.
LEMMA CallSourceTypes ==
  ASSUME Types, NEW e \in Executors, NEW i \in DOMAIN src[e], CallSource(e, i)
  PROVE  TypedExecutor(e)' /\ Shared'
<1> USE DEF TypedExecutor, Types
<1> DEFINE g == job[e]
<1>1. DOMAIN src[e] = DOMAIN g.sources /\ src[e][i] \in SourceStates
  OBVIOUS
<1>2. SourceOut(src[e][i]) \in Values
  BY <1>1, HeadTailProperties DEF SourceOut, SourceStates, Values
<1>3. AfterCall(src[e][i]) \in SourceStates
  BY <1>1, HeadTailProperties DEF AfterCall, SourceStates
<1>4. <<SourceOut(src[e][i])>> \in Seq(Values)
  BY <1>2
<1>5. Ready(e, g.sources[i])
  BY <1>1, GraphOf, SourceReady
<1>6. Moved(e, g.sources[i], <<SourceOut(src[e][i])>>) \in [g.edges -> Seq(Values)]
  BY <1>4, <1>5, MovedTypes
<1>7. edge'[e] \in [g.edges -> Seq(Values)] /\ src'[e] \in [DOMAIN g.sources -> SourceStates]
  BY <1>1, <1>3, <1>6 DEF CallSource
<1>8. Shared'
  BY DEF CallSource, Shared, Scopes, Executors
<1> QED
  BY <1>7, <1>8 DEF CallSource
\* A node moves values and leaves the calls alone.
LEMMA NodeTypes ==
  ASSUME Types, NEW e \in Executors, NEW n, NEW values \in Seq(Values), Ready(e, n),
         edge' = [edge EXCEPT ![e] = Moved(e, n, values)],
         UNCHANGED <<job, src, phase, given, returned>>,
         snk'[e] \in Seq(Items), sliced'[e] \in Seq(Nat), Len(sliced'[e]) = Len(sliced[e]),
         empty'[e] \in Nat
  PROVE  TypedExecutor(e)'
<1> USE DEF TypedExecutor, Types
<1>1. Moved(e, n, values) \in [job[e].edges -> Seq(Values)]
  BY MovedTypes
<1>2. edge'[e] \in [job[e].edges -> Seq(Values)]
  BY <1>1
<1> QED
  BY <1>2

\* Nodes other than the slicer and clustering.
LEMMA PlainNodeTypes ==
  ASSUME Types, NEW e \in Executors, NEW n \in DOMAIN job[e].kinds,
         Transform(e, n) \/ PassEos(e, n) \/ Fluctuate(e, n)
  PROVE  TypedExecutor(e)' /\ Shared'
<1>1. Ready(e, n) /\ snk[e] \in Seq(Items) /\ sliced[e] \in Seq(Nat) /\ empty[e] \in Nat
  BY DEF Transform, PassEos, Fluctuate, Fires, Types, TypedExecutor
<1>2. Heads(e, n) \subseteq Values
  BY <1>1, HeadsTypes DEF Types, TypedExecutor
<1>3. CASE Transform(e, n)
  <2>1. <<OneForOne(Heads(e, n))>> \in Seq(Values)
    BY <1>2, OneForOneValue
  <2> QED
    BY <1>1, <1>3, <2>1, NodeTypes DEF Transform, Types, Shared, Scopes, Executors
<1>4. CASE PassEos(e, n)
  <2>1. <<Null>> \in Seq(Values)
    BY DEF Values
  <2> QED
    BY <1>1, <1>4, <2>1, NodeTypes DEF PassEos, Types, Shared, Scopes, Executors
<1>5. CASE Fluctuate(e, n)
  <2> DEFINE c == Service(job[e])
             draw == [parts |-> {}, draws |-> {<<n, drawn[c] + 1>>}]
             new == Merge(Heads(e, n) \cup {draw})
  <2>1. c \in Scopes /\ n \in NodeNames
    BY GraphOf
  <2>2. drawn[c] \in Nat
    BY <2>1 DEF Types, Shared
  <2>3. new \in Items
    <3>1. draw \in Items
      BY <2>1, <2>2, DrawItem
    <3>2. Heads(e, n) \cup {draw} \subseteq Items
      BY <1>2, <1>5, <3>1 DEF Fluctuate, Values
    <3> QED
      BY <3>2, MergeItems
  <2>4. <<new>> \in Seq(Values)
    BY <2>3 DEF Values
  <2>5. /\ drawn' = [drawn EXCEPT ![c] = @ + 1]
        /\ edge' = [edge EXCEPT ![e] = Moved(e, n, <<new>>)]
        /\ UNCHANGED <<job, src, snk, phase, given, sliced, empty, returned, held>>
    BY <1>5 DEF Fluctuate
  <2> HIDE DEF new, c
  <2>6. TypedExecutor(e)'
    BY <1>1, <2>4, <2>5, NodeTypes
  <2>7. Shared'
    BY <2>1, <2>2, <2>5 DEF Types, Shared, Scopes, Executors
  <2> QED
    BY <2>6, <2>7
<1> QED
  BY <1>3, <1>4, <1>5

\* The number of a call in progress.
LEMMA CallInProgress ==
  ASSUME Types, NEW e \in Executors, phase[e] = "running"
  PROVE  Len(given[e]) \in 1..MaxCalls[e] /\ Len(given[e]) = Len(sliced[e])
<1>1. /\ Len(given[e]) \in Nat /\ Len(returned[e]) \in Nat
      /\ Len(returned[e]) = Len(given[e]) - 1 /\ Len(sliced[e]) = Len(given[e])
      /\ Len(given[e]) <= MaxCalls[e]
  BY LenProperties DEF Types, TypedExecutor
<1>2. MaxCalls[e] \in Nat
  BY BoundOf
<1> QED
  BY <1>1, <1>2

\* The slices of a frame.
LEMMA SlicesTypes ==
  ASSUME NEW call \in Nat, NEW k \in Nat
  PROVE  /\ [s \in 1..k |-> Item({Atom(call, 1, s)})] \in Seq(Items)
         /\ Len([s \in 1..k |-> Item({Atom(call, 1, s)})]) = k
<1>1. \A s \in 1..k : Item({Atom(call, 1, s)}) \in Items
  BY AtomItem
<1> DEFINE slice(s) == Item({Atom(call, 1, s)})
<1> HIDE DEF slice
<1>2. [s \in 1..k |-> slice(s)] \in [1..k -> Items]
  BY <1>1 DEF slice
<1>3. [s \in 1..k |-> slice(s)] \in Seq(Items) /\ Len([s \in 1..k |-> slice(s)]) = k
  BY <1>2, IsASeq, LenProperties
<1> QED
  BY <1>3 DEF slice

\* A slicer records how many slices it made.
LEMMA SliceTypes ==
  ASSUME Types, NEW e \in Executors, NEW n \in DOMAIN job[e].kinds, Slice(e, n)
  PROVE  TypedExecutor(e)' /\ Shared'
<1> DEFINE call == Len(given[e])
<1> PICK k \in Counts :
      /\ edge' = [edge EXCEPT ![e] = Moved(e, n, [s \in 1..k |-> Item({Atom(call, 1, s)})])]
      /\ sliced' = [sliced EXCEPT ![e][call] = k]
      /\ empty' = [empty EXCEPT ![e] = IF k = 0 THEN @ + 1 ELSE @]
  BY DEF Slice
<1>1. /\ Ready(e, n) /\ phase[e] = "running"
      /\ UNCHANGED <<job, src, snk, phase, given, returned, held, drawn>>
  BY DEF Slice, Fires
<1>2. call \in 1..Len(sliced[e]) /\ call \in Nat
  BY <1>1, CallInProgress
<1>3. k \in Nat
  BY IslandsAssumption
<1>4. sliced'[e] \in Seq(Nat) /\ Len(sliced'[e]) = Len(sliced[e])
  <2>1. sliced'[e] = [sliced[e] EXCEPT ![call] = k] /\ sliced[e] \in Seq(Nat)
    BY DEF Types, TypedExecutor
  <2> QED
    BY <1>2, <1>3, <2>1, ExceptSeq
<1> DEFINE values == [s \in 1..k |-> Item({Atom(call, 1, s)})]
<1>5. values \in Seq(Values)
  <2>1. values \in Seq(Items)
    BY <1>2, <1>3, SlicesTypes
  <2> HIDE DEF values
  <2> QED
    BY <2>1 DEF Values
<1>6. edge' = [edge EXCEPT ![e] = Moved(e, n, values)]
  OBVIOUS
<1>7. snk'[e] \in Seq(Items) /\ empty'[e] \in Nat
  <2>1. snk[e] \in Seq(Items) /\ snk' = snk
    BY <1>1 DEF Types, TypedExecutor
  <2>2. empty[e] \in Nat /\ DOMAIN empty = Executors
    BY DEF Types, TypedExecutor
  <2>3. empty'[e] = IF k = 0 THEN empty[e] + 1 ELSE empty[e]
    BY <2>2
  <2> QED
    BY <2>1, <2>2, <2>3
<1> HIDE DEF values
<1>8. TypedExecutor(e)'
  BY <1>1, <1>4, <1>5, <1>6, <1>7, NodeTypes
<1> QED
  BY <1>1, <1>8 DEF Types, Shared, Scopes, Executors

\* Clustering holds items, and makes an item of them.
LEMMA ClusterTypes ==
  ASSUME Types, NEW e \in Executors, NEW n \in DOMAIN job[e].kinds, Cluster(e, n)
  PROVE  TypedExecutor(e)' /\ Shared'
<1> DEFINE c == Service(job[e])
<1>1. /\ Ready(e, n)
      /\ UNCHANGED <<job, src, snk, phase, given, sliced, empty, returned, drawn>>
  BY DEF Cluster, Fires
<1>2. c \in Scopes /\ held[c] \subseteq Items
  BY GraphOf DEF Types, Shared
<1>3. Heads(e, n) \subseteq Values
  BY <1>1, HeadsTypes DEF Types, TypedExecutor
<1>4. snk'[e] \in Seq(Items) /\ sliced'[e] \in Seq(Nat) /\ sliced' = sliced /\ empty'[e] \in Nat
  BY <1>1 DEF Types, TypedExecutor
<1>5. \E values \in Seq(Values) : edge' = [edge EXCEPT ![e] = Moved(e, n, values)]
  <2>1. <<>> \in Seq(Values)
    BY EmptySeq
  <2>2. <<Null>> \in Seq(Values) /\ <<Merge(held[c]), Null>> \in Seq(Values)
    <3>1. Merge(held[c]) \in Values /\ Null \in Values
      BY <1>2, MergeItems DEF Values
    <3> QED
      BY <3>1
  <2>3. \/ edge' = [edge EXCEPT ![e] = Moved(e, n, <<>>)]
        \/ edge' = [edge EXCEPT ![e] = Moved(e, n, <<Null>>)]
        \/ edge' = [edge EXCEPT ![e] = Moved(e, n, <<Merge(held[c]), Null>>)]
    BY DEF Cluster
  <2> QED
    BY <2>1, <2>2, <2>3
<1>6. TypedExecutor(e)'
  <2> PICK values \in Seq(Values) : edge' = [edge EXCEPT ![e] = Moved(e, n, values)]
    BY <1>5
  <2> QED
    BY <1>1, <1>4, NodeTypes
<1>7. held' \in [Scopes -> SUBSET Items]
  <2>1. \/ held' = [held EXCEPT ![c] = {}]
        \/ Null \notin Heads(e, n) /\ held' = [held EXCEPT ![c] = @ \cup Heads(e, n)]
    BY DEF Cluster
  <2> HIDE DEF c
  <2> QED
    BY <1>2, <1>3, <2>1 DEF Types, Shared, Values
<1>8. drawn' = drawn /\ Scopes' = Scopes
  BY <1>1 DEF Scopes, Executors
<1> QED
  BY <1>6, <1>7, <1>8 DEF Types, Shared

\* The sink takes items and lets an end of stream go.
LEMMA SinkTypes ==
  ASSUME Types, NEW e \in Executors, CallSink(e)
  PROVE  TypedExecutor(e)' /\ Shared'
<1> PICK value \in Heads(e, "snk") : snk' = [snk EXCEPT ![e] = Accept(@, value)]
  BY DEF CallSink
<1>1. /\ Ready(e, "snk") /\ edge' = [edge EXCEPT ![e] = Moved(e, "snk", <<>>)]
      /\ UNCHANGED <<job, src, phase, given, sliced, empty, returned, held, drawn>>
  BY DEF CallSink
<1>2. value \in Values
  BY <1>1, HeadsTypes DEF Types, TypedExecutor
<1>3. snk'[e] \in Seq(Items)
  BY <1>2, AppendProperties DEF Accept, Values, Types, TypedExecutor
<1>4. <<>> \in Seq(Values)
  BY EmptySeq
<1>5. /\ sliced'[e] \in Seq(Nat) /\ Len(sliced'[e]) = Len(sliced[e])
      /\ empty'[e] \in Nat
  BY <1>1 DEF Types, TypedExecutor
<1>6. TypedExecutor(e)'
  BY <1>1, <1>3, <1>4, <1>5, NodeTypes
<1> QED
  BY <1>1, <1>6 DEF Types, Shared, Scopes, Executors

\* A call returns an item or Null, or what a collecting sink has.
LEMMA EndRunTypes ==
  ASSUME Types, NEW e \in Executors, EndRun(e)
  PROVE  TypedExecutor(e)' /\ Shared'
<1> USE DEF TypedExecutor, Types
<1> DEFINE result == IF job[e].collect THEN snk[e] ELSE DrainOut(snk[e])
<1>1. snk[e] \in Seq(Items) /\ returned[e] \in Seq(Values \cup Seq(Items))
  OBVIOUS
<1>2. result \in Values \cup Seq(Items)
  BY <1>1, HeadTailProperties DEF DrainOut, Values
<1>3. snk'[e] \in Seq(Items)
  <2>1. NewSink \in Seq(Items) /\ AfterDrain(snk[e]) \in Seq(Items)
    BY <1>1, EmptySeq, HeadTailProperties DEF NewSink, AfterDrain
  <2> QED
    BY <2>1 DEF EndRun
<1>4. /\ returned'[e] = Append(returned[e], result)
      /\ phase[e] = "running" /\ phase'[e] = "idle"
      /\ UNCHANGED <<job, src, edge, given, sliced, empty, held, drawn>>
  BY DEF EndRun
<1> HIDE DEF result
<1>5. /\ returned'[e] \in Seq(Values \cup Seq(Items)) /\ Len(returned'[e]) = Len(given[e])
      /\ Len(given[e]) \in Nat
  <2>1. Len(given[e]) \in Nat /\ Len(returned[e]) = Len(given[e]) - 1
    BY <1>4, LenProperties
  <2>2. /\ Append(returned[e], result) \in Seq(Values \cup Seq(Items))
        /\ Len(Append(returned[e], result)) = Len(returned[e]) + 1
    BY <1>1, <1>2, AppendProperties
  <2> QED
    BY <1>4, <2>1, <2>2
<1>6. Shared'
  BY <1>4 DEF Shared, Scopes, Executors
<1>7. TypedExecutor(e)
  OBVIOUS
<1>8. /\ src'[e] \in [DOMAIN job[e].sources -> SourceStates]
      /\ edge'[e] \in [job[e].edges -> Seq(Values)]
      /\ given'[e] = given[e] /\ sliced'[e] = sliced[e]
      /\ empty'[e] \in Nat
  BY <1>4, <1>7
<1>9. TypedExecutor(e)'
  BY ONLY <1>3, <1>4, <1>5, <1>7, <1>8 DEF TypedExecutor
<1> QED
  BY <1>6, <1>9

\* Every step keeps the types.
LEMMA TypesNext ==
  ASSUME Types, [Next]_vars
  PROVE  Types'
<1>1. CASE UNCHANGED vars
  <2>1. /\ UNCHANGED <<job, src, edge, snk, phase, given, sliced, empty, returned, held, drawn>>
        /\ Executors' = Executors /\ Scopes' = Scopes
    BY <1>1 DEF vars, Scopes, Executors
  <2>2. ASSUME NEW e \in Executors PROVE TypedExecutor(e)'
    <3>1. TypedExecutor(e)
      BY DEF Types
    <3> QED
      BY ONLY <2>1, <3>1 DEF TypedExecutor
  <2>3. Shared'
    BY <2>1 DEF Types, Shared
  <2> QED
    BY <2>1, <2>2, <2>3 DEF Types
<1>2. ASSUME NEW e \in Executors, StepOf(e) PROVE Types'
  <2>1. TypedExecutor(e)' /\ Shared'
    <3>1. CASE \E a \in ArgsOf(e, Len(given[e]) + 1) : Call(e, a)
      BY <3>1, CallTypes
    <3>2. CASE \E i \in DOMAIN src[e] : CallSource(e, i)
      BY <3>2, CallSourceTypes
    <3>3. CASE \E n \in DOMAIN job[e].kinds : Fire(e, n)
      <4> PICK n \in DOMAIN job[e].kinds : Fire(e, n)
        BY <3>3
      <4>1. CASE Transform(e, n) \/ PassEos(e, n) \/ Fluctuate(e, n)
        BY <4>1, PlainNodeTypes
      <4>2. CASE Slice(e, n)
        BY <4>2, SliceTypes
      <4>3. CASE Cluster(e, n)
        BY <4>3, ClusterTypes
      <4> QED
        BY <4>1, <4>2, <4>3 DEF Fire
    <3>4. CASE CallSink(e) \/ EndRun(e)
      BY <3>4, SinkTypes, EndRunTypes
    <3> QED
      BY <1>2, <3>1, <3>2, <3>3, <3>4 DEF StepOf, RunStep
  <2>2. ASSUME NEW f \in Executors \ {e} PROVE TypedExecutor(f)'
    <3>1. TypedExecutor(f)
      BY DEF Types
    <3>2. /\ job' = job
          /\ src'[f] = src[f] /\ edge'[f] = edge[f] /\ snk'[f] = snk[f]
          /\ phase'[f] = phase[f] /\ given'[f] = given[f] /\ sliced'[f] = sliced[f]
          /\ returned'[f] = returned[f] /\ empty'[f] = empty[f]
      BY <1>2, Others
    <3> QED
      BY ONLY <3>1, <3>2 DEF TypedExecutor
  <2> QED
    BY <1>2, <2>1, <2>2, Others DEF Types
<1> QED
  BY <1>1, <1>2 DEF Next, StepOf

\* And they hold in the beginning.
LEMMA TypesInit ==
  ASSUME Init
  PROVE  Types
<1>1. ASSUME NEW e \in Executors PROVE TypedExecutor(e)
  <2>1. src[e] \in [DOMAIN job[e].sources -> SourceStates]
    BY EmptySeq DEF Init, NewSource, SourceStates
  <2>2. edge[e] \in [job[e].edges -> Seq(Values)]
    BY EmptySeq DEF Init
  <2>3. snk[e] = <<>> /\ given[e] = <<>> /\ sliced[e] = <<>> /\ returned[e] = <<>>
        /\ phase[e] = "idle" /\ empty[e] = 0
    BY DEF Init, NewSink
  <2>4. Len(<<>>) = 0 /\ 0 <= MaxCalls[e]
    BY IslandsAssumption DEF Init, Executors, Names
  <2> QED
    BY <2>1, <2>2, <2>3, <2>4, EmptySeq DEF TypedExecutor
<1> QED
  BY <1>1 DEF Init, Types, Shared

\* Types, for every job: only items get into a boundary sink and into clustering,
\* and the histories of an executor agree on the number of its calls.
THEOREM IslandTypes == Spec => []TypeOK
<1>1. Init => Types
  BY TypesInit
<1>2. Types /\ [Next]_vars => Types'
  BY TypesNext
<1>3. Types => TypeOK
  <2> SUFFICES ASSUME Types PROVE TypeOK
    OBVIOUS
  <2>1. ASSUME NEW e \in Executors PROVE Len(given[e]) \in 0..MaxCalls[e]
    <3>1. Len(given[e]) \in Nat /\ Len(given[e]) <= MaxCalls[e]
      BY LenProperties DEF Types, TypedExecutor
    <3> QED
      BY <3>1, BoundOf
  <2> QED
    BY <2>1 DEF Types, TypedExecutor, Shared, TypeOK
<1> QED
  BY <1>1, <1>2, <1>3, PTL DEF Spec
-----------------------------------------------------------------------------
(* Streams.  What a place of the graph has put out in a call so far is its *)
(* stream; a queue is what its head has not yet taken of its tail's.       *)

\* The queue is the stream after its first k values.
RestOf(queue, stream, k) ==
  /\ Len(queue) + k = Len(stream)
  /\ \A i \in 1..Len(queue) : queue[i] = stream[k + i]

\* It loses its head to the taken part.
LEMMA RestTail ==
  ASSUME NEW S, NEW a \in Seq(S), NEW b \in Seq(S), NEW k \in Nat, RestOf(a, b, k), a # <<>>
  PROVE  /\ k + 1 \in 1..Len(b) /\ Head(a) = b[k + 1]
         /\ Tail(a) \in Seq(S) /\ RestOf(Tail(a), b, k + 1)
<1>1. Len(a) \in Nat \ {0} /\ Len(b) \in Nat
  BY EmptySeq, LenProperties
<1>2. /\ Tail(a) \in Seq(S) /\ Len(Tail(a)) = Len(a) - 1 /\ Head(a) = a[1]
      /\ \A i \in 1..Len(Tail(a)) : Tail(a)[i] = a[i + 1]
  BY HeadTailProperties
<1>3. Len(a) + k = Len(b) /\ \A i \in 1..Len(a) : a[i] = b[k + i]
  BY DEF RestOf
<1>4. ASSUME NEW i \in 1..Len(Tail(a)) PROVE Tail(a)[i] = b[k + 1 + i]
  <2>1. i + 1 \in 1..Len(a) /\ k + 1 + i = k + (i + 1)
    BY <1>1, <1>2
  <2> QED
    BY <1>2, <1>3, <2>1
<1>5. 1 \in 1..Len(a) /\ k + 1 \in 1..Len(b) /\ Len(a) - 1 + (k + 1) = Len(b)
  BY <1>1, <1>3
<1> QED
  BY <1>2, <1>3, <1>4, <1>5 DEF RestOf

\* Values are put after both.
LEMMA RestConcat ==
  ASSUME NEW S, NEW a \in Seq(S), NEW b \in Seq(S), NEW k \in Nat, RestOf(a, b, k),
         NEW v \in Seq(S)
  PROVE  a \o v \in Seq(S) /\ RestOf(a \o v, b \o v, k)
<1>1. Len(a) \in Nat /\ Len(b) \in Nat /\ Len(v) \in Nat
  BY LenProperties
<1>2. /\ a \o v \in Seq(S) /\ Len(a \o v) = Len(a) + Len(v)
      /\ \A i \in 1..(Len(a) + Len(v)) :
           (a \o v)[i] = IF i <= Len(a) THEN a[i] ELSE v[i - Len(a)]
  BY ConcatProperties
<1>3. /\ Len(b \o v) = Len(b) + Len(v)
      /\ \A i \in 1..(Len(b) + Len(v)) :
           (b \o v)[i] = IF i <= Len(b) THEN b[i] ELSE v[i - Len(b)]
  BY ConcatProperties
<1>4. Len(a) + k = Len(b)
  BY DEF RestOf
<1>7. \A i \in 1..Len(a) : a[i] = b[k + i]
  BY DEF RestOf
<1>5. ASSUME NEW i \in 1..(Len(a) + Len(v)) PROVE (a \o v)[i] = (b \o v)[k + i]
  <2>1. k + i \in 1..(Len(b) + Len(v))
    BY <1>1, <1>4
  <2>2. CASE i <= Len(a)
    <3>1. i \in 1..Len(a) /\ k + i <= Len(b)
      BY <1>1, <1>4, <2>2
    <3>2. (a \o v)[i] = a[i]
      BY ONLY <1>2, <1>5, <2>2
    <3>3. (b \o v)[k + i] = b[k + i]
      BY ONLY <1>3, <2>1, <3>1
    <3> QED
      BY ONLY <1>7, <3>1, <3>2, <3>3
  <2>3. CASE ~(i <= Len(a))
    <3>1. ~(k + i <= Len(b)) /\ k + i - Len(b) = i - Len(a)
      <4>1. i \in Int /\ k \in Int /\ Len(a) \in Int /\ Len(b) \in Int
        BY <1>1
      <4>2. ~(k + i <= Len(b))
        BY ONLY <1>4, <2>3, <4>1
      <4>3. k + i - Len(b) = i - Len(a)
        BY ONLY <1>4, <4>1
      <4> QED
        BY ONLY <4>2, <4>3
    <3>2. (a \o v)[i] = v[i - Len(a)]
      BY ONLY <1>2, <1>5, <2>3
    <3>3. (b \o v)[k + i] = v[k + i - Len(b)]
      <4> DEFINE x == k + i
      <4>1. x \in 1..(Len(b) + Len(v)) /\ ~(x <= Len(b))
        BY <2>1, <3>1
      <4> HIDE DEF x
      <4>2. (b \o v)[x] = v[x - Len(b)]
        BY ONLY <1>3, <4>1
      <4> QED
        BY <4>2 DEF x
    <3> QED
      BY ONLY <3>1, <3>2, <3>3
  <2> QED
    BY <2>2, <2>3
<1>6. Len(a) + Len(v) + k = Len(b) + Len(v)
  BY <1>1, <1>4
<1> QED
  BY <1>2, <1>3, <1>5, <1>6 DEF RestOf

\* Where values come from or go to.
Places(g) == Nodes(g) \cup {"snk"}

\* A queue is the stream of its tail after what its head took.
Streams(g, q, out, took) ==
  /\ out \in [Places(g) -> Seq(Values)]
  /\ took \in [Places(g) -> Nat]
  /\ q \in [g.edges -> Seq(Values)]
  /\ \A x \in g.edges : RestOf(q[x], out[x.tail], took[x.head])

\* The queues after place n took a value of each in-edge and put out values.
Shift(g, q, n, values) ==
  [x \in g.edges |-> IF x.head = n THEN Tail(q[x])
                     ELSE IF x.tail = n THEN q[x] \o values ELSE q[x]]

\* Edges lead from place to place, and not back to the same one.
LEMMA EdgePlaces ==
  ASSUME NEW g, IsGraph(g), NEW x \in g.edges
  PROVE  x.head \in Places(g) /\ x.tail \in Places(g) /\ x.tail # x.head
<1>1. x.head \in Places(g) /\ x.tail \in Places(g) /\ x.tail # "snk"
  BY DEF IsGraph, Places, Nodes, Takers
<1>2. ASSUME x.head = x.tail PROVE FALSE
  <2>1. x.head \in DOMAIN g.kinds
    BY <1>1, <1>2 DEF IsGraph, Takers
  <2>2. \A s \in SUBSET DOMAIN g.kinds : s # {} =>
          \E n \in s : \A y \in Into(g, n) : y.tail \notin s
    BY DEF IsGraph
  <2>3. \E n \in {x.head} : \A y \in Into(g, n) : y.tail \notin {x.head}
    BY <2>1, <2>2
  <2> QED
    BY <1>2, <2>3 DEF Into
<1> QED
  BY <1>1, <1>2

\* A value that waits is the next one of its stream.
LEMMA NextOfStream ==
  ASSUME NEW g, NEW q, NEW out, NEW took, IsGraph(g), Streams(g, q, out, took),
         NEW x \in g.edges, q[x] # <<>>
  PROVE  /\ took[x.head] + 1 \in 1..Len(out[x.tail])
         /\ Head(q[x]) = out[x.tail][took[x.head] + 1]
<1>1. /\ q[x] \in Seq(Values) /\ took[x.head] \in Nat /\ out[x.tail] \in Seq(Values)
      /\ RestOf(q[x], out[x.tail], took[x.head])
  BY EdgePlaces DEF Streams
<1> QED
  BY <1>1, RestTail

\* Taking and putting out values keeps it so.
LEMMA ShiftStreams ==
  ASSUME NEW g, NEW q, NEW out, NEW took, IsGraph(g), Streams(g, q, out, took),
         NEW n \in Places(g), NEW values \in Seq(Values), \A x \in Into(g, n) : q[x] # <<>>
  PROVE  Streams(g, Shift(g, q, n, values), [out EXCEPT ![n] = @ \o values],
                 [took EXCEPT ![n] = @ + 1])
<1> DEFINE q2 == Shift(g, q, n, values)
           out2 == [out EXCEPT ![n] = @ \o values]
           took2 == [took EXCEPT ![n] = @ + 1]
<1>1. /\ out2 \in [Places(g) -> Seq(Values)] /\ took2 \in [Places(g) -> Nat]
      /\ out2[n] = out[n] \o values /\ took2[n] = took[n] + 1
      /\ \A p \in Places(g) \ {n} : out2[p] = out[p] /\ took2[p] = took[p]
  <2>1. out[n] \o values \in Seq(Values) /\ took[n] + 1 \in Nat
    BY ConcatProperties DEF Streams
  <2> QED
    BY <2>1 DEF Streams
<1>2. ASSUME NEW x \in g.edges
      PROVE  q2[x] \in Seq(Values) /\ RestOf(q2[x], out2[x.tail], took2[x.head])
  <2>1. x.head \in Places(g) /\ x.tail \in Places(g) /\ x.tail # x.head
    BY EdgePlaces
  <2>2. /\ q[x] \in Seq(Values) /\ took[x.head] \in Nat /\ out[x.tail] \in Seq(Values)
        /\ RestOf(q[x], out[x.tail], took[x.head])
    BY <2>1 DEF Streams
  <2>3. CASE x.head = n
    <3>1. q2[x] = Tail(q[x]) /\ q[x] # <<>>
      BY <2>3 DEF Shift, Into
    <3>2. out2[x.tail] = out[x.tail] /\ took2[x.head] = took[x.head] + 1
      BY <1>1, <2>1, <2>3
    <3> QED
      BY <2>2, <3>1, <3>2, RestTail
  <2>4. CASE x.head # n /\ x.tail = n
    <3>1. q2[x] = q[x] \o values
      BY <2>4 DEF Shift
    <3>2. out2[x.tail] = out[x.tail] \o values /\ took2[x.head] = took[x.head]
      BY <1>1, <2>1, <2>4
    <3>3. /\ q[x] \o values \in Seq(Values)
          /\ RestOf(q[x] \o values, out[x.tail] \o values, took[x.head])
      BY <2>2, RestConcat
    <3> QED
      BY <3>1, <3>2, <3>3
  <2>5. CASE x.head # n /\ x.tail # n
    BY <1>1, <2>1, <2>2, <2>5 DEF Shift
  <2> QED
    BY <2>3, <2>4, <2>5
<1>3. q2 \in [g.edges -> Seq(Values)]
  BY <1>2 DEF Shift
<1> QED
  BY <1>1, <1>2, <1>3 DEF Streams
-----------------------------------------------------------------------------
(* The streams of a call in progress.                                      *)

\* The nodes whose streams are cut to slices.
SlicedOf(g) ==
  CHOOSE m \in SUBSET DOMAIN g.kinds : \E d \in SUBSET DOMAIN g.kinds : Rated(g, m, d)

\* They are those of some rates that the graph has.
LEMMA Rates ==
  ASSUME NEW g, WellFormed(g)
  PROVE  /\ IsGraph(g) /\ SlicedOf(g) \in SUBSET DOMAIN g.kinds
         /\ \E d \in SUBSET DOMAIN g.kinds : Rated(g, SlicedOf(g), d)
<1>1. \E m \in SUBSET DOMAIN g.kinds : \E d \in SUBSET DOMAIN g.kinds : Rated(g, m, d)
  BY DEF WellFormed
<1> QED
  BY <1>1 DEF WellFormed, SlicedOf

\* Nodes that put out one value for one.
Plain(g) == DOMAIN g.kinds \ (Slicers(g) \cup Clusterings(g))

\* A source gives its argument, then one end of stream.
Fed(g, s, out) ==
  \A i \in DOMAIN g.sources :
    LET o == out[g.sources[i]] IN
      \/ Len(s[i].queue) = 1 /\ ~s[i].eosSent /\ o = <<>>
      \/ s[i].queue = <<>> /\ ~s[i].eosSent /\ Len(o) = 1
      \/ s[i].queue = <<>> /\ s[i].eosSent /\ Len(o) = 2 /\ o[2] = Null

\* At most two values, the second an end of stream.
Pair(o) == Len(o) <= 2 /\ (Len(o) = 2 => o[2] = Null)

\* As far as a goes, it has ends of stream where b has them.
SamePattern(a, b) ==
  Len(a) <= Len(b) /\ \A i \in 1..Len(a) : a[i] = Null <=> b[i] = Null

\* A slicer that took t values: slices of the frame and an end of stream, or ends
\* of stream only; no slices may be a case or not.
SlicerAt(t, o, some) ==
  \/ t = 0 /\ o = <<>>
  \/ t = 1 /\ (\A i \in 1..Len(o) : o[i] # Null) /\ (some => Len(o) > 0)
  \/ t = 1 /\ Len(o) = 1 /\ o[1] = Null
  \/ t = 2 /\ Len(o) = 2 /\ o[1] = Null /\ o[2] = Null
  \/ /\ t = 2 /\ Len(o) > 0 /\ (some => Len(o) > 1)
     /\ o[Len(o)] = Null /\ \A i \in 1..(Len(o) - 1) : o[i] # Null

\* Clustering that took t values of a stream with the pattern p holds h.
ClusterAt(t, o, p, h) ==
  \/ t = 0 /\ o = <<>> /\ h = {}
  \/ t > 0 /\ p[1] = Null /\ Len(o) = t /\ h = {}
  \/ t > 0 /\ (\A i \in 1..t : p[i] # Null) /\ o = <<>> /\ h # {}
  \/ t > 0 /\ p[1] # Null /\ p[t] = Null /\ Len(o) = 2 /\ h = {}

\* The sink of a node that does not collect has one item at most.
SinkAt(g, t, k) == g.collect \/ (Len(k) <= 1 /\ (t = 0 => k = <<>>))

\* All of it: queues, sources, the streams of every node, and what is held and kept.
Flow(g, q, s, k, h, out, took) ==
  /\ Streams(g, q, out, took)
  /\ Fed(g, s, out)
  /\ \A n \in Nodes(g) \ SlicedOf(g) : Pair(out[n])
  /\ \A n \in SlicedOf(g) : \A z \in Slicers(g) : SamePattern(out[n], out[z])
  /\ \A n \in Plain(g) : Len(out[n]) = took[n]
  /\ \A z \in Slicers(g) : SlicerAt(took[z], out[z], Len(g.sources) > 1)
  /\ \A c \in Clusterings(g) : \A z \in Slicers(g) : ClusterAt(took[c], out[c], out[z], h)
  /\ SinkAt(g, took["snk"], k)

\* The streams when place n puts out values more, and when it takes a value more.
Longer(out, n, values) == [out EXCEPT ![n] = @ \o values]
Further(took, n)       == [took EXCEPT ![n] = @ + 1]

\* A pattern stays as the stream that sets it goes on.
LEMMA PatternGoesOn ==
  ASSUME NEW a \in Seq(Values), NEW b \in Seq(Values), NEW v \in Seq(Values), SamePattern(a, b)
  PROVE  SamePattern(a, b \o v)
<1>1. Len(a) \in Nat /\ Len(b) \in Nat /\ Len(v) \in Nat
  BY LenProperties
<1>2. /\ Len(b \o v) = Len(b) + Len(v)
      /\ \A i \in 1..(Len(b) + Len(v)) :
           (b \o v)[i] = IF i <= Len(b) THEN b[i] ELSE v[i - Len(b)]
  BY ConcatProperties
<1>3. Len(a) <= Len(b)
  BY DEF SamePattern
<1>4. ASSUME NEW i \in 1..Len(a) PROVE (b \o v)[i] = b[i]
  <2>1. i \in 1..(Len(b) + Len(v)) /\ i <= Len(b)
    BY <1>1, <1>3
  <2> QED
    BY <1>2, <2>1
<1>5. Len(a) <= Len(b \o v)
  BY <1>1, <1>2, <1>3
<1> QED
  BY <1>4, <1>5 DEF SamePattern

\* So does what clustering knows of it.
LEMMA ClusterGoesOn ==
  ASSUME NEW t \in Nat, NEW o, NEW p \in Seq(Values), NEW h, NEW v \in Seq(Values),
         t <= Len(p), ClusterAt(t, o, p, h)
  PROVE  ClusterAt(t, o, p \o v, h)
<1>1. Len(p) \in Nat /\ Len(v) \in Nat
  BY LenProperties
<1>2. \A i \in 1..(Len(p) + Len(v)) : (p \o v)[i] = IF i <= Len(p) THEN p[i] ELSE v[i - Len(p)]
  BY ConcatProperties
<1>3. ASSUME NEW i \in 1..t PROVE (p \o v)[i] = p[i]
  <2>1. i \in 1..(Len(p) + Len(v)) /\ i <= Len(p)
    BY <1>1
  <2> QED
    BY <1>2, <2>1
<1>4. t > 0 => 1 \in 1..t /\ t \in 1..t
  OBVIOUS
<1> QED
  BY <1>3, <1>4 DEF ClusterAt
\* Clustering has taken no more than the slicer put out.
LEMMA BehindSlicer ==
  ASSUME NEW g, NEW q, NEW s, NEW k, NEW h, NEW out, NEW took, WellFormed(g),
         Flow(g, q, s, k, h, out, took), NEW c \in Clusterings(g), NEW z \in Slicers(g),
         NEW x \in Into(g, c)
  PROVE  /\ x \in g.edges /\ x.head = c /\ x.tail \in SlicedOf(g)
         /\ SamePattern(out[x.tail], out[z]) /\ took[c] <= Len(out[x.tail])
         /\ took[c] <= Len(out[z])
<1>1. x \in g.edges /\ x.head = c /\ IsGraph(g)
  BY Rates DEF Into
<1>2. x.tail \in SlicedOf(g)
  BY Rates DEF Rated
<1>3. SamePattern(out[x.tail], out[z])
  BY <1>2 DEF Flow
<1>4. /\ q[x] \in Seq(Values) /\ took[c] \in Nat /\ out[x.tail] \in Seq(Values)
      /\ Len(q[x]) + took[c] = Len(out[x.tail])
  BY <1>1, EdgePlaces DEF Flow, Streams, RestOf
<1>5. z \in Places(g)
  BY DEF Slicers, OfKind, Places, Nodes
<1>6. out[z] \in Seq(Values)
  BY <1>5 DEF Flow, Streams
<1>7. Len(q[x]) \in Nat /\ Len(out[x.tail]) \in Nat /\ Len(out[z]) \in Nat
  BY <1>4, <1>6, LenProperties
<1>8. Len(out[x.tail]) <= Len(out[z])
  BY <1>3 DEF SamePattern
<1> QED
  BY <1>1, <1>2, <1>3, <1>4, <1>7, <1>8

\* A place that takes a value and puts out values as its kind does keeps the flow.
LEMMA FlowStep ==
  ASSUME NEW g, NEW q, NEW s, NEW k, NEW h, NEW out, NEW took, WellFormed(g),
         Flow(g, q, s, k, h, out, took),
         NEW n \in Places(g), NEW values \in Seq(Values), \A x \in Into(g, n) : q[x] # <<>>,
         NEW s2, NEW k2, NEW h2,
         n \in Nodes(g) \ SlicedOf(g) => Pair(out[n] \o values),
         n \in SlicedOf(g) \ Slicers(g) =>
           \A z \in Slicers(g) : SamePattern(out[n] \o values, out[z]),
         n \in Plain(g) => Len(values) = 1,
         n \in Slicers(g) => SlicerAt(took[n] + 1, out[n] \o values, Len(g.sources) > 1),
         IF n \in Clusterings(g)
         THEN \A z \in Slicers(g) : ClusterAt(took[n] + 1, out[n] \o values, out[z], h2)
         ELSE Clusterings(g) # {} => h2 = h,
         IF n = "snk" THEN SinkAt(g, took["snk"] + 1, k2) ELSE k2 = k,
         IF n \in SourceNames(g) THEN Fed(g, s2, [out EXCEPT ![n] = @ \o values]) ELSE s2 = s
  PROVE  Flow(g, Shift(g, q, n, values), s2, k2, h2, [out EXCEPT ![n] = @ \o values],
              [took EXCEPT ![n] = @ + 1])
<1> DEFINE m == SlicedOf(g)
           out2 == [out EXCEPT ![n] = @ \o values]
           took2 == [took EXCEPT ![n] = @ + 1]
           fed2 == Fed(g, s2, out2)
<1>1. /\ IsGraph(g) /\ m \in SUBSET DOMAIN g.kinds
      /\ Streams(g, Shift(g, q, n, values), out2, took2)
  BY Rates, ShiftStreams DEF Flow
<1>2. /\ out \in [Places(g) -> Seq(Values)] /\ took \in [Places(g) -> Nat]
      /\ out2[n] = out[n] \o values /\ took2[n] = took[n] + 1
      /\ \A p \in Places(g) \ {n} : out2[p] = out[p] /\ took2[p] = took[p]
  BY DEF Flow, Streams
<1>3. /\ \A p \in DOMAIN g.kinds : p \in Places(g) /\ p # "snk" /\ p \notin SourceNames(g)
      /\ \A i \in DOMAIN g.sources : g.sources[i] \in SourceNames(g)
      /\ \A p \in SourceNames(g) : p \in Places(g) /\ p # "snk"
      /\ "snk" \in Places(g)
  BY <1>1 DEF IsGraph, Places, Nodes, SourceNames
<1>4. /\ Slicers(g) \subseteq DOMAIN g.kinds /\ Clusterings(g) \subseteq DOMAIN g.kinds
      /\ Slicers(g) \cap Clusterings(g) = {} /\ Plain(g) \subseteq DOMAIN g.kinds
      /\ \A z, y \in Slicers(g) : z = y
      /\ \A z \in Slicers(g) : z \in m
  BY Rates DEF Slicers, Clusterings, OfKind, Plain, Rated
<1>5. fed2
  <2>1. CASE n \in SourceNames(g)
    BY <2>1
  <2>2. CASE n \notin SourceNames(g)
    <3>1. \A i \in DOMAIN g.sources : out2[g.sources[i]] = out[g.sources[i]]
      BY <1>2, <1>3, <2>2
    <3>2. Fed(g, s, out) /\ s2 = s
      BY <2>2 DEF Flow
    <3> HIDE DEF out2
    <3> QED
      BY <3>1, <3>2 DEF Fed
  <2> QED
    BY <2>1, <2>2
<1> HIDE DEF out2, took2, fed2
<1>6. ASSUME NEW p \in Nodes(g) \ m PROVE Pair(out2[p])
  <2>1. p \in Places(g) /\ Pair(out[p])
    BY DEF Flow, Places
  <2> QED
    BY <1>2, <2>1
<1>7. ASSUME NEW p \in m, NEW z \in Slicers(g) PROVE SamePattern(out2[p], out2[z])
  <2>1. p \in Places(g) /\ z \in Places(g) /\ SamePattern(out[p], out[z])
    BY <1>1, <1>3, <1>4 DEF Flow
  <2>2. CASE p = z
    BY <2>2 DEF SamePattern
  <2>3. CASE p # z /\ n = p
    <3>1. n \in m \ Slicers(g)
      BY <1>4, <2>3
    <3> QED
      BY <1>2, <2>1, <2>3, <3>1
  <2>4. CASE p # z /\ n = z
    <3>1. out2[p] = out[p] /\ out2[z] = out[z] \o values
      BY <1>2, <2>1, <2>4
    <3>2. out[p] \in Seq(Values) /\ out[z] \in Seq(Values)
      BY <1>2, <2>1
    <3> QED
      BY <2>1, <3>1, <3>2, PatternGoesOn
  <2>5. CASE n # p /\ n # z
    BY <1>2, <2>1, <2>5
  <2> QED
    BY <2>2, <2>3, <2>4, <2>5
<1>8. ASSUME NEW p \in Plain(g) PROVE Len(out2[p]) = took2[p]
  <2>1. p \in Places(g) /\ Len(out[p]) = took[p]
    BY <1>3, <1>4 DEF Flow
  <2>2. CASE p = n
    <3>1. out[p] \in Seq(Values) /\ Len(values) = 1
      BY <1>2, <2>1, <2>2
    <3>2. Len(out[p] \o values) = Len(out[p]) + Len(values)
      BY <3>1, ConcatProperties
    <3> QED
      BY <1>2, <2>1, <2>2, <3>1, <3>2
  <2> QED
    BY <1>2, <2>1, <2>2
<1>9. ASSUME NEW z \in Slicers(g) PROVE SlicerAt(took2[z], out2[z], Len(g.sources) > 1)
  <2>1. z \in Places(g) /\ SlicerAt(took[z], out[z], Len(g.sources) > 1)
    BY <1>3, <1>4 DEF Flow
  <2> QED
    BY <1>2, <2>1
<1>10. ASSUME NEW c \in Clusterings(g), NEW z \in Slicers(g)
       PROVE  ClusterAt(took2[c], out2[c], out2[z], h2)
  <2>1. c \in Places(g) /\ z \in Places(g) /\ c # z /\ ClusterAt(took[c], out[c], out[z], h)
    BY <1>3, <1>4 DEF Flow
  <2>2. CASE n = c
    BY <1>2, <2>1, <2>2
  <2>3. CASE n # c
    <3>1. n \notin Clusterings(g)
      BY Rates, <2>3 DEF Rated
    <3>2. h2 = h /\ took2[c] = took[c] /\ out2[c] = out[c]
      BY <1>2, <2>1, <2>3, <3>1
    <3>3. CASE n = z
      <4>1. took[c] <= Len(out[z])
        <5>1. Into(g, c) # {}
          BY <1>1, <1>4 DEF IsGraph, Takers
        <5> QED
          BY <5>1, BehindSlicer
      <4>2. took[c] \in Nat /\ out[z] \in Seq(Values) /\ out2[z] = out[z] \o values
        BY <1>2, <2>1, <3>3
      <4> QED
        BY <2>1, <3>2, <4>1, <4>2, ClusterGoesOn
    <3>4. CASE n # z
      BY <1>2, <2>1, <3>2, <3>4
    <3> QED
      BY <3>3, <3>4
  <2> QED
    BY <2>2, <2>3
<1>11. SinkAt(g, took2["snk"], k2)
  <2>1. SinkAt(g, took["snk"], k)
    BY DEF Flow
  <2> QED
    BY <1>2, <1>3, <2>1
<1> QED
  BY <1>1, <1>5, <1>6, <1>7, <1>8, <1>9, <1>10, <1>11 DEF Flow, out2, took2, fed2
\* One value more.
LEMMA OneMore ==
  ASSUME NEW o \in Seq(Values), NEW v \in Values
  PROVE  /\ <<v>> \in Seq(Values) /\ Len(<<v>>) = 1 /\ o \o <<v>> \in Seq(Values)
         /\ Len(o) \in Nat /\ Len(o \o <<v>>) = Len(o) + 1 /\ (o \o <<v>>)[Len(o) + 1] = v
         /\ \A i \in 1..Len(o) : (o \o <<v>>)[i] = o[i]
<1>1. <<v>> \in Seq(Values) /\ Len(<<v>>) = 1 /\ <<v>>[1] = v /\ Len(o) \in Nat
  BY LenProperties
<1>2. /\ o \o <<v>> \in Seq(Values) /\ Len(o \o <<v>>) = Len(o) + 1
      /\ \A i \in 1..(Len(o) + 1) :
           (o \o <<v>>)[i] = IF i <= Len(o) THEN o[i] ELSE <<v>>[i - Len(o)]
  BY <1>1, ConcatProperties
<1>3. Len(o) + 1 \in 1..(Len(o) + 1) /\ ~(Len(o) + 1 <= Len(o)) /\ Len(o) + 1 - Len(o) = 1
  BY <1>1
<1>4. \A i \in 1..Len(o) : i \in 1..(Len(o) + 1) /\ i <= Len(o)
  BY <1>1
<1> QED
  BY <1>1, <1>2, <1>3, <1>4

\* A source is called.
LEMMA SourceFlow ==
  ASSUME NEW g, NEW q, NEW s \in [DOMAIN g.sources -> SourceStates], NEW k, NEW h,
         WellFormed(g), NEW out, NEW took, Flow(g, q, s, k, h, out, took),
         NEW i \in DOMAIN g.sources, SourceOk(s[i])
  PROVE  Flow(g, Shift(g, q, g.sources[i], <<SourceOut(s[i])>>),
              [s EXCEPT ![i] = AfterCall(@)], k, h,
              Longer(out, g.sources[i], <<SourceOut(s[i])>>), Further(took, g.sources[i]))
<1> DEFINE n == g.sources[i]
           v == SourceOut(s[i])
           s2 == [s EXCEPT ![i] = AfterCall(@)]
           out2 == [out EXCEPT ![n] = @ \o <<v>>]
<1>1. IsGraph(g) /\ SlicedOf(g) \subseteq DOMAIN g.kinds
  BY Rates
<1>2. /\ n \in Places(g) /\ n \in Nodes(g) /\ n \in SourceNames(g) /\ n # "snk"
      /\ n \notin DOMAIN g.kinds /\ Into(g, n) = {}
  BY <1>1 DEF IsGraph, Places, Nodes, SourceNames, Into, Takers
<1>3. /\ out \in [Places(g) -> Seq(Values)] /\ out[n] \in Seq(Values)
      /\ s[i] \in SourceStates
  BY <1>2 DEF Flow, Streams
<1>4. \/ Len(s[i].queue) = 1 /\ ~s[i].eosSent /\ out[n] = <<>>
      \/ s[i].queue = <<>> /\ ~s[i].eosSent /\ Len(out[n]) = 1
  BY DEF Flow, Fed, SourceOk
<1>5. s[i].queue = <<>> => v = Null /\ s2[i].queue = <<>> /\ s2[i].eosSent
  BY <1>3 DEF SourceOut, AfterCall, SourceStates
<1>6. Len(s[i].queue) = 1 =>
        v \in Values /\ s2[i].queue = <<>> /\ s2[i].eosSent = s[i].eosSent
  <2> SUFFICES ASSUME Len(s[i].queue) = 1
               PROVE  v \in Values /\ s2[i].queue = <<>> /\ s2[i].eosSent = s[i].eosSent
    OBVIOUS
  <2>0. Len(<<>>) = 0
    OBVIOUS
  <2>1. s[i].queue \in Seq(Values) /\ s[i].queue # <<>>
    <3>1. s[i].queue \in Seq(Values)
      BY <1>3 DEF SourceStates
    <3>2. ASSUME s[i].queue = <<>> PROVE FALSE
      <4>1. Len(s[i].queue) = 0
        BY <3>1, <3>2, EmptySeq
      <4> QED
        BY <4>1
    <3> QED
      BY <3>1, <3>2
  <2>2. Head(s[i].queue) \in Values /\ Tail(s[i].queue) \in Seq(Values)
        /\ Len(Tail(s[i].queue)) = 0
    BY <2>1, HeadTailProperties
  <2>3. Tail(s[i].queue) = <<>>
    BY <2>2, EmptySeq
  <2> QED
    BY <1>3, <2>1, <2>2, <2>3 DEF SourceOut, AfterCall, SourceStates
<1>7. v \in Values
  BY <1>4, <1>5, <1>6 DEF Values
<1> HIDE DEF v, s2
<1>8. /\ <<v>> \in Seq(Values) /\ Len(out[n] \o <<v>>) = Len(out[n]) + 1
      /\ (out[n] \o <<v>>)[Len(out[n]) + 1] = v
  BY <1>3, <1>7, OneMore
<1>9. /\ Pair(out[n] \o <<v>>)
      /\ Len(s[i].queue) = 1 => Len(out[n] \o <<v>>) = 1
      /\ s[i].queue = <<>> => Len(out[n] \o <<v>>) = 2 /\ (out[n] \o <<v>>)[2] = Null
  <2> DEFINE o2 == out[n] \o <<v>>
  <2>0. Len(<<>>) = 0
    OBVIOUS
  <2>1. CASE Len(s[i].queue) = 1 /\ ~s[i].eosSent /\ out[n] = <<>>
    <3>1. s[i].queue # <<>>
      <4> SUFFICES ASSUME s[i].queue = <<>> PROVE FALSE
        OBVIOUS
      <4>1. Len(<<>>) = 1
        BY <2>1
      <4> QED
        BY <2>0, <4>1
    <3>0. Len(out[n]) = 0
      <4>1. out[n] = <<>>
        BY <2>1
      <4> QED
        BY <2>0, <4>1
    <3>2. Len(o2) = 0 + 1
      BY <1>8, <3>0
    <3> HIDE DEF o2
    <3>3. Pair(o2)
      BY <3>2 DEF Pair
    <3> QED
      BY <3>1, <3>2, <3>3 DEF o2
  <2>2. CASE s[i].queue = <<>> /\ ~s[i].eosSent /\ Len(out[n]) = 1
    <3>1. Len(o2) = 2 /\ o2[2] = Null /\ Len(s[i].queue) # 1
      BY <1>5, <1>8, <2>0, <2>2
    <3> HIDE DEF o2
    <3>2. Pair(o2)
      BY <3>1 DEF Pair
    <3> QED
      BY <3>1, <3>2 DEF o2
  <2> QED
    BY <1>4, <2>1, <2>2
<1>10. Fed(g, s2, out2)
  <2>1. out2[n] = out[n] \o <<v>> /\ \A p \in Places(g) \ {n} : out2[p] = out[p]
    BY <1>2, <1>3
  <2> HIDE DEF out2
  <2> SUFFICES ASSUME NEW j \in DOMAIN g.sources
               PROVE  LET o == out2[g.sources[j]] IN
                        \/ Len(s2[j].queue) = 1 /\ ~s2[j].eosSent /\ o = <<>>
                        \/ s2[j].queue = <<>> /\ ~s2[j].eosSent /\ Len(o) = 1
                        \/ s2[j].queue = <<>> /\ s2[j].eosSent /\ Len(o) = 2 /\ o[2] = Null
    BY DEF Fed
  <2>2. CASE j = i
    <3>1. out2[g.sources[j]] = out[n] \o <<v>>
      BY <2>1, <2>2
    <3> HIDE DEF n
    <3> QED
      BY <1>4, <1>5, <1>6, <1>9, <2>2, <3>1
  <2>3. CASE j # i
    <3>1. g.sources[j] # n /\ g.sources[j] \in Places(g)
      BY <1>1, <2>3 DEF IsGraph, Places, Nodes, SourceNames
    <3>2. s2[j] = s[j] /\ out2[g.sources[j]] = out[g.sources[j]]
      BY <2>1, <2>3, <3>1 DEF s2
    <3> QED
      BY <3>2 DEF Flow, Fed
  <2> QED
    BY <2>2, <2>3
<1>11. /\ n \notin SlicedOf(g) /\ n \notin Plain(g) /\ n \notin Slicers(g)
       /\ n \notin Clusterings(g)
  BY <1>1, <1>2 DEF Plain, Slicers, Clusterings, OfKind
<1> DEFINE took2 == [took EXCEPT ![n] = @ + 1]
<1>12. Flow(g, Shift(g, q, n, <<v>>), s2, k, h, out2, took2)
  BY <1>2, <1>8, <1>9, <1>10, <1>11, FlowStep
<1> QED
  BY <1>12 DEF v, s2, Longer, Further

\* The second value of a pair is the end of the stream.
LEMMA PairIndex ==
  ASSUME NEW o, Len(o) \in Nat, Pair(o), NEW t \in Nat, t + 1 \in 1..Len(o)
  PROVE  t + 1 <= 2 /\ (t + 1 = 2 => o[t + 1] = Null)
<1> PICK l \in Nat : l = Len(o)
  OBVIOUS
<1>1. l <= 2 /\ t + 1 \in 1..l
  BY DEF Pair
<1>2. t + 1 <= 2 /\ (t + 1 = 2 => l = 2)
  BY <1>1
<1> QED
  BY <1>2 DEF Pair

\* A node that puts out one value for one, an end of stream for one.
LEMMA PlainFlow ==
  ASSUME NEW g, NEW q, NEW s, NEW k, NEW h, WellFormed(g),
         NEW out, NEW took, Flow(g, q, s, k, h, out, took),
         NEW n \in Plain(g), \A x \in Into(g, n) : q[x] # <<>>,
         NEW v \in Values, v = Null <=> \E x \in Into(g, n) : Head(q[x]) = Null
  PROVE  Flow(g, Shift(g, q, n, <<v>>), s, k, h, Longer(out, n, <<v>>), Further(took, n))
<1> DEFINE t == took[n]
<1>1. IsGraph(g) /\ SlicedOf(g) \subseteq DOMAIN g.kinds
  BY Rates
<1>2. /\ n \in DOMAIN g.kinds /\ n \notin Slicers(g) /\ n \notin Clusterings(g)
      /\ n \in Places(g) /\ n # "snk" /\ n \notin SourceNames(g)
      /\ Into(g, n) # {} /\ Into(g, n) \subseteq g.edges /\ \A x \in Into(g, n) : x.head = n
  BY <1>1 DEF Plain, IsGraph, Places, Nodes, Takers, Into
<1>3. /\ out[n] \in Seq(Values) /\ t \in Nat /\ Len(out[n]) = t
  BY <1>2 DEF Flow, Streams
<1>4. /\ <<v>> \in Seq(Values) /\ Len(<<v>>) = 1 /\ Len(out[n] \o <<v>>) = t + 1
      /\ (out[n] \o <<v>>)[t + 1] = v /\ \A i \in 1..t : (out[n] \o <<v>>)[i] = out[n][i]
  BY <1>3, OneMore
<1>5. ASSUME NEW x \in Into(g, n)
      PROVE  /\ t + 1 \in 1..Len(out[x.tail]) /\ Head(q[x]) = out[x.tail][t + 1]
             /\ x.tail \in Nodes(g) /\ out[x.tail] \in Seq(Values)
             /\ Len(out[x.tail]) \in Nat
             /\ n \in SlicedOf(g) <=> x.tail \in SlicedOf(g)
  <2>1. t + 1 \in 1..Len(out[x.tail]) /\ Head(q[x]) = out[x.tail][t + 1]
    BY <1>1, <1>2, NextOfStream DEF Flow
  <2>2. x.tail \in Nodes(g) /\ x.tail \in Places(g)
    BY <1>1, <1>2 DEF IsGraph, Places
  <2>3. n \in SlicedOf(g) <=> x.tail \in SlicedOf(g)
    BY Rates DEF Rated, Plain
  <2>4. out[x.tail] \in Seq(Values)
    BY <2>2 DEF Flow, Streams
  <2> QED
    BY <2>1, <2>2, <2>3, <2>4, LenProperties
<1> PICK y \in Into(g, n) : TRUE
  BY <1>2
<1>6. ASSUME n \notin SlicedOf(g) PROVE Pair(out[n] \o <<v>>)
  <2>1. Pair(out[y.tail])
    BY <1>5, <1>6 DEF Flow
  <2>2. t + 1 <= 2 /\ (t + 1 = 2 => out[y.tail][t + 1] = Null)
    <3>1. t + 1 \in 1..Len(out[y.tail]) /\ Len(out[y.tail]) \in Nat
      BY <1>5
    <3> QED
      BY <1>3, <2>1, <3>1, PairIndex
  <2>3. t + 1 = 2 => v = Null
    BY <1>5, <2>2
  <2> QED
    BY <1>3, <1>4, <2>2, <2>3 DEF Pair
<1>7. ASSUME n \in SlicedOf(g), NEW z \in Slicers(g) PROVE SamePattern(out[n] \o <<v>>, out[z])
  <2>1. SamePattern(out[n], out[z])
    BY <1>7 DEF Flow
  <2>2. \A x \in Into(g, n) : SamePattern(out[x.tail], out[z])
    BY <1>5, <1>7 DEF Flow
  <2>3. out[z] \in Seq(Values) /\ Len(out[z]) \in Nat
    <3>1. z \in Places(g)
      BY DEF Slicers, OfKind, Places, Nodes
    <3> QED
      BY <3>1, LenProperties DEF Flow, Streams
  <2>4. t + 1 <= Len(out[z])
    BY <1>3, <1>5, <2>2, <2>3 DEF SamePattern
  <2>5. \A x \in Into(g, n) : Head(q[x]) = Null <=> out[z][t + 1] = Null
    BY <1>5, <2>2 DEF SamePattern
  <2>6. v = Null <=> out[z][t + 1] = Null
    BY <2>5
  <2>7. ASSUME NEW i \in 1..(t + 1)
        PROVE  (out[n] \o <<v>>)[i] = Null <=> out[z][i] = Null
    <3>1. i \in 1..t \/ i = t + 1
      BY <1>3
    <3> QED
      BY <1>3, <1>4, <2>1, <2>6, <3>1 DEF SamePattern
  <2> QED
    BY <1>4, <2>4, <2>7 DEF SamePattern
<1> DEFINE out2 == [out EXCEPT ![n] = @ \o <<v>>]
           took2 == [took EXCEPT ![n] = @ + 1]
<1>8. Flow(g, Shift(g, q, n, <<v>>), s, k, h, out2, took2)
  BY <1>2, <1>4, <1>6, <1>7, FlowStep
<1> QED
  BY <1>8 DEF Longer, Further
\* The slicer cuts a frame, or passes an end of stream on.
LEMMA SlicerNext ==
  ASSUME NEW o \in Seq(Values), NEW t \in Nat, t + 1 <= 2, NEW some, SlicerAt(t, o, some)
  PROVE  /\ SlicerAt(t + 1, o \o <<Null>>, some)
         /\ \A v \in Seq(Items) :
              t + 1 # 2 /\ (some => Len(v) > 0) => SlicerAt(t + 1, o \o v, some)
<1> PICK n \in Nat : n = Len(o)
  BY LenProperties
<1> DEFINE o2 == o \o <<Null>>
<1>1. Len(o2) = n + 1 /\ o2[n + 1] = Null /\ \A i \in 1..n : o2[i] = o[i]
  BY OneMore DEF Values
<1>4. Len(<<>>) = 0
  OBVIOUS
<1>2. SlicerAt(t + 1, o2, some)
  <2> HIDE DEF o2
  <2>1. CASE t = 0 /\ o = <<>>
    <3>1. n = 0
      BY <1>4, <2>1
    <3> QED
      BY <1>1, <2>1, <3>1 DEF SlicerAt
  <2>2. CASE t = 1 /\ (\A i \in 1..n : o[i] # Null) /\ (some => n > 0)
    <3>1. n + 1 > 0 /\ (some => n + 1 > 1) /\ n + 1 - 1 = n
      BY <2>2
    <3>2. \A i \in 1..(n + 1 - 1) : o2[i] # Null
      BY <1>1, <2>2, <3>1
    <3> QED
      BY <1>1, <2>2, <3>1, <3>2 DEF SlicerAt
  <2>3. CASE t = 1 /\ n = 1 /\ o[1] = Null
    BY <1>1, <2>3 DEF SlicerAt
  <2> QED
    BY <2>1, <2>2, <2>3 DEF SlicerAt
<1>3. ASSUME NEW v \in Seq(Items), t + 1 # 2, some => Len(v) > 0
      PROVE  SlicerAt(t + 1, o \o v, some)
  <2>1. t = 0 /\ o = <<>>
    BY <1>3 DEF SlicerAt
  <2>2. o \o v = v
    BY <2>1, ConcatEmptySeq
  <2>3. \A i \in 1..Len(v) : v[i] # Null
    BY IslandsAssumption, LenProperties
  <2> QED
    BY <1>3, <2>1, <2>2, <2>3 DEF SlicerAt
<1> QED
  BY <1>2, <1>3

\* A slicer takes a value and puts out its slices.
LEMMA SlicerFlow ==
  ASSUME NEW g, NEW q, NEW s, NEW k, NEW h, WellFormed(g),
         NEW out, NEW took, Flow(g, q, s, k, h, out, took),
         NEW n \in Slicers(g), \A x \in Into(g, n) : q[x] # <<>>, NEW values \in Seq(Values),
         IF \E x \in Into(g, n) : Head(q[x]) = Null THEN values = <<Null>>
         ELSE values \in Seq(Items) /\ (Len(g.sources) > 1 => Len(values) > 0)
  PROVE  Flow(g, Shift(g, q, n, values), s, k, h, Longer(out, n, values), Further(took, n))
<1> DEFINE t == took[n]
<1>1. IsGraph(g) /\ SlicedOf(g) \subseteq DOMAIN g.kinds
  BY Rates
<1>2. /\ n \in DOMAIN g.kinds /\ n \notin Clusterings(g) /\ n \notin Plain(g)
      /\ n \in Places(g) /\ n # "snk" /\ n \notin SourceNames(g)
      /\ Into(g, n) # {} /\ Into(g, n) \subseteq g.edges /\ \A x \in Into(g, n) : x.head = n
  BY <1>1 DEF Plain, Slicers, Clusterings, OfKind, IsGraph, Places, Nodes, Takers, Into
<1>3. n \in SlicedOf(g) /\ \A x \in Into(g, n) : x.tail \notin SlicedOf(g)
  BY Rates DEF Rated
<1>4. out[n] \in Seq(Values) /\ t \in Nat /\ SlicerAt(t, out[n], Len(g.sources) > 1)
  BY <1>2 DEF Flow, Streams
<1>5. ASSUME NEW x \in Into(g, n)
      PROVE  t + 1 <= 2 /\ (t + 1 = 2 => Head(q[x]) = Null)
  <2>1. t + 1 \in 1..Len(out[x.tail]) /\ Head(q[x]) = out[x.tail][t + 1]
    BY <1>1, <1>2, NextOfStream DEF Flow
  <2>2. x.tail \in Nodes(g) /\ x.tail \in Places(g)
    BY <1>1, <1>2 DEF IsGraph, Places
  <2>3. Pair(out[x.tail]) /\ out[x.tail] \in Seq(Values)
    BY <1>3, <2>2 DEF Flow, Streams
  <2>4. Len(out[x.tail]) \in Nat
    BY <2>3, LenProperties
  <2> QED
    BY <1>4, <2>1, <2>3, <2>4, PairIndex
<1> HIDE DEF t
<1>6. SlicerAt(t + 1, out[n] \o values, Len(g.sources) > 1)
  <2>1. t + 1 <= 2 /\ (t + 1 = 2 => \E x \in Into(g, n) : Head(q[x]) = Null)
    BY <1>2, <1>5
  <2>2. CASE \E x \in Into(g, n) : Head(q[x]) = Null
    BY <1>4, <2>1, <2>2, SlicerNext
  <2>3. CASE ~\E x \in Into(g, n) : Head(q[x]) = Null
    <3>1. /\ t + 1 # 2 /\ values \in Seq(Items)
          /\ Len(g.sources) > 1 => Len(values) > 0
      BY <2>1, <2>3
    <3> QED
      BY <1>4, <2>1, <3>1, SlicerNext
  <2> QED
    BY <2>2, <2>3
<1> DEFINE out2 == [out EXCEPT ![n] = @ \o values]
           took2 == [took EXCEPT ![n] = @ + 1]
<1>7. Flow(g, Shift(g, q, n, values), s, k, h, out2, took2)
  BY <1>2, <1>3, <1>6, FlowStep DEF t
<1> QED
  BY <1>7 DEF Longer, Further

\* The sink takes a value.
LEMMA SinkFlow ==
  ASSUME NEW g, NEW q, NEW s, NEW k \in Seq(Items), NEW h, WellFormed(g),
         NEW out, NEW took, Flow(g, q, s, k, h, out, took), \A x \in Into(g, "snk") : q[x] # <<>>,
         NEW y \in Into(g, "snk"), Head(q[y]) \in Values
  PROVE  Flow(g, Shift(g, q, "snk", <<>>), s, Accept(k, Head(q[y])), h,
              Longer(out, "snk", <<>>), Further(took, "snk"))
<1> DEFINE t == took["snk"]
           k2 == Accept(k, Head(q[y]))
           none == <<>>
<1>1. IsGraph(g) /\ SlicedOf(g) \subseteq DOMAIN g.kinds
  BY Rates
<1>2. /\ "snk" \in Places(g) /\ "snk" \notin DOMAIN g.kinds /\ "snk" \notin SourceNames(g)
      /\ "snk" \notin Nodes(g) /\ y \in g.edges /\ y.head = "snk"
  BY <1>1 DEF IsGraph, Places, Nodes, Into
<1>3. /\ "snk" \notin Plain(g) /\ "snk" \notin Slicers(g) /\ "snk" \notin Clusterings(g)
      /\ "snk" \notin SlicedOf(g)
  BY <1>1, <1>2 DEF Plain, Slicers, Clusterings, OfKind
<1>4. t \in Nat /\ SinkAt(g, t, k)
  BY <1>2 DEF Flow, Streams
<1>5. ASSUME ~g.collect PROVE t + 1 <= 2 /\ (t + 1 = 2 => Head(q[y]) = Null)
  <2>1. t + 1 \in 1..Len(out[y.tail]) /\ Head(q[y]) = out[y.tail][t + 1]
    BY <1>1, <1>2, NextOfStream DEF Flow
  <2>2. y.tail \in Nodes(g) /\ y.tail \in Places(g) /\ y.tail \notin SlicedOf(g)
    BY <1>1, <1>2, <1>5, Rates DEF IsGraph, Places, Rated
  <2>3. Pair(out[y.tail]) /\ out[y.tail] \in Seq(Values)
    BY <2>2 DEF Flow, Streams
  <2>4. Len(out[y.tail]) \in Nat
    BY <2>3, LenProperties
  <2> QED
    BY <1>4, <2>1, <2>3, <2>4, PairIndex
<1> HIDE DEF t
<1>6. SinkAt(g, t + 1, k2)
  <2> SUFFICES ASSUME ~g.collect PROVE Len(k2) <= 1
    BY <1>4 DEF SinkAt
  <2>1. CASE t = 0
    <3>1. k = <<>>
      BY <1>4, <2>1 DEF SinkAt
    <3>2. CASE Head(q[y]) = Null
      <4>1. k2 = <<>> /\ Len(<<>>) <= 1
        BY <3>1, <3>2 DEF Accept
      <4> QED
        BY <4>1
    <3>3. CASE Head(q[y]) # Null
      <4>1. k2 = Append(<<>>, Head(q[y])) /\ Len(Append(<<>>, Head(q[y]))) <= 1
        BY <3>1, <3>3 DEF Accept
      <4> HIDE DEF k2
      <4> QED
        BY <4>1
    <3> QED
      BY <3>2, <3>3
  <2>2. CASE t # 0
    <3>1. t + 1 = 2
      BY <1>4, <1>5, <2>2
    <3>2. k2 = k
      BY <1>5, <3>1 DEF Accept
    <3> QED
      BY <1>4, <3>2 DEF SinkAt
  <2> QED
    BY <2>1, <2>2
<1>7. none \in Seq(Values)
  BY EmptySeq
<1> HIDE DEF none, k2
<1> DEFINE out2 == [out EXCEPT !["snk"] = @ \o none]
           took2 == [took EXCEPT !["snk"] = @ + 1]
<1>8. Flow(g, Shift(g, q, "snk", none), s, k2, h, out2, took2)
  BY <1>2, <1>3, <1>6, <1>7, FlowStep DEF t
<1> QED
  BY <1>8 DEF none, k2, Longer, Further
\* Clustering keeps what it takes until the end of stream.
LEMMA ClusterNext ==
  ASSUME NEW o \in Seq(Values), NEW p \in Seq(Values), NEW t \in Nat, t + 1 \in 1..Len(p),
         NEW h, ClusterAt(t, o, p, h), Pair(o),
         NEW u, NEW some, SlicerAt(u, p, some)
  PROVE  /\ p[t + 1] # Null => \A new : new # {} => ClusterAt(t + 1, o, p, h \cup new)
         /\ p[t + 1] = Null => \A x \in Values :
              LET o2 == o \o (IF h = {} THEN <<Null>> ELSE <<x, Null>>) IN
              ClusterAt(t + 1, o2, p, {}) /\ Pair(o2)
<1> PICK l \in Nat : l = Len(p)
  BY LenProperties
<1> PICK n \in Nat : n = Len(o)
  BY LenProperties
<1>1. t + 1 \in 1..l
  OBVIOUS
<1>7. Len(<<>>) = 0
  OBVIOUS
<1> DEFINE o1 == o \o <<Null>>
<1>2. Len(o1) = n + 1 /\ o1[n + 1] = Null
  BY OneMore DEF Values
<1> HIDE DEF o1
<1>3. CASE t = 0 /\ o = <<>> /\ h = {}
  <2>1. n = 0 /\ t + 1 = 1
    BY <1>3, <1>7
  <2>2. ASSUME p[t + 1] # Null, NEW new, new # {} PROVE ClusterAt(t + 1, o, p, h \cup new)
    <3>1. \A i \in 1..(t + 1) : p[i] # Null
      BY <2>1, <2>2
    <3> QED
      BY <1>3, <2>1, <2>2, <3>1 DEF ClusterAt
  <2>3. ASSUME p[t + 1] = Null PROVE ClusterAt(t + 1, o1, p, {}) /\ Pair(o1)
    BY <1>2, <2>1, <2>3 DEF ClusterAt, Pair
  <2> QED
    BY <1>3, <2>2, <2>3 DEF o1
<1>4. CASE t > 0 /\ p[1] = Null /\ Len(o) = t /\ h = {}
  <2>1. l > 1 /\ 1 \in 1..l /\ 1 \in 1..(l - 1)
    BY <1>1, <1>4
  <2>2. l = 2 /\ p[2] = Null
    BY <1>4, <2>1 DEF SlicerAt
  <2>3. t = 1 /\ t + 1 = 2 /\ n = 1
    BY <1>1, <1>4, <2>2
  <2>4. ClusterAt(t + 1, o1, p, {}) /\ Pair(o1)
    BY <1>2, <1>4, <2>3 DEF ClusterAt, Pair
  <2> QED
    BY <1>4, <2>2, <2>3, <2>4 DEF o1
<1>5. CASE t > 0 /\ (\A i \in 1..t : p[i] # Null) /\ o = <<>> /\ h # {}
  <2>1. ASSUME p[t + 1] # Null, NEW new PROVE ClusterAt(t + 1, o, p, h \cup new)
    <3>1. \A i \in 1..(t + 1) : i \in 1..t \/ i = t + 1
      OBVIOUS
    <3>2. \A i \in 1..(t + 1) : p[i] # Null
      BY <1>5, <2>1, <3>1
    <3> QED
      BY <1>5, <3>2 DEF ClusterAt
  <2>2. ASSUME p[t + 1] = Null, NEW x \in Values
        PROVE  ClusterAt(t + 1, o \o <<x, Null>>, p, {}) /\ Pair(o \o <<x, Null>>)
    <3> DEFINE o2 == <<x, Null>>
    <3>1. o2 \in Seq(Values) /\ Len(o2) = 2 /\ o2[2] = Null
      BY DEF Values
    <3>2. o \o o2 = o2
      BY <1>5, <3>1, ConcatEmptySeq
    <3> HIDE DEF o2
    <3>3. 1 \in 1..t /\ t + 1 > 0
      BY <1>5
    <3>4. ClusterAt(t + 1, o2, p, {}) /\ Pair(o2)
      BY <1>5, <2>2, <3>1, <3>3 DEF ClusterAt, Pair
    <3> QED
      BY <3>2, <3>4 DEF o2
  <2> QED
    BY <1>5, <2>1, <2>2
<1>6. CASE t > 0 /\ p[1] # Null /\ p[t] = Null /\ Len(o) = 2 /\ h = {}
  <2>1. l > 1 /\ t \in 1..l /\ t \in 1..(l - 1)
    BY <1>1, <1>6
  <2> QED
    BY <1>6, <2>1 DEF SlicerAt
<1> QED
  BY <1>3, <1>4, <1>5, <1>6 DEF ClusterAt

\* Clustering takes a value and holds it, or puts out its cluster.
LEMMA ClusterFlow ==
  ASSUME NEW g, NEW q, NEW s, NEW k, NEW h, WellFormed(g),
         NEW out, NEW took, Flow(g, q, s, k, h, out, took),
         NEW n \in Clusterings(g), NEW y \in Into(g, n), q[y] # <<>>,
         NEW h2, NEW values \in Seq(Values),
         IF Head(q[y]) = Null
         THEN h2 = {} /\ \E x \in Values : values = IF h = {} THEN <<Null>> ELSE <<x, Null>>
         ELSE values = <<>> /\ \E new : new # {} /\ h2 = h \cup new
  PROVE  Flow(g, Shift(g, q, n, values), s, k, h2, Longer(out, n, values), Further(took, n))
<1> DEFINE t == took[n]
<1>1. IsGraph(g) /\ SlicedOf(g) \subseteq DOMAIN g.kinds
  BY Rates
<1>2. /\ n \in DOMAIN g.kinds /\ n \notin Slicers(g) /\ n \notin Plain(g)
      /\ n \notin OfKind(g, "sync")
      /\ n \in Places(g) /\ n # "snk" /\ n \notin SourceNames(g) /\ n \in Takers(g)
      /\ y \in g.edges /\ y.head = n
  BY <1>1 DEF Plain, Slicers, Clusterings, OfKind, IsGraph, Places, Nodes, Takers, Into
<1>3. n \notin SlicedOf(g) /\ y.tail \in SlicedOf(g) /\ Slicers(g) # {}
  BY Rates DEF Rated
<1>4. \A x \in Into(g, n) : q[x] # <<>>
  BY <1>1, <1>2 DEF IsGraph
<1>5. out[n] \in Seq(Values) /\ t \in Nat /\ Pair(out[n])
  BY <1>2, <1>3 DEF Flow, Streams, Nodes
<1>6. ASSUME NEW z \in Slicers(g)
      PROVE  ClusterAt(t + 1, out[n] \o values, out[z], h2) /\ Pair(out[n] \o values)
  <2>1. z \in Places(g)
    BY DEF Slicers, OfKind, Places, Nodes
  <2>2. out[z] \in Seq(Values) /\ Len(out[z]) \in Nat
    BY <2>1, LenProperties DEF Flow, Streams
  <2>3. /\ ClusterAt(t, out[n], out[z], h)
        /\ SlicerAt(took[z], out[z], Len(g.sources) > 1)
        /\ SamePattern(out[y.tail], out[z])
    BY <1>3 DEF Flow
  <2>4. t + 1 \in 1..Len(out[y.tail]) /\ Head(q[y]) = out[y.tail][t + 1]
    BY <1>1, <1>2, NextOfStream DEF Flow
  <2>5. t + 1 \in 1..Len(out[z]) /\ (Head(q[y]) = Null <=> out[z][t + 1] = Null)
    <3>1. Len(out[y.tail]) \in Nat
      <4>1. y.tail \in Places(g)
        BY <1>1, <1>2, EdgePlaces
      <4> QED
        BY <4>1, LenProperties DEF Flow, Streams
    <3> QED
      BY <1>5, <2>2, <2>3, <2>4, <3>1 DEF SamePattern
  <2> HIDE DEF t
  <2>6. CASE Head(q[y]) = Null
    <3> PICK x \in Values : values = IF h = {} THEN <<Null>> ELSE <<x, Null>>
      BY <2>6
    <3> DEFINE o2 == out[n] \o (IF h = {} THEN <<Null>> ELSE <<x, Null>>)
    <3>1. ClusterAt(t + 1, o2, out[z], {}) /\ Pair(o2)
      BY <1>5, <2>2, <2>3, <2>5, <2>6, ClusterNext
    <3>2. o2 = out[n] \o values /\ h2 = {}
      BY <2>6
    <3> HIDE DEF o2
    <3> QED
      BY <3>1, <3>2
  <2>7. CASE Head(q[y]) # Null
    <3> PICK new : new # {} /\ h2 = h \cup new
      BY <2>7
    <3>1. ClusterAt(t + 1, out[n], out[z], h \cup new)
      BY <1>5, <2>2, <2>3, <2>5, <2>7, ClusterNext
    <3>2. values = <<>> /\ out[n] \o <<>> = out[n]
      BY <1>5, <2>7, ConcatEmptySeq
    <3> QED
      BY <1>5, <3>1, <3>2
  <2> QED
    BY <2>6, <2>7
<1> DEFINE out2 == [out EXCEPT ![n] = @ \o values]
           took2 == [took EXCEPT ![n] = @ + 1]
<1>7. Flow(g, Shift(g, q, n, values), s, k, h2, out2, took2)
  BY <1>2, <1>3, <1>4, <1>6, FlowStep
<1> QED
  BY <1>7 DEF Longer, Further
-----------------------------------------------------------------------------
(* The engine runs dry.                                                    *)

\* All of a stream has been taken.
LEMMA AllTaken ==
  ASSUME NEW g, NEW q, NEW out, NEW took, IsGraph(g), Streams(g, q, out, took),
         NEW x \in g.edges
  PROVE  q[x] = <<>> <=> took[x.head] = Len(out[x.tail])
<1>1. /\ q[x] \in Seq(Values) /\ took[x.head] \in Nat /\ out[x.tail] \in Seq(Values)
      /\ Len(q[x]) + took[x.head] = Len(out[x.tail])
  BY EdgePlaces DEF Streams, RestOf
<1> PICK l \in Nat : l = Len(q[x])
  BY <1>1, LenProperties
<1> PICK m \in Nat : m = Len(out[x.tail])
  BY <1>1, LenProperties
<1> PICK t \in Nat : t = took[x.head]
  BY <1>1
<1>2. l + t = m
  BY <1>1
<1>3. l = 0 <=> t = m
  BY <1>2
<1>4. q[x] = <<>> <=> l = 0
  BY <1>1, EmptySeq
<1> QED
  BY <1>3, <1>4

\* Clustering that took all of a slicer's finished stream holds nothing, and has put
\* out two values if there were slices or no frame.
LEMMA ClusterEnds ==
  ASSUME NEW o, NEW p \in Seq(Values), NEW h, NEW some, NEW t, t = Len(p),
         ClusterAt(t, o, p, h), SlicerAt(2, p, some)
  PROVE  h = {} /\ (some => Len(o) = 2)
<1> PICK l \in Nat : l = Len(p)
  BY LenProperties
<1>1. \/ l = 2 /\ p[1] = Null /\ p[2] = Null
      \/ l > 0 /\ (some => l > 1) /\ p[l] = Null /\ \A i \in 1..(l - 1) : p[i] # Null
  BY DEF SlicerAt
<1>2. l > 0 /\ l \in 1..l /\ p[l] = Null
  BY <1>1
<1>3. some => (l = 2 /\ p[1] = Null) \/ p[1] # Null
  <2>1. l > 1 => 1 \in 1..(l - 1)
    OBVIOUS
  <2> QED
    BY <1>1, <2>1
<1>4. CASE l > 0 /\ p[1] = Null /\ Len(o) = l /\ h = {}
  BY <1>3, <1>4
<1>5. CASE p[1] # Null /\ Len(o) = 2 /\ h = {}
  BY <1>5
<1>6. \/ l = 0
      \/ l > 0 /\ p[1] = Null /\ Len(o) = l /\ h = {}
      \/ \A i \in 1..l : p[i] # Null
      \/ p[1] # Null /\ Len(o) = 2 /\ h = {}
  BY DEF ClusterAt
<1> QED
  BY <1>2, <1>4, <1>5, <1>6

\* It has put out one at least.
LEMMA ClusterPutsOut ==
  ASSUME NEW o, NEW p \in Seq(Values), NEW h, NEW some, NEW t, t = Len(p),
         ClusterAt(t, o, p, h), SlicerAt(2, p, some)
  PROVE  Len(o) > 0
<1> PICK l \in Nat : l = Len(p)
  BY LenProperties
<1>1. \/ l = 2 /\ p[1] = Null /\ p[2] = Null
      \/ l > 0 /\ p[l] = Null
  BY DEF SlicerAt
<1>2. l > 0 /\ l \in 1..l /\ p[l] = Null
  BY <1>1
<1>3. \/ Len(o) = l
      \/ Len(o) = 2
  BY <1>2 DEF ClusterAt
<1>4. l > 0
  BY <1>2
<1>5. CASE Len(o) = l
  BY ONLY <1>4, <1>5
<1>6. CASE Len(o) = 2
  BY ONLY <1>6
<1> QED
  BY ONLY <1>3, <1>5, <1>6

\* No source has anything to send, and every node misses some input.
Dry(g, q, s) ==
  /\ \A i \in DOMAIN g.sources : ~SourceOk(s[i])
  /\ \A n \in Takers(g) : \E x \in Into(g, n) : q[x] = <<>>

\* Every stream has been taken to its end, and what clustering held has gone on.
Ended(g, q, s, h, out, took) ==
  /\ \A x \in g.edges : q[x] = <<>> /\ took[x.head] = Len(out[x.tail])
  /\ Clusterings(g) # {} => h = {}
  /\ \A i \in DOMAIN g.sources : s[i].queue = <<>>
  /\ \A z \in Slicers(g) : took[z] = 2
  /\ \A p \in Nodes(g) : Len(out[p]) > 0

\* A graph runs dry only at the end of its streams.
LEMMA RunsDry ==
  ASSUME NEW g, NEW q, NEW s \in [DOMAIN g.sources -> SourceStates], NEW k, NEW h,
         WellFormed(g), NEW out, NEW took, Flow(g, q, s, k, h, out, took), Dry(g, q, s)
  PROVE  Ended(g, q, s, h, out, took)
<1> DEFINE m == SlicedOf(g)
<1> PICK d \in SUBSET DOMAIN g.kinds : Rated(g, m, d)
  BY Rates
<1> DEFINE Full(p) ==
      IF p \in m THEN \A z \in Slicers(g) : Len(out[p]) = Len(out[z]) /\ took[z] = 2
      ELSE IF p \in d
      THEN \A c \in Clusterings(g) : \A z \in Slicers(g) :
             Len(out[p]) = Len(out[c]) /\ took[c] = Len(out[z]) /\ took[z] = 2
      ELSE Len(out[p]) = 2
<1>1. IsGraph(g) /\ m \in SUBSET DOMAIN g.kinds /\ m \cap d = {} /\ Streams(g, q, out, took)
  BY Rates DEF Flow, Rated
<1> HIDE DEF m
<1>2. \A x \in g.edges : x \in Into(g, x.head) /\ x.head \in Takers(g) /\ x.tail \in Nodes(g)
  BY <1>1 DEF IsGraph, Into
<1>3. \A i \in DOMAIN g.sources : s[i].queue = <<>> /\ s[i].eosSent
  BY DEF Dry, SourceOk, SourceStates
<1>4. \A p \in SourceNames(g) : Full(p)
  <2> SUFFICES ASSUME NEW i \in DOMAIN g.sources PROVE Full(g.sources[i])
    BY DEF SourceNames
  <2>1. g.sources[i] \notin m /\ g.sources[i] \notin d
    BY <1>1 DEF IsGraph, SourceNames
  <2>2. Len(out[g.sources[i]]) = 2
    BY <1>3 DEF Flow, Fed
  <2> QED
    BY <2>1, <2>2
<1>5. m # {} \/ d # {} => Slicers(g) # {}
  <2>1. m # {} => Slicers(g) # {}
    BY DEF Rated
  <2>2. d # {} => m # {}
    <3> SUFFICES ASSUME d # {} PROVE m # {}
      OBVIOUS
    <3> PICK c \in Clusterings(g) : TRUE
      BY DEF Rated
    <3>1. Into(g, c) # {} /\ \A x \in Into(g, c) : x.tail \in m
      BY <1>1 DEF Rated, IsGraph, Takers, Clusterings, OfKind
    <3> QED
      BY <3>1
  <2> QED
    BY <2>1, <2>2
<1>6. d # {} => Clusterings(g) # {}
  BY DEF Rated
<1>7. ASSUME NEW n \in Takers(g), \A x \in Into(g, n) : Full(x.tail)
      PROVE  \A x \in Into(g, n) : took[n] = Len(out[x.tail])
  <2> PICK y \in Into(g, n) : q[y] = <<>>
    BY DEF Dry
  <2>1. y \in g.edges /\ y.head = n
    BY DEF Into
  <2>2. took[n] = Len(out[y.tail])
    BY <1>1, <2>1, AllTaken
  <2> SUFFICES ASSUME NEW x \in Into(g, n) PROVE Len(out[x.tail]) = Len(out[y.tail])
    BY <2>2
  <2>3. CASE n \notin OfKind(g, "sync")
    BY <1>1, <2>3 DEF IsGraph
  <2>4. CASE n \in OfKind(g, "sync")
    <3>1. n \in DOMAIN g.kinds \ (Slicers(g) \cup Clusterings(g))
      BY <2>4 DEF OfKind, Slicers, Clusterings
    <3>2. /\ n \in m <=> x.tail \in m
          /\ n \in m <=> y.tail \in m
          /\ n \in d <=> x.tail \in d
          /\ n \in d <=> y.tail \in d
      BY <3>1 DEF Rated
    <3>3. Full(x.tail) /\ Full(y.tail)
      BY <1>7
    <3>4. CASE n \in m
      <4> PICK z \in Slicers(g) : TRUE
        BY <1>5, <3>4
      <4>1. Len(out[x.tail]) = Len(out[z]) /\ Len(out[y.tail]) = Len(out[z])
        BY <3>2, <3>3, <3>4
      <4> QED
        BY <4>1
    <3>5. CASE n \notin m /\ n \in d
      <4> PICK z \in Slicers(g) : TRUE
        BY <1>5, <3>5
      <4> PICK c \in Clusterings(g) : TRUE
        BY <1>6, <3>5
      <4>1. Len(out[x.tail]) = Len(out[c]) /\ Len(out[y.tail]) = Len(out[c])
        BY <3>2, <3>3, <3>5
      <4> QED
        BY <4>1
    <3>6. CASE n \notin m /\ n \notin d
      BY <3>2, <3>3, <3>6
    <3> QED
      BY <3>4, <3>5, <3>6
  <2> QED
    BY <2>3, <2>4
<1>8. ASSUME NEW c \in Clusterings(g), NEW z \in Slicers(g), \A x \in Into(g, c) : Full(x.tail)
      PROVE  /\ took[c] = Len(out[z]) /\ took[z] = 2 /\ h = {}
             /\ Len(g.sources) > 1 => Len(out[c]) = 2
  <2>1. c \in Takers(g) /\ z \in Places(g)
    BY DEF Clusterings, Slicers, OfKind, Takers, Places, Nodes
  <2> PICK y \in Into(g, c) : TRUE
    BY <1>1, <2>1 DEF IsGraph
  <2>2. y.tail \in m
    BY DEF Rated
  <2>3. took[c] = Len(out[z]) /\ took[z] = 2
    BY <1>7, <1>8, <2>1, <2>2
  <2>4. out[z] \in Seq(Values)
    BY <1>1, <2>1 DEF Streams
  <2>5. ClusterAt(took[c], out[c], out[z], h) /\ SlicerAt(2, out[z], Len(g.sources) > 1)
    BY <2>3 DEF Flow
  <2> DEFINE some == Len(g.sources) > 1
  <2>6. took[c] = Len(out[z]) /\ ClusterAt(took[c], out[c], out[z], h)
        /\ SlicerAt(2, out[z], some)
    BY <2>3, <2>5
  <2> HIDE DEF some
  <2>7. h = {} /\ (some => Len(out[c]) = 2)
    BY ONLY <2>4, <2>6, ClusterEnds
  <2> QED
    BY <2>3, <2>7 DEF some
<1>9. ASSUME NEW n \in DOMAIN g.kinds, \A x \in Into(g, n) : Full(x.tail)
      PROVE  Full(n)
  <2>1. n \in Takers(g)
    BY DEF Takers
  <2>2. \A x \in Into(g, n) : took[n] = Len(out[x.tail])
    BY <1>7, <1>9, <2>1
  <2> PICK y \in Into(g, n) : TRUE
    BY <1>1, <2>1 DEF IsGraph
  <2>3. CASE n \in Slicers(g)
    <3>1. n \in m /\ y.tail \notin m /\ y.tail \notin d /\ \A z \in Slicers(g) : z = n
      BY <2>3 DEF Rated
    <3>2. took[n] = 2
      BY <1>9, <2>2, <3>1
    <3> QED
      BY <3>1, <3>2
  <2>4. CASE n \in Clusterings(g)
    <3>1. /\ n \notin m /\ \A c \in Clusterings(g) : c = n
          /\ y.tail \in m /\ (n \in d <=> Len(g.sources) = 1)
      BY <2>4 DEF Rated
    <3>2. CASE n \in d
      BY <1>8, <1>9, <2>4, <3>1, <3>2
    <3>3. CASE n \notin d
      <4>1. Len(g.sources) > 1
        <5>1. Len(g.sources) \in 1..3
          <6>1. Len(Sources) = 3
            BY DEF Sources
          <6> QED
            BY <1>1, <6>1 DEF IsGraph
        <5> PICK l \in 1..3 : l = Len(g.sources)
          BY <5>1
        <5>2. l # 1 /\ l > 1
          BY <3>1, <3>3
        <5> QED
          BY <5>2
      <4> PICK z \in Slicers(g) : TRUE
        BY <1>5, <3>1
      <4> QED
        BY <1>8, <1>9, <2>4, <3>1, <3>3, <4>1
    <3> QED
      BY <3>2, <3>3
  <2>5. CASE n \notin Slicers(g) /\ n \notin Clusterings(g)
    <3>1. n \in Plain(g) /\ (n \in m <=> y.tail \in m) /\ (n \in d <=> y.tail \in d)
      BY <2>5 DEF Plain, Rated
    <3>2. Len(out[n]) = Len(out[y.tail])
      BY <2>2, <3>1 DEF Flow
    <3>3. Full(y.tail)
      BY <1>9
    <3> QED
      BY <3>1, <3>2, <3>3
  <2> QED
    BY <2>3, <2>4, <2>5
<1> HIDE DEF Full
<1>10. \A p \in Nodes(g) : Full(p)
  <2> DEFINE S == {n \in DOMAIN g.kinds : ~Full(n)}
  <2>1. ASSUME S # {} PROVE FALSE
    <3>1. \A u \in SUBSET DOMAIN g.kinds : u # {} =>
            \E n \in u : \A x \in Into(g, n) : x.tail \notin u
      BY <1>1 DEF IsGraph
    <3>2. S \in SUBSET DOMAIN g.kinds
      OBVIOUS
    <3> PICK n \in S : \A x \in Into(g, n) : x.tail \notin S
      BY <2>1, <3>1, <3>2
    <3>3. ASSUME NEW x \in Into(g, n) PROVE Full(x.tail)
      <4>1. x.tail \in Nodes(g)
        BY <1>1 DEF IsGraph, Into
      <4> QED
        BY <1>4, <4>1 DEF Nodes
    <3> QED
      BY <1>9, <3>3
  <2> QED
    BY <1>4, <2>1 DEF Nodes
<1>11. ASSUME NEW x \in g.edges PROVE q[x] = <<>> /\ took[x.head] = Len(out[x.tail])
  <2>1. \A y \in Into(g, x.head) : Full(y.tail)
    BY <1>2, <1>10 DEF Into
  <2>2. took[x.head] = Len(out[x.tail])
    BY <1>2, <1>7, <2>1
  <2> QED
    BY <1>1, <2>2, AllTaken
<1>12. Clusterings(g) # {} => h = {}
  <2> SUFFICES ASSUME NEW c \in Clusterings(g) PROVE h = {}
    OBVIOUS
  <2>1. c \in Takers(g)
    BY DEF Clusterings, OfKind, Takers
  <2>2. m # {}
    BY <1>1, <2>1 DEF Rated, IsGraph
  <2> PICK z \in Slicers(g) : TRUE
    BY <1>5, <2>2
  <2>3. \A x \in Into(g, c) : Full(x.tail)
    BY <1>2, <1>10 DEF Into
  <2> QED
    BY <1>8, <2>3
<1>13. ASSUME NEW z \in Slicers(g) PROVE took[z] = 2 /\ Len(out[z]) > 0
  <2>1. z \in m /\ z \in Nodes(g)
    BY DEF Rated, Slicers, OfKind, Nodes
  <2>2. took[z] = 2
    BY <1>10, <2>1 DEF Full
  <2>3. SlicerAt(took[z], out[z], Len(g.sources) > 1)
    BY DEF Flow
  <2> QED
    BY <2>2, <2>3 DEF SlicerAt
<1>14. ASSUME NEW p \in Nodes(g) PROVE Len(out[p]) > 0
  <2>1. Full(p)
    BY <1>10
  <2>2. CASE p \in m
    <3> PICK z \in Slicers(g) : TRUE
      BY <1>5, <2>2
    <3> QED
      BY <1>13, <2>1, <2>2 DEF Full
  <2>3. CASE p \notin m /\ p \in d
    <3> PICK z \in Slicers(g) : TRUE
      BY <1>5, <2>3
    <3> PICK c \in Clusterings(g) : TRUE
      BY <1>6, <2>3
    <3>1. Len(out[p]) = Len(out[c]) /\ took[c] = Len(out[z])
      BY <2>1, <2>3 DEF Full
    <3>2. ClusterAt(took[c], out[c], out[z], h) /\ SlicerAt(2, out[z], Len(g.sources) > 1)
      BY <1>13 DEF Flow
    <3>3. z \in Places(g)
      BY DEF Slicers, OfKind, Nodes, Places
    <3>4. out[z] \in Seq(Values)
      BY <1>1, <3>3 DEF Streams
    <3> QED
      BY <3>1, <3>2, <3>4, ClusterPutsOut
  <2>4. CASE p \notin m /\ p \notin d
    <3>1. Len(out[p]) = 2
      BY <2>1, <2>4 DEF Full
    <3> QED
      BY <3>1
  <2> QED
    BY <2>2, <2>3, <2>4
<1> QED
  BY <1>3, <1>11, <1>12, <1>13, <1>14 DEF Ended
-----------------------------------------------------------------------------
(* A call begins, and what others hold.                                    *)

\* The streams of a call that begins.
LEMMA FlowBegins ==
  ASSUME NEW g, NEW q \in [g.edges -> Seq(Values)], NEW s \in [DOMAIN g.sources -> SourceStates],
         NEW k, NEW h, WellFormed(g),
         \A i \in DOMAIN g.sources : Len(s[i].queue) = 1 /\ ~s[i].eosSent,
         \A x \in g.edges : q[x] = <<>>, k = <<>>, Clusterings(g) # {} => h = {}
  PROVE  Flow(g, q, s, k, h, [p \in Places(g) |-> <<>>], [p \in Places(g) |-> 0])
<1> DEFINE none == <<>>
           out == [p \in Places(g) |-> none]
           took == [p \in Places(g) |-> 0]
<1>1. IsGraph(g) /\ SlicedOf(g) \subseteq DOMAIN g.kinds
  BY Rates
<1>2. /\ Nodes(g) \subseteq Places(g) /\ DOMAIN g.kinds \subseteq Nodes(g) /\ "snk" \in Places(g)
      /\ \A i \in DOMAIN g.sources : g.sources[i] \in Nodes(g)
      /\ Slicers(g) \subseteq DOMAIN g.kinds /\ Clusterings(g) \subseteq DOMAIN g.kinds
      /\ Plain(g) \subseteq DOMAIN g.kinds
  BY DEF Places, Nodes, SourceNames, Slicers, Clusterings, Plain, OfKind
<1>3. none \in Seq(Values) /\ Len(none) = 0
  BY EmptySeq
<1>4. \A x \in g.edges : q[x] = none /\ x.head \in Places(g) /\ x.tail \in Places(g)
  BY <1>1, EdgePlaces
<1> HIDE DEF none
<1>5. out \in [Places(g) -> Seq(Values)] /\ took \in [Places(g) -> Nat]
  BY <1>3
<1>6. Streams(g, q, out, took)
  <2>1. RestOf(none, none, 0)
    BY <1>3 DEF RestOf
  <2> QED
    BY <1>4, <1>5, <2>1 DEF Streams
<1>7. Fed(g, s, out)
  BY <1>2 DEF Fed, none
<1>8. Pair(none) /\ SamePattern(none, none)
  BY <1>3 DEF Pair, SamePattern
<1>9. \A some : SlicerAt(0, none, some)
  BY DEF SlicerAt, none
<1>10. \A p \in Clusterings(g) : ClusterAt(0, none, none, h)
  BY DEF ClusterAt, none
<1>11. SinkAt(g, 0, k)
  <2>1. Len(<<>>) = 0
    OBVIOUS
  <2> QED
    BY <2>1 DEF SinkAt
<1>12. \A p \in Nodes(g) \cup {"snk"} : out[p] = none /\ took[p] = 0
  BY <1>2
<1> HIDE DEF out, took
<1>13. Flow(g, q, s, k, h, out, took)
  BY <1>1, <1>2, <1>3, <1>6, <1>7, <1>8, <1>9, <1>10, <1>11, <1>12 DEF Flow
<1> QED
  BY <1>13 DEF out, took, none

\* Streams without clustering do not depend on what a component holds.
LEMMA FlowElsewhere ==
  ASSUME NEW g, NEW q, NEW s, NEW k, NEW h, NEW out, NEW took,
         Flow(g, q, s, k, h, out, took), NEW h2, Clusterings(g) # {} => h2 = h
  PROVE  Flow(g, q, s, k, h2, out, took)
  BY DEF Flow

\* Only clustering changes what is held, and only under its own name.
LEMMA HeldStays ==
  ASSUME Types, NEW e \in Executors, StepOf(e)
  PROVE  \/ held' = held
         \/ Clusterings(job[e]) # {} /\ \A c \in Scopes \ {Service(job[e])} : held'[c] = held[c]
<1>1. CASE \E a \in ArgsOf(e, Len(given[e]) + 1) : Call(e, a)
  BY <1>1 DEF Call
<1>2. CASE \E i \in DOMAIN src[e] : CallSource(e, i)
  BY <1>2 DEF CallSource
<1>3. CASE \E n \in DOMAIN job[e].kinds : Fire(e, n)
  <2> PICK n \in DOMAIN job[e].kinds : Fire(e, n)
    BY <1>3
  <2>1. CASE Transform(e, n) \/ PassEos(e, n) \/ Fluctuate(e, n) \/ Slice(e, n)
    BY <2>1 DEF Transform, PassEos, Fluctuate, Slice
  <2>2. CASE Cluster(e, n)
    <3>1. n \in Clusterings(job[e])
      BY <2>2 DEF Cluster, Fires, Clusterings, OfKind
    <3>2. \A c \in Scopes \ {Service(job[e])} : held'[c] = held[c]
      BY <2>2 DEF Cluster, Types, Shared
    <3> QED
      BY <3>1, <3>2
  <2> QED
    BY <2>1, <2>2 DEF Fire
<1>4. CASE CallSink(e) \/ EndRun(e)
  BY <1>4 DEF CallSink, EndRun
<1> QED
  BY <1>1, <1>2, <1>3, <1>4 DEF StepOf, RunStep
-----------------------------------------------------------------------------
(* What the streams are made of.                                           *)

\* The values that place n has taken: for each time those of all its in-edges.
Taken(g, out, took, n) == [j \in 1..took[n] |-> {out[x.tail][j] : x \in Into(g, n)}]

\* The values it finds at its in-edges.
Ports(g, q, n) == {Head(q[x]) : x \in Into(g, n)}

\* Once more, with the values v.
Grown(t, t2, m, v) ==
  /\ DOMAIN t = 1..m /\ DOMAIN t2 = 1..(m + 1)
  /\ \A j \in 1..m : t2[j] = t[j]
  /\ t2[m + 1] = v

\* The k-th number of the random service, drawn by node n.
Draw(n, k) == [parts |-> {}, draws |-> {<<n, k>>}]

\* A source puts out its argument first.
SourceMade(s, a, o) == (s.queue # <<>> => Head(s.queue) = a) /\ (Len(o) > 0 => o[1] = a)

\* A node without memory makes one value of those that came together.
PlainMade(t, o) == \A j \in DOMAIN t : o[j] = OneForOne(t[j])

\* One that draws adds its number to the first item.
RandomMade(t, o, draw) ==
  1 \in DOMAIN t => /\ o[1] = Null <=> Null \in t[1]
                    /\ Null \notin t[1] => o[1] = Merge(t[1] \cup {draw})

\* The slicer cuts the first frame to the given number of slices.
SlicerMade(t, o, call, slices) ==
  1 \in DOMAIN t =>
    IF Null \in t[1] THEN Len(o) > 0 /\ o[1] = Null
    ELSE /\ slices <= Len(o)
         /\ \A j \in 1..Len(o) : o[j] = IF j <= slices THEN Item({Atom(call, 1, j)}) ELSE Null

\* Clustering holds all it took before the end of the stream, and then makes one
\* item of it.
AllOf(t) == UNION {t[j] : j \in DOMAIN t}

\* It has all it took, until it makes one item of it.
ClusterMade(t, o, h) ==
  /\ (\A j \in DOMAIN t : Null \notin t[j]) => h = AllOf(t)
  /\ Len(o) > 0 => o[1] = IF Null \in t[1] THEN Null ELSE Merge(AllOf(t) \ {Null})

\* The sink has what it took before the end of the stream.
SinkMade(t, k) ==
  /\ \A j \in 1..Len(k) : j \in DOMAIN t /\ t[j] = {k[j]}
  /\ Len(k) + 1 \in DOMAIN t => Null \in t[Len(k) + 1]

\* What place p made: c has the arguments of the call, its number and the number of
\* slices; num has the numbers of the nodes that draw.
MadeAt(g, c, s, k, h, out, took, num, p) ==
  LET t == Taken(g, out, took, p) IN
  /\ \A i \in DOMAIN g.sources : g.sources[i] = p => SourceMade(s[i], c.args[i], out[p])
  /\ p \in Plain(g) \ Randoms(g) => PlainMade(t, out[p])
  /\ p \in Randoms(g) => RandomMade(t, out[p], Draw(p, num[p]))
  /\ p \in Slicers(g) => SlicerMade(t, out[p], c.call, c.slices)
  /\ p \in Clusterings(g) => ClusterMade(t, out[p], h)
  /\ p = "snk" => SinkMade(t, k)

\* What all places made.
Made(g, c, s, k, h, out, took, num) ==
  \A p \in Places(g) : MadeAt(g, c, s, k, h, out, took, num, p)

\* What was put out stays.
LEMMA PrefixOfConcat ==
  ASSUME NEW a \in Seq(Values), NEW b \in Seq(Values)
  PROVE  /\ Len(a \o b) = Len(a) + Len(b) /\ Len(a) \in Nat /\ Len(b) \in Nat
         /\ \A j \in 1..Len(a) : (a \o b)[j] = a[j]
<1>1. Len(a) \in Nat /\ Len(b) \in Nat
  BY LenProperties
<1>2. /\ Len(a \o b) = Len(a) + Len(b)
      /\ \A i \in 1..(Len(a) + Len(b)) :
           (a \o b)[i] = IF i <= Len(a) THEN a[i] ELSE b[i - Len(a)]
  BY ConcatProperties
<1>3. \A j \in 1..Len(a) : j \in 1..(Len(a) + Len(b)) /\ j <= Len(a)
  BY <1>1
<1> QED
  BY <1>1, <1>2, <1>3

\* A place that takes a value of each in-edge has taken these once more; what the
\* others have taken stays.
LEMMA TakenGrows ==
  ASSUME NEW g, NEW q, NEW out, NEW took, IsGraph(g), Streams(g, q, out, took),
         NEW n \in Places(g), NEW values \in Seq(Values), \A x \in Into(g, n) : q[x] # <<>>
  PROVE  /\ Grown(Taken(g, out, took, n),
                  Taken(g, Longer(out, n, values), Further(took, n), n),
                  took[n], Ports(g, q, n))
         /\ \A p \in Places(g) \ {n} :
              Taken(g, Longer(out, n, values), Further(took, n), p) = Taken(g, out, took, p)
<1> DEFINE out2 == Longer(out, n, values)
           took2 == Further(took, n)
<1>1. /\ out \in [Places(g) -> Seq(Values)] /\ took \in [Places(g) -> Nat]
      /\ out2[n] = out[n] \o values /\ took2[n] = took[n] + 1
      /\ \A p \in Places(g) \ {n} : out2[p] = out[p] /\ took2[p] = took[p]
  BY DEF Streams, Longer, Further
<1> HIDE DEF out2, took2
<1>2. ASSUME NEW p \in Places(g), NEW x \in Into(g, p), NEW j \in 1..took[p]
      PROVE  out2[x.tail][j] = out[x.tail][j]
  <2>1. x \in g.edges /\ x.head = p /\ x.tail \in Places(g)
    BY EdgePlaces DEF Into
  <2>2. out[x.tail] \in Seq(Values) /\ Len(q[x]) + took[p] = Len(out[x.tail])
        /\ q[x] \in Seq(Values) /\ took[p] \in Nat
    BY <1>1, <2>1 DEF Streams, RestOf
  <2>3. j \in 1..Len(out[x.tail])
    BY <2>2, LenProperties
  <2>4. CASE x.tail = n
    <3>1. (out[n] \o values)[j] = out[n][j]
      BY <2>2, <2>3, <2>4, PrefixOfConcat
    <3> QED
      BY <1>1, <2>4, <3>1
  <2>5. CASE x.tail # n
    BY <1>1, <2>1, <2>5
  <2> QED
    BY <2>4, <2>5
<1>3. ASSUME NEW p \in Places(g) \ {n} PROVE Taken(g, out2, took2, p) = Taken(g, out, took, p)
  <2>1. took2[p] = took[p]
    BY <1>1
  <2>2. \A j \in 1..took[p] :
          {out2[x.tail][j] : x \in Into(g, p)} = {out[x.tail][j] : x \in Into(g, p)}
    BY <1>2
  <2> QED
    BY <2>1, <2>2 DEF Taken
<1>4. \A j \in 1..took[n] :
        {out2[x.tail][j] : x \in Into(g, n)} = {out[x.tail][j] : x \in Into(g, n)}
  BY <1>2
<1>5. {out2[x.tail][took[n] + 1] : x \in Into(g, n)} = Ports(g, q, n)
  <2>1. ASSUME NEW x \in Into(g, n) PROVE out2[x.tail][took[n] + 1] = Head(q[x])
    <3>1. x \in g.edges /\ x.head = n
      BY DEF Into
    <3>2. x.tail \in Places(g) /\ x.tail # n
      BY <3>1, EdgePlaces
    <3>3. Head(q[x]) = out[x.tail][took[n] + 1]
      BY <3>1, NextOfStream
    <3> QED
      BY <1>1, <3>2, <3>3
  <2> QED
    BY <2>1 DEF Ports
<1>6. took[n] \in Nat /\ took[n] + 1 \in 1..(took[n] + 1) /\ 1..took[n] \subseteq 1..(took[n] + 1)
  BY <1>1
<1>7. Grown(Taken(g, out, took, n), Taken(g, out2, took2, n), took[n],
            Ports(g, q, n))
  BY <1>1, <1>4, <1>5, <1>6 DEF Grown, Taken
<1> QED
  BY <1>3, <1>7 DEF out2, took2

\* A place that makes what it takes as its kind does keeps it so everywhere.
LEMMA MadeStep ==
  ASSUME NEW g, NEW q, NEW s, NEW k, NEW h, NEW c, NEW out, NEW took, NEW num,
         WellFormed(g), Flow(g, q, s, k, h, out, took), Made(g, c, s, k, h, out, took, num),
         NEW n \in Places(g), NEW values \in Seq(Values), \A x \in Into(g, n) : q[x] # <<>>,
         NEW s2, NEW k2, NEW h2, NEW c2, NEW num2,
         c2.args = c.args, c2.call = c.call,
         n \notin Slicers(g) => c2.slices = c.slices,
         n \notin Clusterings(g) /\ Clusterings(g) # {} => h2 = h,
         n # "snk" => k2 = k,
         \A p \in Randoms(g) \ {n} : num2[p] = num[p],
         \A i \in DOMAIN g.sources : g.sources[i] # n => s2[i] = s[i],
         MadeAt(g, c2, s2, k2, h2, Longer(out, n, values), Further(took, n), num2, n)
  PROVE  Made(g, c2, s2, k2, h2, Longer(out, n, values), Further(took, n), num2)
<1>1. IsGraph(g) /\ Streams(g, q, out, took)
  BY Rates DEF Flow
<1>2. /\ Grown(Taken(g, out, took, n),
               Taken(g, Longer(out, n, values), Further(took, n), n),
               took[n], Ports(g, q, n))
      /\ \A p \in Places(g) \ {n} :
           Taken(g, Longer(out, n, values), Further(took, n), p) = Taken(g, out, took, p)
  <2>1. \A x \in Into(g, n) : q[x] # <<>>
    OBVIOUS
  <2> QED
    BY ONLY <1>1, <2>1, TakenGrows, n \in Places(g), values \in Seq(Values)
<1> DEFINE out2 == Longer(out, n, values)
           took2 == Further(took, n)
<1>3. \A p \in Places(g) \ {n} : out2[p] = out[p]
  BY <1>1 DEF Streams, Longer
<1>4. (\A z, y \in Slicers(g) : z = y) /\ (\A z, y \in Clusterings(g) : z = y)
  BY Rates DEF Rated
<1> HIDE DEF out2, took2
<1>5. ASSUME NEW p \in Places(g) \ {n} PROVE MadeAt(g, c2, s2, k2, h2, out2, took2, num2, p)
  <2>1. MadeAt(g, c, s, k, h, out, took, num, p)
    BY DEF Made
  <2>2. p \in Slicers(g) => c2.slices = c.slices
    BY <1>4
  <2>3. p \in Clusterings(g) => h2 = h
    BY <1>4
  <2> DEFINE t == Taken(g, out, took, p)
  <2>4. t = Taken(g, out2, took2, p) /\ out[p] = out2[p]
    BY <1>2, <1>3 DEF out2, took2
  <2> HIDE DEF t
  <2>5. /\ \A i \in DOMAIN g.sources : g.sources[i] = p => SourceMade(s[i], c.args[i], out[p])
        /\ p \in Plain(g) \ Randoms(g) => PlainMade(t, out[p])
        /\ p \in Randoms(g) => RandomMade(t, out[p], Draw(p, num[p]))
        /\ p \in Slicers(g) => SlicerMade(t, out[p], c.call, c.slices)
        /\ p \in Clusterings(g) => ClusterMade(t, out[p], h)
        /\ p = "snk" => SinkMade(t, k)
    BY <2>1 DEF MadeAt, t
  <2>6. /\ \A i \in DOMAIN g.sources : g.sources[i] = p => SourceMade(s2[i], c2.args[i], out[p])
        /\ p \in Randoms(g) => RandomMade(t, out[p], Draw(p, num2[p]))
        /\ p \in Slicers(g) => SlicerMade(t, out[p], c2.call, c2.slices)
        /\ p \in Clusterings(g) => ClusterMade(t, out[p], h2)
        /\ p = "snk" => SinkMade(t, k2)
    BY <2>2, <2>3, <2>5
  <2> QED
    BY <2>4, <2>5, <2>6 DEF MadeAt
<1> QED
  BY <1>5 DEF Made, out2, took2

\* Behind an end of stream there are only ends of stream.
LEMMA EndsStay ==
  ASSUME NEW g, NEW q, NEW s, NEW k, NEW h, NEW out, NEW took, WellFormed(g),
         Flow(g, q, s, k, h, out, took), NEW p \in Nodes(g),
         NEW i \in 1..Len(out[p]), NEW j \in 1..Len(out[p]), i <= j, out[p][i] = Null
  PROVE  out[p][j] = Null
<1>1. p \in Places(g) /\ out \in [Places(g) -> Seq(Values)]
  BY DEF Places, Flow, Streams
<1> PICK l \in Nat : l = Len(out[p])
  BY <1>1, LenProperties
<1>2. i \in 1..l /\ j \in 1..l /\ i <= j
  OBVIOUS
<1>3. CASE p \notin SlicedOf(g)
  <2>1. l <= 2 /\ (l = 2 => out[p][2] = Null)
    BY <1>3 DEF Flow, Pair
  <2>0. l <= 2
    BY <2>1
  <2>2. i = j \/ (l = 2 /\ j = 2)
    BY ONLY <1>2, <2>0, l \in Nat
  <2> QED
    BY <2>1, <2>2
<1>4. CASE p \in SlicedOf(g)
  <2> PICK z \in Slicers(g) : TRUE
    BY <1>4, Rates DEF Rated
  <2>1. SamePattern(out[p], out[z]) /\ SlicerAt(took[z], out[z], Len(g.sources) > 1)
    BY <1>4 DEF Flow
  <2>2. z \in Places(g)
    BY DEF Slicers, OfKind, Places, Nodes
  <2> PICK m \in Nat : m = Len(out[z])
    BY <1>1, <2>2, LenProperties
  <2>3. l <= m /\ (out[p][i] = Null <=> out[z][i] = Null)
        /\ (out[p][j] = Null <=> out[z][j] = Null)
    BY <1>2, <2>1 DEF SamePattern
  <2>4. i \in 1..m /\ j \in 1..m
    BY <1>2, <2>3
  <2>5. \/ m = 0
        \/ \A x \in 1..m : out[z][x] # Null
        \/ \A x \in 1..m : out[z][x] = Null
        \/ m > 0 /\ out[z][m] = Null /\ \A x \in 1..(m - 1) : out[z][x] # Null
    <3>0. Len(<<>>) = 0
      OBVIOUS
    <3>1. CASE took[z] = 0 /\ out[z] = <<>>
      <4>1. m = 0
        BY <3>0, <3>1
      <4> QED
        BY <4>1
    <3>2. CASE m = 1 /\ out[z][1] = Null
      BY <3>2
    <3>3. CASE m = 2 /\ out[z][1] = Null /\ out[z][2] = Null
      <4>1. \A x \in 1..2 : x = 1 \/ x = 2
        OBVIOUS
      <4> QED
        BY <3>3, <4>1
    <3> QED
      BY <2>1, <3>1, <3>2, <3>3 DEF SlicerAt
  <2>6. j \in 1..(m - 1) => i \in 1..(m - 1)
    BY <2>4
  <2>7. j = m \/ j \in 1..(m - 1)
    BY <2>4
  <2>8. out[z][i] = Null
    BY <2>3
  <2>9. out[z][j] = Null
    BY <2>4, <2>5, <2>6, <2>7, <2>8
  <2> QED
    BY <2>3, <2>9
<1> QED
  BY <1>3, <1>4

\* What a node of one in-edge has taken and finds.
LEMMA OneEdge ==
  ASSUME NEW g, NEW q, NEW s, NEW k, NEW h, NEW out, NEW took, WellFormed(g),
         Flow(g, q, s, k, h, out, took), NEW n \in Takers(g) \ OfKind(g, "sync"),
         NEW y \in Into(g, n)
  PROVE  /\ Into(g, n) = {y} /\ Ports(g, q, n) = {Head(q[y])}
         /\ y \in g.edges /\ y.head = n /\ y.tail \in Nodes(g) /\ y.tail \in Places(g)
         /\ took[n] \in Nat /\ took[n] <= Len(out[y.tail])
         /\ \A j \in 1..took[n] : Taken(g, out, took, n)[j] = {out[y.tail][j]}
<1>1. IsGraph(g) /\ Streams(g, q, out, took)
  BY Rates DEF Flow
<1>2. Into(g, n) = {y}
  BY <1>1 DEF IsGraph
<1>3. y \in g.edges /\ y.head = n /\ y.tail \in Nodes(g) /\ y.tail \in Places(g)
  BY <1>1 DEF IsGraph, Into, Places
<1>4. took[n] \in Nat /\ took[n] <= Len(out[y.tail])
  <2>1. /\ q[y] \in Seq(Values) /\ took[n] \in Nat /\ out[y.tail] \in Seq(Values)
        /\ Len(q[y]) + took[n] = Len(out[y.tail])
    BY <1>1, <1>3, EdgePlaces DEF Streams, RestOf
  <2> QED
    BY <2>1, LenProperties
<1>5. \A j \in 1..took[n] : Taken(g, out, took, n)[j] = {out[y.tail][j]}
  BY <1>2 DEF Taken
<1>6. Ports(g, q, n) = {Head(q[y])}
  BY <1>2 DEF Ports
<1> QED
  BY <1>2, <1>3, <1>4, <1>5, <1>6

\* After an end of stream it finds only ends of stream.
LEMMA EndReached ==
  ASSUME NEW g, NEW q, NEW s, NEW k, NEW h, NEW out, NEW took, WellFormed(g),
         Flow(g, q, s, k, h, out, took), NEW n \in Takers(g) \ OfKind(g, "sync"),
         NEW y \in Into(g, n), q[y] # <<>>, NEW i \in 1..took[n], out[y.tail][i] = Null
  PROVE  Head(q[y]) = Null
<1>1. IsGraph(g) /\ Streams(g, q, out, took)
  BY Rates DEF Flow
<1>2. /\ y \in g.edges /\ y.head = n /\ y.tail \in Nodes(g)
      /\ took[n] \in Nat /\ took[n] <= Len(out[y.tail])
  BY OneEdge
<1>3. took[n] + 1 \in 1..Len(out[y.tail]) /\ Head(q[y]) = out[y.tail][took[n] + 1]
  BY <1>1, <1>2, NextOfStream
<1>4. Len(out[y.tail]) \in Nat
  <2>1. y.tail \in Places(g)
    BY <1>2 DEF Places
  <2> QED
    BY <1>1, <2>1, LenProperties DEF Streams
<1>5. i \in 1..Len(out[y.tail]) /\ i <= took[n] + 1
  BY <1>2, <1>4
<1> QED
  BY <1>2, <1>3, <1>5, EndsStay

\* A source is called.
LEMMA SourceMakes ==
  ASSUME NEW g, NEW q, NEW s \in [DOMAIN g.sources -> SourceStates], NEW k, NEW h,
         WellFormed(g), NEW out, NEW took, Flow(g, q, s, k, h, out, took),
         NEW c, NEW num, Made(g, c, s, k, h, out, took, num),
         NEW i \in DOMAIN g.sources, SourceOk(s[i])
  PROVE  Made(g, c, [s EXCEPT ![i] = AfterCall(@)], k, h,
              Longer(out, g.sources[i], <<SourceOut(s[i])>>), Further(took, g.sources[i]), num)
<1> DEFINE n == g.sources[i]
           v == SourceOut(s[i])
           s2 == [s EXCEPT ![i] = AfterCall(@)]
           out2 == Longer(out, n, <<v>>)
           took2 == Further(took, n)
<1>1. IsGraph(g) /\ SlicedOf(g) \subseteq DOMAIN g.kinds
  BY Rates
<1>2. /\ n \in Places(g) /\ n \in Nodes(g) /\ n # "snk"
      /\ n \notin DOMAIN g.kinds /\ Into(g, n) = {}
  BY <1>1 DEF IsGraph, Places, Nodes, SourceNames, Into, Takers
<1>3. /\ out \in [Places(g) -> Seq(Values)] /\ out[n] \in Seq(Values)
      /\ s[i] \in SourceStates
  BY <1>2 DEF Flow, Streams
<1>4. \/ Len(s[i].queue) = 1 /\ out[n] = <<>>
      \/ s[i].queue = <<>> /\ Len(out[n]) = 1
  BY DEF Flow, Fed, SourceOk
<1>5. SourceMade(s[i], c.args[i], out[n])
  BY <1>2 DEF Made, MadeAt
<1>6. v \in Values
  BY <1>3, HeadTailProperties DEF SourceOut, SourceStates, Values
<1>7. s2[i] = AfterCall(s[i])
  OBVIOUS
<1> HIDE DEF s2
<1>8. SourceMade(s2[i], c.args[i], out[n] \o <<v>>)
  <2>0. Len(<<>>) = 0
    OBVIOUS
  <2>1. CASE Len(s[i].queue) = 1 /\ out[n] = <<>>
    <3>1. s[i].queue \in Seq(Values)
      BY <1>3 DEF SourceStates
    <3>2. s[i].queue # <<>>
      <4> SUFFICES ASSUME s[i].queue = <<>> PROVE FALSE
        OBVIOUS
      <4>1. Len(s[i].queue) = 0
        BY <3>1, EmptySeq
      <4> QED
        BY <2>1, <4>1
    <3>3. v = c.args[i]
      BY <1>5, <3>2 DEF SourceMade, SourceOut
    <3>4. Tail(s[i].queue) = <<>>
      <4>1. Tail(s[i].queue) \in Seq(Values) /\ Len(Tail(s[i].queue)) = Len(s[i].queue) - 1
        BY <3>1, <3>2, HeadTailProperties
      <4>2. Len(Tail(s[i].queue)) = 0
        BY <2>1, <4>1
      <4> QED
        BY <4>1, <4>2, EmptySeq
    <3>5. s2[i].queue = <<>>
      BY <1>3, <1>7, <3>2, <3>4 DEF AfterCall, SourceStates
    <3> HIDE DEF v
    <3>6. (out[n] \o <<v>>)[1] = v
      <4>1. (out[n] \o <<v>>)[Len(out[n]) + 1] = v
        BY <1>3, <1>6, OneMore
      <4>2. Len(out[n]) = 0
        BY <2>0, <2>1
      <4>3. Len(out[n]) + 1 = 1
        BY <4>2
      <4> QED
        BY <4>1, <4>3
    <3> QED
      BY <3>3, <3>5, <3>6 DEF SourceMade
  <2>2. CASE s[i].queue = <<>> /\ Len(out[n]) = 1
    <3>1. s2[i].queue = <<>>
      BY <1>3, <1>7, <2>2 DEF AfterCall, SourceStates
    <3> HIDE DEF v
    <3>2. (out[n] \o <<v>>)[1] = out[n][1]
      BY <1>3, <1>6, <2>2, OneMore
    <3>3. out[n][1] = c.args[i]
      BY <1>5, <2>2 DEF SourceMade
    <3> QED
      BY <3>1, <3>2, <3>3 DEF SourceMade
  <2> QED
    BY <1>4, <2>1, <2>2
<1>9. out2[n] = out[n] \o <<v>> /\ <<v>> \in Seq(Values)
  BY <1>2, <1>3, <1>6 DEF Longer
<1>10. \A j \in DOMAIN g.sources : g.sources[j] # n => s2[j] = s[j]
  BY DEF s2
<1>11. \A j \in DOMAIN g.sources : g.sources[j] = n => j = i
  BY <1>1 DEF IsGraph
<1>12. n \notin Plain(g) /\ n \notin Randoms(g) /\ n \notin Slicers(g) /\ n \notin Clusterings(g)
  BY <1>2 DEF Plain, Randoms, Slicers, Clusterings, OfKind
<1> HIDE DEF n, v, out2, took2
<1>13. MadeAt(g, c, s2, k, h, out2, took2, num, n)
  BY <1>2, <1>8, <1>9, <1>11, <1>12 DEF MadeAt
<1>14. \A x \in Into(g, n) : q[x] # <<>>
  BY <1>2
<1> DEFINE values == <<v>>
<1>15. values \in Seq(Values) /\ out2 = Longer(out, n, values) /\ took2 = Further(took, n)
  BY <1>9 DEF out2, took2
<1> HIDE DEF values
<1>16. MadeAt(g, c, s2, k, h, Longer(out, n, values), Further(took, n), num, n)
  BY <1>13, <1>15
<1>17. Made(g, c, s2, k, h, Longer(out, n, values), Further(took, n), num)
  BY <1>2, <1>10, <1>14, <1>15, <1>16, MadeStep
<1> QED
  BY <1>17 DEF n, v, s2, values

\* A node that puts out one value for one.
LEMMA PlainMakes ==
  ASSUME NEW g, NEW q, NEW s, NEW k, NEW h, WellFormed(g),
         NEW out, NEW took, Flow(g, q, s, k, h, out, took),
         NEW c, NEW num, Made(g, c, s, k, h, out, took, num),
         NEW n \in Plain(g), \A x \in Into(g, n) : q[x] # <<>>, NEW v \in Values,
         NEW num2, \A p \in Randoms(g) \ {n} : num2[p] = num[p],
         n \notin Randoms(g) => v = OneForOne(Ports(g, q, n)),
         n \in Randoms(g) /\ took[n] > 0 => num2[n] = num[n],
         n \in Randoms(g) /\ took[n] = 0 =>
           /\ v = Null <=> Null \in Ports(g, q, n)
           /\ Null \notin Ports(g, q, n) => v = Merge(Ports(g, q, n) \cup {Draw(n, num2[n])})
  PROVE  Made(g, c, s, k, h, Longer(out, n, <<v>>), Further(took, n), num2)
<1> DEFINE out2 == Longer(out, n, <<v>>)
           took2 == Further(took, n)
           t == Taken(g, out, took, n)
           t2 == Taken(g, out2, took2, n)
           m == took[n]
           o == out[n]
           ports == Ports(g, q, n)
<1>1. IsGraph(g) /\ Streams(g, q, out, took)
  BY Rates DEF Flow
<1>2. /\ n \in DOMAIN g.kinds /\ n \notin Slicers(g) /\ n \notin Clusterings(g)
      /\ n \in Places(g) /\ n # "snk" /\ \A i \in DOMAIN g.sources : g.sources[i] # n
  BY <1>1 DEF Plain, IsGraph, Places, Nodes, SourceNames
<1>3. o \in Seq(Values) /\ m \in Nat /\ Len(o) = m
  BY <1>2 DEF Flow, Streams
<1>4. <<v>> \in Seq(Values) /\ (o \o <<v>>)[m + 1] = v /\ \A i \in 1..m : (o \o <<v>>)[i] = o[i]
  BY <1>3, OneMore
<1>5. Grown(t, t2, m, ports)
  BY <1>1, <1>2, <1>4, TakenGrows
<1>6. out2[n] = o \o <<v>>
  BY <1>1, <1>2 DEF Longer, Streams
<1>7. MadeAt(g, c, s, k, h, out, took, num, n)
  BY <1>2 DEF Made
<1> HIDE DEF out2, took2, t, t2, m, o, ports
<1>8. ASSUME n \notin Randoms(g)
      PROVE  MadeAt(g, c, s, k, h, out2, took2, num2, n)
  <2>1. PlainMade(t, o)
    BY <1>7, <1>8 DEF MadeAt, t, o
  <2>2. v = OneForOne(ports)
    BY <1>8 DEF ports
  <2>3. \A j \in 1..(m + 1) : j \in 1..m \/ j = m + 1
    BY <1>3
  <2>4. PlainMade(t2, o \o <<v>>)
    BY <1>4, <1>5, <2>1, <2>2, <2>3 DEF PlainMade, Grown
  <2>5. MadeAt(g, c, s, k, h, out2, took2, num2, n)
    BY <1>2, <1>6, <1>8, <2>4 DEF MadeAt, t2
  <2> QED
    BY <2>5
<1>9. ASSUME n \in Randoms(g)
      PROVE  MadeAt(g, c, s, k, h, out2, took2, num2, n)
  <2>1. RandomMade(t, o, Draw(n, num[n]))
    BY <1>7, <1>9 DEF MadeAt, t, o
  <2>2. RandomMade(t2, o \o <<v>>, Draw(n, num2[n]))
    <3>1. CASE m = 0
      <4>1. m + 1 = 1
        BY <3>1
      <4>2. t2[1] = ports /\ (o \o <<v>>)[1] = v
        BY <1>4, <1>5, <4>1 DEF Grown
      <4> QED
        BY <1>9, <3>1, <4>2 DEF RandomMade, ports, m
    <3>2. CASE m > 0
      <4>1. 1 \in 1..m
        BY <1>3, <3>2
      <4>2. num2[n] = num[n]
        BY <1>9, <3>2 DEF m
      <4>3. t2[1] = t[1] /\ (o \o <<v>>)[1] = o[1] /\ 1 \in DOMAIN t
        BY <1>4, <1>5, <4>1 DEF Grown
      <4> QED
        BY <2>1, <4>2, <4>3 DEF RandomMade
    <3> QED
      BY <1>3, <3>1, <3>2
  <2>3. MadeAt(g, c, s, k, h, out2, took2, num2, n)
    BY <1>2, <1>6, <1>9, <2>2 DEF MadeAt, t2
  <2> QED
    BY <2>3
<1> DEFINE values == <<v>>
<1>10. values \in Seq(Values) /\ out2 = Longer(out, n, values) /\ took2 = Further(took, n)
  BY <1>4 DEF out2, took2
<1> HIDE DEF values
<1>11. MadeAt(g, c, s, k, h, Longer(out, n, values), Further(took, n), num2, n)
  BY <1>8, <1>9, <1>10
<1>12. Made(g, c, s, k, h, Longer(out, n, values), Further(took, n), num2)
  BY <1>2, <1>10, <1>11, MadeStep
<1> QED
  BY <1>12 DEF values

\* The slicer cuts a frame, or passes an end of stream on.
LEMMA SlicerMakes ==
  ASSUME NEW g, NEW q, NEW s, NEW k, NEW h, WellFormed(g),
         NEW out, NEW took, Flow(g, q, s, k, h, out, took),
         NEW c, NEW num, Made(g, c, s, k, h, out, took, num),
         NEW n \in Slicers(g), \A x \in Into(g, n) : q[x] # <<>>, NEW values \in Seq(Values),
         NEW c2, c2.args = c.args, c2.call = c.call, c.slices \in Nat,
         Null \in Ports(g, q, n) => values = <<Null>> /\ c2.slices = c.slices,
         Null \notin Ports(g, q, n) =>
           /\ Len(values) = c2.slices
           /\ \A j \in 1..Len(values) : values[j] = Item({Atom(c.call, 1, j)})
  PROVE  Made(g, c2, s, k, h, Longer(out, n, values), Further(took, n), num)
<1> DEFINE t == Taken(g, out, took, n)
           t2 == Taken(g, Longer(out, n, values), Further(took, n), n)
           m == took[n]
           o == out[n]
           ports == Ports(g, q, n)
<1>1. IsGraph(g) /\ Streams(g, q, out, took)
  BY Rates DEF Flow
<1>2. /\ n \in DOMAIN g.kinds /\ n \notin Plain(g) /\ n \notin Clusterings(g)
      /\ n \notin Randoms(g) /\ n \notin OfKind(g, "sync") /\ n \in Takers(g)
      /\ n \in Places(g) /\ n # "snk" /\ \A i \in DOMAIN g.sources : g.sources[i] # n
  BY <1>1
  DEF Plain, Slicers, Clusterings, Randoms, OfKind, IsGraph, Places, Nodes, SourceNames, Takers
<1>3. o \in Seq(Values) /\ m \in Nat /\ SlicerAt(m, o, Len(g.sources) > 1)
  BY <1>2 DEF Flow, Streams
<1>4. Grown(t, t2, m, ports)
  BY <1>1, <1>2, TakenGrows
<1>5. Longer(out, n, values)[n] = o \o values
  BY <1>1, <1>2 DEF Longer, Streams
<1>6. SlicerMade(t, o, c.call, c.slices)
  BY <1>2 DEF Made, MadeAt
<1>7. /\ Len(o \o values) = Len(o) + Len(values) /\ Len(o) \in Nat /\ Len(values) \in Nat
      /\ \A j \in 1..Len(o) : (o \o values)[j] = o[j]
  BY <1>3, PrefixOfConcat
<1>8. m = 0 \/ (m = 1 /\ Null \in ports)
  <2> PICK y \in Into(g, n) : TRUE
    BY <1>1, <1>2 DEF IsGraph
  <2>1. y.tail \in Nodes(g) /\ y.tail \in Places(g) /\ y \in g.edges /\ y.head = n
    BY <1>2, OneEdge
  <2>2. m + 1 \in 1..Len(out[y.tail]) /\ Head(q[y]) = out[y.tail][m + 1]
    BY <1>1, <2>1, NextOfStream
  <2>3. y.tail \notin SlicedOf(g)
    BY Rates DEF Rated
  <2>4. Pair(out[y.tail]) /\ out[y.tail] \in Seq(Values)
    BY <2>1, <2>3 DEF Flow, Streams
  <2>5. m + 1 <= 2 /\ (m + 1 = 2 => Head(q[y]) = Null)
    BY <1>3, <2>2, <2>4, LenProperties, PairIndex
  <2>6. Head(q[y]) \in ports
    BY DEF Ports
  <2> QED
    BY <1>3, <2>5, <2>6
<1> HIDE DEF t, t2, m, o, ports
<1>9. SlicerMade(t2, o \o values, c2.call, c2.slices)
  <2>1. CASE m = 0
    <3>1. o = <<>>
      BY <1>3, <2>1 DEF SlicerAt
    <3>2. o \o values = values
      BY <3>1, ConcatEmptySeq
    <3>3. t2[1] = ports
      <4>1. m + 1 = 1
        BY <2>1
      <4> QED
        BY <1>4, <4>1 DEF Grown
    <3>4. CASE Null \in ports
      <4>1. values = <<Null>>
        BY <3>4 DEF ports
      <4>2. Len(values) > 0 /\ values[1] = Null
        BY <4>1
      <4> QED
        BY <3>2, <3>3, <3>4, <4>2 DEF SlicerMade
    <3>5. CASE Null \notin ports
      <4>1. Len(values) = c2.slices
        BY <3>5 DEF ports
      <4>2. \A j \in 1..Len(values) : values[j] = Item({Atom(c.call, 1, j)})
        BY <3>5 DEF ports
      <4>3. c2.slices <= Len(values) /\ \A j \in 1..Len(values) : j <= c2.slices
        BY <1>7, <4>1
      <4> QED
        BY <3>2, <3>3, <3>5, <4>2, <4>3 DEF SlicerMade
    <3> QED
      BY <3>4, <3>5
  <2>2. CASE m = 1 /\ Null \in ports
    <3>1. values = <<Null>> /\ c2.slices = c.slices
      BY <2>2 DEF ports
    <3>2. Len(values) = 1 /\ values[1] = Null
      BY <3>1
    <3>3. t2[1] = t[1] /\ 1 \in DOMAIN t
      BY <1>4, <2>2 DEF Grown
    <3>4. (o \o values)[Len(o) + 1] = Null
      BY <1>3, <3>1, OneMore DEF Values
    <3>5. CASE Null \in t[1]
      <4>1. Len(o) > 0 /\ o[1] = Null
        BY <1>6, <3>3, <3>5 DEF SlicerMade
      <4>2. Len(o \o values) > 0 /\ 1 \in 1..Len(o)
        BY <1>7, <3>2, <4>1
      <4> QED
        BY <1>7, <3>3, <3>5, <4>1, <4>2 DEF SlicerMade
    <3>6. CASE Null \notin t[1]
      <4>1. c.slices <= Len(o)
        BY <1>6, <3>3, <3>6 DEF SlicerMade
      <4>2. \A j \in 1..Len(o) :
              o[j] = IF j <= c.slices THEN Item({Atom(c.call, 1, j)}) ELSE Null
        BY <1>6, <3>3, <3>6 DEF SlicerMade
      <4>3. c2.slices <= Len(o \o values)
        <5> PICK l \in Nat : l = Len(o)
          BY <1>7
        <5>1. Len(o \o values) = l + 1
          BY <1>7, <3>2
        <5> QED
          BY <3>1, <4>1, <5>1
      <4>4. ASSUME NEW j \in 1..Len(o \o values)
            PROVE  (o \o values)[j] = IF j <= c2.slices THEN Item({Atom(c2.call, 1, j)})
                                      ELSE Null
        <5>1. j \in 1..Len(o) \/ j = Len(o) + 1
          BY <1>7, <3>2
        <5>2. CASE j \in 1..Len(o)
          BY <1>7, <3>1, <4>2, <5>2
        <5>3. CASE j = Len(o) + 1
          <6>1. ~(j <= c2.slices)
            BY <1>7, <3>1, <4>1, <5>3
          <6> QED
            BY <3>4, <5>3, <6>1
        <5> QED
          BY <5>1, <5>2, <5>3
      <4> QED
        BY <3>3, <3>6, <4>3, <4>4 DEF SlicerMade
    <3> QED
      BY <3>5, <3>6
  <2> QED
    BY <1>8, <2>1, <2>2
<1>10. MadeAt(g, c2, s, k, h, Longer(out, n, values), Further(took, n), num, n)
  BY <1>2, <1>5, <1>9 DEF MadeAt, t2
<1> QED
  BY <1>2, <1>10, MadeStep

\* The sink takes a value.
LEMMA SinkMakes ==
  ASSUME NEW g, NEW q, NEW s, NEW k \in Seq(Items), NEW h, WellFormed(g),
         NEW out, NEW took, Flow(g, q, s, k, h, out, took),
         NEW c, NEW num, Made(g, c, s, k, h, out, took, num),
         \A x \in Into(g, "snk") : q[x] # <<>>,
         NEW y \in Into(g, "snk"), Head(q[y]) \in Values
  PROVE  Made(g, c, s, Accept(k, Head(q[y])), h, Longer(out, "snk", <<>>),
              Further(took, "snk"), num)
<1> DEFINE n == "snk"
           none == <<>>
           v == Head(q[y])
           k2 == Accept(k, v)
           t == Taken(g, out, took, n)
           t2 == Taken(g, Longer(out, n, none), Further(took, n), n)
           m == took[n]
<1>1. IsGraph(g) /\ Streams(g, q, out, took)
  BY Rates DEF Flow
<1>2. /\ n = "snk" /\ n \in Places(g) /\ n \in Takers(g) /\ n \notin OfKind(g, "sync")
      /\ \A i \in DOMAIN g.sources : g.sources[i] # n
      /\ n \notin Plain(g) /\ n \notin Randoms(g) /\ n \notin Slicers(g) /\ n \notin Clusterings(g)
  BY <1>1
  DEF Plain, Randoms, Slicers, Clusterings, OfKind, IsGraph, Places, Nodes, SourceNames, Takers
<1>3. none \in Seq(Values)
  BY EmptySeq
<1>13. \A x \in Into(g, n) : q[x] # <<>>
  OBVIOUS
<1>12. y \in Into(g, n)
  OBVIOUS
<1> HIDE DEF none, n
<1>4. /\ m \in Nat /\ Ports(g, q, n) = {v}
      /\ \A j \in 1..m : t[j] = {out[y.tail][j]}
  BY <1>2, <1>12, OneEdge
<1>11. Grown(t, t2, m, Ports(g, q, n))
  BY <1>1, <1>2, <1>3, <1>13, TakenGrows
<1>5. Grown(t, t2, m, {v})
  BY <1>4, <1>11
<1>6. SinkMade(t, k)
  BY <1>2 DEF Made, MadeAt
<1>7. ASSUME NEW i \in 1..m, Null \in t[i] PROVE v = Null
  <2>1. out[y.tail][i] = Null
    BY <1>4, <1>7
  <2> QED
    BY <1>2, <1>12, <1>13, <2>1, EndReached
<1> PICK l \in Nat : l = Len(k)
  BY LenProperties
<1> HIDE DEF t, t2, m, v, k2
<1>8. SinkMade(t2, k2)
  <2>1. /\ \A j \in 1..l : j \in 1..m /\ t[j] = {k[j]}
        /\ l + 1 \in 1..m => Null \in t[l + 1]
        /\ \A j \in 1..m : t2[j] = t[j]
        /\ DOMAIN t2 = 1..(m + 1) /\ t2[m + 1] = {v}
        /\ \A j \in 1..m : j \in 1..(m + 1)
    BY <1>4, <1>5, <1>6 DEF SinkMade, Grown
  <2>2. CASE v = Null
    <3>1. k2 = k
      BY <2>2 DEF k2, Accept
    <3>2. l + 1 \in 1..(m + 1) => l + 1 \in 1..m \/ l + 1 = m + 1
      BY <1>4
    <3>3. \A j \in 1..l : j \in DOMAIN t2 /\ t2[j] = {k[j]}
      BY <2>1
    <3>4. l + 1 \in DOMAIN t2 => Null \in t2[l + 1]
      BY <2>1, <2>2, <3>2
    <3> QED
      BY <3>1, <3>3, <3>4 DEF SinkMade
  <2>3. CASE v # Null
    <3>1. l = m
      <4>1. l <= m
        <5>1. l > 0 => l \in 1..l
          OBVIOUS
        <5>2. l > 0 => l \in 1..m
          BY <2>1, <5>1
        <5> QED
          BY <1>4, <5>2
      <4>2. l < m => l + 1 \in 1..m
        BY <1>4
      <4>3. l + 1 \notin 1..m
        BY <1>7, <2>1, <2>3
      <4> QED
        BY <1>4, <4>1, <4>2, <4>3
    <3>2. /\ k2 = Append(k, v) /\ v \in Items
      BY <2>3 DEF k2, Accept, Values, v
    <3>3. /\ Len(k2) = l + 1 /\ k2[l + 1] = v /\ \A j \in 1..l : k2[j] = k[j]
      BY <3>2, AppendProperties
    <3>4. \A j \in 1..(l + 1) : j \in 1..l \/ j = l + 1
      OBVIOUS
    <3>5. \A j \in 1..(l + 1) : j \in DOMAIN t2 /\ t2[j] = {k2[j]}
      BY <2>1, <3>1, <3>3, <3>4
    <3>6. l + 1 + 1 \notin 1..(m + 1)
      BY <3>1
    <3> QED
      BY <2>1, <3>3, <3>5, <3>6 DEF SinkMade
  <2> QED
    BY <2>2, <2>3
<1>9. MadeAt(g, c, s, k2, h, Longer(out, n, none), Further(took, n), num, n)
  BY <1>2, <1>8 DEF MadeAt, t2
<1>10. Made(g, c, s, k2, h, Longer(out, n, none), Further(took, n), num)
  BY <1>2, <1>3, <1>9, <1>13, MadeStep
<1> QED
  BY <1>10 DEF k2, none, n, v

\* Once more adds to all that was taken.
LEMMA GrownAll ==
  ASSUME NEW t, NEW t2, NEW m \in Nat, NEW v, Grown(t, t2, m, v)
  PROVE  AllOf(t2) = AllOf(t) \cup v
<1>1. /\ \A j \in 1..(m + 1) : j \in 1..m \/ j = m + 1
      /\ \A j \in 1..m : j \in 1..(m + 1)
      /\ m + 1 \in 1..(m + 1)
  OBVIOUS
<1>2. ASSUME NEW x \in AllOf(t2) PROVE x \in AllOf(t) \cup v
  <2> PICK j \in DOMAIN t2 : x \in t2[j]
    BY DEF AllOf
  <2> QED
    BY <1>1 DEF Grown, AllOf
<1>3. ASSUME NEW x \in AllOf(t) PROVE x \in AllOf(t2)
  <2> PICK j \in DOMAIN t : x \in t[j]
    BY <1>3 DEF AllOf
  <2> QED
    BY <1>1 DEF Grown, AllOf
<1>4. ASSUME NEW x \in v PROVE x \in AllOf(t2)
  BY <1>1 DEF Grown, AllOf
<1> QED
  BY <1>2, <1>3, <1>4

\* Clustering with t values of the stream p taken: to an end of stream, or none and it
\* holds all.
Known(t, o, p, h) ==
  \/ /\ t > 0 /\ Len(o) > 0 /\ h = {}
     /\ \E i \in 1..t : p[i] = Null
  \/ /\ o = <<>> /\ (t = 0 => h = {})
     /\ \A i \in 1..t : p[i] # Null

\* The step of clustering keeps that.
LEMMA ClusterKnows ==
  ASSUME NEW g, NEW q, NEW s, NEW k, NEW h, WellFormed(g),
         NEW out, NEW took, Flow(g, q, s, k, h, out, took),
         NEW n \in Clusterings(g), NEW y \in Into(g, n)
  PROVE  Known(took[n], out[n], out[y.tail], h)
<1> USE DEF Known
<1>1. n \in Takers(g) \ OfKind(g, "sync")
  BY DEF Clusterings, OfKind, Takers
<1>2. took[n] \in Nat /\ took[n] <= Len(out[y.tail])
  BY <1>1, OneEdge
<1>3. y.tail \in SlicedOf(g) /\ Slicers(g) # {}
  BY Rates DEF Rated
<1> PICK z \in Slicers(g) : TRUE
  BY <1>3
<1>4. ClusterAt(took[n], out[n], out[z], h) /\ SamePattern(out[y.tail], out[z])
  BY <1>3 DEF Flow
<1>5. out[y.tail] \in Seq(Values)
  <2>1. y.tail \in Places(g)
    BY <1>1, OneEdge
  <2> QED
    BY <2>1 DEF Flow, Streams
<1>6. \A i \in 1..took[n] : out[y.tail][i] = Null <=> out[z][i] = Null
  <2>1. \A i \in 1..took[n] : i \in 1..Len(out[y.tail])
    BY <1>2, <1>5, LenProperties
  <2> QED
    BY <1>4, <2>1 DEF SamePattern
<1> PICK m \in Nat : m = took[n]
  BY <1>2
<1>7. \A i \in 1..m : out[y.tail][i] = Null <=> out[z][i] = Null
  BY <1>6
<1>8. CASE m = 0 /\ out[n] = <<>> /\ h = {}
  BY <1>8
<1>9. CASE m > 0 /\ out[z][1] = Null /\ Len(out[n]) = m /\ h = {}
  <2>1. 1 \in 1..m
    BY <1>9
  <2>2. out[y.tail][1] = Null
    BY <1>7, <1>9, <2>1
  <2>3. Len(out[n]) > 0
    BY <1>9
  <2> QED
    BY <1>9, <2>1, <2>2, <2>3
<1>10. CASE m > 0 /\ (\A i \in 1..m : out[z][i] # Null) /\ out[n] = <<>>
  BY <1>7, <1>10
<1>11. CASE m > 0 /\ out[z][m] = Null /\ Len(out[n]) = 2 /\ h = {}
  <2>1. m \in 1..m
    BY <1>11
  <2>2. out[y.tail][m] = Null
    BY <1>7, <1>11, <2>1
  <2>3. Len(out[n]) > 0
    BY <1>11
  <2> QED
    BY <1>11, <2>1, <2>2, <2>3
<1> QED
  BY <1>4, <1>8, <1>9, <1>10, <1>11 DEF ClusterAt

\* Clustering keeps an item, or makes one of all at the end of the stream.
LEMMA ClusterMakes ==
  ASSUME NEW g, NEW q, NEW s, NEW k, NEW h, WellFormed(g),
         NEW out, NEW took, Flow(g, q, s, k, h, out, took),
         NEW c, NEW num, Made(g, c, s, k, h, out, took, num),
         NEW n \in Clusterings(g), NEW y \in Into(g, n), q[y] # <<>>,
         NEW h2, NEW values \in Seq(Values),
         Head(q[y]) = Null =>
           h2 = {} /\ values = IF h = {} THEN <<Null>> ELSE <<Merge(h), Null>>,
         Head(q[y]) # Null => values = <<>> /\ h2 = h \cup {Head(q[y])}
  PROVE  Made(g, c, s, k, h2, Longer(out, n, values), Further(took, n), num)
<1>15. Known(took[n], out[n], out[y.tail], h)
  BY ONLY WellFormed(g), Flow(g, q, s, k, h, out, took), n \in Clusterings(g),
     y \in Into(g, n), ClusterKnows
<1> DEFINE t == Taken(g, out, took, n)
           t2 == Taken(g, Longer(out, n, values), Further(took, n), n)
           m == took[n]
           o == out[n]
           v == Head(q[y])
<1>1. IsGraph(g) /\ Streams(g, q, out, took)
  BY Rates DEF Flow
<1>2. /\ n \in DOMAIN g.kinds /\ n \notin Plain(g) /\ n \notin Slicers(g)
      /\ n \notin Randoms(g) /\ n \in Takers(g) \ OfKind(g, "sync")
      /\ n \in Places(g) /\ n # "snk" /\ \A i \in DOMAIN g.sources : g.sources[i] # n
  BY <1>1
  DEF Plain, Slicers, Clusterings, Randoms, OfKind, IsGraph, Places, Nodes, SourceNames, Takers
<1>3. o \in Seq(Values) /\ m \in Nat
  BY <1>2 DEF Flow, Streams
<1>4. /\ Ports(g, q, n) = {v} /\ Into(g, n) = {y}
      /\ \A j \in 1..m : t[j] = {out[y.tail][j]}
  BY <1>2, OneEdge
<1>17. \A x \in Into(g, n) : q[x] # <<>>
  BY <1>4
<1>16. Grown(t, t2, m, Ports(g, q, n))
  BY <1>1, <1>2, <1>17, TakenGrows
<1>5. Grown(t, t2, m, {v})
  BY <1>4, <1>16
<1>6. ClusterMade(t, o, h)
  BY <1>2 DEF Made, MadeAt
<1>7. Longer(out, n, values)[n] = o \o values
  BY <1>1, <1>2 DEF Longer, Streams
<1>8. AllOf(t2) = AllOf(t) \cup {v}
  BY <1>3, <1>5, GrownAll
<1>9. \/ /\ m > 0 /\ Len(o) > 0 /\ h = {} /\ v = Null
         /\ \E i \in 1..m : Null \in t[i]
      \/ /\ o = <<>> /\ (m = 0 => h = {})
         /\ \A i \in 1..m : t[i] # {} /\ Null \notin t[i]
  <2>1. (\E i \in 1..m : out[y.tail][i] = Null) => v = Null
    BY <1>2, EndReached
  <2>2. \/ /\ m > 0 /\ Len(o) > 0 /\ h = {}
           /\ \E i \in 1..m : out[y.tail][i] = Null
        \/ /\ o = <<>> /\ (m = 0 => h = {})
           /\ \A i \in 1..m : out[y.tail][i] # Null
    BY <1>15 DEF Known
  <2> HIDE DEF t, m, o, v
  <2>3. \A i \in 1..m : t[i] # {} /\ (Null \in t[i] <=> out[y.tail][i] = Null)
    <3> SUFFICES ASSUME NEW i \in 1..m
                 PROVE  t[i] # {} /\ (Null \in t[i] <=> out[y.tail][i] = Null)
      OBVIOUS
    <3>1. t[i] = {out[y.tail][i]}
      BY ONLY <1>4
    <3> QED
      BY ONLY <3>1
  <2>4. CASE /\ m > 0 /\ Len(o) > 0 /\ h = {}
             /\ \E i \in 1..m : out[y.tail][i] = Null
    <3>1. v = Null
      BY ONLY <2>1, <2>4
    <3>2. \E i \in 1..m : Null \in t[i]
      BY ONLY <2>3, <2>4
    <3> QED
      BY ONLY <2>4, <3>1, <3>2
  <2>5. CASE /\ o = <<>> /\ (m = 0 => h = {})
             /\ \A i \in 1..m : out[y.tail][i] # Null
    BY ONLY <2>3, <2>5
  <2> QED
    BY ONLY <2>2, <2>4, <2>5
<1>10. v = Null => h2 = {} /\ values = IF h = {} THEN <<Null>> ELSE <<Merge(h), Null>>
  OBVIOUS
<1>11. v # Null => values = <<>> /\ h2 = h \cup {v}
  OBVIOUS
<1> HIDE DEF t, t2, m, o, v
<1>12. /\ \A j \in 1..m : j \in 1..(m + 1) /\ t2[j] = t[j]
       /\ m + 1 \in DOMAIN t2 /\ t2[m + 1] = {v} /\ DOMAIN t = 1..m
       /\ \A j \in DOMAIN t2 : j \in 1..m \/ j = m + 1
       /\ m > 0 => 1 \in 1..m
  BY <1>3, <1>5 DEF Grown
<1>13. ClusterMade(t2, o \o values, h2)
  <2>1. CASE m > 0 /\ Len(o) > 0 /\ h = {} /\ v = Null
    <3>1. values = <<Null>> /\ h2 = {}
      BY <1>10, <2>1
    <3>2. ~ \A j \in DOMAIN t2 : Null \notin t2[j]
      BY <1>12, <2>1
    <3>3. 1 \in 1..Len(o) /\ (o \o values)[1] = o[1]
      <4>1. 1 \in 1..Len(o)
        BY <1>3, <2>1, LenProperties
      <4> QED
        BY <1>3, <4>1, PrefixOfConcat
    <3>4. o[1] = IF Null \in t[1] THEN Null ELSE Merge(AllOf(t) \ {Null})
      BY <1>6, <2>1 DEF ClusterMade
    <3>5. AllOf(t2) \ {Null} = AllOf(t) \ {Null} /\ t2[1] = t[1]
      BY <1>8, <1>12, <2>1
    <3> QED
      BY <3>2, <3>3, <3>4, <3>5 DEF ClusterMade
  <2>2. CASE o = <<>> /\ (m = 0 => h = {}) /\ \A i \in 1..m : t[i] # {} /\ Null \notin t[i]
    <3>1. o \o values = values
      BY <2>2, ConcatEmptySeq
    <3>2. h = AllOf(t)
      BY <1>6, <1>12, <2>2 DEF ClusterMade
    <3>3. Null \notin h
      BY <1>12, <2>2, <3>2 DEF AllOf
    <3>4. CASE v = Null
      <4>1. ~ \A j \in DOMAIN t2 : Null \notin t2[j]
        BY <1>12, <3>4
      <4>2. AllOf(t2) \ {Null} = h
        BY <1>8, <3>2, <3>3, <3>4
      <4>3. CASE m = 0
        <5>1. values = <<Null>>
          BY <1>10, <2>2, <3>4, <4>3
        <5>2. values[1] = Null
          BY <5>1
        <5>3. t2[1] = {Null}
          <6>1. m + 1 = 1
            BY <4>3
          <6> QED
            BY <1>12, <3>4, <6>1
        <5> QED
          BY <3>1, <4>1, <5>2, <5>3 DEF ClusterMade
      <4>4. CASE m > 0
        <5>1. t2[1] = t[1] /\ t[1] # {} /\ Null \notin t[1]
          BY <1>12, <2>2, <4>4
        <5>2. h # {}
          BY <1>12, <3>2, <4>4, <5>1 DEF AllOf
        <5>3. values = <<Merge(h), Null>>
          BY <1>10, <3>4, <5>2
        <5>4. values[1] = Merge(h)
          BY <5>3
        <5> QED
          BY <3>1, <4>1, <4>2, <5>1, <5>4 DEF ClusterMade
      <4> QED
        BY <1>3, <4>3, <4>4
    <3>5. CASE v # Null
      <4>1. values = <<>> /\ h2 = h \cup {v} /\ ~(Len(<<>>) > 0)
        BY <1>11, <3>5
      <4> QED
        BY <1>8, <3>1, <3>2, <4>1 DEF ClusterMade
    <3> QED
      BY <3>4, <3>5
  <2> QED
    BY <1>9, <2>1, <2>2
<1>14. MadeAt(g, c, s, k, h2, Longer(out, n, values), Further(took, n), num, n)
  BY <1>2, <1>7, <1>13 DEF MadeAt, t2
<1> QED
  BY <1>2, <1>17, <1>14, MadeStep
-----------------------------------------------------------------------------
(* The random numbers of a call.                                           *)

\* The nodes that have drawn their number.
DrewOf(g, out) == {n \in Randoms(g) : Len(out[n]) > 0 /\ out[n][1] # Null}

\* They have drawn the numbers from base + 1 on, and the last is d.
Numbers(g, base, d, out, num) ==
  /\ {num[n] : n \in DrewOf(g, out)} = (base + 1)..d
  /\ d = base + Cardinality(DrewOf(g, out))

\* The nodes that draw are finitely many.
LEMMA FewDraw ==
  ASSUME NEW g, Whole(g), NEW out
  PROVE  IsFiniteSet(Randoms(g)) /\ IsFiniteSet(DrewOf(g, out))
         /\ Cardinality(DrewOf(g, out)) \in Nat
<1>1. DrewOf(g, out) \subseteq DOMAIN g.kinds /\ Randoms(g) \subseteq DOMAIN g.kinds
  BY DEF DrewOf, Randoms, OfKind
<1>2. IsFiniteSet(Randoms(g)) /\ IsFiniteSet(DrewOf(g, out))
  BY <1>1, FS_Subset DEF Whole
<1> QED
  BY <1>2, FS_CardinalityType

\* At the beginning of a call none has drawn.
LEMMA NumbersBegin ==
  ASSUME NEW g, NEW out, NEW num, NEW base \in Nat, \A n \in Randoms(g) : out[n] = <<>>
  PROVE  Numbers(g, base, base, out, num)
<1>1. ~(Len(<<>>) > 0)
  OBVIOUS
<1>2. DrewOf(g, out) = {}
  BY <1>1 DEF DrewOf
<1>3. Cardinality(DrewOf(g, out)) = 0
  BY <1>2, FS_EmptySet
<1>4. {num[n] : n \in DrewOf(g, out)} = {}
  BY <1>2
<1>5. (base + 1)..base = {}
  OBVIOUS
<1>6. base = base + Cardinality(DrewOf(g, out))
  BY <1>3
<1> QED
  BY <1>4, <1>5, <1>6 DEF Numbers

\* A step in which no node draws changes nothing.
LEMMA NumbersStay ==
  ASSUME NEW g, NEW q, NEW out, NEW took, Streams(g, q, out, took),
         NEW n \in Places(g), NEW values \in Seq(Values), n \in Randoms(g) => values = <<Null>>,
         NEW num, NEW base, NEW d, Numbers(g, base, d, out, num)
  PROVE  Numbers(g, base, d, Longer(out, n, values), num)
<1> DEFINE out2 == Longer(out, n, values)
<1>1. out \in [Places(g) -> Seq(Values)] /\ out2[n] = out[n] \o values
      /\ \A p \in Places(g) \ {n} : out2[p] = out[p]
  BY DEF Streams, Longer
<1> HIDE DEF out2
<1>2. ASSUME NEW p \in Randoms(g)
      PROVE  Len(out2[p]) > 0 /\ out2[p][1] # Null <=> Len(out[p]) > 0 /\ out[p][1] # Null
  <2>1. p \in Places(g)
    BY DEF Randoms, OfKind, Places, Nodes
  <2>2. CASE p # n
    BY <1>1, <2>1, <2>2
  <2>3. CASE p = n /\ out[n] = <<>>
    <3>1. out2[p] = <<Null>>
      BY <1>1, <2>3, ConcatEmptySeq
    <3>2. <<Null>>[1] = Null /\ ~(Len(<<>>) > 0)
      OBVIOUS
    <3> QED
      BY <2>3, <3>1, <3>2
  <2>4. CASE p = n /\ out[n] # <<>>
    <3>1. out[n] \in Seq(Values)
      BY <1>1
    <3>2. Len(out[n]) \in Nat /\ Len(out[n]) # 0
      BY <2>4, <3>1, LenProperties, EmptySeq
    <3>3. 1 \in 1..Len(out[n])
      BY <3>2
    <3>4. (out[n] \o values)[1] = out[n][1] /\ Len(out[n] \o values) = Len(out[n]) + Len(values)
          /\ Len(values) \in Nat
      BY <3>1, <3>3, PrefixOfConcat
    <3>5. Len(out[n]) > 0 /\ Len(out[n] \o values) > 0
      BY <3>2, <3>4
    <3> QED
      BY <1>1, <2>4, <3>4, <3>5
  <2> QED
    BY <2>2, <2>3, <2>4
<1>3. DrewOf(g, out2) = DrewOf(g, out)
  BY <1>2 DEF DrewOf
<1> QED
  BY <1>3 DEF Numbers, out2

\* A node that draws takes the next number.
LEMMA NumbersGrow ==
  ASSUME NEW g, Whole(g), NEW q, NEW out, NEW took, Streams(g, q, out, took),
         NEW n \in Randoms(g), NEW v \in Values, v # Null, out[n] = <<>>,
         NEW num, NEW base \in Nat, NEW d \in Nat, Numbers(g, base, d, out, num),
         NEW num2, num2[n] = d + 1, \A p \in Randoms(g) \ {n} : num2[p] = num[p]
  PROVE  Numbers(g, base, d + 1, Longer(out, n, <<v>>), num2)
<1> DEFINE out2 == Longer(out, n, <<v>>)
           drew == DrewOf(g, out)
<1>0. \A p \in Randoms(g) : p \in Places(g)
  BY DEF Randoms, OfKind, Places, Nodes
<1>1. out \in [Places(g) -> Seq(Values)] /\ out2[n] = out[n] \o <<v>>
      /\ \A p \in Places(g) \ {n} : out2[p] = out[p]
  BY <1>0 DEF Streams, Longer
<1>2. out2[n] = <<v>>
  BY <1>1
<1> HIDE DEF out2
<1>3. Len(<<v>>) > 0 /\ <<v>>[1] = v /\ ~(Len(<<>>) > 0)
  OBVIOUS
<1>4. DrewOf(g, out2) = drew \cup {n} /\ n \notin drew
  BY <1>0, <1>1, <1>2, <1>3 DEF DrewOf
<1>5. IsFiniteSet(drew) /\ Cardinality(drew) \in Nat
  BY FewDraw
<1>6. Cardinality(DrewOf(g, out2)) = Cardinality(drew) + 1
  <2> HIDE DEF drew
  <2> QED
    BY <1>4, <1>5, FS_AddElement
<1>7. {num2[p] : p \in DrewOf(g, out2)} = {num[p] : p \in drew} \cup {d + 1}
  <2>1. \A p \in drew : num2[p] = num[p]
    BY <1>4 DEF DrewOf
  <2> QED
    BY <1>4, <2>1
<1>8. {num[p] : p \in drew} = (base + 1)..d /\ d = base + Cardinality(drew)
  BY DEF Numbers
<1>9. (base + 1)..(d + 1) = ((base + 1)..d) \cup {d + 1}
  <2> PICK w \in Nat : w = Cardinality(drew)
    BY <1>5
  <2>1. d = base + w
    BY <1>8
  <2> QED
    BY <2>1
<1>10. d + 1 = base + (Cardinality(drew) + 1)
  BY <1>5, <1>8
<1> QED
  BY <1>6, <1>7, <1>8, <1>9, <1>10 DEF Numbers, out2

\* At the beginning of a call nothing is made.
LEMMA MadeBegins ==
  ASSUME NEW g, NEW c, NEW s, NEW h, NEW num, IsGraph(g),
         \A i \in DOMAIN g.sources : s[i].queue # <<>> /\ Head(s[i].queue) = c.args[i],
         Clusterings(g) # {} => h = {}
  PROVE  Made(g, c, s, <<>>, h, [p \in Places(g) |-> <<>>], [p \in Places(g) |-> 0], num)
<1> DEFINE none == <<>>
           out == [p \in Places(g) |-> none]
           took == [p \in Places(g) |-> 0]
<1>1. ~(Len(none) > 0) /\ Len(none) = 0
  OBVIOUS
<1>2. \A p \in Places(g) : out[p] = none /\ took[p] = 0
  OBVIOUS
<1> HIDE DEF out, took, none
<1>3. 1..0 = {}
  OBVIOUS
<1>4. ASSUME NEW p \in Places(g) PROVE MadeAt(g, c, s, none, h, out, took, num, p)
  <2> DEFINE t == Taken(g, out, took, p)
  <2>1. DOMAIN t = {}
    BY <1>2, <1>3 DEF Taken
  <2>2. AllOf(t) = {}
    BY <2>1 DEF AllOf
  <2> HIDE DEF t
  <2>3. /\ \A i \in DOMAIN g.sources : SourceMade(s[i], c.args[i], none)
        /\ PlainMade(t, none) /\ RandomMade(t, none, Draw(p, num[p]))
        /\ SlicerMade(t, none, c.call, c.slices)
        /\ p \in Clusterings(g) => ClusterMade(t, none, h)
    BY <1>1, <2>1, <2>2 DEF SourceMade, PlainMade, RandomMade, SlicerMade, ClusterMade
  <2>4. SinkMade(t, none)
    BY <1>1, <1>3, <2>1 DEF SinkMade
  <2> QED
    BY <1>2, <2>3, <2>4 DEF MadeAt, t
<1> QED
  BY <1>4 DEF Made, out, took, none
-----------------------------------------------------------------------------
(* Executors.                                                              *)

\* No other executor has components of the same names that remember something.
Alone(e) ==
  \A f \in Executors : f # e /\ Service(job[f]) = Service(job[e]) => ~Stateful(job[f])

\* How many numbers the first n calls draw.
DrawnBy(e, n) ==
  Cardinality({m \in 1..n : NullFree(given[e][m])}) * Cardinality(Randoms(job[e]))

\* Executors whose numbers are their own.
Counting(e) == Whole(job[e]) /\ Alone(e) /\ Randoms(job[e]) # {}

\* What the graph knows of the call in progress.
ContextOf(e) ==
  [call   |-> Len(given[e]),
   args   |-> given[e][Len(given[e])],
   slices |-> sliced[e][Len(given[e])]]

\* An executor's graph between calls, and its streams in a call.
Quiet(e) ==
  /\ \A i \in DOMAIN job[e].sources : src[e][i].queue = <<>>
  /\ \A x \in job[e].edges : edge[e][x] = <<>>
  /\ snk[e] = <<>>
  /\ Clusterings(job[e]) # {} => held[Service(job[e])] = {}
  /\ Counting(e) => drawn[Service(job[e])] = DrawnBy(e, Len(given[e]))

\* A call in progress with these streams, made of its own arguments and numbers.
Going(e, out, took, num) ==
  /\ Flow(job[e], edge[e], src[e], snk[e], held[Service(job[e])], out, took)
  /\ Made(job[e], ContextOf(e), src[e], snk[e], held[Service(job[e])], out, took, num)
  /\ Counting(e) => Numbers(job[e], DrawnBy(e, Len(given[e]) - 1), drawn[Service(job[e])], out, num)

\* A call in progress.
Flowing(e) == \E out, took, num : Going(e, out, took, num)

\* What was given in an executor's calls, and what they returned.
Answered(e) ==
  /\ \A n \in DOMAIN given[e] : given[e][n] \in ArgsOf(e, n)
  /\ Whole(job[e]) /\ Alone(e) => \A n \in DOMAIN returned[e] : OwnResult(e, n, returned[e][n])

\* A component in which no executor's clustering keeps blobs has none.
Unused == \A c \in Scopes :
  (\A e \in Executors : Service(job[e]) = c => Clusterings(job[e]) = {}) => held[c] = {}

\* An executor's calls do not get into each other's way.
Apart(e) ==
  /\ IF phase[e] = "idle" THEN Quiet(e) ELSE Flowing(e)
  /\ Answered(e)

\* The inductive invariant: nobody's do, but for those behind a starved join.
CallsApart ==
  /\ Types /\ Unused
  /\ \A e \in Executors : ~Starved(e) => Apart(e)

\* A join does not recover from a frame without slices.
LEMMA StarvedStays ==
  ASSUME Types, NEW e \in Executors, StepOf(e), NEW f \in Executors, ~Starved(f)'
  PROVE  ~Starved(f)
<1>1. job' = job /\ (f # e => empty'[f] = empty[f])
  BY Others
<1>2. CASE f # e
  BY <1>1, <1>2 DEF Starved
<1>3. CASE f = e
  <2>1. empty[e] \in Nat /\ DOMAIN empty = Executors
    BY DEF Types, TypedExecutor
  <2>2. empty'[e] = empty[e] \/ empty'[e] = empty[e] + 1
    <3>1. CASE \E a \in ArgsOf(e, Len(given[e]) + 1) : Call(e, a)
      BY <3>1 DEF Call
    <3>2. CASE \E i \in DOMAIN src[e] : CallSource(e, i)
      BY <3>2 DEF CallSource
    <3>3. CASE \E n \in DOMAIN job[e].kinds : Fire(e, n)
      <4> PICK n \in DOMAIN job[e].kinds : Fire(e, n)
        BY <3>3
      <4>1. CASE Slice(e, n)
        BY <2>1, <4>1 DEF Slice
      <4>2. CASE ~Slice(e, n)
        BY <4>2 DEF Fire, Transform, PassEos, Fluctuate, Cluster
      <4> QED
        BY <4>1, <4>2
    <3>4. CASE CallSink(e) \/ EndRun(e)
      BY <3>4 DEF CallSink, EndRun
    <3> QED
      BY <3>1, <3>2, <3>3, <3>4 DEF StepOf, RunStep
  <2> QED
    BY <1>1, <1>3, <2>1, <2>2 DEF Starved
<1> QED
  BY <1>2, <1>3

\* How many numbers calls draw is a number.
LEMMA DrawnByNat ==
  ASSUME Types, NEW e \in Executors, NEW n \in Int, Whole(job[e])
  PROVE  DrawnBy(e, n) \in Nat
<1>1. IsFiniteSet(1..n)
  BY FS_Interval
<1>2. IsFiniteSet({m \in 1..n : NullFree(given[e][m])})
  BY <1>1, FS_Subset
<1>3. IsFiniteSet(Randoms(job[e]))
  BY FewDraw
<1>4. /\ Cardinality({m \in 1..n : NullFree(given[e][m])}) \in Nat
      /\ Cardinality(Randoms(job[e])) \in Nat
  BY <1>2, <1>3, FS_CardinalityType
<1> QED
  BY <1>4 DEF DrawnBy

\* It depends on the arguments of these calls alone.
LEMMA DrawnBySame ==
  ASSUME NEW e, NEW n, job' = job, \A m \in 1..n : given'[e][m] = given[e][m]
  PROVE  DrawnBy(e, n)' = DrawnBy(e, n)
<1>1. {m \in 1..n : NullFree(given'[e][m])} = {m \in 1..n : NullFree(given[e][m])}
  OBVIOUS
<1> QED
  BY <1>1 DEF DrawnBy

\* And so do the results.
LEMMA OwnResultSame ==
  ASSUME NEW e, NEW n \in Nat \ {0}, NEW r, job' = job,
         \A m \in 1..n : given'[e][m] = given[e][m], sliced'[e][n] = sliced[e][n]
  PROVE  OwnResult(e, n, r)' <=> OwnResult(e, n, r)
<1>1. \A m \in 1..(n - 1) : m \in 1..n
  OBVIOUS
<1>2. n \in 1..n
  OBVIOUS
<1>3. given'[e][n] = given[e][n]
  BY <1>2
<1>4. {m \in 1..(n - 1) : NullFree(given'[e][m])} = {m \in 1..(n - 1) : NullFree(given[e][m])}
  BY <1>1
<1>5. Block(e, n)' = Block(e, n)
  BY <1>4 DEF Block
<1>6. Parts(e, n)' = Parts(e, n)
  BY DEF Parts
<1> QED
  BY <1>3, <1>5, <1>6 DEF OwnResult

\* A step that leaves the executors' graphs in place keeps who is alone.
LEMMA CountingSame ==
  ASSUME NEW e, job' = job
  PROVE  (Counting(e)' <=> Counting(e)) /\ (Alone(e)' <=> Alone(e))
  BY DEF Counting, Alone, Executors, Service

\* A call in progress goes on with streams as they should be.
LEMMA GoesOn ==
  ASSUME NEW e, NEW out, NEW took, NEW num, job' = job,
         Flow(job[e], edge'[e], src'[e], snk'[e], held'[Service(job[e])], out, took),
         Made(job[e], ContextOf(e)', src'[e], snk'[e], held'[Service(job[e])], out, took, num),
         Counting(e) =>
           Numbers(job[e], DrawnBy(e, Len(given[e]) - 1)', drawn'[Service(job[e])], out, num)
  PROVE  Flowing(e)'
<1>1. Going(e, out, took, num)'
  BY CountingSame DEF Going, Service
<1> QED
  BY <1>1 DEF Flowing

\* A call begins.
LEMMA CallFlows ==
  ASSUME Types, Types', NEW e \in Executors, Quiet(e), NEW a \in ArgsOf(e, Len(given[e]) + 1),
         Call(e, a)
  PROVE  Flowing(e)' /\ phase'[e] = "running"
<1>1. /\ job' = job /\ edge' = edge /\ snk' = snk /\ held' = held /\ phase'[e] = "running"
      /\ src'[e] = [i \in DOMAIN src[e] |-> Fill(src[e][i], a[i])] /\ drawn' = drawn
      /\ given'[e] = Append(given[e], a)
  BY DEF Call, Types
<1>2. /\ DOMAIN src[e] = DOMAIN job[e].sources /\ edge[e] \in [job[e].edges -> Seq(Values)]
      /\ src'[e] \in [DOMAIN job[e].sources -> SourceStates]
      /\ given[e] \in Seq([DOMAIN job[e].sources -> Values])
      /\ given'[e] \in Seq([DOMAIN job[e].sources -> Values])
  BY <1>1 DEF Types, TypedExecutor, Executors
<1>3. ASSUME NEW i \in DOMAIN job[e].sources
      PROVE  /\ Len(src'[e][i].queue) = 1 /\ ~src'[e][i].eosSent
             /\ src'[e][i].queue # <<>> /\ Head(src'[e][i].queue) = a[i]
  <2>1. src'[e][i] = Fill(src[e][i], a[i]) /\ src[e][i].queue = <<>>
    BY <1>1, <1>2 DEF Quiet
  <2>2. Len(Append(<<>>, a[i])) = 1 /\ Append(<<>>, a[i]) # <<>> /\ Head(Append(<<>>, a[i])) = a[i]
    OBVIOUS
  <2> QED
    BY <2>1, <2>2 DEF Fill
<1>4. WellFormed(job[e]) /\ IsGraph(job[e])
  BY GraphOf
<1> DEFINE out == [p \in Places(job[e]) |-> <<>>]
           took == [p \in Places(job[e]) |-> 0]
           num == [p \in Randoms(job[e]) |-> 0]
<1> PICK l \in Nat : l = Len(given[e])
  BY <1>2, LenProperties
<1>5. /\ Len(given'[e]) = l + 1 /\ given'[e][l + 1] = a
      /\ \A m \in 1..l : given'[e][m] = given[e][m]
  BY <1>1, <1>2
<1>6. Flow(job[e], edge[e], src'[e], snk[e], held[Service(job[e])], out, took)
  BY <1>2, <1>3, <1>4, FlowBegins DEF Quiet
<1>7. Made(job[e], ContextOf(e)', src'[e], snk[e], held[Service(job[e])], out, took, num)
  <2>1. ContextOf(e)'.args = a
    BY <1>5 DEF ContextOf
  <2>2. Made(job[e], ContextOf(e)', src'[e], <<>>, held[Service(job[e])], out, took, num)
    BY <1>3, <1>4, <2>1, MadeBegins DEF Quiet
  <2> QED
    BY <2>2 DEF Quiet
<1>8. ASSUME Counting(e)
      PROVE  Numbers(job[e], DrawnBy(e, Len(given[e]) - 1)', drawn'[Service(job[e])], out, num)
  <2>1. DrawnBy(e, l)' = DrawnBy(e, l)
    BY <1>1, <1>5, DrawnBySame
  <2>2. Len(given'[e]) - 1 = l
    BY <1>5
  <2>3. drawn[Service(job[e])] = DrawnBy(e, l)
    BY <1>8 DEF Quiet
  <2>4. DrawnBy(e, l) \in Nat
    <3>1. Whole(job[e]) /\ l \in Int
      BY <1>8 DEF Counting
    <3> QED
      BY <3>1, DrawnByNat
  <2>5. \A n \in Randoms(job[e]) : out[n] = <<>>
    BY DEF Randoms, OfKind, Places, Nodes
  <2> HIDE DEF out, num
  <2>6. Numbers(job[e], DrawnBy(e, l), DrawnBy(e, l), out, num)
    BY <2>4, <2>5, NumbersBegin
  <2>7. DrawnBy(e, Len(given[e]) - 1)' = DrawnBy(e, l)'
    BY <2>2
  <2> QED
    BY <1>1, <2>1, <2>3, <2>6, <2>7
<1> HIDE DEF out, took, num
<1> QED
  BY <1>1, <1>6, <1>7, <1>8, GoesOn

\* A place moves values.
LEMMA MovedIsShift ==
  ASSUME NEW e, NEW n, NEW values
  PROVE  Moved(e, n, values) = Shift(job[e], edge[e], n, values)
  BY DEF Moved, Shift

\* What a node finds at its ports.
LEMMA HeadsAre ==
  ASSUME NEW e, NEW n, Ready(e, n)
  PROVE  /\ \A x \in Into(job[e], n) : edge[e][x] # <<>>
         /\ Null \in Heads(e, n) <=> \E x \in Into(job[e], n) : Head(edge[e][x]) = Null
         /\ Heads(e, n) = Ports(job[e], edge[e], n)
  BY DEF Ready, Heads, InEdges, Ports

\* The context of a call in which nothing is given or sliced stays.
LEMMA ContextStays ==
  ASSUME NEW e, job' = job, given' = given
  PROVE  /\ sliced' = sliced => ContextOf(e)' = ContextOf(e)
         /\ \A n : DrawnBy(e, n)' = DrawnBy(e, n)
         /\ DrawnBy(e, Len(given[e]) - 1)' = DrawnBy(e, Len(given[e]) - 1)
         /\ ContextOf(e)'.call = ContextOf(e).call /\ ContextOf(e)'.args = ContextOf(e).args
  BY DEF ContextOf, DrawnBy

\* A call goes on.
LEMMA SourceFlows ==
  ASSUME Types, NEW e \in Executors, Flowing(e), NEW i \in DOMAIN src[e], CallSource(e, i)
  PROVE  Flowing(e)'
<1> DEFINE g == job[e]
           h == held[Service(g)]
           n == g.sources[i]
           values == <<SourceOut(src[e][i])>>
           c == ContextOf(e)
<1> PICK out, took, num : Going(e, out, took, num)
  BY DEF Flowing
<1>1. src[e] \in [DOMAIN g.sources -> SourceStates] /\ WellFormed(g) /\ IsGraph(g)
  BY GraphOf DEF Types, TypedExecutor
<1>2. /\ job' = job /\ snk' = snk /\ held' = held /\ drawn' = drawn /\ SourceOk(src[e][i])
      /\ given' = given /\ sliced' = sliced
      /\ edge'[e] = Shift(g, edge[e], n, values)
      /\ src'[e] = [src[e] EXCEPT ![i] = AfterCall(@)]
  BY MovedIsShift DEF CallSource, Types
<1>3. i \in DOMAIN g.sources
  BY <1>1
<1>4. /\ Flow(g, edge[e], src[e], snk[e], h, out, took)
      /\ Made(g, c, src[e], snk[e], h, out, took, num)
      /\ Counting(e) => Numbers(g, DrawnBy(e, Len(given[e]) - 1), drawn[Service(g)], out, num)
  BY DEF Going
<1>5. n \in Places(g) /\ n \notin Randoms(g)
  BY <1>1, <1>3 DEF IsGraph, SourceNames, Places, Nodes, Randoms, OfKind
<1>6. values \in Seq(Values)
  <2>1. src[e][i] \in SourceStates
    BY <1>1, <1>3
  <2>2. SourceOut(src[e][i]) \in Values
    BY <2>1, HeadTailProperties DEF SourceOut, SourceStates, Values
  <2> QED
    BY <2>2
<1>7. Flow(g, Shift(g, edge[e], n, values), [src[e] EXCEPT ![i] = AfterCall(@)], snk[e], h,
           Longer(out, n, values), Further(took, n))
  <2> HIDE DEF g, h
  <2> QED
    BY <1>1, <1>2, <1>3, <1>4, SourceFlow
<1>8. Made(g, c, [src[e] EXCEPT ![i] = AfterCall(@)], snk[e], h,
           Longer(out, n, values), Further(took, n), num)
  <2> HIDE DEF g, h, c
  <2> QED
    BY <1>1, <1>2, <1>3, <1>4, SourceMakes
<1>9. Counting(e) => Numbers(g, DrawnBy(e, Len(given[e]) - 1), drawn[Service(g)],
                             Longer(out, n, values), num)
  <2>1. Streams(g, edge[e], out, took)
    BY <1>4 DEF Flow
  <2> HIDE DEF g, n, values
  <2> QED
    BY <1>4, <1>5, <1>6, <2>1, NumbersStay
<1>10. ContextOf(e)' = c /\ DrawnBy(e, Len(given[e]) - 1)' = DrawnBy(e, Len(given[e]) - 1)
  BY <1>2, ContextStays
<1> HIDE DEF n, values
<1> QED
  BY <1>2, <1>7, <1>8, <1>9, <1>10, GoesOn

\* A random node of a whole graph draws for the first value it takes.
LEMMA DrawsOnce ==
  ASSUME NEW g, NEW q, NEW s, NEW k, NEW h, WellFormed(g), Whole(g),
         NEW out, NEW took, Flow(g, q, s, k, h, out, took),
         NEW n \in Randoms(g), \A x \in Into(g, n) : q[x] # <<>>, Null \notin Ports(g, q, n)
  PROVE  took[n] = 0 /\ out[n] = <<>>
<1>1. /\ IsGraph(g) /\ n \in Takers(g) \ OfKind(g, "sync") /\ n \in Plain(g) /\ n \in Places(g)
  BY Rates DEF Randoms, OfKind, Takers, Plain, Slicers, Clusterings, Places, Nodes
<1>2. Into(g, n) # {}
  BY <1>1 DEF IsGraph
<1> PICK y \in Into(g, n) : TRUE
  BY <1>2
<1>3. /\ Ports(g, q, n) = {Head(q[y])} /\ y \in g.edges /\ y.head = n
      /\ y.tail \in Nodes(g) /\ y.tail \in Places(g) /\ q[y] # <<>>
  BY <1>1, OneEdge
<1>4. SlicedOf(g) = {}
  BY Rates DEF Whole, Rated
<1>5. Pair(out[y.tail])
  BY <1>3, <1>4 DEF Flow
<1>6. took[n] + 1 \in 1..Len(out[y.tail]) /\ Head(q[y]) = out[y.tail][took[n] + 1]
  BY <1>1, <1>3, NextOfStream DEF Flow
<1>7. took[n] \in Nat /\ out[n] \in Seq(Values) /\ out[y.tail] \in Seq(Values)
  BY <1>1, <1>3 DEF Flow, Streams
<1>8. Len(out[y.tail]) \in Nat
  BY <1>7, LenProperties
<1>9. took[n] + 1 <= 2 /\ (took[n] + 1 = 2 => out[y.tail][took[n] + 1] = Null)
  BY <1>5, <1>6, <1>7, <1>8, PairIndex
<1>10. took[n] + 1 # 2
  BY <1>3, <1>6, <1>9
<1>11. took[n] = 0
  BY <1>7, <1>9, <1>10
<1>12. Len(out[n]) = 0
  BY <1>1, <1>11 DEF Flow
<1> QED
  BY <1>7, <1>11, <1>12, EmptySeq

\* What a node without memory or a drawing one puts out, and the number it drew.
PutsOut(e, n, took, num, v, num2) ==
  /\ edge'[e] = Moved(e, n, <<v>>)
  /\ v = Null <=> Null \in Heads(e, n)
  /\ \A p \in Randoms(job[e]) \ {n} : num2[p] = num[p]
  /\ n \notin Randoms(job[e]) => v = OneForOne(Heads(e, n))
  /\ n \in Randoms(job[e]) /\ took[n] > 0 => num2[n] = num[n]
  /\ n \in Randoms(job[e]) /\ took[n] = 0 /\ Null \notin Heads(e, n) =>
       v = Merge(Heads(e, n) \cup {Draw(n, num2[n])})

\* A node without memory puts out one value.
LEMMA TransformPuts ==
  ASSUME Types, NEW e \in Executors, NEW out, NEW took, NEW num, Going(e, out, took, num),
         NEW n \in DOMAIN job[e].kinds, Transform(e, n)
  PROVE  /\ drawn' = drawn /\ n \notin Randoms(job[e])
         /\ \E v \in Values : PutsOut(e, n, took, num, v, num)
<1>1. edge[e] \in [job[e].edges -> Seq(Values)] /\ Ready(e, n) /\ n \notin Randoms(job[e])
  BY DEF Types, TypedExecutor, Transform, Fires, Randoms, OfKind
<1>2. Heads(e, n) \subseteq Values
  BY <1>1, HeadsTypes
<1>3. edge'[e] = Moved(e, n, <<OneForOne(Heads(e, n))>>) /\ drawn' = drawn
  BY DEF Transform, Types
<1> DEFINE v == OneForOne(Heads(e, n))
<1>4. v \in Values /\ (v = Null <=> Null \in Heads(e, n))
  BY <1>2, OneForOneValue
<1>5. PutsOut(e, n, took, num, v, num)
  BY <1>1, <1>3, <1>4 DEF PutsOut
<1> QED
  BY <1>1, <1>3, <1>4, <1>5

\* A node that draws passes on the end of the stream without a number.
LEMMA PassPuts ==
  ASSUME Types, NEW e \in Executors, NEW out, NEW took, NEW num, Going(e, out, took, num),
         NEW n \in Randoms(job[e]), PassEos(e, n)
  PROVE  drawn' = drawn /\ PutsOut(e, n, took, num, Null, num)
<1>1. edge'[e] = Moved(e, n, <<Null>>) /\ Null \in Heads(e, n) /\ drawn' = drawn
  BY DEF PassEos, Types
<1> QED
  BY <1>1 DEF PutsOut

\* It puts out an item with the next number.
LEMMA FluctuatePuts ==
  ASSUME Types, NEW e \in Executors, NEW out, NEW took, NEW num, Going(e, out, took, num),
         NEW n \in Randoms(job[e]), Fluctuate(e, n)
  PROVE  \E v \in Values : \E num2 :
           /\ PutsOut(e, n, took, num, v, num2)
           /\ Counting(e) => Numbers(job[e], DrawnBy(e, Len(given[e]) - 1),
                                     drawn'[Service(job[e])], Longer(out, n, <<v>>), num2)
<1> DEFINE g == job[e]
           c == Service(g)
           k == drawn[c] + 1
           v == Merge(Heads(e, n) \cup {Draw(n, k)})
           num2 == [p \in Randoms(g) |-> IF p = n /\ took[n] = 0 THEN k ELSE num[p]]
<1>1. /\ WellFormed(g) /\ n \in Plain(g) /\ Ready(e, n) /\ c \in Scopes
      /\ edge[e] \in [g.edges -> Seq(Values)] /\ n \in DOMAIN g.kinds
  BY GraphOf
  DEF Types, TypedExecutor, Fluctuate, Fires, Plain, Slicers, Clusterings, Randoms, OfKind
<1>2. Heads(e, n) \subseteq Values
  BY <1>1, HeadsTypes
<1>3. edge'[e] = Moved(e, n, <<v>>) /\ Null \notin Heads(e, n) /\ drawn'[c] = k
      /\ drawn[c] \in Nat
  BY <1>1 DEF Fluctuate, Types, Shared, Draw
<1>4. v \in Items
  <2>1. n \in NodeNames /\ k \in Nat \ {0}
    BY <1>1, <1>3, GraphOf
  <2>2. Draw(n, k) \in Items
    BY <2>1, DrawItem DEF Draw
  <2>3. Heads(e, n) \cup {Draw(n, k)} \subseteq Items
    BY <1>2, <1>3, <2>2 DEF Values
  <2> QED
    BY <2>3, MergeItems
<1>5. v \in Values /\ v # Null
  <2> HIDE DEF v
  <2> QED
    BY <1>4, IslandsAssumption DEF Values
<1>6. /\ \A p \in Randoms(g) \ {n} : num2[p] = num[p]
      /\ took[n] = 0 => num2[n] = k
      /\ took[n] > 0 => num2[n] = num[n]
  OBVIOUS
<1>7. took[n] = 0 => v = Merge(Heads(e, n) \cup {Draw(n, num2[n])})
  BY <1>6
<1> HIDE DEF num2
<1>8. PutsOut(e, n, took, num, v, num2)
  <2> HIDE DEF v
  <2> QED
    BY <1>3, <1>5, <1>6, <1>7 DEF PutsOut
<1>9. ASSUME Counting(e)
      PROVE  Numbers(g, DrawnBy(e, Len(given[e]) - 1), drawn'[c], Longer(out, n, <<v>>), num2)
  <2>1. Whole(g) /\ Flow(g, edge[e], src[e], snk[e], held[c], out, took)
        /\ Numbers(g, DrawnBy(e, Len(given[e]) - 1), drawn[c], out, num)
    BY <1>9 DEF Counting, Going
  <2>2. (\A x \in Into(g, n) : edge[e][x] # <<>>) /\ Heads(e, n) = Ports(g, edge[e], n)
    BY <1>1, HeadsAre
  <2>3. took[n] = 0 /\ out[n] = <<>>
    <3>1. n \in Randoms(g)
      OBVIOUS
    <3> HIDE DEF g, c
    <3> QED
      BY <1>1, <1>3, <2>1, <2>2, <3>1, DrawsOnce
  <2>4. Len(given[e]) \in Nat
    BY LenProperties DEF Types, TypedExecutor
  <2>5. DrawnBy(e, Len(given[e]) - 1) \in Nat
    BY <2>1, <2>4, DrawnByNat
  <2>6. Streams(g, edge[e], out, took)
    BY <2>1 DEF Flow
  <2> DEFINE base == DrawnBy(e, Len(given[e]) - 1)
             d == drawn[c]
  <2>7. base \in Nat /\ d \in Nat /\ num2[n] = d + 1 /\ Numbers(g, base, d, out, num)
    BY <1>3, <1>6, <2>1, <2>3, <2>5
  <2> HIDE DEF g, v, base, d
  <2>9. n \in Randoms(g)
    BY DEF g
  <2>8. Numbers(g, base, d + 1, Longer(out, n, <<v>>), num2)
    BY <1>5, <1>6, <2>1, <2>3, <2>6, <2>7, <2>9, NumbersGrow
  <2> QED
    BY <1>3, <2>8 DEF base, d
<1> HIDE DEF v
<1> QED
  BY <1>5, <1>8, <1>9

\* A call goes on with each of these steps.
LEMMA PlainFlows ==
  ASSUME Types, NEW e \in Executors, Flowing(e), NEW n \in DOMAIN job[e].kinds,
         Transform(e, n) \/ (PassEos(e, n) /\ job[e].kinds[n] = "random") \/ Fluctuate(e, n)
  PROVE  Flowing(e)'
<1> DEFINE g == job[e]
           h == held[Service(g)]
           c == ContextOf(e)
           base == DrawnBy(e, Len(given[e]) - 1)
<1> PICK out, took, num : Going(e, out, took, num)
  BY DEF Flowing
<1>1. /\ WellFormed(g) /\ n \in Plain(g) /\ Ready(e, n) /\ n \in Places(g)
      /\ edge[e] \in [g.edges -> Seq(Values)]
  BY GraphOf
  DEF Types, TypedExecutor, Transform, PassEos, Fluctuate, Fires, Plain, Slicers, Clusterings,
      OfKind, Places, Nodes
<1>2. /\ Flow(g, edge[e], src[e], snk[e], h, out, took)
      /\ Made(g, c, src[e], snk[e], h, out, took, num)
      /\ Counting(e) => Numbers(g, base, drawn[Service(g)], out, num)
  BY DEF Going
<1>3. /\ job' = job /\ src' = src /\ snk' = snk /\ held' = held /\ given' = given
      /\ sliced' = sliced
  BY DEF Transform, PassEos, Fluctuate
<1>4. ASSUME drawn' = drawn, NEW v \in Values, n \in Randoms(g) => v = Null
      PROVE  Counting(e) => Numbers(g, base, drawn'[Service(g)], Longer(out, n, <<v>>), num)
  <2>1. Streams(g, edge[e], out, took)
    BY <1>2 DEF Flow
  <2>2. <<v>> \in Seq(Values) /\ (n \in Randoms(g) => <<v>> = <<Null>>)
    BY <1>4
  <2> HIDE DEF g, base
  <2> QED
    BY <1>1, <1>2, <1>4, <2>1, <2>2, NumbersStay
<1>5. \E v \in Values : \E num2 :
        /\ PutsOut(e, n, took, num, v, num2)
        /\ Counting(e) => Numbers(g, base, drawn'[Service(g)], Longer(out, n, <<v>>), num2)
  <2>1. CASE Transform(e, n)
    BY <1>4, <2>1, TransformPuts
  <2>2. CASE PassEos(e, n) /\ g.kinds[n] = "random"
    <3>1. n \in Randoms(g) /\ Null \in Values
      BY <2>2 DEF Randoms, OfKind, Values
    <3> QED
      BY <1>4, <2>2, <3>1, PassPuts
  <2>3. CASE Fluctuate(e, n)
    <3>1. n \in Randoms(g)
      BY <2>3 DEF Fluctuate, Fires, Randoms, OfKind
    <3> QED
      BY <2>3, <3>1, FluctuatePuts
  <2> QED
    BY <2>1, <2>2, <2>3
<1> PICK v \in Values : \E num2 :
        /\ PutsOut(e, n, took, num, v, num2)
        /\ Counting(e) => Numbers(g, base, drawn'[Service(g)], Longer(out, n, <<v>>), num2)
  BY <1>5
<1> PICK num2 :
        /\ PutsOut(e, n, took, num, v, num2)
        /\ Counting(e) => Numbers(g, base, drawn'[Service(g)], Longer(out, n, <<v>>), num2)
  OBVIOUS
<1>6. /\ edge'[e] = Shift(g, edge[e], n, <<v>>)
      /\ v = Null <=> \E x \in Into(g, n) : Head(edge[e][x]) = Null
      /\ \A x \in Into(g, n) : edge[e][x] # <<>>
      /\ Heads(e, n) = Ports(g, edge[e], n)
  BY <1>1, MovedIsShift, HeadsAre DEF PutsOut
<1>7. Flow(g, Shift(g, edge[e], n, <<v>>), src[e], snk[e], h, Longer(out, n, <<v>>),
           Further(took, n))
  <2> HIDE DEF g, h
  <2> QED
    BY <1>1, <1>2, <1>6, PlainFlow
<1>8. /\ \A p \in Randoms(g) \ {n} : num2[p] = num[p]
      /\ n \notin Randoms(g) => v = OneForOne(Ports(g, edge[e], n))
      /\ n \in Randoms(g) /\ took[n] > 0 => num2[n] = num[n]
      /\ n \in Randoms(g) /\ took[n] = 0 =>
           /\ v = Null <=> Null \in Ports(g, edge[e], n)
           /\ Null \notin Ports(g, edge[e], n) =>
                v = Merge(Ports(g, edge[e], n) \cup {Draw(n, num2[n])})
  BY <1>6 DEF PutsOut
<1>9. Made(g, c, src[e], snk[e], h, Longer(out, n, <<v>>), Further(took, n), num2)
  <2> HIDE DEF g, h, c
  <2> QED
    BY <1>1, <1>2, <1>6, <1>8, PlainMakes
<1>10. ContextOf(e)' = c /\ DrawnBy(e, Len(given[e]) - 1)' = base
  BY <1>3, ContextStays
<1>11. Counting(e) => Numbers(g, base, drawn'[Service(g)], Longer(out, n, <<v>>), num2)
  OBVIOUS
<1> QED
  BY <1>3, <1>6, <1>7, <1>9, <1>10, <1>11, GoesOn

\* Where no node draws, the numbers of a call stay.
LEMMA GoesOnUndrawn ==
  ASSUME Types, NEW e \in Executors, NEW out, NEW took, NEW num, Going(e, out, took, num),
         NEW n \in Places(job[e]) \ Randoms(job[e]), NEW values \in Seq(Values),
         job' = job, given' = given, drawn' = drawn,
         Flow(job[e], edge'[e], src'[e], snk'[e], held'[Service(job[e])],
              Longer(out, n, values), Further(took, n)),
         Made(job[e], ContextOf(e)', src'[e], snk'[e], held'[Service(job[e])],
              Longer(out, n, values), Further(took, n), num)
  PROVE  Flowing(e)'
<1> DEFINE g == job[e]
           base == DrawnBy(e, Len(given[e]) - 1)
<1>1. Streams(g, edge[e], out, took)
      /\ (Counting(e) => Numbers(g, base, drawn[Service(g)], out, num))
  BY DEF Going, Flow
<1>2. DrawnBy(e, Len(given[e]) - 1)' = base
  BY ContextStays
<1>3. n \in Places(g) /\ n \notin Randoms(g)
  OBVIOUS
<1>4. Counting(e) => Numbers(g, base, drawn'[Service(g)], Longer(out, n, values), num)
  <2> HIDE DEF g, base
  <2> QED
    BY <1>1, <1>3, NumbersStay
<1> QED
  BY <1>2, <1>4, GoesOn

\* The slicer's values, and the number of them.
SlicerPuts(e, n, values) ==
  /\ edge'[e] = Moved(e, n, values)
  /\ IF Null \in Heads(e, n) THEN values = <<Null>> /\ ContextOf(e)'.slices = ContextOf(e).slices
     ELSE /\ values \in Seq(Items) /\ (Len(job[e].sources) > 1 => Len(values) > 0)
          /\ Len(values) = ContextOf(e)'.slices
          /\ \A j \in 1..Len(values) : values[j] = Item({Atom(Len(given[e]), 1, j)})

\* What a slicer puts out are the slices it recorded, and there are some if there is
\* a join to come.
LEMMA SliceCuts ==
  ASSUME Types, NEW e \in Executors, NEW n \in DOMAIN job[e].kinds, Slice(e, n), ~Starved(e)'
  PROVE  \E values \in Seq(Values) : SlicerPuts(e, n, values)
<1> DEFINE call == Len(given[e])
           g == job[e]
<1> PICK k \in Counts :
      /\ edge' = [edge EXCEPT ![e] = Moved(e, n, [s \in 1..k |-> Item({Atom(call, 1, s)})])]
      /\ sliced' = [sliced EXCEPT ![e][call] = k]
      /\ empty' = [empty EXCEPT ![e] = IF k = 0 THEN @ + 1 ELSE @]
  BY DEF Slice
<1> DEFINE values == [s \in 1..k |-> Item({Atom(call, 1, s)})]
<1>1. k \in Nat /\ (Len(g.sources) > 1 => k # 0)
  <2>1. ASSUME k = 0, Len(g.sources) > 1 PROVE FALSE
    <3>1. empty'[e] = empty[e] + 1 /\ empty[e] \in Nat
      BY <2>1 DEF Types, TypedExecutor
    <3>2. job' = job
      BY DEF Slice
    <3> QED
      BY <2>1, <3>1, <3>2 DEF Starved
  <2> QED
    BY <2>1, IslandsAssumption
<1>2. /\ call \in Nat /\ call \in 1..Len(sliced[e]) /\ phase[e] = "running"
      /\ sliced[e] \in Seq(Nat)
  <2>1. phase[e] = "running" /\ sliced[e] \in Seq(Nat)
    BY DEF Slice, Fires, Types, TypedExecutor
  <2>2. call \in 1..MaxCalls[e] /\ call = Len(sliced[e]) /\ MaxCalls[e] \in Nat
    BY <2>1, CallInProgress, BoundOf
  <2> QED
    BY <2>1, <2>2
<1>3. values \in Seq(Items) /\ Len(values) = k
  BY <1>1, <1>2, SlicesTypes
<1>4. edge'[e] = Moved(e, n, values) /\ Null \notin Heads(e, n) /\ given' = given
  BY DEF Slice, Types
<1>5. ContextOf(e)'.slices = k
  <2>1. sliced'[e] = [sliced[e] EXCEPT ![call] = k]
    BY DEF Types
  <2>2. sliced'[e][call] = k
    BY <1>2, <2>1, LenProperties
  <2> QED
    BY <1>4, <2>2 DEF ContextOf
<1>6. \A j \in 1..k : values[j] = Item({Atom(call, 1, j)})
  OBVIOUS
<1> HIDE DEF values
<1>7. values \in Seq(Values) /\ (Len(g.sources) > 1 => Len(values) > 0)
  BY <1>1, <1>3 DEF Values
<1>8. SlicerPuts(e, n, values)
  BY <1>3, <1>4, <1>5, <1>6, <1>7 DEF SlicerPuts
<1> QED
  BY <1>7, <1>8

\* A call goes on with a step of its slicer.
LEMMA SlicerFlows ==
  ASSUME Types, NEW e \in Executors, Flowing(e), NEW n \in DOMAIN job[e].kinds,
         Slice(e, n) \/ (PassEos(e, n) /\ job[e].kinds[n] = "slicer"), ~Starved(e)'
  PROVE  Flowing(e)'
<1> DEFINE g == job[e]
           h == held[Service(g)]
           c == ContextOf(e)
           c2 == ContextOf(e)'
<1> PICK out, took, num : Going(e, out, took, num)
  BY DEF Flowing
<1>1. /\ WellFormed(g) /\ n \in Slicers(g) /\ Ready(e, n) /\ n \in Places(g) \ Randoms(g)
      /\ phase[e] = "running"
  BY GraphOf DEF Slice, PassEos, Fires, Slicers, OfKind, Places, Nodes, Randoms
<1>2. /\ job' = job /\ src' = src /\ snk' = snk /\ held' = held /\ given' = given
      /\ drawn' = drawn
  BY DEF Slice, PassEos
<1>3. \E values \in Seq(Values) : SlicerPuts(e, n, values)
  <2>1. CASE PassEos(e, n)
    <3>1. edge'[e] = Moved(e, n, <<Null>>) /\ Null \in Heads(e, n) /\ sliced' = sliced
      BY <2>1 DEF PassEos, Types
    <3>2. <<Null>> \in Seq(Values)
      BY DEF Values
    <3>3. ContextOf(e)' = ContextOf(e)
      BY <1>2, <3>1, ContextStays
    <3> QED
      BY <3>1, <3>2, <3>3 DEF SlicerPuts
  <2>2. CASE Slice(e, n)
    BY <2>2, SliceCuts
  <2> QED
    BY <2>1, <2>2
<1> PICK values \in Seq(Values) : SlicerPuts(e, n, values)
  BY <1>3
<1>4. /\ edge'[e] = Shift(g, edge[e], n, values)
      /\ Null \in Heads(e, n) <=> \E x \in Into(g, n) : Head(edge[e][x]) = Null
      /\ \A x \in Into(g, n) : edge[e][x] # <<>>
      /\ Heads(e, n) = Ports(g, edge[e], n)
  BY <1>1, MovedIsShift, HeadsAre DEF SlicerPuts
<1>5. IF \E x \in Into(g, n) : Head(edge[e][x]) = Null THEN values = <<Null>>
      ELSE values \in Seq(Items) /\ (Len(g.sources) > 1 => Len(values) > 0)
  BY <1>4 DEF SlicerPuts
<1>6. /\ Flow(g, edge[e], src[e], snk[e], h, out, took)
      /\ Made(g, c, src[e], snk[e], h, out, took, num)
  BY DEF Going
<1>7. Flow(g, Shift(g, edge[e], n, values), src[e], snk[e], h,
           Longer(out, n, values), Further(took, n))
  <2> HIDE DEF g, h
  <2> QED
    BY <1>1, <1>4, <1>5, <1>6, SlicerFlow
<1>8. c2.args = c.args /\ c2.call = c.call /\ c.call = Len(given[e])
  BY <1>2, ContextStays DEF ContextOf
<1>9. c.slices \in Nat
  <2>1. sliced[e] \in Seq(Nat) /\ Len(given[e]) \in 1..Len(sliced[e])
    <3>1. sliced[e] \in Seq(Nat)
      BY DEF Types, TypedExecutor
    <3>2. Len(given[e]) \in 1..MaxCalls[e] /\ Len(given[e]) = Len(sliced[e])
          /\ MaxCalls[e] \in Nat
      BY <1>1, CallInProgress, BoundOf
    <3> QED
      BY <3>1, <3>2
  <2>2. sliced[e][Len(given[e])] \in Nat
    BY <2>1, ElementOfSeq
  <2> QED
    BY <2>2 DEF ContextOf
<1>10. /\ Null \in Ports(g, edge[e], n) => values = <<Null>> /\ c2.slices = c.slices
       /\ Null \notin Ports(g, edge[e], n) =>
            /\ Len(values) = c2.slices
            /\ \A j \in 1..Len(values) : values[j] = Item({Atom(c.call, 1, j)})
  BY <1>4, <1>8 DEF SlicerPuts
<1>11. Made(g, c2, src[e], snk[e], h, Longer(out, n, values), Further(took, n), num)
  <2> HIDE DEF g, h, c, c2
  <2> QED
    BY <1>1, <1>4, <1>6, <1>8, <1>9, <1>10, SlicerMakes
<1> QED
  BY <1>1, <1>2, <1>4, <1>7, <1>11, GoesOnUndrawn

\* And with one of its clustering.
LEMMA ClusterFlows ==
  ASSUME Types, NEW e \in Executors, Flowing(e), NEW n \in DOMAIN job[e].kinds, Cluster(e, n)
  PROVE  Flowing(e)'
<1> DEFINE g == job[e]
           c == Service(g)
<1> PICK out, took, num : Going(e, out, took, num)
  BY DEF Flowing
<1>1. /\ WellFormed(g) /\ n \in Clusterings(g) /\ Ready(e, n) /\ IsGraph(g)
      /\ n \in Places(g) \ Randoms(g)
  BY GraphOf DEF Cluster, Fires, Clusterings, OfKind, WellFormed, Places, Nodes, Randoms
<1>2. \E y \in Into(g, n) : Into(g, n) = {y}
  BY <1>1 DEF IsGraph, Takers, Clusterings, OfKind
<1> PICK y \in Into(g, n) : Into(g, n) = {y}
  BY <1>2
<1> DEFINE v == Head(edge[e][y])
<1>3. Heads(e, n) = {v} /\ edge[e][y] # <<>>
  BY <1>1 DEF Heads, Ready, InEdges
<1>4. c \in Scopes /\ held[c] \subseteq Items
  BY GraphOf DEF Types, Shared, Scopes, Service
<1>5. \E values \in Seq(Values) :
        /\ edge'[e] = Moved(e, n, values)
        /\ v = Null => held'[c] = {} /\ values = IF held[c] = {} THEN <<Null>>
                                                 ELSE <<Merge(held[c]), Null>>
        /\ v # Null => values = <<>> /\ held'[c] = held[c] \cup {v}
  <2>1. CASE v = Null
    <3>1. Null \in Heads(e, n)
      BY <1>3, <2>1
    <3>2. /\ edge'[e] = Moved(e, n, IF held[c] = {} THEN <<Null>> ELSE <<Merge(held[c]), Null>>)
          /\ held'[c] = {}
      BY <1>4, <3>1 DEF Cluster, Types, Shared
    <3> DEFINE x == Merge(held[c])
    <3>3. x \in Values
      BY <1>4, MergeItems DEF Values
    <3> HIDE DEF x
    <3>4. (IF held[c] = {} THEN <<Null>> ELSE <<x, Null>>) \in Seq(Values)
      <4>1. Null \in Values
        BY DEF Values
      <4>2. <<Null>> \in Seq(Values) /\ <<x, Null>> \in Seq(Values)
        BY <3>3, <4>1
      <4> QED
        BY <4>2
    <3> QED
      BY <2>1, <3>2, <3>4 DEF x
  <2>2. CASE v # Null
    <3>1. Null \notin Heads(e, n)
      BY <1>3, <2>2
    <3>2. edge'[e] = Moved(e, n, <<>>) /\ held'[c] = held[c] \cup {v}
      BY <1>3, <1>4, <3>1 DEF Cluster, Types, Shared
    <3>3. <<>> \in Seq(Values)
      OBVIOUS
    <3> QED
      BY <2>2, <3>2, <3>3
  <2> QED
    BY <2>1, <2>2
<1> PICK values \in Seq(Values) :
        /\ edge'[e] = Moved(e, n, values)
        /\ v = Null => held'[c] = {} /\ values = IF held[c] = {} THEN <<Null>>
                                                 ELSE <<Merge(held[c]), Null>>
        /\ v # Null => values = <<>> /\ held'[c] = held[c] \cup {v}
  BY <1>5
<1>6. edge'[e] = Shift(g, edge[e], n, values)
  BY MovedIsShift
<1>7. /\ Flow(g, edge[e], src[e], snk[e], held[c], out, took)
      /\ Made(g, ContextOf(e), src[e], snk[e], held[c], out, took, num)
  BY DEF Going
<1>8. Flow(g, Shift(g, edge[e], n, values), src[e], snk[e], held'[c],
           Longer(out, n, values), Further(took, n))
  <2>1. IF v = Null
        THEN held'[c] = {} /\ \E x \in Values : values = IF held[c] = {} THEN <<Null>>
                                                          ELSE <<x, Null>>
        ELSE values = <<>> /\ \E new : new # {} /\ held'[c] = held[c] \cup new
    <3> DEFINE x == Merge(held[c])
    <3>1. x \in Values
      BY <1>4, MergeItems DEF Values
    <3>2. {v} # {}
      OBVIOUS
    <3>3. v = Null => values = IF held[c] = {} THEN <<Null>> ELSE <<x, Null>>
      OBVIOUS
    <3> HIDE DEF x, v
    <3> QED
      BY <3>1, <3>2, <3>3
  <2> HIDE DEF g, c
  <2> QED
    BY <1>1, <1>3, <1>7, <2>1, ClusterFlow
<1>9. Made(g, ContextOf(e), src[e], snk[e], held'[c],
           Longer(out, n, values), Further(took, n), num)
  <2> HIDE DEF g, c
  <2> QED
    BY <1>1, <1>3, <1>7, ClusterMakes
<1>10. /\ job' = job /\ src' = src /\ snk' = snk /\ given' = given /\ sliced' = sliced
       /\ drawn' = drawn
  BY DEF Cluster
<1>11. ContextOf(e)' = ContextOf(e)
  BY <1>10, ContextStays
<1> QED
  BY <1>1, <1>6, <1>8, <1>9, <1>10, <1>11, GoesOnUndrawn

\* And with one of its sink.
LEMMA SinkFlows ==
  ASSUME Types, NEW e \in Executors, Flowing(e), CallSink(e)
  PROVE  Flowing(e)'
<1> DEFINE g == job[e]
           h == held[Service(g)]
           c == ContextOf(e)
<1> PICK out, took, num : Going(e, out, took, num)
  BY DEF Flowing
<1>1. /\ WellFormed(g) /\ Ready(e, "snk") /\ edge[e] \in [g.edges -> Seq(Values)]
      /\ snk[e] \in Seq(Items) /\ IsGraph(g)
  BY GraphOf DEF CallSink, Types, TypedExecutor
<1>2. Heads(e, "snk") \subseteq Values
  BY <1>1, HeadsTypes
<1> PICK y \in Into(g, "snk") : snk'[e] = Accept(snk[e], Head(edge[e][y]))
  BY DEF CallSink, Types, Heads, InEdges
<1>3. Head(edge[e][y]) \in Values
  BY <1>2 DEF Heads, InEdges
<1>4. \A x \in Into(g, "snk") : edge[e][x] # <<>>
  BY <1>1, HeadsAre
<1>5. /\ Flow(g, edge[e], src[e], snk[e], h, out, took)
      /\ Made(g, c, src[e], snk[e], h, out, took, num)
  BY DEF Going
<1>6. Flow(g, Shift(g, edge[e], "snk", <<>>), src[e], Accept(snk[e], Head(edge[e][y])), h,
           Longer(out, "snk", <<>>), Further(took, "snk"))
  <2> HIDE DEF g, h
  <2> QED
    BY <1>1, <1>3, <1>4, <1>5, SinkFlow
<1>7. Made(g, c, src[e], Accept(snk[e], Head(edge[e][y])), h,
           Longer(out, "snk", <<>>), Further(took, "snk"), num)
  <2> HIDE DEF g, h, c
  <2> QED
    BY <1>1, <1>3, <1>4, <1>5, SinkMakes
<1>8. /\ job' = job /\ src' = src /\ held' = held /\ given' = given /\ sliced' = sliced
      /\ edge'[e] = Shift(g, edge[e], "snk", <<>>) /\ drawn' = drawn
  BY MovedIsShift DEF CallSink, Types
<1>9. ContextOf(e)' = c
  BY <1>8, ContextStays
<1>10. "snk" \in Places(g) \ Randoms(g)
  BY <1>1 DEF Places, Randoms, OfKind, IsGraph, Nodes
<1> DEFINE n == "snk"
           values == <<>>
<1>11. values \in Seq(Values) /\ n \in Places(job[e]) \ Randoms(job[e])
  BY <1>10
<1>12. Flow(job[e], edge'[e], src'[e], snk'[e], held'[Service(job[e])],
            Longer(out, n, values), Further(took, n))
  BY <1>6, <1>8
<1>13. Made(job[e], ContextOf(e)', src'[e], snk'[e], held'[Service(job[e])],
            Longer(out, n, values), Further(took, n), num)
  BY <1>7, <1>8, <1>9
<1> HIDE DEF n, values
<1> QED
  BY <1>8, <1>11, <1>12, <1>13, GoesOnUndrawn
-----------------------------------------------------------------------------
(* The end of a call.                                                      *)

\* The streams of a whole graph in which no node has work.
Over(g, k, c, out, took, num) ==
  /\ WellFormed(g) /\ Whole(g)
  /\ \E q, s, h : Flow(g, q, s, k, h, out, took) /\ Made(g, c, s, k, h, out, took, num)
  /\ \A x \in g.edges : took[x.head] = Len(out[x.tail])
  /\ \A z \in Slicers(g) : took[z] = 2
  /\ \A p \in Nodes(g) : Len(out[p]) > 0
  /\ k \in Seq(Items) /\ c.call \in Nat /\ c.slices \in Nat
  /\ \A i \in DOMAIN g.sources : c.args[i] \in {Item({Atom(c.call, i, 0)}), Null}

\* The j-th values that came into place n.
Row(g, out, n, j) == {out[x.tail][j] : x \in Into(g, n)}

\* What the nodes have put out.
LEMMA OverStreams ==
  ASSUME NEW g, NEW k, NEW c, NEW out, NEW took, NEW num, Over(g, k, c, out, took, num)
  PROVE  /\ WellFormed(g) /\ Whole(g) /\ SlicedOf(g) \subseteq DOMAIN g.kinds
         /\ \A x \in g.edges : took[x.head] = Len(out[x.tail])
         /\ IsGraph(g) /\ out \in [Places(g) -> Seq(Values)] /\ took \in [Places(g) -> Nat]
         /\ \A p \in Nodes(g) \ SlicedOf(g) : Pair(out[p])
         /\ \A p \in SlicedOf(g) : \A z \in Slicers(g) : SamePattern(out[p], out[z])
         /\ \A n \in Plain(g) : Len(out[n]) = took[n]
         /\ \A p \in Nodes(g) : out[p] \in Seq(Values) /\ Len(out[p]) \in Nat \ {0}
                                /\ 1 \in 1..Len(out[p]) /\ p \in Places(g)
<1> PICK q, s, h : Flow(g, q, s, k, h, out, took) /\ Made(g, c, s, k, h, out, took, num)
  BY DEF Over
<1>1. /\ IsGraph(g) /\ out \in [Places(g) -> Seq(Values)] /\ took \in [Places(g) -> Nat]
      /\ \A p \in Nodes(g) \ SlicedOf(g) : Pair(out[p])
      /\ \A p \in SlicedOf(g) : \A z \in Slicers(g) : SamePattern(out[p], out[z])
      /\ \A n \in Plain(g) : Len(out[n]) = took[n]
  BY Rates DEF Flow, Streams, Over
<1>2. ASSUME NEW p \in Nodes(g)
      PROVE  out[p] \in Seq(Values) /\ Len(out[p]) \in Nat \ {0} /\ 1 \in 1..Len(out[p])
             /\ p \in Places(g)
  <2>1. p \in Places(g) /\ out[p] \in Seq(Values)
    BY <1>1 DEF Places
  <2>2. Len(out[p]) \in Nat /\ Len(out[p]) > 0
    BY <2>1, LenProperties DEF Over
  <2> QED
    BY <2>1, <2>2
<1>3. /\ WellFormed(g) /\ Whole(g) /\ SlicedOf(g) \subseteq DOMAIN g.kinds
      /\ \A x \in g.edges : took[x.head] = Len(out[x.tail])
  BY Rates DEF Over
<1> QED
  BY <1>1, <1>2, <1>3

\* What came into them, row by row.
LEMMA OverRows ==
  ASSUME NEW g, NEW k, NEW c, NEW out, NEW took, NEW num, Over(g, k, c, out, took, num),
         NEW n \in Takers(g)
  PROVE  /\ Into(g, n) # {} /\ took[n] \in Nat \ {0} /\ 1 \in 1..took[n]
         /\ \A x \in Into(g, n) : /\ x \in g.edges /\ x.head = n /\ x.tail \in Nodes(g)
                                  /\ Len(out[x.tail]) = took[n]
         /\ DOMAIN Taken(g, out, took, n) = 1..took[n]
         /\ \A j \in 1..took[n] :
              /\ Taken(g, out, took, n)[j] = Row(g, out, n, j)
              /\ Row(g, out, n, j) \subseteq Values /\ Row(g, out, n, j) # {}
<1>1. /\ Into(g, n) # {}
      /\ \A x \in Into(g, n) : /\ x \in g.edges /\ x.head = n /\ x.tail \in Nodes(g)
                               /\ Len(out[x.tail]) = took[n]
  <2>1. IsGraph(g) /\ \A x \in g.edges : took[x.head] = Len(out[x.tail])
    BY OverStreams
  <2>2. \A x \in Into(g, n) : x \in g.edges /\ x.head = n
    BY DEF Into
  <2>3. Into(g, n) # {} /\ \A x \in g.edges : x.tail \in Nodes(g)
    BY <2>1 DEF IsGraph
  <2> QED
    BY <2>1, <2>2, <2>3
<1>2. \A x \in Into(g, n) : out[x.tail] \in Seq(Values) /\ Len(out[x.tail]) \in Nat \ {0}
  BY <1>1, OverStreams
<1>3. took[n] \in Nat \ {0} /\ 1 \in 1..took[n]
  <2>1. took[n] \in Nat \ {0}
    BY <1>1, <1>2
  <2> QED
    BY <2>1
<1>4. DOMAIN Taken(g, out, took, n) = 1..took[n]
      /\ \A j \in 1..took[n] : Taken(g, out, took, n)[j] = Row(g, out, n, j)
  BY DEF Taken, Row
<1>5. ASSUME NEW j \in 1..took[n]
      PROVE  Row(g, out, n, j) \subseteq Values /\ Row(g, out, n, j) # {}
  <2>1. ASSUME NEW x \in Into(g, n) PROVE out[x.tail][j] \in Values
    <3>1. j \in 1..Len(out[x.tail]) /\ out[x.tail] \in Seq(Values)
      BY <1>1, <1>2
    <3> QED
      BY <3>1, ElementOfSeq
  <2> QED
    BY <1>1, <2>1 DEF Row
<1> QED
  BY <1>1, <1>3, <1>4, <1>5

\* The first value of a source is its argument.
LEMMA SourceOver ==
  ASSUME NEW g, NEW k, NEW c, NEW out, NEW took, NEW num, Over(g, k, c, out, took, num),
         NEW i \in DOMAIN g.sources
  PROVE  /\ g.sources[i] \in Nodes(g) \ DOMAIN g.kinds /\ g.sources[i] \notin SlicedOf(g)
         /\ Pair(out[g.sources[i]]) /\ out[g.sources[i]][1] = c.args[i]
<1> PICK q, s, h : Flow(g, q, s, k, h, out, took) /\ Made(g, c, s, k, h, out, took, num)
  BY DEF Over
<1>1. g.sources[i] \in Nodes(g) \ DOMAIN g.kinds /\ g.sources[i] \notin SlicedOf(g)
  <2>1. IsGraph(g) /\ SlicedOf(g) \subseteq DOMAIN g.kinds
    BY OverStreams
  <2>2. g.sources[i] \in SourceNames(g)
    BY DEF SourceNames
  <2> QED
    BY <2>1, <2>2 DEF IsGraph, Nodes
<1>2. MadeAt(g, c, s, k, h, out, took, num, g.sources[i])
  BY <1>1, OverStreams DEF Made
<1>3. SourceMade(s[i], c.args[i], out[g.sources[i]])
  BY <1>2 DEF MadeAt
<1>4. Len(out[g.sources[i]]) > 0
  BY <1>1 DEF Over
<1> QED
  BY <1>1, <1>3, <1>4, OverStreams DEF SourceMade

\* A node without memory makes one value of every row.
PlainRows(g, out, num, n) ==
  /\ n \notin Randoms(g) =>
       \A j \in 1..Len(out[n]) : out[n][j] = OneForOne(Row(g, out, n, j))
  /\ n \in Randoms(g) =>
       /\ out[n][1] = Null <=> Null \in Row(g, out, n, 1)
       /\ Null \notin Row(g, out, n, 1) =>
            out[n][1] = Merge(Row(g, out, n, 1) \cup {Draw(n, num[n])})

\* This is what such a node has made at the end.
LEMMA PlainOver ==
  ASSUME NEW g, NEW k, NEW c, NEW out, NEW took, NEW num, Over(g, k, c, out, took, num),
         NEW n \in Plain(g)
  PROVE  /\ n \in Takers(g) /\ n \in Nodes(g) /\ Len(out[n]) = took[n]
         /\ PlainRows(g, out, num, n)
<1> PICK q, s, h : Flow(g, q, s, k, h, out, took) /\ Made(g, c, s, k, h, out, took, num)
  BY DEF Over
<1>1. n \in Takers(g) /\ n \in Nodes(g) /\ n \in Places(g)
  BY DEF Plain, Takers, Nodes, Places
<1>2. Len(out[n]) = took[n]
  BY OverStreams
<1> DEFINE t == Taken(g, out, took, n)
<1>3. /\ DOMAIN t = 1..took[n] /\ 1 \in 1..took[n]
      /\ \A j \in 1..took[n] : t[j] = Row(g, out, n, j)
  BY <1>1, OverRows
<1>4. MadeAt(g, c, s, k, h, out, took, num, n)
  BY <1>1 DEF Made
<1> HIDE DEF t
<1>5. n \notin Randoms(g) => PlainMade(t, out[n])
  BY <1>4 DEF MadeAt, t
<1>6. n \in Randoms(g) => RandomMade(t, out[n], Draw(n, num[n]))
  BY <1>4 DEF MadeAt, t
<1>7. n \notin Randoms(g) => \A j \in 1..took[n] : out[n][j] = OneForOne(Row(g, out, n, j))
  BY <1>3, <1>5 DEF PlainMade
<1>8. n \in Randoms(g) =>
        /\ out[n][1] = Null <=> Null \in Row(g, out, n, 1)
        /\ Null \notin Row(g, out, n, 1) =>
             out[n][1] = Merge(Row(g, out, n, 1) \cup {Draw(n, num[n])})
  BY <1>3, <1>6 DEF RandomMade
<1> QED
  BY <1>1, <1>2, <1>7, <1>8 DEF PlainRows

\* A slicer puts out the slices of the first frame.
SlicerRows(g, c, out, n) ==
  /\ Null \in Row(g, out, n, 1) => out[n][1] = Null
  /\ Null \notin Row(g, out, n, 1) =>
       /\ c.slices <= Len(out[n])
       /\ \A j \in 1..Len(out[n]) :
            out[n][j] = IF j <= c.slices THEN Item({Atom(c.call, 1, j)}) ELSE Null

\* This is what the slicer has made at the end.
LEMMA SlicerOver ==
  ASSUME NEW g, NEW k, NEW c, NEW out, NEW took, NEW num, Over(g, k, c, out, took, num),
         NEW n \in Slicers(g)
  PROVE  n \in Takers(g) /\ n \in Nodes(g) /\ SlicerRows(g, c, out, n)
<1> PICK q, s, h : Flow(g, q, s, k, h, out, took) /\ Made(g, c, s, k, h, out, took, num)
  BY DEF Over
<1>1. n \in Takers(g) /\ n \in Nodes(g) /\ n \in Places(g)
  BY DEF Slicers, OfKind, Takers, Nodes, Places
<1> DEFINE t == Taken(g, out, took, n)
<1>2. 1 \in DOMAIN t /\ t[1] = Row(g, out, n, 1)
  BY <1>1, OverRows
<1>3. MadeAt(g, c, s, k, h, out, took, num, n)
  BY <1>1 DEF Made
<1> HIDE DEF t
<1>4. SlicerMade(t, out[n], c.call, c.slices)
  BY <1>3 DEF MadeAt, t
<1> QED
  BY <1>1, <1>2, <1>4 DEF SlicerMade, SlicerRows

\* Clustering makes one item of all that it took.
AllRows(g, out, took, n) == (UNION {Row(g, out, n, j) : j \in 1..took[n]}) \ {Null}

\* This is what clustering has made at the end.
LEMMA ClusterOver ==
  ASSUME NEW g, NEW k, NEW c, NEW out, NEW took, NEW num, Over(g, k, c, out, took, num),
         NEW n \in Clusterings(g)
  PROVE  /\ n \in Takers(g) /\ n \in Nodes(g)
         /\ out[n][1] = IF Null \in Row(g, out, n, 1) THEN Null
                        ELSE Merge(AllRows(g, out, took, n))
<1> PICK q, s, h : Flow(g, q, s, k, h, out, took) /\ Made(g, c, s, k, h, out, took, num)
  BY DEF Over
<1>1. n \in Takers(g) /\ n \in Nodes(g) /\ n \in Places(g)
  BY DEF Clusterings, OfKind, Takers, Nodes, Places
<1> DEFINE t == Taken(g, out, took, n)
<1>2. /\ DOMAIN t = 1..took[n] /\ 1 \in 1..took[n]
      /\ \A j \in 1..took[n] : t[j] = Row(g, out, n, j)
  BY <1>1, OverRows
<1>3. MadeAt(g, c, s, k, h, out, took, num, n)
  BY <1>1 DEF Made
<1> HIDE DEF t
<1>4. ClusterMade(t, out[n], h)
  BY <1>3 DEF MadeAt, t
<1>5. Len(out[n]) > 0
  BY <1>1 DEF Over
<1>6. AllOf(t) \ {Null} = AllRows(g, out, took, n)
  BY <1>2 DEF AllOf, AllRows
<1>7. out[n][1] = IF Null \in t[1] THEN Null ELSE Merge(AllOf(t) \ {Null})
  BY <1>4, <1>5 DEF ClusterMade
<1> QED
  BY <1>1, <1>2, <1>6, <1>7

\* The sink has all that came before the end of the stream.
SinkRows(k, o) ==
  /\ Len(k) \in Nat /\ Len(k) <= Len(o)
  /\ \A j \in 1..Len(k) : o[j] = k[j] /\ k[j] # Null
  /\ Len(k) + 1 <= Len(o) => o[Len(k) + 1] = Null

\* This is what the sink has at the end.
LEMMA SinkOver ==
  ASSUME NEW g, NEW k, NEW c, NEW out, NEW took, NEW num, Over(g, k, c, out, took, num),
         NEW y \in Into(g, "snk")
  PROVE  /\ Into(g, "snk") = {y} /\ y \in g.edges /\ y.tail \in Nodes(g)
         /\ SinkRows(k, out[y.tail])
<1> PICK q, s, h : Flow(g, q, s, k, h, out, took) /\ Made(g, c, s, k, h, out, took, num)
  BY DEF Over
<1> DEFINE n == "snk"
<1>0. n \in Takers(g) /\ n \in Places(g) /\ n = "snk"
  BY DEF Takers, Places
<1>1. Into(g, n) = {y}
  BY OverStreams, <1>0 DEF IsGraph, OfKind, Nodes
<1> DEFINE t == Taken(g, out, took, n)
           o == out[y.tail]
<1>2. /\ DOMAIN t = 1..took[n] /\ took[n] \in Nat /\ Len(o) = took[n]
      /\ \A j \in 1..took[n] : t[j] = Row(g, out, n, j)
      /\ y \in g.edges /\ y.tail \in Nodes(g)
  BY <1>0, OverRows
<1>3. \A j : Row(g, out, n, j) = {o[j]}
  BY <1>1 DEF Row
<1>4. MadeAt(g, c, s, k, h, out, took, num, n)
  BY <1>0 DEF Made
<1> HIDE DEF t, o, n
<1>5. SinkMade(t, k)
  BY <1>0, <1>4 DEF MadeAt, t
<1>6. k \in Seq(Items) /\ Len(k) \in Nat
  BY LenProperties DEF Over
<1>7. \A j \in 1..Len(k) : k[j] # Null
  BY <1>6, ElementOfSeq, IslandsAssumption
<1>8. \A j \in 1..Len(k) : j \in 1..took[n] /\ t[j] = {k[j]}
  BY <1>2, <1>5 DEF SinkMade
<1>9. ASSUME NEW j \in 1..Len(k) PROVE o[j] = k[j]
  <2>1. {o[j]} = {k[j]}
    BY <1>2, <1>3, <1>8
  <2> QED
    BY <2>1
<1>10. Len(k) <= Len(o)
  <2>1. CASE Len(k) = 0
    BY <1>2, <2>1
  <2>2. CASE Len(k) # 0
    <3>1. Len(k) \in 1..Len(k)
      BY <1>6, <2>2
    <3>2. Len(k) \in 1..took[n]
      BY <1>8, <3>1
    <3> QED
      BY <1>2, <3>2
  <2> QED
    BY <2>1, <2>2
<1>11. ASSUME Len(k) + 1 <= Len(o) PROVE o[Len(k) + 1] = Null
  <2>1. Len(k) + 1 \in 1..took[n]
    BY <1>2, <1>6, <1>11
  <2>2. Null \in t[Len(k) + 1]
    BY <1>2, <1>5, <2>1 DEF SinkMade
  <2>3. t[Len(k) + 1] = {o[Len(k) + 1]}
    BY <1>2, <1>3, <2>1
  <2> QED
    BY <2>2, <2>3
<1> QED
  BY <1>0, <1>1, <1>2, <1>6, <1>7, <1>9, <1>10, <1>11 DEF o, SinkRows

-----------------------------------------------------------------------------
(* What comes out.                                                         *)

\* What every node passes on comes to the sink.
LEMMA LeadsOut ==
  ASSUME NEW g, Whole(g), NEW b \in SUBSET Nodes(g), b # {},
         \A x \in g.edges : x.tail \in b /\ x.head # "snk" => x.head \in b
  PROVE  \E y \in Into(g, "snk") : y.tail \in b
<1>1. \E x \in g.edges : x.tail \in b /\ x.head \notin b
  BY DEF Whole
<1> QED
  BY <1>1 DEF Into

\* What no node is the first to have none has.
LEMMA NoneFirst ==
  ASSUME NEW g, IsGraph(g), NEW b \in SUBSET DOMAIN g.kinds,
         \A n \in b : \E x \in Into(g, n) : x.tail \in b
  PROVE  b = {}
  BY DEF IsGraph

\* A null first value comes to the sink from everywhere.
LEMMA NullPasses ==
  ASSUME NEW g, NEW k, NEW c, NEW out, NEW took, NEW num, Over(g, k, c, out, took, num),
         NEW p \in Nodes(g), out[p][1] = Null
  PROVE  k = <<>>
<1> DEFINE b == {n \in Nodes(g) : out[n][1] = Null}
<1>1. IsGraph(g) /\ Whole(g)
  BY OverStreams
<1>2. ASSUME NEW x \in g.edges, x.tail \in b, x.head # "snk" PROVE x.head \in b
  <2> DEFINE n == x.head
  <2>1. n \in DOMAIN g.kinds /\ n \in Nodes(g) /\ x \in Into(g, n)
    BY <1>1, <1>2 DEF IsGraph, Takers, Nodes, Into
  <2>2. Null \in Row(g, out, n, 1)
    BY <1>2, <2>1 DEF Row
  <2> HIDE DEF n
  <2>3. ASSUME n \in Slicers(g) PROVE out[n][1] = Null
    <3>1. SlicerRows(g, c, out, n)
      BY <2>3, SlicerOver
    <3> QED
      BY <2>2, <3>1 DEF SlicerRows
  <2>4. ASSUME n \in Clusterings(g) PROVE out[n][1] = Null
    BY <2>2, <2>4, ClusterOver
  <2>5. ASSUME n \in Plain(g) PROVE out[n][1] = Null
    <3>1. n \in Takers(g)
      BY <2>1 DEF Takers
    <3>2. 1 \in 1..Len(out[n])
      BY <2>1, OverStreams
    <3>5. PlainRows(g, out, num, n)
      BY <2>5, PlainOver
    <3>3. n \notin Randoms(g) => out[n][1] = OneForOne(Row(g, out, n, 1))
      BY <3>2, <3>5 DEF PlainRows
    <3>4. n \in Randoms(g) => out[n][1] = Null
      BY <2>2, <3>5 DEF PlainRows
    <3> QED
      BY <2>2, <3>3, <3>4 DEF OneForOne
  <2>6. n \in Slicers(g) \/ n \in Clusterings(g) \/ n \in Plain(g)
    BY <2>1 DEF Plain
  <2>7. n \in b
    BY <2>1, <2>3, <2>4, <2>5, <2>6
  <2> QED
    BY <2>7 DEF n
<1>3. b # {} /\ b \subseteq Nodes(g)
  OBVIOUS
<1>4. \E y \in Into(g, "snk") : y.tail \in b
  <2> HIDE DEF b
  <2> QED
    BY <1>1, <1>2, <1>3, LeadsOut
<1> PICK y \in Into(g, "snk") : y.tail \in b
  BY <1>4
<1>5. /\ Len(k) \in Nat
      /\ \A j \in 1..Len(k) : out[y.tail][j] = k[j] /\ k[j] # Null
  BY SinkOver DEF SinkRows
<1>6. Len(k) = 0
  <2> SUFFICES ASSUME Len(k) # 0 PROVE FALSE
    OBVIOUS
  <2>1. 1 \in 1..Len(k)
    BY <1>5
  <2> QED
    BY <1>5, <2>1
<1>7. k \in Seq(Items)
  BY DEF Over
<1> QED
  BY <1>6, <1>7, EmptySeq

\* If an argument is null, or there is no slice, nothing comes out.
LEMMA NothingOut ==
  ASSUME NEW g, NEW k, NEW c, NEW out, NEW took, NEW num, Over(g, k, c, out, took, num),
         (\E i \in DOMAIN g.sources : c.args[i] = Null) \/ (Slicers(g) # {} /\ c.slices = 0)
  PROVE  k = <<>>
<1>1. CASE \E i \in DOMAIN g.sources : c.args[i] = Null
  <2> PICK i \in DOMAIN g.sources : c.args[i] = Null
    BY <1>1
  <2>1. g.sources[i] \in Nodes(g) /\ out[g.sources[i]][1] = Null
    BY SourceOver
  <2> DEFINE p == g.sources[i]
  <2> HIDE DEF p
  <2>2. p \in Nodes(g) /\ out[p][1] = Null
    BY <2>1 DEF p
  <2> QED
    BY <2>2, NullPasses
<1>2. CASE Slicers(g) # {} /\ c.slices = 0
  <2> PICK z \in Slicers(g) : TRUE
    BY <1>2
  <2>1. z \in Nodes(g)
    BY SlicerOver
  <2>2. 1 \in 1..Len(out[z])
    BY <2>1, OverStreams
  <2>3. out[z][1] = Null
    <3>1. CASE Null \in Row(g, out, z, 1)
      BY <3>1, SlicerOver DEF SlicerRows
    <3>2. CASE Null \notin Row(g, out, z, 1)
      <4>1. out[z][1] = IF 1 <= c.slices THEN Item({Atom(c.call, 1, 1)}) ELSE Null
        <5>1. SlicerRows(g, c, out, z)
          BY SlicerOver
        <5> QED
          BY <2>2, <3>2, <5>1 DEF SlicerRows
      <4> QED
        BY <1>2, <4>1
    <3> QED
      BY <3>1, <3>2
  <2> QED
    BY <2>1, <2>3, NullPasses
<1> QED
  BY <1>1, <1>2

\* Otherwise every node has a first value.
LEMMA FirstValues ==
  ASSUME NEW g, NEW k, NEW c, NEW out, NEW took, NEW num, Over(g, k, c, out, took, num),
         \A i \in DOMAIN g.sources : c.args[i] # Null, Slicers(g) # {} => c.slices # 0,
         NEW p \in Nodes(g)
  PROVE  out[p][1] \in Items /\ out[p][1] # Null
<1> DEFINE b == {n \in DOMAIN g.kinds : out[n][1] = Null}
<1>1. IsGraph(g)
  BY OverStreams
<1>2. \A i \in DOMAIN g.sources : out[g.sources[i]][1] # Null
  BY SourceOver
<1>3. ASSUME NEW n \in b, \A x \in Into(g, n) : x.tail \notin b PROVE FALSE
  <2>1. n \in DOMAIN g.kinds /\ n \in Takers(g) /\ out[n][1] = Null /\ n \in Nodes(g)
    BY DEF Takers, Nodes
  <2>2. Null \notin Row(g, out, n, 1)
    <3>1. ASSUME NEW x \in Into(g, n) PROVE out[x.tail][1] # Null
      <4>1. x.tail \in Nodes(g) /\ x.tail \notin b
        BY <1>3, <2>1, OverRows
      <4>2. CASE x.tail \in DOMAIN g.kinds
        BY <4>1, <4>2
      <4>3. CASE x.tail \in SourceNames(g)
        BY <1>2, <4>3 DEF SourceNames
      <4> QED
        BY <4>1, <4>2, <4>3 DEF Nodes
    <3> QED
      BY <3>1 DEF Row
  <2> HIDE DEF b
  <2>3. 1 \in 1..took[n] /\ 1 \in 1..Len(out[n])
    BY <2>1, OverRows, OverStreams
  <2>4. CASE n \in Slicers(g)
    <3>1. c.slices \in Nat /\ c.slices # 0 /\ c.call \in Nat
      BY <2>4 DEF Over
    <3>2. out[n][1] = IF 1 <= c.slices THEN Item({Atom(c.call, 1, 1)}) ELSE Null
      <4>1. SlicerRows(g, c, out, n)
        BY <2>4, SlicerOver
      <4> QED
        BY <2>2, <2>3, <4>1 DEF SlicerRows
    <3>3. out[n][1] = Item({Atom(c.call, 1, 1)})
      BY <3>1, <3>2
    <3>4. out[n][1] \in Items
      BY <3>1, <3>3, AtomItem
    <3> QED
      BY <2>1, <3>4, IslandsAssumption
  <2>5. CASE n \in Clusterings(g)
    <3> DEFINE all == AllRows(g, out, took, n)
    <3>1. all \subseteq Items
      BY <2>1, OverRows DEF Values, AllRows
    <3>2. out[n][1] = Merge(all)
      BY <2>2, <2>5, ClusterOver
    <3> HIDE DEF all
    <3>3. out[n][1] \in Items
      BY <3>1, <3>2, MergeItems
    <3> QED
      BY <2>1, <3>3, IslandsAssumption
  <2>6. CASE n \in Plain(g) /\ n \in Randoms(g)
    BY <2>1, <2>2, <2>6, PlainOver DEF PlainRows
  <2>7. CASE n \in Plain(g) /\ n \notin Randoms(g)
    <3>1. out[n][1] = OneForOne(Row(g, out, n, 1))
      <4>1. PlainRows(g, out, num, n)
        BY <2>7, PlainOver
      <4> QED
        BY <2>3, <2>7, <4>1 DEF PlainRows
    <3>2. Row(g, out, n, 1) \subseteq Values
      BY <2>1, <2>3, OverRows
    <3> QED
      BY <2>1, <2>2, <3>1, <3>2, OneForOneValue
  <2> QED
    BY <2>1, <2>4, <2>5, <2>6, <2>7 DEF Plain
<1>4. b = {}
  <2>1. b \subseteq DOMAIN g.kinds
    OBVIOUS
  <2> HIDE DEF b
  <2> QED
    BY <1>1, <1>3, <2>1, NoneFirst
<1>5. out[p][1] # Null
  BY <1>2, <1>4 DEF Nodes, SourceNames
<1>6. out[p][1] \in Values
  BY OverStreams, ElementOfSeq
<1> QED
  BY <1>5, <1>6 DEF Values

\* What the nodes behind the slicer make of a slice is the slice.
LEMMA MergeOfOne ==
  ASSUME NEW a
  PROVE  Merge({Item({a})}) = Item({a})
<1>1. UNION {x.parts : x \in {Item({a})}} = {a} /\ UNION {x.draws : x \in {Item({a})}} = {}
  BY DEF Item
<1> QED
  BY <1>1 DEF Merge, Item

\* The j-th value of a stream is the j-th slice of the call's frame.
SliceAt(c, o, j) == j \in 1..Len(o) /\ o[j] = Item({Atom(c.call, 1, j)})

\* On a collecting graph all that comes out of the nodes behind the slicer are the slices.
LEMMA SlicesPass ==
  ASSUME NEW g, NEW k, NEW c, NEW out, NEW took, NEW num, Over(g, k, c, out, took, num),
         \A i \in DOMAIN g.sources : c.args[i] # Null, Slicers(g) # {}, c.slices # 0,
         Clusterings(g) = {}, NEW p \in SlicedOf(g), NEW j \in 1..c.slices
  PROVE  SliceAt(c, out[p], j)
<1> DEFINE v == Item({Atom(c.call, 1, j)})
           b == {n \in SlicedOf(g) : ~(j \in 1..Len(out[n]) /\ out[n][j] = v)}
<1>0. Whole(g) /\ c.slices \in Nat
  BY DEF Over
<1>1. /\ IsGraph(g) /\ WellFormed(g) /\ Whole(g) /\ SlicedOf(g) \subseteq DOMAIN g.kinds
      /\ c.slices \in Nat /\ Randoms(g) = {}
  <2>1. Randoms(g) = {}
    BY <1>0 DEF Whole
  <2> QED
    BY <1>0, <2>1, OverStreams
<1> PICK d : Rated(g, SlicedOf(g), d)
  BY <1>1, Rates
<1> HIDE DEF v
<1>2. ASSUME NEW n \in b, \A x \in Into(g, n) : x.tail \notin b PROVE FALSE
  <2>1. n \in SlicedOf(g) /\ n \in DOMAIN g.kinds /\ n \in Nodes(g) /\ n \in Takers(g)
        /\ Len(out[n]) \in Nat
    BY <1>1, OverStreams DEF Nodes, Takers
  <2>2. ~(j \in 1..Len(out[n]) /\ out[n][j] = v)
    OBVIOUS
  <2>3. ASSUME n \in Slicers(g) PROVE FALSE
    <3>1. SlicerRows(g, c, out, n)
      BY <2>3, SlicerOver
    <3>2. out[n][1] # Null
      BY <2>1, FirstValues
    <3>3. c.slices <= Len(out[n])
      BY <3>1, <3>2 DEF SlicerRows
    <3>4. j \in 1..Len(out[n]) /\ j <= c.slices
      BY <1>1, <2>1, <3>3
    <3>5. out[n][j] = v
      BY <3>1, <3>2, <3>4 DEF SlicerRows, v
    <3> QED
      BY <2>2, <3>4, <3>5
  <2>4. ASSUME n \notin Slicers(g) PROVE FALSE
    <3>1. n \in Plain(g) /\ n \notin Randoms(g)
      BY <1>1, <2>1, <2>4 DEF Plain
    <3>2. \A x \in Into(g, n) : x.tail \in SlicedOf(g)
      BY <2>1, <3>1 DEF Rated, Plain
    <3>3. \A x \in Into(g, n) : j \in 1..Len(out[x.tail]) /\ out[x.tail][j] = v
      BY <1>2, <3>2
    <3>4. Into(g, n) # {} /\ Len(out[n]) = took[n]
          /\ \A x \in Into(g, n) : Len(out[x.tail]) = took[n]
      BY <2>1, <3>1, OverRows, PlainOver
    <3>5. j \in 1..Len(out[n])
      BY <3>3, <3>4
    <3>6. Row(g, out, n, j) = {v}
      BY <3>3, <3>4 DEF Row
    <3>7. PlainRows(g, out, num, n)
      BY <3>1, PlainOver
    <3>8. out[n][j] = OneForOne({v})
      BY <3>1, <3>5, <3>6, <3>7 DEF PlainRows
    <3>9. v \in Items /\ v # Null
      <4>1. c.call \in Nat /\ j \in Nat
        BY <1>1 DEF Over
      <4>2. v \in Items
        BY <4>1, AtomItem DEF v
      <4> QED
        BY <4>2, IslandsAssumption
    <3>10. Merge({v}) = v
      BY MergeOfOne DEF v
    <3>11. out[n][j] = v
      BY <3>8, <3>9, <3>10 DEF OneForOne
    <3> QED
      BY <2>2, <3>5, <3>11
  <2> QED
    BY <2>3, <2>4
<1>3. b \subseteq DOMAIN g.kinds
  BY <1>1
<1>4. b = {}
  <2> HIDE DEF b
  <2> QED
    BY <1>1, <1>2, <1>3, NoneFirst
<1> QED
  BY <1>4 DEF v, SliceAt

\* A node that collects has collected the slices, all of them and in their order.
LEMMA SlicesCollected ==
  ASSUME NEW g, NEW k, NEW c, NEW out, NEW took, NEW num, Over(g, k, c, out, took, num),
         \A i \in DOMAIN g.sources : c.args[i] # Null, Slicers(g) # {}, c.slices # 0,
         Clusterings(g) = {}
  PROVE  k = [s \in 1..c.slices |-> Item({Atom(c.call, 1, s)})]
<1>1. /\ IsGraph(g) /\ WellFormed(g) /\ Whole(g) /\ SlicedOf(g) \subseteq DOMAIN g.kinds
      /\ c.slices \in Nat \ {0} /\ k \in Seq(Items) /\ c.call \in Nat
  <2>1. c.slices \in Nat /\ k \in Seq(Items) /\ c.call \in Nat
    BY DEF Over
  <2> QED
    BY <2>1, OverStreams
<1> PICK d : Rated(g, SlicedOf(g), d)
  BY <1>1, Rates
<1> PICK z \in Slicers(g) : TRUE
  OBVIOUS
<1>2. z \in SlicedOf(g)
  BY DEF Rated
<1>3. ASSUME NEW x \in g.edges, x.tail \in SlicedOf(g), x.head # "snk"
      PROVE  x.head \in SlicedOf(g)
  <2>1. x.head \in DOMAIN g.kinds /\ x \in Into(g, x.head)
    BY <1>1, <1>3 DEF IsGraph, Takers, Into
  <2> QED
    BY <1>3, <2>1 DEF Rated
<1>4. SlicedOf(g) \subseteq Nodes(g) /\ SlicedOf(g) # {}
  BY <1>1, <1>2 DEF Nodes
<1>5. \E y \in Into(g, "snk") : y.tail \in SlicedOf(g)
  BY <1>1, <1>3, <1>4, LeadsOut
<1> PICK y \in Into(g, "snk") : y.tail \in SlicedOf(g)
  BY <1>5
<1> DEFINE o == out[y.tail]
           v(j) == Item({Atom(c.call, 1, j)})
<1>6. \A j \in 1..c.slices : j \in 1..Len(o) /\ o[j] = v(j)
  <2>1. \A j \in 1..c.slices : SliceAt(c, out[y.tail], j)
    BY SlicesPass
  <2> QED
    BY <2>1 DEF SliceAt
<1>7. SinkRows(k, o) /\ SamePattern(o, out[z])
  BY SinkOver, OverStreams
<1>8. SlicerRows(g, c, out, z) /\ out[z][1] # Null
  BY <1>4, <1>2, FirstValues, SlicerOver
<1>9. y.tail \in Nodes(g) /\ z \in Nodes(g)
  BY <1>2, <1>4
<1>10. Len(o) \in Nat /\ Len(out[z]) \in Nat
  BY <1>9, OverStreams
<1>15. \A j \in 1..c.slices : v(j) # Null
  <2>1. \A j \in 1..c.slices : v(j) \in Items
    BY <1>1, AtomItem
  <2> QED
    BY <2>1, IslandsAssumption
<1> HIDE DEF o, v
<1>11. Len(k) = c.slices
  <2>1. Len(k) \in Nat /\ Len(k) <= Len(o)
    BY <1>7 DEF SinkRows
  <2>2. ASSUME Len(k) > c.slices PROVE FALSE
    <3> DEFINE l == c.slices + 1
    <3>1. l \in 1..Len(k) /\ l \in 1..Len(o)
      BY <1>1, <1>10, <2>1, <2>2
    <3>2. k[l] # Null /\ o[l] # Null
      BY <1>7, <3>1 DEF SinkRows
    <3>3. l \in 1..Len(out[z]) /\ out[z][l] # Null
      <4>1. Len(o) <= Len(out[z])
        BY <1>7 DEF SamePattern
      <4>2. l \in 1..Len(out[z])
        BY <1>10, <3>1, <4>1
      <4> HIDE DEF l
      <4> QED
        BY <1>7, <3>1, <3>2, <4>2 DEF SamePattern
    <3>4. ~(l <= c.slices)
      BY <1>1
    <3> HIDE DEF l
    <3>5. out[z][l] = Null
      BY <1>8, <3>3, <3>4 DEF SlicerRows
    <3> QED
      BY <3>3, <3>5
  <2>3. ASSUME Len(k) < c.slices PROVE FALSE
    <3> DEFINE l == Len(k) + 1
    <3>1. l \in 1..c.slices
      BY <1>1, <2>1, <2>3
    <3>2. l \in 1..Len(o) /\ o[l] # Null
      BY <1>6, <1>15, <3>1
    <3>3. Len(k) + 1 <= Len(o)
      BY <1>10, <3>2
    <3> QED
      BY <1>7, <3>2, <3>3 DEF SinkRows
  <2> QED
    BY <1>1, <2>1, <2>2, <2>3
<1>12. \A j \in 1..c.slices : k[j] = v(j)
  BY <1>6, <1>7, <1>11 DEF SinkRows
<1>13. k = [j \in 1..Len(k) |-> k[j]]
  BY <1>1, SeqDef
<1>14. k = [j \in 1..c.slices |-> v(j)]
  BY <1>11, <1>12, <1>13
<1> QED
  BY <1>14 DEF v

\* What an item was made of: random numbers or atoms.
Of(v, numbers) == IF numbers THEN v.draws ELSE v.parts

\* What the one result of a call has to be made of.
PartsOf(g, c) ==
  {Atom(c.call, i, 0) : i \in (IF Slicers(g) = {} THEN 1 ELSE 2)..Len(g.sources)}
  \cup (IF Slicers(g) = {} THEN {} ELSE {Atom(c.call, 1, s) : s \in 1..c.slices})

\* The numbers drawn, each with its node.
DrawsOf(g, num) == {<<n, num[n]>> : n \in Randoms(g)}

\* Either.
All(g, c, num, numbers) == IF numbers THEN DrawsOf(g, num) ELSE PartsOf(g, c)

\* A call that has all arguments, and slices if it slices.
Filled(g, c) ==
  /\ \A i \in DOMAIN g.sources : c.args[i] # Null
  /\ Slicers(g) # {} => c.slices # 0

\* A value made of nothing else.
MadeOf(g, c, num, v) == \A d \in BOOLEAN : Of(v, d) \subseteq All(g, c, num, d)
Sound(g, c, num, v)  == v # Null => MadeOf(g, c, num, v)

\* What is made of items is made of what these are made of.
LEMMA MergeOf ==
  ASSUME NEW items, NEW d \in BOOLEAN
  PROVE  Of(Merge(items), d) = UNION {Of(x, d) : x \in items}
<1>1. CASE d = TRUE
  BY <1>1 DEF Of, Merge
<1>2. CASE d = FALSE
  BY <1>2 DEF Of, Merge
<1> QED
  BY <1>1, <1>2

\* Made of what is sound, it is sound.
LEMMA MergeSound ==
  ASSUME NEW g, NEW c, NEW num, NEW items, \A v \in items : MadeOf(g, c, num, v)
  PROVE  MadeOf(g, c, num, Merge(items))
<1> SUFFICES ASSUME NEW d \in BOOLEAN
             PROVE  Of(Merge(items), d) \subseteq All(g, c, num, d)
  BY DEF MadeOf
<1>1. \A v \in items : Of(v, d) \subseteq All(g, c, num, d)
  BY DEF MadeOf
<1>2. UNION {Of(v, d) : v \in items} \subseteq All(g, c, num, d)
  BY <1>1
<1> QED
  BY <1>2, MergeOf

\* What leads to a slicer alone.
LEMMA UpOf ==
  ASSUME NEW g, IsGraph(g), Whole(g), NEW up \in SUBSET Nodes(g), Upstream(g, up)
  PROVE  /\ Slicers(g) = {} => up = {}
         /\ Slicers(g) # {} => g.sources[1] \in up
         /\ \A i \in DOMAIN g.sources : (Slicers(g) = {} \/ i # 1) => g.sources[i] \notin up
         /\ \A z \in Slicers(g) : z \notin up
         /\ \A x \in g.edges : x.tail \notin up => x.head \notin up /\ x.head \notin Slicers(g)
         /\ \A n : n \notin up /\ n \notin Slicers(g) => \A x \in Into(g, n) : x.tail \notin up
<1>1. ASSUME Slicers(g) = {} PROVE up = {}
  <2> SUFFICES ASSUME up # {} PROVE FALSE
    OBVIOUS
  <2>1. \E x \in g.edges : x.tail \in up /\ x.head \notin up
    BY DEF Whole
  <2> QED
    BY <1>1, <2>1 DEF Upstream
<1>2. \A i \in DOMAIN g.sources : i # 1 => i \in 2..Len(g.sources)
  <2>1. Len(g.sources) \in Nat /\ DOMAIN g.sources = 1..Len(g.sources)
    BY LenProperties DEF IsGraph
  <2> QED
    BY <2>1
<1> QED
  BY <1>1, <1>2 DEF Upstream, Into

\* An argument is made of itself.
LEMMA ArgumentSound ==
  ASSUME NEW g, NEW c, NEW num, IsGraph(g), NEW i \in DOMAIN g.sources,
         Slicers(g) = {} \/ i # 1
  PROVE  /\ MadeOf(g, c, num, Item({Atom(c.call, i, 0)}))
         /\ Atom(c.call, i, 0) \in PartsOf(g, c)
         /\ Of(Item({Atom(c.call, i, 0)}), FALSE) = {Atom(c.call, i, 0)}
<1>1. i \in (IF Slicers(g) = {} THEN 1 ELSE 2)..Len(g.sources)
  <2>1. Len(g.sources) \in Nat /\ DOMAIN g.sources = 1..Len(g.sources)
    BY LenProperties DEF IsGraph
  <2> QED
    BY <2>1
<1>2. Atom(c.call, i, 0) \in PartsOf(g, c)
  BY <1>1 DEF PartsOf
<1>3. /\ Of(Item({Atom(c.call, i, 0)}), FALSE) = {Atom(c.call, i, 0)}
      /\ Of(Item({Atom(c.call, i, 0)}), TRUE) = {}
  BY DEF Of, Item
<1>4. \A d \in BOOLEAN : Of(Item({Atom(c.call, i, 0)}), d) \subseteq All(g, c, num, d)
  BY <1>2, <1>3 DEF All
<1> QED
  BY <1>2, <1>3, <1>4 DEF MadeOf

\* So is a slice.
LEMMA SliceSound ==
  ASSUME NEW g, NEW c, NEW num, NEW j \in 1..c.slices, Slicers(g) # {}
  PROVE  /\ MadeOf(g, c, num, Item({Atom(c.call, 1, j)}))
         /\ Atom(c.call, 1, j) \in PartsOf(g, c)
         /\ Of(Item({Atom(c.call, 1, j)}), FALSE) = {Atom(c.call, 1, j)}
<1>2. Atom(c.call, 1, j) \in PartsOf(g, c)
  BY DEF PartsOf
<1>3. /\ Of(Item({Atom(c.call, 1, j)}), FALSE) = {Atom(c.call, 1, j)}
      /\ Of(Item({Atom(c.call, 1, j)}), TRUE) = {}
  BY DEF Of, Item
<1>4. \A d \in BOOLEAN : Of(Item({Atom(c.call, 1, j)}), d) \subseteq All(g, c, num, d)
  BY <1>2, <1>3 DEF All
<1> QED
  BY <1>2, <1>3, <1>4 DEF MadeOf

\* And what a node draws.
LEMMA DrawSound ==
  ASSUME NEW g, NEW c, NEW num, NEW n \in Randoms(g)
  PROVE  /\ MadeOf(g, c, num, Draw(n, num[n]))
         /\ Of(Draw(n, num[n]), TRUE) = {<<n, num[n]>>} /\ <<n, num[n]>> \in DrawsOf(g, num)
<1>1. /\ Of(Draw(n, num[n]), TRUE) = {<<n, num[n]>>}
      /\ Of(Draw(n, num[n]), FALSE) = {}
  BY DEF Of, Draw
<1>2. <<n, num[n]>> \in DrawsOf(g, num)
  BY DEF DrawsOf
<1>3. \A d \in BOOLEAN : Of(Draw(n, num[n]), d) \subseteq All(g, c, num, d)
  BY <1>1, <1>2 DEF All
<1> QED
  BY <1>1, <1>2, <1>3 DEF MadeOf

\* A stream that is not sliced has one value before its end.
LEMMA PairValues ==
  ASSUME NEW o \in Seq(Values), Pair(o), NEW l \in 1..Len(o)
  PROVE  l = 1 \/ o[l] = Null
<1>1. Len(o) \in Nat /\ Len(o) <= 2
  BY LenProperties DEF Pair
<1> PICK m \in Nat : m = Len(o)
  BY <1>1
<1>2. l \in 1..m /\ m <= 2
  BY <1>1
<1>3. l = 1 \/ (l = 2 /\ m = 2)
  BY <1>2
<1> QED
  BY <1>3 DEF Pair

\* Nothing of another call or another executor is in what comes to the sink.
LEMMA ValuesSound ==
  ASSUME NEW g, NEW k, NEW c, NEW out, NEW took, NEW num, Over(g, k, c, out, took, num),
         Filled(g, c), NEW up \in SUBSET Nodes(g), Upstream(g, up),
         NEW p \in Nodes(g) \ up, NEW j \in 1..Len(out[p])
  PROVE  Sound(g, c, num, out[p][j])
<1> DEFINE b == {n \in DOMAIN g.kinds \ up :
                  ~ \A i \in 1..Len(out[n]) : Sound(g, c, num, out[n][i])}
<1>1. /\ IsGraph(g) /\ WellFormed(g) /\ Whole(g) /\ SlicedOf(g) \subseteq DOMAIN g.kinds
      /\ \A n \in Nodes(g) \ SlicedOf(g) : Pair(out[n])
  BY OverStreams
<1>0. Sound(g, c, num, Null)
  BY DEF Sound
<1> PICK d : Rated(g, SlicedOf(g), d)
  BY <1>1, Rates
<1>2. ASSUME NEW i \in DOMAIN g.sources, g.sources[i] \notin up, NEW l \in 1..Len(out[g.sources[i]])
      PROVE  Sound(g, c, num, out[g.sources[i]][l])
  <2> DEFINE o == out[g.sources[i]]
  <2>1. Pair(o) /\ o[1] = c.args[i] /\ g.sources[i] \in Nodes(g)
    BY SourceOver
  <2>2. o \in Seq(Values)
    BY <2>1, OverStreams
  <2>3. Slicers(g) = {} \/ i # 1
    BY <1>1, <1>2, UpOf
  <2>4. c.args[i] = Item({Atom(c.call, i, 0)})
    BY DEF Over, Filled
  <2>5. MadeOf(g, c, num, c.args[i])
    <3>1. MadeOf(g, c, num, Item({Atom(c.call, i, 0)}))
      BY <1>1, <2>3, ArgumentSound
    <3> QED
      BY <2>4, <3>1
  <2>6. l = 1 \/ o[l] = Null
    BY <2>1, <2>2, PairValues
  <2> HIDE DEF o
  <2>7. Sound(g, c, num, o[l])
    BY <2>1, <2>5, <2>6 DEF Sound
  <2> QED
    BY <2>7 DEF o
<1>3. ASSUME NEW n \in b, \A x \in Into(g, n) : x.tail \notin b PROVE FALSE
  <2>1. n \in DOMAIN g.kinds /\ n \in Takers(g) /\ n \in Nodes(g) /\ n \notin up
    BY DEF Takers, Nodes
  <2>2. out[n][1] # Null /\ Len(out[n]) \in Nat \ {0} /\ 1 \in 1..Len(out[n])
        /\ out[n] \in Seq(Values)
    BY <2>1, FirstValues, OverStreams DEF Filled
  <2>3. n \notin SlicedOf(g) => \A i \in 1..Len(out[n]) : i # 1 => out[n][i] = Null
    <3> SUFFICES ASSUME n \notin SlicedOf(g), NEW i \in 1..Len(out[n]), i # 1
                 PROVE  out[n][i] = Null
      OBVIOUS
    <3>1. Pair(out[n])
      BY <1>1, <2>1
    <3> QED
      BY <2>2, <3>1, PairValues
  <2>4. n \notin SlicedOf(g) /\ Sound(g, c, num, out[n][1]) =>
          \A i \in 1..Len(out[n]) : Sound(g, c, num, out[n][i])
    BY <1>0, <2>3
  <2>5. ASSUME n \notin Slicers(g), NEW i \in 1..took[n], NEW v \in Row(g, out, n, i)
        PROVE  Sound(g, c, num, v)
    <3> PICK x \in Into(g, n) : v = out[x.tail][i]
      BY <2>5 DEF Row
    <3>1. x.tail \in Nodes(g) /\ Len(out[x.tail]) = took[n] /\ x \in g.edges
      BY <2>1, OverRows
    <3>2. x.tail \notin up
      BY <1>1, <2>1, <2>5, UpOf
    <3>3. CASE x.tail \in DOMAIN g.kinds
      BY <1>3, <2>5, <3>1, <3>2, <3>3
    <3>4. CASE x.tail \in SourceNames(g)
      <4> PICK l \in DOMAIN g.sources : x.tail = g.sources[l]
        BY <3>4 DEF SourceNames
      <4>1. i \in 1..Len(out[g.sources[l]]) /\ g.sources[l] \notin up
        BY <2>5, <3>1, <3>2
      <4> QED
        BY <1>2, <4>1
    <3> QED
      BY <3>1, <3>3, <3>4 DEF Nodes
  <2>6. ~ \A i \in 1..Len(out[n]) : Sound(g, c, num, out[n][i])
    OBVIOUS
  <2> HIDE DEF b
  <2>7. ASSUME n \in Slicers(g) PROVE FALSE
    <3>1. SlicerRows(g, c, out, n)
      BY <2>7, SlicerOver
    <3>2. \A i \in 1..Len(out[n]) :
            out[n][i] = IF i <= c.slices THEN Item({Atom(c.call, 1, i)}) ELSE Null
      BY <2>2, <3>1 DEF SlicerRows
    <3>3. ASSUME NEW i \in 1..Len(out[n]) PROVE Sound(g, c, num, out[n][i])
      <4>1. CASE i <= c.slices
        <5>1. c.slices \in Nat
          BY DEF Over
        <5>2. i \in 1..c.slices
          BY <2>2, <4>1, <5>1
        <5>3. MadeOf(g, c, num, Item({Atom(c.call, 1, i)}))
          BY <2>7, <5>2, SliceSound
        <5> QED
          BY <3>2, <4>1, <5>3 DEF Sound
      <4>2. CASE ~(i <= c.slices)
        BY <1>0, <3>2, <4>2
      <4> QED
        BY <4>1, <4>2
    <3> QED
      BY <2>6, <3>3
  <2>8. ASSUME n \in Clusterings(g) PROVE FALSE
    <3>1. n \notin SlicedOf(g) /\ n \notin Slicers(g)
      BY <2>8 DEF Rated, Clusterings, Slicers, OfKind
    <3> DEFINE all == AllRows(g, out, took, n)
    <3>2. out[n][1] = Merge(all)
      BY <2>2, <2>8, ClusterOver
    <3>3. \A v \in all : MadeOf(g, c, num, v)
      BY <2>5, <3>1 DEF AllRows, Sound
    <3> HIDE DEF all
    <3>4. Sound(g, c, num, out[n][1])
      BY <3>2, <3>3, MergeSound DEF Sound
    <3> QED
      BY <2>4, <2>6, <3>1, <3>4
  <2>9. ASSUME n \in Plain(g), n \in Randoms(g) PROVE FALSE
    <3>1. Slicers(g) = {} /\ n \notin Slicers(g) /\ n \notin SlicedOf(g)
      BY <1>1, <2>9 DEF Rated, Whole
    <3>2. PlainRows(g, out, num, n)
      BY <2>9, PlainOver
    <3> DEFINE all == Row(g, out, n, 1) \cup {Draw(n, num[n])}
    <3>3. Null \notin Row(g, out, n, 1) /\ out[n][1] = Merge(all)
      BY <2>2, <2>9, <3>2 DEF PlainRows
    <3>4. 1 \in 1..took[n]
      BY <2>1, OverRows
    <3>5. MadeOf(g, c, num, Draw(n, num[n]))
      BY <2>9, DrawSound
    <3>6. \A v \in all : MadeOf(g, c, num, v)
      BY <2>5, <3>1, <3>3, <3>4, <3>5 DEF Sound
    <3> HIDE DEF all
    <3>7. Sound(g, c, num, out[n][1])
      BY <3>3, <3>6, MergeSound DEF Sound
    <3> QED
      BY <2>4, <2>6, <3>1, <3>7
  <2>10. ASSUME n \in Plain(g), n \notin Randoms(g) PROVE FALSE
    <3>1. PlainRows(g, out, num, n) /\ Len(out[n]) = took[n] /\ n \notin Slicers(g)
      BY <2>10, PlainOver DEF Plain
    <3>2. ASSUME NEW i \in 1..Len(out[n]) PROVE Sound(g, c, num, out[n][i])
      <4> DEFINE all == Row(g, out, n, i)
      <4>1. out[n][i] = OneForOne(all)
        BY <2>10, <3>1 DEF PlainRows
      <4>2. \A v \in all : Sound(g, c, num, v)
        BY <2>5, <3>1
      <4> HIDE DEF all
      <4>3. CASE Null \in all
        BY <1>0, <4>1, <4>3 DEF OneForOne
      <4>4. CASE Null \notin all
        <5>1. \A v \in all : MadeOf(g, c, num, v)
          BY <4>2, <4>4 DEF Sound
        <5> QED
          BY <4>1, <4>4, <5>1, MergeSound DEF OneForOne, Sound
      <4> QED
        BY <4>3, <4>4
    <3> QED
      BY <2>6, <3>2
  <2> QED
    BY <2>1, <2>7, <2>8, <2>9, <2>10 DEF Plain
<1>4. b = {}
  <2>1. b \subseteq DOMAIN g.kinds
    OBVIOUS
  <2> HIDE DEF b
  <2> QED
    BY <1>1, <1>3, <2>1, NoneFirst
<1>5. CASE p \in DOMAIN g.kinds
  BY <1>4, <1>5
<1>6. CASE p \in SourceNames(g)
  <2> PICK i \in DOMAIN g.sources : p = g.sources[i]
    BY <1>6 DEF SourceNames
  <2> QED
    BY <1>2
<1> QED
  BY <1>5, <1>6 DEF Nodes

\* A stream that carries a.
Carries(o, d, a) == \E i \in 1..Len(o) : o[i] # Null /\ a \in Of(o[i], d)

\* What a node passes on: all that it takes past the slicer.
LEMMA PassesOn ==
  ASSUME NEW g, NEW k, NEW c, NEW out, NEW took, NEW num, Over(g, k, c, out, took, num),
         Filled(g, c), NEW d \in BOOLEAN, NEW a,
         NEW n \in DOMAIN g.kinds, n \notin Slicers(g),
         NEW x \in Into(g, n), Carries(out[x.tail], d, a)
  PROVE  Carries(out[n], d, a)
<1>1. /\ IsGraph(g) /\ WellFormed(g) /\ Whole(g) /\ SlicedOf(g) \subseteq DOMAIN g.kinds
      /\ \A p \in Nodes(g) \ SlicedOf(g) : Pair(out[p])
      /\ \A p \in SlicedOf(g) : \A z \in Slicers(g) : SamePattern(out[p], out[z])
  BY OverStreams
<1> PICK short : Rated(g, SlicedOf(g), short)
  BY <1>1, Rates
<1>2. n \in Takers(g) /\ n \in Nodes(g)
  BY DEF Takers, Nodes
<1>3. /\ x.tail \in Nodes(g) /\ Len(out[x.tail]) = took[n]
      /\ out[x.tail] \in Seq(Values)
  BY <1>2, OverRows, OverStreams
<1> PICK i \in 1..Len(out[x.tail]) : out[x.tail][i] # Null /\ a \in Of(out[x.tail][i], d)
  BY DEF Carries
<1> DEFINE v == out[x.tail][i]
<1>4. v # Null /\ a \in Of(v, d) /\ i \in 1..took[n] /\ v \in Row(g, out, n, i)
  BY <1>3 DEF Row
<1>5. out[n][1] # Null /\ 1 \in 1..Len(out[n])
  BY <1>2, FirstValues, OverStreams DEF Filled
<1>6. x.tail \notin SlicedOf(g) => i = 1
  BY <1>1, <1>3, PairValues
<1>7. ASSUME n \in Clusterings(g) PROVE Carries(out[n], d, a)
  <2> DEFINE all == AllRows(g, out, took, n)
  <2>1. out[n][1] = Merge(all)
    BY <1>5, <1>7, ClusterOver
  <2>2. v \in all
    BY <1>4 DEF AllRows
  <2> HIDE DEF all, v
  <2>3. Of(Merge(all), d) = UNION {Of(y, d) : y \in all}
    BY MergeOf
  <2>4. a \in Of(out[n][1], d)
    BY <1>4, <2>1, <2>2, <2>3
  <2> QED
    BY <1>5, <2>4 DEF Carries
<1>8. ASSUME n \in Plain(g), n \in Randoms(g) PROVE Carries(out[n], d, a)
  <2>1. SlicedOf(g) = {}
    BY <1>1, <1>8 DEF Rated, Whole
  <2>2. i = 1
    BY <1>6, <2>1
  <2>3. PlainRows(g, out, num, n)
    BY <1>8, PlainOver
  <2> DEFINE all == Row(g, out, n, 1) \cup {Draw(n, num[n])}
  <2>4. out[n][1] = Merge(all)
    BY <1>5, <1>8, <2>3 DEF PlainRows
  <2>5. v \in all
    BY <1>4, <2>2
  <2> HIDE DEF all, v
  <2>6. Of(Merge(all), d) = UNION {Of(y, d) : y \in all}
    BY MergeOf
  <2>7. a \in Of(out[n][1], d)
    BY <1>4, <2>4, <2>5, <2>6
  <2> QED
    BY <1>5, <2>7 DEF Carries
<1>9. ASSUME n \in Plain(g), n \notin Randoms(g) PROVE Carries(out[n], d, a)
  <2>1. PlainRows(g, out, num, n) /\ Len(out[n]) = took[n]
    BY <1>9, PlainOver
  <2>2. i \in 1..Len(out[n])
    BY <1>4, <2>1
  <2>3. out[n][i] # Null
    <3>1. CASE i = 1
      BY <1>5, <3>1
    <3>2. CASE x.tail \in SlicedOf(g)
      <4>1. n \in SlicedOf(g)
        BY <1>9, <3>2 DEF Rated, Plain
      <4>2. Slicers(g) # {}
        BY <3>2 DEF Rated
      <4> PICK z \in Slicers(g) : TRUE
        BY <4>2
      <4>3. SamePattern(out[x.tail], out[z]) /\ SamePattern(out[n], out[z])
        BY <1>1, <3>2, <4>1
      <4>4. out[z][i] # Null
        BY <4>3 DEF SamePattern
      <4> QED
        BY <2>2, <4>3, <4>4 DEF SamePattern
    <3> QED
      BY <1>6, <3>1, <3>2
  <2> DEFINE all == Row(g, out, n, i)
  <2>4. out[n][i] = OneForOne(all)
    BY <1>9, <2>1, <2>2 DEF PlainRows
  <2>5. v \in all
    BY <1>4
  <2> HIDE DEF all, v
  <2>6. out[n][i] = Merge(all)
    BY <2>3, <2>4 DEF OneForOne
  <2>7. Of(Merge(all), d) = UNION {Of(y, d) : y \in all}
    BY MergeOf
  <2>8. a \in Of(out[n][i], d)
    BY <1>4, <2>5, <2>6, <2>7
  <2> QED
    BY <2>2, <2>3, <2>8 DEF Carries
<1> QED
  BY <1>7, <1>8, <1>9 DEF Plain

\* And so all comes to the sink of a node that does not collect.
LEMMA ComesOut ==
  ASSUME NEW g, NEW k, NEW c, NEW out, NEW took, NEW num, Over(g, k, c, out, took, num),
         Filled(g, c), ~g.collect, NEW up \in SUBSET Nodes(g), Upstream(g, up),
         NEW d \in BOOLEAN, NEW a, NEW p \in Nodes(g) \ up, Carries(out[p], d, a),
         NEW y \in Into(g, "snk")
  PROVE  a \in Of(out[y.tail][1], d)
<1> DEFINE b == {n \in Nodes(g) \ up : Carries(out[n], d, a)}
<1>1. /\ IsGraph(g) /\ WellFormed(g) /\ Whole(g)
      /\ \A n \in Nodes(g) \ SlicedOf(g) : Pair(out[n])
  BY OverStreams
<1>2. ASSUME NEW x \in g.edges, x.tail \in b, x.head # "snk" PROVE x.head \in b
  <2>1. x.head \in DOMAIN g.kinds /\ x.head \in Nodes(g) /\ x \in Into(g, x.head)
    BY <1>1, <1>2 DEF IsGraph, Takers, Nodes, Into
  <2>2. x.head \notin up /\ x.head \notin Slicers(g)
    BY <1>1, <1>2, UpOf
  <2>3. Carries(out[x.head], d, a)
    BY <1>2, <2>1, <2>2, PassesOn
  <2> QED
    BY <2>1, <2>2, <2>3
<1>3. b # {} /\ b \subseteq Nodes(g)
  OBVIOUS
<1>4. \E z \in Into(g, "snk") : z.tail \in b
  <2> HIDE DEF b
  <2> QED
    BY <1>1, <1>2, <1>3, LeadsOut
<1>5. Into(g, "snk") = {y} /\ y.tail \in Nodes(g)
  BY SinkOver
<1>6. Carries(out[y.tail], d, a)
  BY <1>4, <1>5
<1>7. y.tail \notin SlicedOf(g)
  BY <1>1, Rates DEF Rated
<1>8. Pair(out[y.tail]) /\ out[y.tail] \in Seq(Values)
  BY <1>1, <1>5, <1>7, OverStreams
<1> QED
  BY <1>6, <1>8, PairValues DEF Carries

\* It comes to a sink at the first value.
LEMMA OneOut ==
  ASSUME NEW g, NEW k, NEW c, NEW out, NEW took, NEW num, Over(g, k, c, out, took, num),
         Filled(g, c), ~g.collect
  PROVE  /\ k # <<>> /\ Head(k).parts = PartsOf(g, c) /\ Head(k).draws = DrawsOf(g, num)
<1>1. /\ IsGraph(g) /\ WellFormed(g) /\ Whole(g)
  BY OverStreams
<1>2. Into(g, "snk") # {}
  BY <1>1 DEF IsGraph, Takers
<1> PICK y \in Into(g, "snk") : TRUE
  BY <1>2
<1> PICK up \in SUBSET Nodes(g) : Upstream(g, up)
  BY <1>1 DEF Whole
<1> DEFINE o == out[y.tail]
<1>3. y.tail \in Nodes(g) /\ SinkRows(k, o) /\ y \in g.edges /\ y.head = "snk"
  BY SinkOver DEF Into
<1>4. o[1] # Null /\ 1 \in 1..Len(o) /\ Len(o) \in Nat
  BY <1>3, FirstValues, OverStreams DEF Filled
<1>5. y.tail \notin up
  <2>1. y.head \notin up /\ y.head \notin Slicers(g)
    BY <1>1, <1>3 DEF IsGraph, Slicers, OfKind, Nodes
  <2> QED
    BY <1>3, <2>1 DEF Upstream
<1> HIDE DEF o
<1>6. Len(k) \in Nat /\ Len(k) # 0
  <2> SUFFICES ASSUME Len(k) = 0 PROVE FALSE
    BY <1>3 DEF SinkRows
  <2>1. Len(k) + 1 = 1 /\ 1 <= Len(o)
    BY <1>4
  <2> QED
    BY <1>3, <1>4, <2>1 DEF SinkRows
<1>7. k \in Seq(Items) /\ k # <<>>
  <2>1. k \in Seq(Items)
    BY DEF Over
  <2> QED
    BY <1>6, <2>1, EmptySeq
<1>8. Head(k) = o[1]
  <2>1. 1 \in 1..Len(k)
    BY <1>6
  <2>2. k[1] = o[1]
    BY <1>3, <2>1 DEF SinkRows
  <2> QED
    BY <1>7, <2>2, HeadTailProperties
<1>9. MadeOf(g, c, num, o[1])
  <2>1. Sound(g, c, num, o[1])
    BY <1>3, <1>4, <1>5, ValuesSound DEF o
  <2> QED
    BY <1>4, <2>1 DEF Sound
<1>10. ASSUME NEW d \in BOOLEAN, NEW a \in All(g, c, num, d) PROVE a \in Of(o[1], d)
  <2>1. ASSUME NEW p \in Nodes(g) \ up, Carries(out[p], d, a) PROVE a \in Of(o[1], d)
    BY <2>1, ComesOut DEF o
  <2>2. CASE d = TRUE
    <3> PICK n \in Randoms(g) : a = <<n, num[n]>>
      BY <1>10, <2>2 DEF All, DrawsOf
    <3>1. n \in Plain(g) /\ n \in Nodes(g) /\ Slicers(g) = {} /\ up = {}
      <4>1. Slicers(g) = {} => up = {}
        BY <1>1, UpOf
      <4>2. Randoms(g) # {} => Slicers(g) = {}
        BY <1>1 DEF Whole
      <4>3. n \in Plain(g) /\ n \in Nodes(g)
        BY DEF Plain, Randoms, Slicers, Clusterings, OfKind, Nodes
      <4> QED
        BY <4>1, <4>2, <4>3
    <3>2. out[n][1] # Null /\ 1 \in 1..Len(out[n])
      <4>1. /\ \A i \in DOMAIN g.sources : c.args[i] # Null
            /\ Slicers(g) # {} => c.slices # 0
        BY DEF Filled
      <4>2. out[n][1] # Null
        BY <3>1, <4>1, FirstValues
      <4>3. 1 \in 1..Len(out[n])
        BY <3>1, OverStreams
      <4> QED
        BY <4>2, <4>3
    <3>3. PlainRows(g, out, num, n)
      BY <3>1, PlainOver
    <3> DEFINE all == Row(g, out, n, 1) \cup {Draw(n, num[n])}
    <3>4. out[n][1] = Merge(all)
      BY <3>2, <3>3 DEF PlainRows
    <3>5. Of(Draw(n, num[n]), d) = {a}
      BY <2>2, DrawSound
    <3>6. Draw(n, num[n]) \in all
      OBVIOUS
    <3> HIDE DEF all
    <3>7. Of(Merge(all), d) = UNION {Of(x, d) : x \in all}
      BY MergeOf
    <3>8. a \in Of(out[n][1], d)
      BY <3>4, <3>5, <3>6, <3>7
    <3>9. Carries(out[n], d, a)
      BY <3>2, <3>8 DEF Carries
    <3> QED
      BY <2>1, <3>1, <3>9
  <2>3. CASE d = FALSE
    <3>1. a \in PartsOf(g, c)
      BY <1>10, <2>3 DEF All
    <3>2. CASE \E i \in (IF Slicers(g) = {} THEN 1 ELSE 2)..Len(g.sources) :
                 a = Atom(c.call, i, 0)
      <4> PICK i \in (IF Slicers(g) = {} THEN 1 ELSE 2)..Len(g.sources) :
                 a = Atom(c.call, i, 0)
        BY <3>2
      <4>1. i \in DOMAIN g.sources /\ (Slicers(g) = {} \/ i # 1)
        <5>1. Len(g.sources) \in Nat /\ DOMAIN g.sources = 1..Len(g.sources)
          BY <1>1, LenProperties DEF IsGraph
        <5> QED
          BY <5>1
      <4>2. out[g.sources[i]][1] = c.args[i] /\ g.sources[i] \in Nodes(g)
        BY <4>1, SourceOver
      <4>3. c.args[i] = Item({a}) /\ c.args[i] # Null
        BY <4>1 DEF Over, Filled
      <4>4. a \in Of(Item({a}), d)
        BY <2>3 DEF Of, Item
      <4>5. 1 \in 1..Len(out[g.sources[i]])
        BY <4>2, OverStreams
      <4>6. Carries(out[g.sources[i]], d, a)
        BY <4>2, <4>3, <4>4, <4>5 DEF Carries
      <4>7. g.sources[i] \notin up
        BY <1>1, <4>1, UpOf
      <4> QED
        BY <2>1, <4>2, <4>6, <4>7
    <3>3. CASE Slicers(g) # {} /\ \E s \in 1..c.slices : a = Atom(c.call, 1, s)
      <4> PICK s \in 1..c.slices : a = Atom(c.call, 1, s)
        BY <3>3
      <4> PICK z \in Slicers(g) : TRUE
        BY <3>3
      <4>1. z \in Nodes(g) /\ SlicerRows(g, c, out, z)
        BY SlicerOver
      <4>2. z \notin up
        BY <1>1, UpOf
      <4>3. out[z][1] # Null /\ Len(out[z]) \in Nat
        BY <4>1, FirstValues, OverStreams DEF Filled
      <4>4. c.slices <= Len(out[z]) /\ c.slices \in Nat
        BY <4>1, <4>3 DEF SlicerRows, Over
      <4>5. s \in 1..Len(out[z]) /\ s <= c.slices
        BY <4>3, <4>4
      <4>6. out[z][s] = Item({a})
        BY <4>1, <4>3, <4>5 DEF SlicerRows
      <4>7. a \in Of(Item({a}), d)
        BY <2>3 DEF Of, Item
      <4>8. Item({a}) # Null
        <5>1. c.call \in Nat /\ s \in Nat
          BY <4>4 DEF Over
        <5>2. Item({a}) \in Items
          BY <5>1, AtomItem
        <5> QED
          BY <5>2, IslandsAssumption
      <4>9. Carries(out[z], d, a)
        BY <4>5, <4>6, <4>7, <4>8 DEF Carries
      <4> QED
        BY <2>1, <4>1, <4>2, <4>9
    <3> QED
      BY <3>1, <3>2, <3>3 DEF PartsOf
  <2> QED
    BY <2>2, <2>3
<1>11. ASSUME NEW d \in BOOLEAN PROVE Of(o[1], d) = All(g, c, num, d)
  BY <1>9, <1>10 DEF MadeOf
<1>12. o[1].parts = PartsOf(g, c)
  <2>1. Of(o[1], FALSE) = All(g, c, num, FALSE)
    BY <1>11
  <2> QED
    BY <2>1 DEF Of, All
<1>13. o[1].draws = DrawsOf(g, num)
  <2>1. Of(o[1], TRUE) = All(g, c, num, TRUE)
    BY <1>11
  <2> QED
    BY <2>1 DEF Of, All
<1> QED
  BY <1>7, <1>8, <1>12, <1>13

\* If an argument is null no node of a graph that draws has a first value.
LEMMA NoValues ==
  ASSUME NEW g, NEW k, NEW c, NEW out, NEW took, NEW num, Over(g, k, c, out, took, num),
         Randoms(g) # {}, \E i \in DOMAIN g.sources : c.args[i] = Null
  PROVE  \A n \in Randoms(g) : out[n][1] = Null
<1> DEFINE b == {n \in DOMAIN g.kinds : out[n][1] # Null}
<1>1. IsGraph(g) /\ Whole(g) /\ WellFormed(g)
  BY OverStreams
<1>2. Slicers(g) = {} /\ Len(g.sources) = 1
  BY <1>1 DEF Whole
<1>3. Clusterings(g) = {}
  <2> SUFFICES ASSUME NEW n \in Clusterings(g) PROVE FALSE
    OBVIOUS
  <2> PICK sliced0, short0 \in SUBSET DOMAIN g.kinds : Rated(g, sliced0, short0)
    BY <1>1 DEF WellFormed
  <2>1. sliced0 = {}
    BY <1>2 DEF Rated
  <2>2. \A x \in Into(g, n) : x.tail \in sliced0
    BY DEF Rated
  <2>3. n \in Takers(g)
    BY DEF Clusterings, OfKind, Takers
  <2>4. Into(g, n) # {}
    BY <1>1, <2>3 DEF IsGraph
  <2> QED
    BY <2>1, <2>2, <2>4
<1>4. \A i \in DOMAIN g.sources : out[g.sources[i]][1] = Null
  <2>1. DOMAIN g.sources = {1}
    <3>1. DOMAIN g.sources = 1..1
      BY <1>1, <1>2, LenProperties DEF IsGraph
    <3> QED
      BY <3>1
  <2>2. \A i \in DOMAIN g.sources : c.args[i] = Null
    BY <2>1
  <2> QED
    BY <2>2, SourceOver
<1>5. ASSUME NEW n \in b, \A x \in Into(g, n) : x.tail \notin b PROVE FALSE
  <2>1. n \in DOMAIN g.kinds /\ n \in Takers(g) /\ out[n][1] # Null /\ n \in Nodes(g)
    BY DEF Takers, Nodes
  <2>2. Null \in Row(g, out, n, 1)
    <3>1. PICK x : x \in Into(g, n)
      BY <2>1, OverRows
    <3>2. x.tail \in Nodes(g) /\ x.tail \notin b
      BY <1>5, <2>1, <3>1, OverRows
    <3>3. CASE x.tail \in DOMAIN g.kinds
      BY <3>1, <3>2, <3>3 DEF Row
    <3>4. CASE x.tail \in SourceNames(g)
      BY <1>4, <3>1, <3>4 DEF SourceNames, Row
    <3> QED
      BY <3>2, <3>3, <3>4 DEF Nodes
  <2> HIDE DEF b
  <2>3. n \in Plain(g)
    BY <1>2, <1>3, <2>1 DEF Plain
  <2>4. 1 \in 1..Len(out[n])
    BY <2>1, OverStreams
  <2>5. PlainRows(g, out, num, n)
    BY <2>3, PlainOver
  <2>6. CASE n \in Randoms(g)
    BY <2>1, <2>2, <2>5, <2>6 DEF PlainRows
  <2>7. CASE n \notin Randoms(g)
    <3>1. out[n][1] = OneForOne(Row(g, out, n, 1))
      BY <2>4, <2>5, <2>7 DEF PlainRows
    <3> QED
      BY <2>1, <2>2, <3>1 DEF OneForOne
  <2> QED
    BY <2>6, <2>7
<1>6. b = {}
  <2>1. b \subseteq DOMAIN g.kinds
    OBVIOUS
  <2> HIDE DEF b
  <2> QED
    BY <1>1, <1>5, <2>1, NoneFirst
<1> QED
  BY <1>6 DEF Randoms, OfKind

\* The numbers that a call has drawn when it ends: one for each node that draws, or
\* none.
LEMMA NumbersEnd ==
  ASSUME NEW g, NEW k, NEW c, NEW out, NEW took, NEW num, Over(g, k, c, out, took, num),
         Randoms(g) # {}, NEW base, NEW d, Numbers(g, base, d, out, num)
  PROVE  /\ Filled(g, c) => /\ {num[n] : n \in Randoms(g)} = (base + 1)..d
                            /\ d = base + Cardinality(Randoms(g))
         /\ (\E i \in DOMAIN g.sources : c.args[i] = Null) => d = base + 0
<1>1. \A n \in Randoms(g) : Len(out[n]) > 0 /\ n \in Nodes(g)
  <2>1. \A n \in Randoms(g) : n \in Nodes(g)
    BY DEF Randoms, OfKind, Nodes
  <2> QED
    BY <2>1 DEF Over
<1>2. ASSUME Filled(g, c)
      PROVE  /\ {num[n] : n \in Randoms(g)} = (base + 1)..d
             /\ d = base + Cardinality(Randoms(g))
  <2>1. \A n \in Randoms(g) : out[n][1] # Null
    BY <1>1, <1>2, FirstValues DEF Filled
  <2>2. DrewOf(g, out) = Randoms(g)
    BY <1>1, <2>1 DEF DrewOf
  <2> QED
    BY <2>2 DEF Numbers
<1>3. ASSUME \E i \in DOMAIN g.sources : c.args[i] = Null PROVE d = base + 0
  <2>1. DrewOf(g, out) = {}
    BY <1>3, NoValues DEF DrewOf
  <2>2. Cardinality(DrewOf(g, out)) = 0
    BY <2>1, FS_EmptySet
  <2> QED
    BY <2>2 DEF Numbers
<1> QED
  BY <1>2, <1>3

\* One more of an amount.
LEMMA TimesMore ==
  ASSUME NEW a \in Nat, NEW b \in Nat
  PROVE  a * b \in Nat /\ (a + 1) * b = a * b + b
  OBVIOUS

\* A call that has all arguments draws a number for each node that draws, the next
\* block of them; no other call draws.
LEMMA DrawnByNext ==
  ASSUME NEW e, NEW n \in Nat \ {0}, Whole(job[e])
  PROVE  LET size == Cardinality(Randoms(job[e])) IN
         /\ DrawnBy(e, n - 1) \in Nat /\ size \in Nat
         /\ NullFree(given[e][n]) => DrawnBy(e, n) = DrawnBy(e, n - 1) + size
         /\ ~NullFree(given[e][n]) => DrawnBy(e, n) = DrawnBy(e, n - 1) + 0
         /\ Block(e, n) = (DrawnBy(e, n - 1) + 1)..(DrawnBy(e, n - 1) + size)
<1> DEFINE size == Cardinality(Randoms(job[e]))
           Full(l) == {m \in 1..l : NullFree(given[e][m])}
<1>1. size \in Nat
  <2>1. IsFiniteSet(Randoms(job[e]))
    BY FewDraw
  <2> QED
    BY <2>1, FS_CardinalityType
<1>2. IsFiniteSet(Full(n - 1)) /\ Cardinality(Full(n - 1)) \in Nat
  <2>1. IsFiniteSet(1..(n - 1))
    BY FS_Interval
  <2>2. Full(n - 1) \subseteq 1..(n - 1)
    OBVIOUS
  <2>3. IsFiniteSet(Full(n - 1))
    BY <2>1, <2>2, FS_Subset
  <2> QED
    BY <2>3, FS_CardinalityType
<1>3. 1..n = 1..(n - 1) \cup {n} /\ n \notin 1..(n - 1)
  OBVIOUS
<1>4. NullFree(given[e][n]) => Full(n) = Full(n - 1) \cup {n} /\ n \notin Full(n - 1)
  BY <1>3
<1>5. ~NullFree(given[e][n]) => Full(n) = Full(n - 1)
  BY <1>3
<1> DEFINE before == Cardinality(Full(n - 1))
<1>6. NullFree(given[e][n]) => Cardinality(Full(n)) = before + 1
  <2> HIDE DEF Full
  <2> QED
    BY <1>2, <1>4, FS_AddElement
<1>7. /\ DrawnBy(e, n - 1) = before * size /\ DrawnBy(e, n) = Cardinality(Full(n)) * size
      /\ Block(e, n) = (before * size + 1)..((before + 1) * size)
  BY DEF DrawnBy, Block
<1>8. before \in Nat /\ (~NullFree(given[e][n]) => Cardinality(Full(n)) = before)
  BY <1>2, <1>5
<1> HIDE DEF before, size, Full
<1>9. before * size \in Nat /\ (before + 1) * size = before * size + size
  BY <1>1, <1>8, TimesMore
<1>10. NullFree(given[e][n]) => DrawnBy(e, n) = DrawnBy(e, n - 1) + size
  BY <1>6, <1>7, <1>9
<1>11. ~NullFree(given[e][n]) => DrawnBy(e, n) = DrawnBy(e, n - 1) + 0
  BY <1>7, <1>8, <1>9
<1>12. Block(e, n) = (DrawnBy(e, n - 1) + 1)..(DrawnBy(e, n - 1) + size)
  BY <1>7, <1>9
<1> QED
  BY <1>1, <1>7, <1>9, <1>10, <1>11, <1>12 DEF size

\* The arguments of a call in progress.
LEMMA ContextIs ==
  ASSUME Types, NEW e \in Executors, Answered(e), phase[e] = "running"
  PROVE  LET c == ContextOf(e)
             n == Len(given[e]) IN
         /\ n \in Nat \ {0} /\ c.call = n /\ c.slices = sliced[e][n] /\ c.slices \in Nat
         /\ given[e][n] = c.args
         /\ \A i \in DOMAIN job[e].sources : c.args[i] \in {Item({Atom(c.call, i, 0)}), Null}
         /\ NullFree(given[e][n]) <=> \A i \in DOMAIN job[e].sources : c.args[i] # Null
<1> PICK n : n = Len(given[e])
  OBVIOUS
<1>1. n \in Nat \ {0} /\ n \in 1..Len(given[e]) /\ n \in 1..Len(sliced[e])
  BY CallInProgress, BoundOf
<1>2. n \in DOMAIN given[e] /\ sliced[e][n] \in Nat
  <2>1. given[e] \in Seq([DOMAIN job[e].sources -> Values]) /\ sliced[e] \in Seq(Nat)
    BY DEF Types, TypedExecutor
  <2> QED
    BY <1>1, <2>1, LenProperties, ElementOfSeq
<1>3. given[e][n] \in ArgsOf(e, n)
  BY <1>2 DEF Answered
<1>4. /\ DOMAIN given[e][n] = DOMAIN job[e].sources
      /\ \A i \in DOMAIN job[e].sources : given[e][n][i] \in {Item({Atom(n, i, 0)}), Null}
  BY <1>3 DEF ArgsOf
<1>5. /\ ContextOf(e).call = n /\ ContextOf(e).args = given[e][n]
      /\ ContextOf(e).slices = sliced[e][n]
  BY DEF ContextOf
<1> QED
  BY <1>1, <1>2, <1>4, <1>5 DEF NullFree

\* At the end of a call no node has work.
LEMMA OverAtEnd ==
  ASSUME Types, NEW e \in Executors, Answered(e), EndRun(e), Whole(job[e]),
         NEW out, NEW took, NEW num, Going(e, out, took, num)
  PROVE  Over(job[e], snk[e], ContextOf(e), out, took, num)
<1> DEFINE g == job[e]
           c == ContextOf(e)
           h == held[Service(g)]
<1>1. /\ WellFormed(g) /\ src[e] \in [DOMAIN g.sources -> SourceStates]
      /\ snk[e] \in Seq(Items) /\ phase[e] = "running"
  BY GraphOf DEF Types, TypedExecutor, EndRun
<1>2. /\ Flow(g, edge[e], src[e], snk[e], h, out, took)
      /\ Made(g, c, src[e], snk[e], h, out, took, num)
  BY DEF Going
<1>3. \A i \in DOMAIN g.sources : ~SourceOk(src[e][i])
  BY <1>1 DEF EndRun, NoWork
<1>4. \A n \in Takers(g) : \E x \in Into(g, n) : edge[e][x] = <<>>
  BY DEF EndRun, NoWork, Ready, InEdges, Takers
<1>5. /\ \A x \in g.edges : took[x.head] = Len(out[x.tail])
      /\ \A z \in Slicers(g) : took[z] = 2
      /\ \A p \in Nodes(g) : Len(out[p]) > 0
  <2> DEFINE q == edge[e]
             s == src[e]
             k == snk[e]
  <2>1. WellFormed(g) /\ Flow(g, q, s, k, h, out, took) /\ Dry(g, q, s)
        /\ s \in [DOMAIN g.sources -> SourceStates]
    BY <1>1, <1>2, <1>3, <1>4 DEF Dry
  <2> HIDE DEF g, h, c, q, s, k
  <2>2. Ended(g, q, s, h, out, took)
    BY <2>1, RunsDry
  <2> QED
    BY <2>2 DEF Ended
<1>6. /\ c.call \in Nat /\ c.slices \in Nat
      /\ \A i \in DOMAIN g.sources : c.args[i] \in {Item({Atom(c.call, i, 0)}), Null}
  BY <1>1, ContextIs
<1> HIDE DEF g, c, h
<1>7. Whole(g)
  BY DEF g
<1>8. Over(g, snk[e], c, out, took, num)
  BY <1>1, <1>2, <1>5, <1>6, <1>7 DEF Over
<1> QED
  BY <1>8 DEF g, c

\* What a call returns.
ResultOf(e) == IF job[e].collect THEN snk[e] ELSE DrainOut(snk[e])

\* The numbers of a call that has all arguments are its block, each with its node.
LEMMA OwnDraws ==
  ASSUME Types, NEW e \in Executors, Answered(e), EndRun(e), Whole(job[e]), Alone(e),
         NEW out, NEW took, NEW num, Going(e, out, took, num), Filled(job[e], ContextOf(e)),
         NEW r, r.draws = DrawsOf(job[e], num)
  PROVE  /\ {d[1] : d \in r.draws} = Randoms(job[e])
         /\ {d[2] : d \in r.draws} = Block(e, Len(given[e]))
<1> DEFINE g == job[e]
           c == ContextOf(e)
           n == Len(given[e])
           base == DrawnBy(e, n - 1)
           size == Cardinality(Randoms(g))
<1>1. Over(g, snk[e], c, out, took, num)
  BY OverAtEnd
<1>2. n \in Nat \ {0}
  BY ContextIs DEF EndRun
<1>3. base \in Nat /\ size \in Nat /\ Block(e, n) = (base + 1)..(base + size)
  BY <1>2, DrawnByNext
<1>4. {d[1] : d \in r.draws} = Randoms(g) /\ {d[2] : d \in r.draws} = {num[p] : p \in Randoms(g)}
  <2> DEFINE draws == r.draws
             nodes == Randoms(g)
  <2>1. draws = {<<p, num[p]>> : p \in nodes}
    BY DEF DrawsOf
  <2> HIDE DEF draws, nodes
  <2>2. ASSUME NEW d \in draws PROVE \E p \in nodes : d[1] = p /\ d[2] = num[p]
    BY <2>1
  <2>3. ASSUME NEW p \in nodes PROVE \E d \in draws : d[1] = p /\ d[2] = num[p]
    <3>1. <<p, num[p]>> \in draws /\ <<p, num[p]>>[1] = p /\ <<p, num[p]>>[2] = num[p]
      BY <2>1
    <3> QED
      BY <3>1
  <2>4. {d[1] : d \in draws} = nodes
    BY <2>2, <2>3
  <2>5. {d[2] : d \in draws} = {num[p] : p \in nodes}
    BY <2>2, <2>3
  <2> QED
    BY <2>4, <2>5 DEF draws, nodes
<1>5. CASE Randoms(g) = {}
  <2>1. size = 0
    BY <1>5, FS_EmptySet
  <2>2. (base + 1)..(base + size) = {}
    BY <1>3, <2>1
  <2> QED
    BY <1>3, <1>4, <1>5, <2>2
<1>6. CASE Randoms(g) # {}
  <2> DEFINE d == drawn[Service(g)]
  <2>1. Numbers(g, base, d, out, num)
    BY <1>6 DEF Going, Counting
  <2>2. Filled(g, c)
    OBVIOUS
  <2> HIDE DEF g, c, n, base, d
  <2>3. {num[p] : p \in Randoms(g)} = (base + 1)..d /\ d = base + Cardinality(Randoms(g))
    BY <1>1, <1>6, <2>1, <2>2, NumbersEnd
  <2>4. {num[p] : p \in Randoms(g)} = Block(e, n)
    BY <1>3, <2>3
  <2> QED
    BY <1>4, <2>4 DEF g, n
<1> QED
  BY <1>5, <1>6

\* What a call returns at its end is its own result.
LEMMA OwnAtEnd ==
  ASSUME Types, NEW e \in Executors, Answered(e), Flowing(e), EndRun(e), Whole(job[e]), Alone(e)
  PROVE  OwnResult(e, Len(given[e]), ResultOf(e))
<1> DEFINE g == job[e]
           c == ContextOf(e)
           n == Len(given[e])
           k == snk[e]
<1> PICK out, took, num : Going(e, out, took, num)
  BY DEF Flowing
<1>1. Over(g, k, c, out, took, num)
  BY OverAtEnd
<1>2. /\ c.call = n /\ c.slices = sliced[e][n]
      /\ NullFree(given[e][n]) <=> \A i \in DOMAIN g.sources : c.args[i] # Null
  BY ContextIs DEF EndRun
<1>3. CASE ~NullFree(given[e][n]) \/ (Slicers(g) # {} /\ sliced[e][n] = 0)
  <2>1. (\E i \in DOMAIN g.sources : c.args[i] = Null) \/ (Slicers(g) # {} /\ c.slices = 0)
    BY <1>2, <1>3
  <2>2. k = <<>>
    <3> HIDE DEF g, c, k
    <3> QED
      BY <1>1, <2>1, NothingOut
  <2>3. ResultOf(e) = IF g.collect THEN <<>> ELSE Null
    BY <2>2 DEF ResultOf, DrainOut
  <2> QED
    BY <1>3, <2>3 DEF OwnResult
<1>4. CASE ~(~NullFree(given[e][n]) \/ (Slicers(g) # {} /\ sliced[e][n] = 0))
  <2>1. Filled(g, c)
    BY <1>2, <1>4 DEF Filled
  <2>2. CASE g.collect
    <3>1. Slicers(g) # {} /\ Clusterings(g) = {}
      BY <2>2 DEF Whole
    <3>2. (\A i \in DOMAIN g.sources : c.args[i] # Null) /\ c.slices # 0
      BY <2>1, <3>1 DEF Filled
    <3>3. k = [s \in 1..c.slices |-> Item({Atom(c.call, 1, s)})]
      <4> HIDE DEF g, c, k
      <4> QED
        BY <1>1, <3>1, <3>2, SlicesCollected
    <3>4. ResultOf(e) = [s \in 1..sliced[e][n] |-> Item({Atom(n, 1, s)})]
      BY <1>2, <2>2, <3>3 DEF ResultOf
    <3> QED
      BY <1>4, <2>2, <3>4 DEF OwnResult
  <2>3. CASE ~g.collect
    <3> DEFINE r == Head(k)
    <3>1. k # <<>> /\ r.parts = PartsOf(g, c) /\ r.draws = DrawsOf(g, num)
      <4> HIDE DEF g, c, k
      <4> QED
        BY <1>1, <2>1, <2>3, OneOut
    <3>2. ResultOf(e) = r
      BY <2>3, <3>1 DEF ResultOf, DrainOut
    <3>3. PartsOf(g, c) = Parts(e, n)
      BY <1>2 DEF PartsOf, Parts
    <3> HIDE DEF r
    <3>4. {d[1] : d \in r.draws} = Randoms(g) /\ {d[2] : d \in r.draws} = Block(e, n)
      BY <2>1, <3>1, OwnDraws
    <3> QED
      BY <1>4, <2>3, <3>1, <3>2, <3>3, <3>4 DEF OwnResult
  <2> QED
    BY <2>2, <2>3
<1> QED
  BY <1>3, <1>4

\* And the random service has given as many numbers as the calls so far draw.
LEMMA CountedAtEnd ==
  ASSUME Types, NEW e \in Executors, Answered(e), Flowing(e), EndRun(e), Counting(e)
  PROVE  drawn[Service(job[e])] = DrawnBy(e, Len(given[e]))
<1> DEFINE g == job[e]
           c == ContextOf(e)
           n == Len(given[e])
           base == DrawnBy(e, n - 1)
           d == drawn[Service(g)]
<1> PICK out, took, num : Going(e, out, took, num)
  BY DEF Flowing
<1>1. Whole(g) /\ Randoms(g) # {} /\ Numbers(g, base, d, out, num)
  BY DEF Going, Counting
<1>2. Over(g, snk[e], c, out, took, num)
  BY <1>1, OverAtEnd
<1>3. /\ n \in Nat \ {0}
      /\ NullFree(given[e][n]) <=> \A i \in DOMAIN g.sources : c.args[i] # Null
  BY ContextIs DEF EndRun
<1>4. /\ NullFree(given[e][n]) => DrawnBy(e, n) = base + Cardinality(Randoms(g))
      /\ ~NullFree(given[e][n]) => DrawnBy(e, n) = base + 0
  BY <1>1, <1>3, DrawnByNext
<1>5. Slicers(g) = {}
  BY <1>1 DEF Whole
<1>6. CASE NullFree(given[e][n])
  <2>1. Filled(g, c)
    BY <1>3, <1>5, <1>6 DEF Filled
  <2> HIDE DEF g, c, base, d
  <2>2. d = base + Cardinality(Randoms(g))
    BY <1>1, <1>2, <2>1, NumbersEnd
  <2> QED
    BY <1>4, <1>6, <2>2 DEF d, g
<1>7. CASE ~NullFree(given[e][n])
  <2>1. \E i \in DOMAIN g.sources : c.args[i] = Null
    BY <1>3, <1>7
  <2> HIDE DEF g, c, base, d
  <2>2. d = base + 0
    BY <1>1, <1>2, <2>1, NumbersEnd
  <2> QED
    BY <1>4, <1>7, <2>2 DEF d, g
<1> QED
  BY <1>6, <1>7

\* A sink of one item is empty after it is drained.
LEMMA DrainsAll ==
  ASSUME NEW k \in Seq(Items), Len(k) <= 1
  PROVE  AfterDrain(k) = <<>>
<1>1. CASE k = <<>>
  BY <1>1 DEF AfterDrain
<1>2. CASE k # <<>>
  <2>1. Len(k) \in Nat /\ Tail(k) \in Seq(Items) /\ Len(Tail(k)) = Len(k) - 1
    BY <1>2, HeadTailProperties, LenProperties
  <2>2. Len(k) # 0
    BY <1>2, EmptySeq
  <2>3. Len(Tail(k)) = 0
    BY <2>1, <2>2
  <2> QED
    BY <1>2, <2>1, <2>3, EmptySeq DEF AfterDrain
<1> QED
  BY <1>1, <1>2

\* The call ends.
LEMMA EndFlows ==
  ASSUME Types, NEW e \in Executors, Answered(e), Flowing(e), EndRun(e)
  PROVE  Quiet(e)'
<1> DEFINE g == job[e]
           q == edge[e]
           s == src[e]
           k == snk[e]
           h == held[Service(g)]
<1> PICK out, took, num : Going(e, out, took, num)
  BY DEF Flowing
<1>1. WellFormed(g) /\ s \in [DOMAIN g.sources -> SourceStates] /\ k \in Seq(Items)
  BY GraphOf DEF Types, TypedExecutor
<1>2. Flow(g, q, s, k, h, out, took)
  BY DEF Going
<1>3. Dry(g, q, s)
  BY <1>1 DEF EndRun, NoWork, Ready, InEdges, Takers, Dry
<1>4. Ended(g, q, s, h, out, took)
  <2> HIDE DEF g, q, s, k, h
  <2> QED
    BY <1>1, <1>2, <1>3, RunsDry
<1>5. /\ job' = job /\ src' = src /\ edge' = edge /\ held' = held
      /\ drawn' = drawn /\ given' = given
      /\ snk'[e] = IF g.collect THEN NewSink ELSE AfterDrain(k)
  BY DEF EndRun, Types
<1>6. snk'[e] = <<>>
  <2>1. CASE g.collect
    BY <1>5, <2>1 DEF NewSink
  <2>2. CASE ~g.collect
    <3>1. Len(k) <= 1
      BY <1>2, <2>2 DEF Flow, SinkAt
    <3> QED
      BY <1>1, <1>5, <2>2, <3>1, DrainsAll
  <2> QED
    BY <2>1, <2>2
<1>7. Counting(e)' => drawn[Service(g)] = DrawnBy(e, Len(given[e]))'
  <2>1. DrawnBy(e, Len(given[e]))' = DrawnBy(e, Len(given[e]))
    BY <1>5 DEF DrawnBy
  <2> QED
    BY <1>5, <2>1, CountedAtEnd, CountingSame
<1>8. /\ \A i \in DOMAIN g.sources : src[e][i].queue = <<>>
      /\ \A x \in g.edges : edge[e][x] = <<>>
      /\ Clusterings(g) # {} => held[Service(g)] = {}
  BY <1>4 DEF Ended
<1> QED
  BY <1>5, <1>6, <1>7, <1>8 DEF Quiet, Service

\* What was returned stays what the call's own arguments make.
LEMMA AnswersStay ==
  ASSUME Types, NEW e \in Executors, Answered(e), job' = job, returned'[e] = returned[e],
         \A n \in DOMAIN given'[e] : given'[e][n] \in ArgsOf(e, n),
         \A n \in DOMAIN returned[e] :
           sliced'[e][n] = sliced[e][n] /\ \A m \in 1..n : given'[e][m] = given[e][m]
  PROVE  Answered(e)'
<1>1. \A n : ArgsOf(e, n)' = ArgsOf(e, n)
  BY DEF ArgsOf
<1>2. ASSUME Whole(job[e]), Alone(e), NEW n \in DOMAIN returned[e]
      PROVE  OwnResult(e, n, returned[e][n])'
  <2>1. n \in Nat \ {0}
    <3>1. DOMAIN returned[e] = 1..Len(returned[e]) /\ Len(returned[e]) \in Nat
      BY LenProperties DEF Types, TypedExecutor
    <3> QED
      BY <3>1
  <2>2. OwnResult(e, n, returned[e][n])
    BY <1>2 DEF Answered
  <2> DEFINE r == returned[e][n]
  <2>3. OwnResult(e, n, r)
    BY <2>2
  <2> HIDE DEF r
  <2>5. returned'[e][n] = returned[e][n]
    OBVIOUS
  <2> QED
    BY <2>1, <2>3, <2>5, OwnResultSame DEF r
<1> QED
  BY <1>1, <1>2, CountingSame DEF Answered

\* What a call is given joins what was given before.
LEMMA CallAnswers ==
  ASSUME Types, NEW e \in Executors, Answered(e), NEW a \in ArgsOf(e, Len(given[e]) + 1),
         Call(e, a)
  PROVE  Answered(e)'
<1>1. /\ given[e] \in Seq([DOMAIN job[e].sources -> Values]) /\ sliced[e] \in Seq(Nat)
      /\ returned[e] \in Seq(Values \cup Seq(Items)) /\ phase[e] = "idle"
      /\ Len(sliced[e]) = Len(given[e])
      /\ Len(returned[e]) = Len(given[e]) - (IF phase[e] = "running" THEN 1 ELSE 0)
  BY DEF Types, TypedExecutor, Call
<1> PICK l \in Nat : l = Len(given[e])
  BY <1>1, LenProperties
<1>2. Len(returned[e]) = l /\ Len(sliced[e]) = l
  BY <1>1
<1>3. /\ job' = job /\ returned' = returned
      /\ given'[e] = Append(given[e], a) /\ sliced'[e] = Append(sliced[e], 0)
  BY DEF Call, Types
<1>4. /\ DOMAIN given'[e] = 1..(l + 1) /\ given'[e][l + 1] = a
      /\ \A m \in 1..l : given'[e][m] = given[e][m] /\ sliced'[e][m] = sliced[e][m]
  <2>1. a \in [DOMAIN job[e].sources -> Values]
    BY ArgsTypes
  <2>2. /\ Len(Append(given[e], a)) = l + 1 /\ Append(given[e], a)[l + 1] = a
        /\ DOMAIN Append(given[e], a) = 1..(l + 1)
        /\ \A m \in 1..l : Append(given[e], a)[m] = given[e][m]
    BY <1>1, <2>1, AppendProperties, LenProperties
  <2>3. \A m \in 1..l : Append(sliced[e], 0)[m] = sliced[e][m]
    BY <1>1, <1>2, AppendProperties
  <2> QED
    BY <1>3, <2>2, <2>3
<1>5. ASSUME NEW n \in DOMAIN given'[e] PROVE given'[e][n] \in ArgsOf(e, n)
  <2>1. CASE n = l + 1
    BY <1>4, <2>1
  <2>2. CASE n # l + 1
    <3>1. n \in 1..l
      BY <1>4, <2>2
    <3>2. n \in DOMAIN given[e]
      BY <1>1, <3>1, LenProperties
    <3> QED
      BY <1>4, <3>1, <3>2 DEF Answered
  <2> QED
    BY <2>1, <2>2
<1>6. ASSUME NEW n \in DOMAIN returned[e]
      PROVE  sliced'[e][n] = sliced[e][n] /\ \A m \in 1..n : given'[e][m] = given[e][m]
  <2>1. n \in 1..l
    BY <1>1, <1>2, LenProperties
  <2>2. \A m \in 1..n : m \in 1..l
    BY <2>1
  <2> QED
    BY <1>4, <2>1, <2>2
<1> QED
  BY <1>3, <1>5, <1>6, AnswersStay

\* A call in progress changes at most how many slices it made.
LEMMA RunStepKeeps ==
  ASSUME Types, NEW e \in Executors, RunStep(e), ~EndRun(e)
  PROVE  /\ phase' = phase /\ phase[e] = "running" /\ job' = job
         /\ given' = given /\ returned' = returned
         /\ \A n : n # Len(given[e]) => sliced'[e][n] = sliced[e][n]
<1>1. CASE \E i \in DOMAIN src[e] : CallSource(e, i)
  BY <1>1 DEF CallSource
<1>2. CASE \E n \in DOMAIN job[e].kinds : Fire(e, n)
  <2> PICK n \in DOMAIN job[e].kinds : Fire(e, n)
    BY <1>2
  <2>1. CASE Transform(e, n) \/ PassEos(e, n)
    BY <2>1 DEF Transform, PassEos, Fires
  <2>2. CASE Fluctuate(e, n) \/ Cluster(e, n)
    BY <2>2 DEF Fluctuate, Cluster, Fires
  <2>3. CASE Slice(e, n)
    <3>1. /\ phase' = phase /\ phase[e] = "running" /\ job' = job
          /\ given' = given /\ returned' = returned
      BY <2>3 DEF Slice, Fires
    <3>2. \E j : sliced' = [sliced EXCEPT ![e][Len(given[e])] = j]
      BY <2>3 DEF Slice
    <3>3. \A m : m # Len(given[e]) => sliced'[e][m] = sliced[e][m]
      BY <3>2 DEF Types
    <3> QED
      BY <3>1, <3>3
  <2> QED
    BY <2>1, <2>2, <2>3 DEF Fire
<1>3. CASE CallSink(e)
  BY <1>3 DEF CallSink
<1> QED
  BY <1>1, <1>2, <1>3 DEF RunStep

\* So the answers so far stay.
LEMMA RunStepAnswers ==
  ASSUME Types, NEW e \in Executors, Answered(e), RunStep(e), ~EndRun(e)
  PROVE  Answered(e)'
<1>1. /\ given[e] \in Seq([DOMAIN job[e].sources -> Values])
      /\ returned[e] \in Seq(Values \cup Seq(Items))
      /\ Len(returned[e]) = Len(given[e]) - (IF phase[e] = "running" THEN 1 ELSE 0)
  BY DEF Types, TypedExecutor
<1>2. /\ phase[e] = "running" /\ job' = job /\ given' = given /\ returned' = returned
      /\ \A n : n # Len(given[e]) => sliced'[e][n] = sliced[e][n]
  BY RunStepKeeps
<1> PICK l \in Nat : l = Len(given[e])
  BY <1>1, LenProperties
<1>3. \A n \in DOMAIN returned[e] : n # l
  <2>1. DOMAIN returned[e] = 1..(l - 1)
    BY <1>1, <1>2, LenProperties
  <2> QED
    BY <2>1
<1>4. \A n \in DOMAIN given'[e] : given'[e][n] \in ArgsOf(e, n)
  BY <1>2 DEF Answered
<1>5. \A n \in DOMAIN returned[e] :
        sliced'[e][n] = sliced[e][n] /\ \A m \in 1..n : given'[e][m] = given[e][m]
  BY <1>2, <1>3
<1> QED
  BY <1>2, <1>4, <1>5, AnswersStay

\* What is returned at the end joins what was returned before.
LEMMA EndAnswers ==
  ASSUME Types, NEW e \in Executors, Answered(e), Flowing(e), EndRun(e)
  PROVE  Answered(e)'
<1>1. /\ given[e] \in Seq([DOMAIN job[e].sources -> Values])
      /\ returned[e] \in Seq(Values \cup Seq(Items))
      /\ Len(returned[e]) = Len(given[e]) - (IF phase[e] = "running" THEN 1 ELSE 0)
  BY DEF Types, TypedExecutor
<1>2. /\ phase[e] = "running" /\ job' = job /\ given' = given /\ sliced' = sliced
      /\ returned'[e] = Append(returned[e], ResultOf(e))
  BY DEF EndRun, Types, ResultOf
<1> PICK l \in Nat \ {0} : l = Len(given[e])
  BY <1>2, ContextIs
<1>3. \A n \in 1..l : given'[e] = given[e] /\ sliced'[e] = sliced[e]
  BY <1>2
<1>4. /\ DOMAIN returned'[e] = 1..l /\ returned'[e][l] = ResultOf(e)
      /\ DOMAIN returned[e] = 1..(l - 1)
      /\ \A m \in 1..(l - 1) : returned'[e][m] = returned[e][m]
  <2> PICK r : r = ResultOf(e)
    OBVIOUS
  <2> PICK old \in Seq(Values \cup Seq(Items)) : old = returned[e]
    BY <1>1
  <2>1. Len(old) = l - 1 /\ DOMAIN old = 1..(l - 1)
    BY <1>1, <1>2, LenProperties
  <2>2. snk[e] \in Seq(Items)
    BY DEF Types, TypedExecutor
  <2>3. r \in Values \cup Seq(Items)
    BY <2>2, HeadTailProperties DEF ResultOf, DrainOut, Values
  <2>4. /\ Len(Append(old, r)) = (l - 1) + 1 /\ Append(old, r) \in Seq(Values \cup Seq(Items))
        /\ \A m \in 1..(l - 1) : Append(old, r)[m] = old[m]
        /\ Append(old, r)[(l - 1) + 1] = r
    BY <2>1, <2>3, AppendProperties
  <2>5. (l - 1) + 1 = l
    OBVIOUS
  <2>6. DOMAIN Append(old, r) = 1..l
    BY <2>4, <2>5, LenProperties
  <2> QED
    BY <1>2, <2>1, <2>4, <2>5, <2>6
<1>5. ASSUME NEW n \in DOMAIN given[e] PROVE (given[e][n] \in ArgsOf(e, n))'
  BY <1>2 DEF Answered, ArgsOf
<1>6. ASSUME Whole(job[e]), Alone(e), NEW n \in DOMAIN returned'[e]
      PROVE  OwnResult(e, n, returned[e][n])'
  <2> DEFINE r == returned'[e][n]
  <2>1. OwnResult(e, n, r)
    <3>1. CASE n = l
      <4>1. OwnResult(e, l, ResultOf(e))
        BY <1>6, OwnAtEnd
      <4> QED
        BY <1>4, <3>1, <4>1
    <3>2. CASE n # l
      <4>1. n \in 1..(l - 1)
        BY <1>4, <3>2
      <4>2. n \in DOMAIN returned[e] /\ r = returned[e][n]
        BY <1>4, <4>1
      <4> QED
        BY <1>6, <4>2 DEF Answered
    <3> QED
      BY <3>1, <3>2
  <2>2. n \in Nat \ {0}
    BY <1>4
  <2>3. OwnResult(e, n, returned[e][n])' <=> OwnResult(e, n, returned'[e][n])
    BY <1>2 DEF OwnResult, Block, Parts
  <2> QED
    BY <2>1, <2>3
<1> QED
  BY <1>2, <1>5, <1>6, CountingSame DEF Answered

-----------------------------------------------------------------------------
(* Calls stay apart.                                                       *)

\* What a step does to the executor whose step it is.
LEMMA ApartHere ==
  ASSUME CallsApart, Types', NEW e \in Executors, StepOf(e), ~Starved(e)'
  PROVE  Apart(e)'
<1>0. Types /\ Apart(e)
  BY StarvedStays DEF CallsApart
<1> SUFFICES /\ IF phase'[e] = "idle" THEN Quiet(e)' ELSE Flowing(e)'
             /\ Answered(e)'
  BY DEF Apart
<1> USE <1>0 DEF Apart
<1>1. CASE \E a \in ArgsOf(e, Len(given[e]) + 1) : Call(e, a)
  <2> PICK a \in ArgsOf(e, Len(given[e]) + 1) : Call(e, a)
    BY <1>1
  <2>1. Quiet(e)
    BY DEF Call
  <2> QED
    BY <2>1, CallFlows, CallAnswers
<1>2. CASE RunStep(e) /\ ~EndRun(e)
  <2>1. phase' = phase /\ phase[e] = "running"
    BY <1>2, RunStepKeeps
  <2>2. Flowing(e)
    BY <2>1
  <2>3. Flowing(e)'
    <3>1. CASE \E i \in DOMAIN src[e] : CallSource(e, i)
      BY <2>2, <3>1, SourceFlows
    <3>2. CASE \E n \in DOMAIN job[e].kinds : Fire(e, n)
      <4> PICK n \in DOMAIN job[e].kinds : Fire(e, n)
        BY <3>2
      <4>1. PassEos(e, n) => job[e].kinds[n] = "random" \/ job[e].kinds[n] = "slicer"
        BY DEF PassEos, Fires
      <4> QED
        BY <2>2, <4>1, PlainFlows, SlicerFlows, ClusterFlows DEF Fire
    <3>3. CASE CallSink(e)
      BY <2>2, <3>3, SinkFlows
    <3> QED
      BY <1>2, <3>1, <3>2, <3>3 DEF RunStep
  <2>4. Answered(e)'
    BY <1>2, RunStepAnswers
  <2> QED
    BY <2>1, <2>3, <2>4
<1>3. CASE EndRun(e)
  <2>1. phase'[e] = "idle" /\ Flowing(e)
    BY <1>3 DEF EndRun, Types
  <2> QED
    BY <1>3, <2>1, EndFlows, EndAnswers
<1> QED
  BY <1>1, <1>2, <1>3 DEF StepOf

\* Only a node that draws changes what was drawn, and only under its own name.
LEMMA DrawnStays ==
  ASSUME Types, NEW e \in Executors, StepOf(e)
  PROVE  \/ drawn' = drawn
         \/ Randoms(job[e]) # {} /\ \A c \in Scopes \ {Service(job[e])} : drawn'[c] = drawn[c]
<1>1. CASE \E a \in ArgsOf(e, Len(given[e]) + 1) : Call(e, a)
  BY <1>1 DEF Call
<1>2. CASE \E i \in DOMAIN src[e] : CallSource(e, i)
  BY <1>2 DEF CallSource
<1>3. CASE \E n \in DOMAIN job[e].kinds : Fire(e, n)
  <2> PICK n \in DOMAIN job[e].kinds : Fire(e, n)
    BY <1>3
  <2>1. CASE Transform(e, n) \/ PassEos(e, n) \/ Cluster(e, n) \/ Slice(e, n)
    BY <2>1 DEF Transform, PassEos, Cluster, Slice
  <2>2. CASE Fluctuate(e, n)
    <3>1. n \in Randoms(job[e])
      BY <2>2 DEF Fluctuate, Fires, Randoms, OfKind
    <3>2. \A c \in Scopes \ {Service(job[e])} : drawn'[c] = drawn[c]
      BY <2>2 DEF Fluctuate, Types, Shared
    <3> QED
      BY <3>1, <3>2
  <2> QED
    BY <2>1, <2>2 DEF Fire
<1>4. CASE CallSink(e) \/ EndRun(e)
  BY <1>4 DEF CallSink, EndRun
<1> QED
  BY <1>1, <1>2, <1>3, <1>4 DEF StepOf, RunStep

\* What is made without clustering does not depend on what a component holds.
LEMMA MadeElsewhere ==
  ASSUME NEW g, NEW c, NEW s, NEW k, NEW h, NEW out, NEW took, NEW num,
         Made(g, c, s, k, h, out, took, num), NEW h2, Clusterings(g) # {} => h2 = h
  PROVE  Made(g, c, s, k, h2, out, took, num)
<1> SUFFICES ASSUME NEW p \in Places(g) PROVE MadeAt(g, c, s, k, h2, out, took, num, p)
  BY DEF Made
<1>1. MadeAt(g, c, s, k, h, out, took, num, p)
  BY DEF Made
<1> QED
  BY <1>1 DEF MadeAt

\* What a step changes of the memory the other executors' components have: nothing,
\* as long as no two share it.
LEMMA MemoryElsewhere ==
  ASSUME Types, NEW e \in Executors, StepOf(e), OwnClusterings(job), NEW f \in Executors, f # e
  PROVE  /\ Clusterings(job[f]) # {} => held'[Service(job[f])] = held[Service(job[f])]
         /\ Counting(f) => drawn'[Service(job[f])] = drawn[Service(job[f])]
<1>1. Service(job[f]) \in Scopes
  BY GraphOf
<1>2. ASSUME Clusterings(job[f]) # {} PROVE held'[Service(job[f])] = held[Service(job[f])]
  <2>1. CASE held' = held
    BY <2>1
  <2>2. CASE Clusterings(job[e]) # {} /\ \A c \in Scopes \ {Service(job[e])} : held'[c] = held[c]
    <3>1. Service(job[f]) # Service(job[e])
      BY <1>2, <2>2 DEF OwnClusterings, Service, Executors
    <3> QED
      BY <1>1, <2>2, <3>1
  <2> QED
    BY <2>1, <2>2, HeldStays
<1>3. ASSUME Counting(f) PROVE drawn'[Service(job[f])] = drawn[Service(job[f])]
  <2>1. CASE drawn' = drawn
    BY <2>1
  <2>2. CASE Randoms(job[e]) # {} /\ \A c \in Scopes \ {Service(job[e])} : drawn'[c] = drawn[c]
    <3>1. Stateful(job[e])
      BY <2>2 DEF Randoms, OfKind, Stateful
    <3>2. Service(job[e]) # Service(job[f])
      BY <1>3, <3>1 DEF Counting, Alone
    <3> QED
      BY <1>1, <2>2, <3>2
  <2> QED
    BY <2>1, <2>2, DrawnStays
<1> QED
  BY <1>2, <1>3

\* And what it does to the others.
LEMMA ApartElsewhere ==
  ASSUME CallsApart, NEW e \in Executors, StepOf(e), OwnClusterings(job),
         NEW f \in Executors, f # e, ~Starved(f)'
  PROVE  Apart(f)'
<1>0. Types /\ Apart(f)
  BY StarvedStays DEF CallsApart
<1> SUFFICES /\ IF phase'[f] = "idle" THEN Quiet(f)' ELSE Flowing(f)'
             /\ Answered(f)'
  BY DEF Apart
<1>1. /\ Types /\ job' = job /\ src'[f] = src[f] /\ edge'[f] = edge[f] /\ snk'[f] = snk[f]
      /\ phase'[f] = phase[f] /\ given'[f] = given[f] /\ sliced'[f] = sliced[f]
      /\ returned'[f] = returned[f]
  BY <1>0, Others
<1>2. /\ Clusterings(job[f]) # {} => held'[Service(job[f])] = held[Service(job[f])]
      /\ Counting(f) => drawn'[Service(job[f])] = drawn[Service(job[f])]
  BY <1>1, MemoryElsewhere
<1>3. \A n : DrawnBy(f, n)' = DrawnBy(f, n)
  BY <1>1 DEF DrawnBy
<1>4. DrawnBy(f, Len(given[f]))' = DrawnBy(f, Len(given[f]))
      /\ DrawnBy(f, Len(given[f]) - 1)' = DrawnBy(f, Len(given[f]) - 1)
  BY <1>1 DEF DrawnBy
<1>5. ContextOf(f)' = ContextOf(f) /\ (Counting(f)' <=> Counting(f))
  BY <1>1, CountingSame DEF ContextOf
<1>6. Answered(f)'
  <2>1. Answered(f)
    BY <1>0 DEF Apart
  <2>2. /\ \A n \in DOMAIN given'[f] : given'[f][n] \in ArgsOf(f, n)
        /\ \A n \in DOMAIN returned[f] :
             sliced'[f][n] = sliced[f][n] /\ \A m \in 1..n : given'[f][m] = given[f][m]
    BY <1>1, <2>1 DEF Answered
  <2> QED
    BY <1>1, <2>1, <2>2, AnswersStay
<1>7. CASE phase[f] = "idle"
  <2>1. Quiet(f)
    BY <1>0, <1>7 DEF Apart
  <2>2. Quiet(f)'
    BY <1>1, <1>2, <1>4, <1>5, <2>1 DEF Quiet, Service
  <2> QED
    BY <1>1, <1>6, <1>7, <2>2
<1>8. CASE phase[f] # "idle"
  <2>1. Flowing(f)
    BY <1>0, <1>8 DEF Apart
  <2> PICK out, took, num : Going(f, out, took, num)
    BY <2>1 DEF Flowing
  <2> DEFINE g == job[f]
             h == held[Service(g)]
             h2 == held'[Service(g)]
  <2>2. /\ Flow(g, edge[f], src[f], snk[f], h, out, took)
        /\ Made(g, ContextOf(f), src[f], snk[f], h, out, took, num)
        /\ Counting(f) => Numbers(g, DrawnBy(f, Len(given[f]) - 1), drawn[Service(g)], out, num)
    BY DEF Going
  <2>3. Clusterings(g) # {} => h2 = h
    BY <1>2
  <2>4. /\ Flow(g, edge[f], src[f], snk[f], h2, out, took)
        /\ Made(g, ContextOf(f), src[f], snk[f], h2, out, took, num)
    <3> HIDE DEF g, h, h2
    <3> QED
      BY <2>2, <2>3, FlowElsewhere, MadeElsewhere
  <2>5. Counting(f) =>
          Numbers(g, DrawnBy(f, Len(given[f]) - 1)', drawn'[Service(g)], out, num)
    BY <1>2, <1>4, <2>2
  <2>6. Flowing(f)'
    BY <1>1, <1>5, <2>4, <2>5, GoesOn
  <2> QED
    BY <1>1, <1>6, <1>8, <2>6
<1> QED
  BY <1>7, <1>8

\* In the beginning there is nothing anywhere.
LEMMA ApartBegins ==
  ASSUME Init
  PROVE  CallsApart
<1>1. Types
  BY TypesInit
<1>2. Unused
  BY DEF Init, Unused
<1>3. ASSUME NEW e \in Executors PROVE phase[e] = "idle" /\ Quiet(e) /\ Answered(e)
  <2>1. Service(job[e]) \in Scopes
    BY <1>1, GraphOf
  <2>2. /\ phase[e] = "idle" /\ src[e] = [i \in DOMAIN job[e].sources |-> NewSource]
        /\ edge[e] = [x \in job[e].edges |-> <<>>] /\ snk[e] = NewSink
        /\ held[Service(job[e])] = {} /\ drawn[Service(job[e])] = 0
        /\ given[e] = <<>> /\ returned[e] = <<>>
    BY <2>1 DEF Init
  <2>3. Counting(e) => drawn[Service(job[e])] = DrawnBy(e, Len(given[e]))
    <3> SUFFICES ASSUME Counting(e) PROVE DrawnBy(e, Len(given[e])) = 0
      BY <2>2
    <3>1. IsFiniteSet(Randoms(job[e]))
      BY FewDraw DEF Counting
    <3>2. Cardinality(Randoms(job[e])) \in Nat
      BY <3>1, FS_CardinalityType
    <3>3. 1..Len(given[e]) = {}
      BY <2>2
    <3>4. {m \in 1..Len(given[e]) : NullFree(given[e][m])} = {}
      BY <3>3
    <3>5. Cardinality({m \in 1..Len(given[e]) : NullFree(given[e][m])}) = 0
      BY <3>4, FS_EmptySet
    <3>6. \A k \in Nat : 0 * k = 0
      OBVIOUS
    <3> QED
      BY <3>2, <3>5, <3>6 DEF DrawnBy
  <2>4. Quiet(e)
    BY <2>2, <2>3 DEF Quiet, NewSource, NewSink
  <2>5. Answered(e)
    <3>1. DOMAIN given[e] = {} /\ DOMAIN returned[e] = {}
      BY <2>2
    <3> QED
      BY <3>1 DEF Answered
  <2> QED
    BY <2>2, <2>4, <2>5
<1> QED
  BY <1>1, <1>2, <1>3 DEF CallsApart, Apart

\* And no step lets calls get into each other's way.
LEMMA StaysApart ==
  ASSUME CallsApart, OwnClusterings(job), [Next]_vars
  PROVE  CallsApart'
<1>1. Types /\ Types'
  BY TypesNext DEF CallsApart
<1>2. CASE UNCHANGED vars
  <2>1. /\ job' = job /\ src' = src /\ edge' = edge /\ snk' = snk /\ phase' = phase
        /\ given' = given /\ sliced' = sliced /\ returned' = returned
        /\ held' = held /\ drawn' = drawn /\ empty' = empty
    BY <1>2 DEF vars
  <2>2. Executors' = Executors /\ Scopes' = Scopes
    BY <2>1 DEF Executors, Scopes
  <2>3. ASSUME NEW e \in Executors, ~Starved(e)' PROVE Apart(e)'
    <3>0. Apart(e)
      BY <2>1, <2>3 DEF CallsApart, Starved
    <3>1. DrawnBy(e, Len(given[e]))' = DrawnBy(e, Len(given[e]))
          /\ DrawnBy(e, Len(given[e]) - 1)' = DrawnBy(e, Len(given[e]) - 1)
      BY <2>1 DEF DrawnBy
    <3>2. ContextOf(e)' = ContextOf(e) /\ (Counting(e)' <=> Counting(e))
      BY <2>1, CountingSame DEF ContextOf
    <3>3. Answered(e)'
      BY <1>1, <2>1, <3>0, AnswersStay DEF Apart, Answered
    <3>4. CASE phase[e] = "idle"
      <4>1. Quiet(e)'
        BY <2>1, <3>0, <3>1, <3>2, <3>4 DEF Apart, Quiet, Service
      <4> QED
        BY <2>1, <3>3, <3>4, <4>1 DEF Apart
    <3>5. CASE phase[e] # "idle"
      <4> PICK out, took, num : Going(e, out, took, num)
        BY <3>0, <3>5 DEF Apart, Flowing
      <4>1. Flowing(e)'
        BY <2>1, <3>1, <3>2, GoesOn DEF Going
      <4> QED
        BY <2>1, <3>3, <3>5, <4>1 DEF Apart
    <3> QED
      BY <3>4, <3>5
  <2>4. Unused'
    BY <2>1, <2>2 DEF CallsApart, Unused, Service
  <2> QED
    BY <1>1, <2>2, <2>3, <2>4 DEF CallsApart
<1>3. ASSUME NEW e \in Executors, StepOf(e) PROVE CallsApart'
  <2>1. job' = job /\ Executors' = Executors /\ Scopes' = Scopes
    BY <1>1, <1>3, Others
  <2>2. \A f \in Executors : ~Starved(f)' => Apart(f)'
    BY <1>1, <1>3, ApartHere, ApartElsewhere
  <2>3. Unused'
    <3> SUFFICES ASSUME NEW c \in Scopes,
                        \A f \in Executors : Service(job[f]) = c => Clusterings(job[f]) = {}
                 PROVE  held'[c] = {}
      BY <2>1 DEF Unused, Service
    <3>1. held[c] = {}
      BY DEF CallsApart, Unused
    <3> QED
      BY <1>1, <1>3, <3>1, HeldStays
  <2> QED
    BY <1>1, <2>1, <2>2, <2>3 DEF CallsApart
<1> QED
  BY <1>2, <1>3 DEF Next, StepOf

-----------------------------------------------------------------------------
(* The theorems.                                                           *)

\* Between its calls an executor's graph is empty, edges, boundary nodes and
\* collected blobs alike, for every job in which no two executors share a
\* clustering component, whatever the other executors do meanwhile and however many
\* slices frames have: the streams of a call run dry on every well-formed graph, until
\* a frame without slices comes to a join.
THEOREM NothingRemains ==
  ASSUME \A j \in Jobs : OwnClusterings(j)
  PROVE  Spec => []NoResidue
<1>1. Init => CallsApart
  BY ApartBegins
<1>2. CallsApart /\ [Next]_vars => CallsApart'
  <2>1. CallsApart => OwnClusterings(job)
    BY DEF CallsApart, Types
  <2> QED
    BY <2>1, StaysApart
<1>3. CallsApart => NoResidue
  <2> SUFFICES ASSUME CallsApart, NEW e \in Executors, phase[e] = "idle", ~Starved(e)
               PROVE  /\ snk[e] = <<>>
                      /\ \A x \in job[e].edges : edge[e][x] = <<>>
                      /\ (\A f \in Executors : phase[f] = "idle" /\ ~Starved(f))
                           => held[Service(job[e])] = {}
    BY DEF NoResidue
  <2>1. Quiet(e)
    BY DEF CallsApart, Apart
  <2>2. ASSUME \A f \in Executors : phase[f] = "idle" /\ ~Starved(f)
        PROVE  held[Service(job[e])] = {}
    <3>1. \A f \in Executors : Quiet(f)
      BY <2>2 DEF CallsApart, Apart
    <3>2. Service(job[e]) \in Scopes
      BY GraphOf DEF CallsApart
    <3> QED
      BY <3>1, <3>2 DEF CallsApart, Unused, Quiet
  <2> QED
    BY <2>1, <2>2 DEF Quiet
<1> QED
  BY <1>1, <1>2, <1>3, PTL DEF Spec

\* A call returns what was made of its own arguments, in every job whose graphs
\* let all that went in come out: slices in step, the one cluster of all of them and
\* of this call's depositions, and the island's own next random numbers; until a frame
\* without slices comes to a join.
THEOREM ResultsAreOwn ==
  ASSUME \A j \in Jobs : \A e \in DOMAIN j : Whole(j[e])
  PROVE  Spec => []ResultIsOwn
<1> DEFINE Inv == Types /\ (Independent => CallsApart)
<1>1. Init => Inv
  BY TypesInit, ApartBegins
<1>2. Inv /\ [Next]_vars => Inv'
  <2> SUFFICES ASSUME Inv, [Next]_vars PROVE Inv'
    OBVIOUS
  <2>1. Types'
    BY TypesNext
  <2>2. job' = job
    <3>1. CASE UNCHANGED vars
      BY <3>1 DEF vars
    <3>2. ASSUME NEW e \in Executors, StepOf(e) PROVE job' = job
      BY <3>2, Others
    <3> QED
      BY <3>1, <3>2 DEF Next, StepOf
  <2>3. Independent' <=> Independent
    BY <2>2 DEF Independent, Executors
  <2>4. Independent => OwnClusterings(job)
    BY DEF Independent, OwnClusterings, Stateful, Clusterings, OfKind, Executors
  <2> QED
    BY <2>1, <2>3, <2>4, StaysApart
<1>3. Inv => ResultIsOwn
  <2> SUFFICES ASSUME Inv, Independent, NEW e \in Executors, NEW n \in DOMAIN returned[e],
                      ~Starved(e)
               PROVE  OwnResult(e, n, returned[e][n])
    BY DEF ResultIsOwn
  <2>1. Alone(e)
    BY DEF Independent, Alone, Service
  <2>2. Whole(job[e])
    BY DEF Types, Executors
  <2> QED
    BY <2>1, <2>2 DEF CallsApart, Apart, Answered
<1> QED
  BY <1>1, <1>2, <1>3, PTL DEF Spec
=============================================================================
