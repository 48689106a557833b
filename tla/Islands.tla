------------------------------- MODULE Islands -------------------------------
(***************************************************************************)
(* Executors around the sub-graphs of module Topologies, each driven by    *)
(* calls on a thread of its own.  Module ShapeExecutor takes the island    *)
(* between the boundary nodes for one node; here it is the graph that the  *)
(* Jsonnet file builds, with a queue on every edge, driven by the engine   *)
(* one node at a time in any order.                                        *)
(*                                                                         *)
(* Nothing resets a graph between calls, and what a component remembers    *)
(* belongs to its name in the process-wide factory, not to the graph: the  *)
(* blobs that clustering collects until the end of the stream, and the     *)
(* position in the sequence of a random service.                           *)
(***************************************************************************)
EXTENDS BoundaryNodes, Topologies, FiniteSets

CONSTANTS Jobs,      \* sets of executors with the island of each: [names -> islands]
          Counts,    \* how many slices a slicer may make of one frame
          MaxCalls   \* [names of executors -> bound on its calls]

Names == UNION {DOMAIN j : j \in Jobs}

\* An atom is what was given to a port in a call, or one slice of it; an item is
\* the atoms it was made from and the random numbers used.
NodeNames == UNION {UNION {DOMAIN j[e].kinds : e \in DOMAIN j} : j \in Jobs}
Atoms == [call : Nat, port : Nat, slice : Nat]
Items == [parts : SUBSET Atoms, draws : SUBSET (NodeNames \X (Nat \ {0}))]

ASSUME IslandsAssumption ==
  /\ Counts \subseteq Nat
  /\ \A e \in Names : MaxCalls[e] \in Nat
  /\ Null \notin Items
  /\ \A j \in Jobs : \A e \in DOMAIN j : WellFormed(j[e])

VARIABLES job,       \* the job: one of Jobs
          src,       \* [executors -> sequence of boundary sources]
          edge,      \* [executors -> [edges of the island -> queue]]
          snk,       \* [executors -> boundary sink]
          phase,     \* [executors -> "idle" or "running"]
          given,     \* history: [executors -> argument tuples of its calls]
          sliced,    \* history: [executors -> number of slices made in each call]
          empty,     \* history: [executors -> number of frames that had no slices]
          returned,  \* history: [executors -> what its calls returned]
          held,      \* [scopes -> blob sets kept by the clustering component]
          drawn      \* [scopes -> numbers drawn from the random service]

vars == <<job, src, edge, snk, phase, given, sliced, empty, returned, held, drawn>>

Executors == DOMAIN job

\* Variant: services are named without service_prefix and anode.
ServiceUnscoped(island) == Bare

\* Whose memory the island's stateful components have.
Service(island) == island.scope

Scopes == {Bare} \cup {job[e].scope : e \in Executors}

(* Data.  A node draws as many numbers as its data needs, counted as one.  *)

Atom(n, i, s)   == [call |-> n, port |-> i, slice |-> s]
Item(parts)     == [parts |-> parts, draws |-> {}]
Merge(items)    == [parts |-> UNION {x.parts : x \in items},
                    draws |-> UNION {x.draws : x \in items}]

Init ==
  /\ job \in Jobs
  /\ src = [e \in Executors |-> [i \in DOMAIN job[e].sources |-> NewSource]]
  /\ edge = [e \in Executors |-> [x \in job[e].edges |-> <<>>]]
  /\ snk = [e \in Executors |-> NewSink]
  /\ phase = [e \in Executors |-> "idle"]
  /\ given = [e \in Executors |-> <<>>]
  /\ sliced = [e \in Executors |-> <<>>]
  /\ empty = [e \in Executors |-> 0]
  /\ returned = [e \in Executors |-> <<>>]
  /\ held = [c \in Scopes |-> {}]
  /\ drawn = [c \in Scopes |-> 0]

-----------------------------------------------------------------------------
(* operator() of the executor.                                             *)

\* The arguments of the n-th call: an item for every port, or a null product.
ArgsOf(e, n) ==
  {a \in [DOMAIN job[e].sources -> {Item({Atom(n, i, 0)}) : i \in 1..3} \cup {Null}] :
     \A i \in DOMAIN a : a[i] \in {Item({Atom(n, i, 0)}), Null}}

Call(e, a) ==
  /\ phase[e] = "idle"
  /\ Len(given[e]) < MaxCalls[e]
  /\ given' = [given EXCEPT ![e] = Append(@, a)]
  /\ sliced' = [sliced EXCEPT ![e] = Append(@, 0)]
  /\ src' = [src EXCEPT ![e] = [i \in DOMAIN @ |-> Fill(@[i], a[i])]]
  /\ phase' = [phase EXCEPT ![e] = "running"]
  /\ UNCHANGED <<job, edge, snk, empty, returned, held, drawn>>

-----------------------------------------------------------------------------
(* run_graph().                                                            *)

InEdges(e, n) == Into(job[e], n)
Ready(e, n)   == \A x \in InEdges(e, n) : edge[e][x] # <<>>
Heads(e, n)   == {Head(edge[e][x]) : x \in InEdges(e, n)}

\* Node n takes one value from every in-edge and puts values on each out-edge.
Moved(e, n, values) ==
  [x \in job[e].edges |-> IF x.head = n THEN Tail(edge[e][x])
                          ELSE IF x.tail = n THEN edge[e][x] \o values ELSE edge[e][x]]

Fires(e, n, kinds) == /\ phase[e] = "running"
                      /\ job[e].kinds[n] \in kinds
                      /\ Ready(e, n)

CallSource(e, i) ==
  /\ phase[e] = "running"
  /\ SourceOk(src[e][i])
  /\ edge' = [edge EXCEPT ![e] = Moved(e, job[e].sources[i], <<SourceOut(src[e][i])>>)]
  /\ src' = [src EXCEPT ![e][i] = AfterCall(@)]
  /\ UNCHANGED <<job, snk, phase, given, sliced, empty, returned, held, drawn>>

\* One value for one: TrivialDepoFramer, and every node without memory.  Null,
\* the end of the stream, is passed on.
OneForOne(values) == IF Null \in values THEN Null ELSE Merge(values)

Transform(e, n) ==
  /\ Fires(e, n, {"function", "fanout", "sync"})
  /\ edge' = [edge EXCEPT ![e] = Moved(e, n, <<OneForOne(Heads(e, n))>>)]
  /\ UNCHANGED <<job, src, snk, phase, given, sliced, empty, returned, held, drawn>>

PassEos(e, n) ==
  /\ Fires(e, n, {"random", "slicer"})
  /\ Null \in Heads(e, n)
  /\ edge' = [edge EXCEPT ![e] = Moved(e, n, <<Null>>)]
  /\ UNCHANGED <<job, src, snk, phase, given, sliced, empty, returned, held, drawn>>

Fluctuate(e, n) ==
  /\ Fires(e, n, {"random"})
  /\ Null \notin Heads(e, n)
  /\ LET c == Service(job[e])
         draw == [parts |-> {}, draws |-> {<<n, drawn[c] + 1>>}] IN
       /\ drawn' = [drawn EXCEPT ![c] = @ + 1]
       /\ edge' = [edge EXCEPT ![e] = Moved(e, n, <<Merge(Heads(e, n) \cup {draw})>>)]
  /\ UNCHANGED <<job, src, snk, phase, given, sliced, empty, returned, held>>

\* A frame without activity has no slices.
Slice(e, n) ==
  /\ Fires(e, n, {"slicer"})
  /\ Null \notin Heads(e, n)
  /\ \E k \in Counts :
       LET call == Len(given[e]) IN
       /\ edge' = [edge EXCEPT ![e] =
            Moved(e, n, [s \in 1..k |-> Item({Atom(call, 1, s)})])]
       /\ sliced' = [sliced EXCEPT ![e][call] = k]
       /\ empty' = [empty EXCEPT ![e] = IF k = 0 THEN @ + 1 ELSE @]
  /\ UNCHANGED <<job, src, snk, phase, given, returned, held, drawn>>

\* Blob clustering keeps blob sets, and at the end of the stream makes a cluster
\* of those it has.
Cluster(e, n) ==
  /\ Fires(e, n, {"clustering"})
  /\ LET c == Service(job[e]) IN
       IF Null \in Heads(e, n)
       THEN /\ edge' = [edge EXCEPT ![e] = Moved(e, n,
                 IF held[c] = {} THEN <<Null>> ELSE <<Merge(held[c]), Null>>)]
            /\ held' = [held EXCEPT ![c] = {}]
       ELSE /\ edge' = [edge EXCEPT ![e] = Moved(e, n, <<>>)]
            /\ held' = [held EXCEPT ![c] = @ \cup Heads(e, n)]
  /\ UNCHANGED <<job, src, snk, phase, given, sliced, empty, returned, drawn>>

CallSink(e) ==
  /\ phase[e] = "running"
  /\ Ready(e, "snk")
  /\ \E value \in Heads(e, "snk") : snk' = [snk EXCEPT ![e] = Accept(@, value)]
  /\ edge' = [edge EXCEPT ![e] = Moved(e, "snk", <<>>)]
  /\ UNCHANGED <<job, src, phase, given, sliced, empty, returned, held, drawn>>

NoWork(e) == /\ \A i \in DOMAIN src[e] : ~SourceOk(src[e][i])
             /\ \A n \in DOMAIN job[e].kinds \cup {"snk"} : ~Ready(e, n)

\* Variant: CollectExecutor, too, drains its sink once.
EndRunDrainsOnce(e) ==
  /\ phase[e] = "running"
  /\ NoWork(e)
  /\ returned' = [returned EXCEPT ![e] = Append(@, IF job[e].collect
       THEN SelectSeq(<<DrainOut(snk[e])>>, LAMBDA v : v # Null) ELSE DrainOut(snk[e]))]
  /\ snk' = [snk EXCEPT ![e] = AfterDrain(@)]
  /\ phase' = [phase EXCEPT ![e] = "idle"]
  /\ UNCHANGED <<job, src, edge, given, sliced, empty, held, drawn>>

\* Variant: the engine waits for some output.
EndRunWithOutput(e) ==
  /\ phase[e] = "running"
  /\ NoWork(e)
  /\ snk[e] # NewSink
  /\ returned' = [returned EXCEPT ![e] =
       Append(@, IF job[e].collect THEN snk[e] ELSE DrainOut(snk[e]))]
  /\ snk' = [snk EXCEPT ![e] = IF job[e].collect THEN NewSink ELSE AfterDrain(@)]
  /\ phase' = [phase EXCEPT ![e] = "idle"]
  /\ UNCHANGED <<job, src, edge, given, sliced, empty, held, drawn>>

\* The run ends when no node has work, and operator() drains its sink.
EndRun(e) ==
  /\ phase[e] = "running"
  /\ NoWork(e)
  /\ returned' = [returned EXCEPT ![e] =
       Append(@, IF job[e].collect THEN snk[e] ELSE DrainOut(snk[e]))]
  /\ snk' = [snk EXCEPT ![e] = IF job[e].collect THEN NewSink ELSE AfterDrain(@)]
  /\ phase' = [phase EXCEPT ![e] = "idle"]
  /\ UNCHANGED <<job, src, edge, given, sliced, empty, held, drawn>>

-----------------------------------------------------------------------------
Fire(e, n) == \/ Transform(e, n) \/ PassEos(e, n) \/ Fluctuate(e, n)
              \/ Slice(e, n) \/ Cluster(e, n)

RunStep(e) == \/ \E i \in DOMAIN src[e] : CallSource(e, i)
              \/ \E n \in DOMAIN job[e].kinds : Fire(e, n)
              \/ CallSink(e)
              \/ EndRun(e)

Next == \E e \in Executors : \/ \E a \in ArgsOf(e, Len(given[e]) + 1) : Call(e, a)
                             \/ RunStep(e)

\* The thread inside an executor's call keeps driving its graph.
Spec == Init /\ [][Next]_vars /\ \A e \in Names : WF_vars(e \in Executors /\ RunStep(e))

-----------------------------------------------------------------------------
(* Properties.                                                             *)

\* Nulls never get into a boundary sink or into clustering; a call in progress
\* has an entry in given and in sliced and none in returned yet.
TypeOK ==
  /\ job \in Jobs
  /\ \A e \in Executors :
       /\ snk[e] \in Seq(Items)
       /\ phase[e] \in {"idle", "running"}
       /\ Len(given[e]) \in 0..MaxCalls[e]
       /\ Len(sliced[e]) = Len(given[e])
       /\ empty[e] \in Nat
       /\ Len(returned[e]) = Len(given[e]) - (IF phase[e] = "running" THEN 1 ELSE 0)
  /\ \A c \in Scopes : held[c] \subseteq Items /\ drawn[c] \in Nat

\* A frame without slices makes no cluster, so that the depositions of its call find
\* nothing to meet at the join: only the two ends of stream are left for each other.
Starved(e) == Len(job[e].sources) > 1 /\ empty[e] > 0

\* Between its calls an executor's graph is empty, edges and collected blobs
\* alike, so that no call finds data or an end of stream of an earlier one; unless
\* a frame without slices has come to a join.
NoResidue ==
  \A e \in Executors : phase[e] = "idle" /\ ~Starved(e) =>
    /\ snk[e] = <<>>
    /\ \A x \in job[e].edges : edge[e][x] = <<>>
    /\ (\A f \in Executors : phase[f] = "idle" /\ ~Starved(f)) => held[Service(job[e])] = {}

\* A clustering component is in one executor's graph.
OwnClusterings(j) ==
  \A e, f \in DOMAIN j : e # f /\ j[e].scope = j[f].scope =>
    Clusterings(j[e]) = {} \/ Clusterings(j[f]) = {}

Stateful(island) == \E n \in DOMAIN island.kinds : island.kinds[n] \in {"random", "clustering"}

\* Executors whose components remember something have names of their own for
\* them: another service_prefix or another anode.
Independent ==
  \A e, f \in Executors : e # f /\ job[e].scope = job[f].scope =>
    ~Stateful(job[e]) /\ ~Stateful(job[f])

NullFree(a) == \A i \in DOMAIN a : a[i] # Null

\* The atoms of the n-th call, the frame cut to slices if the island does that.
Parts(e, n) ==
  {Atom(n, i, 0) : i \in (IF Slicers(job[e]) = {} THEN 1 ELSE 2)..Len(job[e].sources)}
  \cup (IF Slicers(job[e]) = {} THEN {} ELSE {Atom(n, 1, s) : s \in 1..sliced[e][n]})

\* The random numbers of the n-th call: the next block of the island's sequence.
Block(e, n) ==
  LET before == Cardinality({m \in 1..(n - 1) : NullFree(given[e][m])})
      size   == Cardinality(Randoms(job[e]))
  IN  (before * size + 1)..((before + 1) * size)

\* Nothing, if some argument was null or the frame had no slices, the slices, or
\* the one item of everything.
OwnResult(e, n, r) ==
  IF ~NullFree(given[e][n]) \/ (Slicers(job[e]) # {} /\ sliced[e][n] = 0)
  THEN r = (IF job[e].collect THEN <<>> ELSE Null)
  ELSE IF job[e].collect
  THEN r = [s \in 1..sliced[e][n] |-> Item({Atom(n, 1, s)})]
  ELSE /\ r.parts = Parts(e, n)
       /\ {d[1] : d \in r.draws} = Randoms(job[e])
       /\ {d[2] : d \in r.draws} = Block(e, n)

\* Whatever the order in which the engine calls the nodes and whatever other
\* executors do meanwhile on other threads, a call returns what was made of its
\* own arguments alone: slices of one frame met in step on both faces, all of
\* them and once each; the one cluster has every slice of this frame and this
\* call's depositions; random numbers are the island's own next ones.  That is so
\* until a frame without slices comes to a join.
ResultIsOwn ==
  Independent =>
    \A e \in Executors : \A n \in DOMAIN returned[e] :
      ~Starved(e) => OwnResult(e, n, returned[e][n])

\* A slicer's graph with a second source, such as img.jsonnet's with depofill.
Joined(e) == Slicers(job[e]) # {} /\ Len(job[e].sources) > 1

\* What the second source has sent to the join, and how far the join is behind.
Stream(e) == [k \in 1..(2 * Len(given[e])) |->
                IF k % 2 = 1 THEN given[e][(k + 1) \div 2][2] ELSE Null]
Lag(e, n) == Cardinality({m \in 1..n : given[e][m][1] # Null /\ sliced[e][m] = 0})

\* What the cluster of the n-th call meets at the join.
Partner(e, n) == Stream(e)[2 * n - 1 - Lag(e, n - 1)]

\* Every frame without slices leaves one value more at the join, and never again
\* does it catch up: after one, the clusters of later calls meet an end of stream
\* and are dropped; after two, the depositions of the call before.
DepositionsLag ==
  \A e \in Executors : Joined(e) /\ phase[e] = "idle" =>
    LET calls == Len(given[e])
        sent  == CHOOSE x \in job[e].edges : x.tail = job[e].sources[2]
    IN  /\ snk[e] = <<>>
        /\ \A x \in job[e].edges : edge[e][x] =
             IF x = sent THEN SubSeq(Stream(e), 2 * calls - Lag(e, calls) + 1, 2 * calls) ELSE <<>>
        /\ \A n \in 1..calls : returned[e][n] =
             IF given[e][n][1] = Null \/ sliced[e][n] = 0 \/ Partner(e, n) = Null THEN Null
             ELSE Item({Atom(n, 1, s) : s \in 1..sliced[e][n]} \cup Partner(e, n).parts)

\* A call that began returns: on every topology the engine's loop runs dry.
Busy(e)     == e \in Executors /\ phase[e] = "running"
CallsReturn == \A e \in Names : Busy(e) ~> ~Busy(e)

\* drift.jsonnet:14-17: "a freshly-seeded rng here (via a distinct service_prefix)
\* yields the SAME first draws -- hence the SAME drifted depos -- as sim.jsonnet's
\* own".  As long as both islands were given the same events, the drifter of the
\* one uses the random numbers that the drifter of the other uses.
DriftReproduced ==
  \A n \in DOMAIN returned["drift"] \cap DOMAIN returned["sim"] :
    SubSeq(given["drift"], 1, n) = SubSeq(given["sim"], 1, n) /\ NullFree(given["drift"][n])
      => returned["drift"][n].draws \subseteq returned["sim"][n].draws
=============================================================================
