----------------------------- MODULE Topologies ------------------------------
(***************************************************************************)
(* The WCT sub-graphs (islands) that the Jsonnet files under src/cfg build *)
(* between the boundary nodes an executor hands them, as graphs: nodes,    *)
(* each of a kind, and edges into numbered input ports.  A node that feeds *)
(* several edges puts the same value on each.                              *)
(*                                                                         *)
(* Components are looked up in a process-wide factory, so a node is more   *)
(* than its place in the graph: it is the component of that type and name. *)
(* scope stands for what a file puts into those names besides the node's   *)
(* role: service_prefix and the anode, or nothing at all.                  *)
(***************************************************************************)
EXTENDS Integers, Sequences, FiniteSets

Edge(tail, head, port) == [tail |-> tail, head |-> head, port |-> port]

\* A chain of edges through the nodes of a sequence, into port 1 of each.
Chain(path) == {Edge(path[k], path[k + 1], 1) : k \in 1..(Len(path) - 1)}

Sources == <<"src1", "src2", "src3">>

(* Kinds of nodes:
     function    one value in, one value out
     random      a function that draws from the island's random service
     slicer      a frame in, any number of slices out
     fanout      one value in, the same value to every edge
     sync        one value of every port in, one value out
     clustering  many values in, one value out at the end of the stream   *)
Island(scope, sources, kinds, edges, collect) ==
  [scope   |-> scope,
   sources |-> SubSeq(Sources, 1, sources),
   kinds   |-> kinds,
   edges   |-> edges,
   collect |-> collect]

Scope(prefix, anode) == <<prefix, anode>>
Bare                 == <<"", "">>

-----------------------------------------------------------------------------
(* What a graph has to satisfy for a call to leave nothing in it.          *)

SourceNames(g) == {g.sources[i] : i \in DOMAIN g.sources}
Nodes(g)       == DOMAIN g.kinds \cup SourceNames(g)
Takers(g)      == DOMAIN g.kinds \cup {"snk"}
Into(g, n)     == {x \in g.edges : x.head = n}
OfKind(g, k)   == {n \in DOMAIN g.kinds : g.kinds[n] = k}
Randoms(g)     == OfKind(g, "random")
Slicers(g)     == OfKind(g, "slicer")
Clusterings(g) == OfKind(g, "clustering")

\* Edges lead from sources and nodes to nodes and the sink, every one of which has
\* an in-edge, and only one unless it synchronises; nothing leads round in a circle.
IsGraph(g) ==
  /\ g.sources \in Seq(SourceNames(g)) /\ Len(g.sources) \in 1..Len(Sources)
  /\ \A i, k \in DOMAIN g.sources : g.sources[i] = g.sources[k] => i = k
  /\ SourceNames(g) \cap DOMAIN g.kinds = {} /\ "snk" \notin Nodes(g)
  /\ \A n \in DOMAIN g.kinds :
       g.kinds[n] \in {"function", "random", "slicer", "fanout", "sync", "clustering"}
  /\ g.collect \in BOOLEAN
  /\ \A x \in g.edges : x.tail \in Nodes(g) /\ x.head \in Takers(g)
  /\ \A n \in Takers(g) : Into(g, n) # {}
  /\ \A n \in Takers(g) \ OfKind(g, "sync") : \A x, y \in Into(g, n) : x = y
  /\ \A s \in SUBSET DOMAIN g.kinds : s # {} =>
       \E n \in s : \A x \in Into(g, n) : x.tail \notin s

\* Values per call.  The nodes in "sliced" put out as many as the slicer, those in
\* "short" as many as clustering does alone, one less of a frame without activity;
\* all others put out two, the second an end of stream.  What a node synchronises
\* comes at one rate, and only a collecting node's sink takes slices.
Rated(g, sliced, short) ==
  /\ sliced \cap short = {}
  /\ \A n, m \in Slicers(g) : n = m
  /\ \A n, m \in Clusterings(g) : n = m
  /\ sliced # {} => Slicers(g) # {}
  /\ short # {} => Clusterings(g) # {}
  /\ \A n \in Slicers(g) :
       n \in sliced /\ \A x \in Into(g, n) : x.tail \notin sliced \cup short
  /\ \A n \in Clusterings(g) :
       /\ n \notin sliced /\ (n \in short <=> Len(g.sources) = 1)
       /\ \A x \in Into(g, n) : x.tail \in sliced
  /\ \A n \in DOMAIN g.kinds \ (Slicers(g) \cup Clusterings(g)) :
       \A x \in Into(g, n) : /\ n \in sliced <=> x.tail \in sliced
                             /\ n \in short <=> x.tail \in short
  /\ g.collect \/ \A x \in Into(g, "snk") : x.tail \notin sliced

WellFormed(g) ==
  IsGraph(g) /\ \E sliced, short \in SUBSET DOMAIN g.kinds : Rated(g, sliced, short)

\* The slicer alone gets the first source's frame, by way of the nodes in "up", and
\* what the others put out goes past it.
Upstream(g, up) ==
  /\ Slicers(g) # {} => g.sources[1] \in up
  /\ \A i \in 2..Len(g.sources) : g.sources[i] \notin up
  /\ up \cap Slicers(g) = {}
  /\ \A x \in g.edges : x.tail \in up <=> x.head \in up \cup Slicers(g)

\* What a graph has to satisfy besides for all that went in to come out as one
\* result: from everywhere the way leads on to the sink, random numbers are drawn
\* where the one source decides whether there is data at all, and a node that
\* collects collects slices.
Whole(g) ==
  /\ IsFiniteSet(DOMAIN g.kinds)
  /\ \A s \in SUBSET Nodes(g) : s # {} => \E x \in g.edges : x.tail \in s /\ x.head \notin s
  /\ \E up \in SUBSET Nodes(g) : Upstream(g, up)
  /\ Randoms(g) # {} => Slicers(g) = {} /\ Len(g.sources) = 1
  /\ g.collect => Slicers(g) # {} /\ Clusterings(g) = {}

-----------------------------------------------------------------------------
(* dune/wct/job/img.jsonnet                                                *)

\* Slices go to the tilings of both faces and their blobs are synchronised.
Tiling(slicer) ==
  {Edge(slicer, "slicefanout", 1),
   Edge("slicefanout", "tiling0", 1), Edge("slicefanout", "tiling1", 1),
   Edge("tiling0", "blobsetsync", 1), Edge("tiling1", "blobsetsync", 2)}

TilingKinds == [slicefanout |-> "fanout", tiling0 |-> "function", tiling1 |-> "function",
                blobsetsync |-> "sync"]

Join2(f, g) == [n \in DOMAIN f \cup DOMAIN g |-> IF n \in DOMAIN f THEN f[n] ELSE g[n]]

\* charge = "", slicer = "sum": a stream of blob sets.
ImgBlobs(scope) ==
  Island(scope, 1, Join2([sumslices |-> "slicer"], TilingKinds),
         Chain(<<"src1", "sumslices">>) \cup Tiling("sumslices")
           \cup Chain(<<"blobsetsync", "snk">>),
         TRUE)

\* charge = "solve", slicer = "mask": one cluster, charge from the signal.
ImgSolve(scope) ==
  Island(scope, 1,
         Join2([cefe |-> "function", maskslices |-> "slicer", blobclustering |-> "clustering",
                blobgrouping |-> "function", blobsolving |-> "function"], TilingKinds),
         Chain(<<"src1", "cefe", "maskslices">>) \cup Tiling("maskslices")
           \cup Chain(<<"blobsetsync", "blobclustering", "blobgrouping", "blobsolving", "snk">>),
         FALSE)

\* charge = "depofill": the cluster meets the depositions of the second source.
ImgDepoFill(scope) ==
  Island(scope, 2,
         Join2([sumslices |-> "slicer", blobclustering |-> "clustering",
                blobdepofill |-> "sync"], TilingKinds),
         Chain(<<"src1", "sumslices">>) \cup Tiling("sumslices")
           \cup Chain(<<"blobsetsync", "blobclustering", "blobdepofill", "snk">>)
           \cup {Edge("src2", "blobdepofill", 2)},
         FALSE)

-----------------------------------------------------------------------------
(* Chains.                                                                 *)

\* dune/wct/job/drift.jsonnet, input = "deposet".
Drift(scope) ==
  Island(scope, 1, [deposet_drifter |-> "random"],
         Chain(<<"src1", "deposet_drifter", "snk">>), FALSE)

\* dune/wct/job/sim.jsonnet, input = "deposet".
Sim(scope) ==
  Island(scope, 1,
         [deposet_drifter |-> "random", transform |-> "random", reframer |-> "function",
          addnoise |-> "random", digitizer |-> "function"],
         Chain(<<"src1", "deposet_drifter", "transform", "reframer", "addnoise",
                 "digitizer", "snk">>), FALSE)

\* dune/wct/job/sim-sigproc.jsonnet, input = "deposet".
SimSigproc(scope) ==
  Island(scope, 1,
         [deposet_drifter |-> "random", transform |-> "random", reframer |-> "function",
          addnoise |-> "random", digitizer |-> "function", sigproc |-> "function"],
         Chain(<<"src1", "deposet_drifter", "transform", "reframer", "addnoise",
                 "digitizer", "sigproc", "snk">>), FALSE)

\* deposet-to-frame.jsonnet: the component is named "converter" in every graph.
DepoSetToFrame ==
  Island(Bare, 1, [converter |-> "function"], Chain(<<"src1", "converter", "snk">>), FALSE)

\* frame-fanin.jsonnet: as many inputs as sources; named "fanin" everywhere.
FrameFanin(n) ==
  Island(Bare, n, [fanin |-> "sync"],
         {Edge(Sources[i], "fanin", i) : i \in 1..n} \cup Chain(<<"fanin", "snk">>), FALSE)
=============================================================================
