---------------------------- MODULE BoundaryPair -----------------------------
(***************************************************************************)
(* A BoundarySource and a BoundarySink joined by a pass-through graph, as  *)
(* in test_boundary.cpp and cfg/frame-passthrough-generic.jsonnet, driven  *)
(* by a PHLEX-side client that fills and drains in any order and a graph   *)
(* engine that calls the source whenever it likes.  Products may be null:  *)
(* a data product wraps a shared_ptr and nothing checks it (Data.hpp).     *)
(***************************************************************************)
EXTENDS BoundaryNodes

CONSTANTS Items,     \* the data the client can send
          MaxFills   \* bound on the number of fill() calls

ASSUME BoundaryAssumption == Null \notin Items /\ MaxFills \in Nat

VARIABLES src,      \* the BoundarySource
          snk,      \* the BoundarySink
          filled,   \* history: every argument of fill()
          drained,  \* history: every non-null result of drain()
          ends      \* history: how many fills had happened when each EOS was sent

vars == <<src, snk, filled, drained, ends>>

Products == Items \cup {Null}

\* Whatever is filled and whenever the engine calls: a null may wait in a source
\* (BoundarySource::fill takes it) but never in a sink (operator() drops it).
TypeOK ==
  /\ src \in [queue : Seq(Products), eosSent : BOOLEAN]
  /\ snk \in Seq(Items)
  /\ filled \in Seq(Products)
  /\ drained \in Seq(Items)
  /\ ends \in Seq(Nat)

Init ==
  /\ src = NewSource
  /\ snk = NewSink
  /\ filled = <<>>
  /\ drained = <<>>
  /\ ends = <<>>

-----------------------------------------------------------------------------
(* The PHLEX side.                                                         *)

FillSource(x) ==
  /\ Len(filled) < MaxFills
  /\ src' = Fill(src, x)
  /\ filled' = Append(filled, x)
  /\ UNCHANGED <<snk, drained, ends>>

\* A drain of an empty sink returns nullptr and changes nothing.
DrainSink ==
  /\ DrainOut(snk) # Null
  /\ snk' = AfterDrain(snk)
  /\ drained' = Append(drained, DrainOut(snk))
  /\ UNCHANGED <<src, filled, ends>>

-----------------------------------------------------------------------------
(* The graph engine: call the source and hand what it produced to the      *)
(* sink.  A call that returns FALSE changes nothing.                       *)

EosNow == src.queue = <<>> /\ ~src.eosSent

Tick ==
  /\ SourceOk(src)
  /\ src' = AfterCall(src)
  /\ snk' = Accept(snk, SourceOut(src))
  /\ ends' = IF EosNow THEN Append(ends, Len(filled)) ELSE ends
  /\ UNCHANGED <<filled, drained>>

Next == (\E x \in Products : FillSource(x)) \/ DrainSink \/ Tick

\* The engine calls its nodes until none does work, and the executor drains.
Spec == Init /\ [][Next]_vars /\ WF_vars(Tick) /\ WF_vars(DrainSink)

-----------------------------------------------------------------------------
(* Properties.                                                             *)

NonNull(s) == Filtered(s, LAMBDA x : x # Null)

\* Every non-null product filled is drained exactly once and in order; while
\* it is under way it sits in exactly one of the two queues.  Null products
\* leave no trace at the sink.
ExactlyOnceInOrder == drained \o snk \o NonNull(src.queue) = NonNull(filled)

\* An EOS closes a batch: the engine never sees a second EOS from the source
\* (other than a null product) unless something was filled in between, so a
\* graph that is run again without new input stays silent, and every EOS comes
\* after all that was filled before it.
EosClosesBatches ==
  /\ \A m, n \in DOMAIN ends : m < n => ends[m] < ends[n]
  /\ src.eosSent => /\ src.queue = <<>>
                    /\ ends # <<>>
                    /\ ends[Len(ends)] = Len(filled)

\* Once the client stops filling, the source comes to refuse every further call
\* with an EOS as its last word, and everything it was given is drained: the
\* engine's loop ends, whatever was filled and whenever.
EngineLoopEnds == <>[](~SourceOk(src) /\ drained = NonNull(filled))

\* The pair implements a FIFO channel; the graph run in between is invisible.
Channel == INSTANCE Fifo WITH channel <- snk \o NonNull(src.queue)
ImplementsFifo == Channel!Spec
=============================================================================
