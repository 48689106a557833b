---------------------------- MODULE ShapeExecutor ----------------------------
(***************************************************************************)
(* One shape executor (ShapeExecutors.hpp) around its private, persistent  *)
(* WCT graph.  operator() fills every boundary source, runs the graph      *)
(* until no node does any work, and drains the boundary sinks.  PHLEX      *)
(* registers the node as serial, so calls do not overlap, but the same     *)
(* graph, sources and sinks are driven again by every call: nothing resets *)
(* them, and what one call leaves behind the next one finds.               *)
(*                                                                         *)
(* The ports decide the shape: 1->1 function, N->1 join or fan-in, 1->N    *)
(* split or fan-out, 1->0 sink, and 1->1 with Collect the collect shape.   *)
(* The graph between the boundaries (the island) is external code: it      *)
(* takes one value from each in-edge, turns data into products, which it   *)
(* may hold back until end of stream, and passes end of stream on.         *)
(***************************************************************************)
EXTENDS BoundaryNodes, Integers, FiniteSets

CONSTANTS InPorts,    \* boundary sources (n_in of them, at least one)
          OutPorts,   \* boundary sinks (n_out; none for the sink shape)
          Collect,    \* TRUE: drain the whole sink; FALSE: one item per sink
          Checked,    \* TRUE: FaninExecutor, which checks the vector's size
          Emits,      \* how many products the island makes of one input tuple
          MaxCalls    \* bound on the number of calls

(* Data.  An input is identified by the call and the port it was given to. *)
(* A product names the whole input tuple it was made from, so data of two  *)
(* calls that get mixed remain recognisable.                               *)

Input(c, i) == [call |-> c, port |-> i]
Items       == {Input(c, i) : c \in 1..MaxCalls, i \in InPorts}
ArgTuples   == [InPorts -> Items \cup {Null}]
ArgsOf(c)   == {a \in ArgTuples : \A i \in InPorts : a[i] \in {Input(c, i), Null}}
HasNull(a)  == \E i \in InPorts : a[i] = Null

Product(a, n)    == [from |-> a, n |-> n]
AllProducts      == [from : ArgTuples, n : Nat]
ProductsOf(a, k) == [n \in 1..k |-> Product(a, n)]

\* Draining one item per sink is only right for an island that makes at most
\* one product of every input: the obligation each sub-graph's author has.
AtMostOne == Emits \subseteq {0, 1}

ASSUME ShapeAssumption ==
  /\ IsFiniteSet(InPorts) /\ InPorts # {} /\ IsFiniteSet(OutPorts)
  /\ {Collect, Checked} \subseteq BOOLEAN
  /\ Emits \subseteq Nat /\ Emits # {}
  /\ Collect \/ AtMostOne
  /\ MaxCalls \in Nat
  /\ Null \notin Items /\ Null \notin AllProducts

VARIABLES src,     \* [InPorts -> BoundarySource]      m_sources
          snk,     \* [OutPorts -> BoundarySink]       m_sinks
          edge,    \* [InPorts -> queue]: graph edges from the sources
          held,    \* products the island keeps until end of stream
          oedge,   \* [OutPorts -> queue]: graph edges into the sinks
          pc,      \* where operator() is: "idle", "run", "drain", "failed"
          calls,   \* number of calls so far
          args,    \* the arguments of the current or last call
          result,  \* [OutPorts -> value] returned by the last call
          fired    \* history: input tuples the island took in this run

island == <<edge, held, oedge>>
vars   == <<src, snk, island, pc, calls, args, result, fired>>

-----------------------------------------------------------------------------
NoQueues(ports) == [p \in ports |-> <<>>]
NoArgs   == [i \in InPorts |-> Null]
NoResult == [j \in OutPorts |-> IF Collect THEN <<>> ELSE Null]

Init ==
  /\ src = [i \in InPorts |-> NewSource]
  /\ snk = [j \in OutPorts |-> NewSink]
  /\ edge = NoQueues(InPorts)
  /\ held = <<>>
  /\ oedge = NoQueues(OutPorts)
  /\ pc = "idle"
  /\ calls = 0
  /\ args = NoArgs
  /\ result = NoResult
  /\ fired = 0

-----------------------------------------------------------------------------
(* operator(), up to run_graph().                                          *)

FillAll(a) ==
  /\ pc = "idle"
  /\ calls < MaxCalls
  /\ calls' = calls + 1
  /\ args' = a
  /\ src' = [i \in InPorts |-> Fill(src[i], a[i])]
  /\ fired' = 0
  /\ pc' = "run"
  /\ UNCHANGED <<snk, island, result>>

\* Variant: the size is checked after the first source was filled.
RejectSizeLate ==
  /\ Checked
  /\ pc = "idle"
  /\ calls < MaxCalls
  /\ calls' = calls + 1
  /\ \E i \in InPorts : src' = [src EXCEPT ![i] = Fill(@, Input(calls + 1, i))]
  /\ UNCHANGED <<snk, island, pc, args, result, fired>>

\* FaninExecutor throws before it fills anything when the vector it is given
\* has not one element per source; the caller may catch this and call again.
RejectSize ==
  /\ Checked
  /\ pc = "idle"
  /\ calls < MaxCalls
  /\ calls' = calls + 1
  /\ UNCHANGED <<src, snk, island, pc, args, result, fired>>

-----------------------------------------------------------------------------
(* run_graph(): the engine calls nodes, in an order it chooses, until none *)
(* of them does any work.                                                  *)

EdgesReady == \A i \in InPorts : edge[i] # <<>>

CallSource(i) ==
  /\ pc = "run"
  /\ SourceOk(src[i])
  /\ edge' = [edge EXCEPT ![i] = Append(@, SourceOut(src[i]))]
  /\ src' = [src EXCEPT ![i] = AfterCall(@)]
  /\ UNCHANGED <<snk, held, oedge, pc, calls, args, result, fired>>

\* The tuple at the head of the in-edges.
Heads == [i \in InPorts |-> Head(edge[i])]

TakeInputs ==
  /\ pc = "run"
  /\ EdgesReady
  /\ edge' = [i \in InPorts |-> Tail(edge[i])]
  /\ fired' = fired + 1
  /\ UNCHANGED <<src, snk, pc, calls, args, result>>

\* Data on every in-edge: new products queue up behind those held back, and
\* the island lets go of as many as it likes, in order.
ProcessData ==
  /\ TakeInputs
  /\ ~HasNull(Heads)
  /\ \E k \in Emits :
       LET pending == held \o ProductsOf(Heads, k) IN
       \E m \in 0..Len(pending) :
         /\ oedge' = [j \in OutPorts |-> oedge[j] \o SubSeq(pending, 1, m)]
         /\ held' = SubSeq(pending, m + 1, Len(pending))

\* End of stream on some in-edge: flush what is held, then pass it on.
ProcessEos ==
  /\ TakeInputs
  /\ HasNull(Heads)
  /\ oedge' = [j \in OutPorts |-> Append(oedge[j] \o held, Null)]
  /\ held' = <<>>

CallSink(j) ==
  /\ pc = "run"
  /\ oedge[j] # <<>>
  /\ snk' = [snk EXCEPT ![j] = Accept(@, Head(oedge[j]))]
  /\ oedge' = [oedge EXCEPT ![j] = Tail(@)]
  /\ UNCHANGED <<src, edge, held, pc, calls, args, result, fired>>

NoWork == /\ \A i \in InPorts : ~SourceOk(src[i])
          /\ ~EdgesReady
          /\ \A j \in OutPorts : oedge[j] = <<>>

\* Variant: the executor waits until there is something to drain.
EndRunWithOutput ==
  /\ pc = "run"
  /\ NoWork
  /\ \A j \in OutPorts : snk[j] # <<>>
  /\ pc' = "drain"
  /\ UNCHANGED <<src, snk, island, calls, args, result, fired>>

EndRun ==
  /\ pc = "run"
  /\ NoWork
  /\ pc' = "drain"
  /\ UNCHANGED <<src, snk, island, calls, args, result, fired>>

\* Variant: the exception is swallowed and the next call goes ahead.
NodeThrowsAway ==
  /\ pc = "run"
  /\ pc' = "idle"
  /\ UNCHANGED <<src, snk, island, calls, args, result, fired>>

\* An exception from a WCT node passes through run_graph() and operator(),
\* which have no handler; queues keep what they hold and the job is over.
NodeThrows ==
  /\ pc = "run"
  /\ pc' = "failed"
  /\ UNCHANGED <<src, snk, island, calls, args, result, fired>>

-----------------------------------------------------------------------------
(* operator(), after run_graph().                                          *)

\* Variants: collect takes one item only; collect copies and does not empty.
ReturnedFirst(q) == IF Collect THEN (IF q = <<>> THEN q ELSE <<Head(q)>>) ELSE DrainOut(q)
LeftInCopied(q)  == IF Collect THEN q ELSE AfterDrain(q)

\* What a drain of sink q returns and what it leaves: the whole sink for the
\* collect shape, and otherwise one item of every sink.
Returned(q) == IF Collect THEN q ELSE DrainOut(q)
LeftIn(q)   == IF Collect THEN NewSink ELSE AfterDrain(q)

DrainAll ==
  /\ pc = "drain"
  /\ result' = [j \in OutPorts |-> Returned(snk[j])]
  /\ snk' = [j \in OutPorts |-> LeftIn(snk[j])]
  /\ pc' = "idle"
  /\ UNCHANGED <<src, island, calls, args, fired>>

-----------------------------------------------------------------------------
RunStep == \/ \E i \in InPorts : CallSource(i)
           \/ ProcessData
           \/ ProcessEos
           \/ \E j \in OutPorts : CallSink(j)
           \/ EndRun

Next == \/ \E a \in ArgsOf(calls + 1) : FillAll(a)
        \/ RejectSize
        \/ RunStep
        \/ NodeThrows
        \/ DrainAll

\* Once a call has begun the thread that makes it keeps running: the engine
\* loops as long as there is work, and operator() goes on when it returns.
Fairness == WF_vars(RunStep) /\ WF_vars(DrainAll)

Spec == Init /\ [][Next]_vars /\ Fairness

-----------------------------------------------------------------------------
(* Properties.                                                             *)

\* Nulls wait in sources and edges, never in sinks; and fired never exceeds 2:
\* run_graph() takes one tuple and one end of stream from the boundary sources.
TypeOK ==
  /\ src \in [InPorts -> [queue : Seq(Items \cup {Null}), eosSent : BOOLEAN]]
  /\ snk \in [OutPorts -> Seq(AllProducts)]
  /\ edge \in [InPorts -> Seq(Items \cup {Null})]
  /\ held \in Seq(AllProducts)
  /\ oedge \in [OutPorts -> Seq(AllProducts \cup {Null})]
  /\ pc \in {"idle", "run", "drain", "failed"}
  /\ calls \in 0..MaxCalls
  /\ args \in ArgTuples
  /\ result \in [OutPorts -> IF Collect THEN Seq(AllProducts) ELSE AllProducts \cup {Null}]
  /\ fired \in 0..2

\* Between calls nothing of a finished call is left anywhere in the executor or
\* its graph, so the next call cannot be served yesterday's data.
NoResidue ==
  pc = "idle" => /\ \A i \in InPorts : src[i].queue = <<>> /\ edge[i] = <<>>
                 /\ held = <<>>
                 /\ \A j \in OutPorts : snk[j] = <<>> /\ oedge[j] = <<>>

\* The island is run on one input tuple and then on one end of stream, both
\* complete, before the graph is judged finished: a run that stops early
\* would strand what a node holds back for end of stream.
RunIsDataThenEos == pc = "drain" => fired = 2 /\ src \in [InPorts -> [queue : {<<>>}, eosSent : {TRUE}]]

\* Whatever is under way to or waiting in a sink was made from the arguments
\* of the call in progress, never from a mixture of calls.
NoForeignProduct ==
  \A j \in OutPorts :
    /\ \A n \in DOMAIN snk[j] : snk[j][n].from = args
    /\ \A n \in DOMAIN oedge[j] : oedge[j][n] = Null \/ oedge[j][n].from = args

\* A call that began returns, unless a node throws.
CallsReturn == pc \in {"run", "drain"} ~> pc \in {"idle", "failed"}

\* The results a pure function of the arguments may have: nothing at all when
\* an argument is null (null is end of stream to the graph), and otherwise
\* the products of exactly these arguments, all of them, in order, the same at
\* every port; one-item shapes return that product, or null if there is none.
TheOne(a, k)  == IF k = 0 THEN Null ELSE Product(a, 1)
Outcomes(a) ==
  IF HasNull(a) THEN {NoResult}
  ELSE {[j \in OutPorts |-> IF Collect THEN ProductsOf(a, k) ELSE TheOne(a, k)] : k \in Emits}

\* The executor implements a pure call.
Phase == IF pc \in {"run", "drain"} THEN "busy" ELSE pc
Pure == INSTANCE PureCall WITH Args <- ArgTuples, phase <- Phase
ImplementsPureCall == Pure!Init(NoArgs, NoResult) /\ [][Pure!Next]_<<Phase, args, result>>
=============================================================================
