---------------------------- MODULE SourceExecutor ---------------------------
(***************************************************************************)
(* SourceExecutor (ShapeExecutors.hpp): a WCT graph that begins with a     *)
(* real source (a file reader) and ends in one boundary sink.  The first   *)
(* call to operator() runs the whole graph, every call drains one item,    *)
(* and a call that finds the sink empty returns a null product.  A node of *)
(* the graph may throw: the exception leaves operator() with m_ran set.    *)
(*                                                                         *)
(* register_source provides it without naming a concurrency, unlike every  *)
(* other node, which is phlex::concurrency::serial.  The variable serial   *)
(* says how many calls the framework lets in at a time: one, or as many as *)
(* there are threads.  operator() itself only guards the run, by           *)
(* m_ran.exchange.  Each call is for one data cell, which it ignores.      *)
(***************************************************************************)
EXTENDS BoundaryNodes, Integers, FiniteSets

CONSTANTS Cells,      \* data cells the framework asks the provider for
          Idle,       \* not a cell
          NumItems    \* items the graph's own source delivers before EOS

ASSUME SourceAssumption ==
  /\ Idle \notin Cells
  /\ NumItems \in Nat
  /\ Null \notin 1..NumItems

VARIABLES serial,   \* what PHLEX makes of the unnamed concurrency; never changes
          ran,      \* m_ran
          runner,   \* the cell whose call runs the graph, or Idle
          read,     \* items the graph has read from its source so far
          eos,      \* the graph's source has reported end of stream
          edge,     \* the graph edge into the boundary sink
          snk,      \* the boundary sink
          pc,       \* [Cells -> where the call for that cell is]
          product,  \* [Cells -> what the call returned]
          order     \* history: the cells in the order in which they drained

vars == <<serial, ran, runner, read, eos, edge, snk, pc, product, order>>

graph == <<read, eos, edge>>

\* The file ends after NumItems records; the sink of the executor holds records
\* only, the graph's end of stream being dropped by BoundarySink::operator().
TypeOK ==
  /\ serial \in BOOLEAN
  /\ ran \in BOOLEAN
  /\ runner \in Cells \cup {Idle}
  /\ read \in 0..NumItems
  /\ eos \in BOOLEAN
  /\ edge \in Seq(1..NumItems \cup {Null})
  /\ snk \in Seq(1..NumItems)
  /\ pc \in [Cells -> {"new", "entered", "running", "ready", "done", "threw", "stuck"}]
  /\ product \in [Cells -> 1..NumItems \cup {Null}]
  /\ order \in Seq(Cells)

Init ==
  /\ serial \in BOOLEAN
  /\ ran = FALSE
  /\ runner = Idle
  /\ read = 0
  /\ eos = FALSE
  /\ edge = <<>>
  /\ snk = NewSink
  /\ pc = [c \in Cells |-> "new"]
  /\ product = [c \in Cells |-> Null]
  /\ order = <<>>

Goto(c, from, to) == pc[c] = from /\ pc' = [pc EXCEPT ![c] = to]
Inside == {c \in Cells : pc[c] \in {"entered", "running", "ready", "stuck"}}

-----------------------------------------------------------------------------
\* The framework calls the provider for cell c, in no particular order.
Enter(c) ==
  /\ serial => Inside = {}
  /\ Goto(c, "new", "entered")
  /\ UNCHANGED <<serial, ran, runner, graph, snk, product, order>>

\* Variants: m_ran tested but not set; m_ran taken for a lock.
ExchangeTests(c) ==
  /\ IF ran THEN Goto(c, "entered", "ready") ELSE Goto(c, "entered", "running")
  /\ runner' = IF ran THEN runner ELSE c
  /\ UNCHANGED <<serial, ran, graph, snk, product, order>>
ExchangeLocks(c) ==
  /\ ~ran
  /\ Goto(c, "entered", "running")
  /\ runner' = c
  /\ ran' = TRUE
  /\ UNCHANGED <<serial, graph, snk, product, order>>

\* m_ran.exchange(true): the caller that finds it false runs the graph.
Exchange(c) ==
  /\ IF ran THEN Goto(c, "entered", "ready") ELSE Goto(c, "entered", "running")
  /\ runner' = IF ran THEN runner ELSE c
  /\ ran' = TRUE
  /\ UNCHANGED <<serial, graph, snk, product, order>>

\* run_graph(), in the caller's thread: the graph's source delivers its items
\* and then end of stream, and the boundary sink accepts both.
ReadItem(c) ==
  /\ pc[c] = "running"
  /\ ~eos
  /\ read' = IF read < NumItems THEN read + 1 ELSE read
  /\ eos' = (read = NumItems)
  /\ edge' = Append(edge, IF read < NumItems THEN read + 1 ELSE Null)
  /\ UNCHANGED <<serial, ran, runner, snk, pc, product, order>>

CallSink(c) ==
  /\ pc[c] = "running"
  /\ edge # <<>>
  /\ snk' = Accept(snk, Head(edge))
  /\ edge' = Tail(edge)
  /\ UNCHANGED <<serial, ran, runner, read, eos, pc, product, order>>

\* Variant: the run ends before end of stream.
GraphDoneEarly(c) ==
  /\ edge = <<>>
  /\ Goto(c, "running", "ready")
  /\ UNCHANGED <<serial, ran, runner, graph, snk, product, order>>

GraphDone(c) ==
  /\ eos /\ edge = <<>>
  /\ Goto(c, "running", "ready")
  /\ UNCHANGED <<serial, ran, runner, graph, snk, product, order>>

\* An exception out of run_graph() leaves the call: m_ran stays set, nothing is
\* cleared, and what had reached the boundary sink is there for later calls.
NodeThrows(c) ==
  /\ Goto(c, "running", "threw")
  /\ UNCHANGED <<serial, ran, runner, graph, snk, product, order>>

Threw == \E c \in Cells : pc[c] = "threw"

\* Another call is inside the unlocked boundary sink, or about to be.
Contended(c) == \E d \in Cells \ {c} : pc[d] \in {"running", "ready", "stuck"}

\* drain(): one item, or null.
Drain(c) ==
  /\ ~Contended(c)
  /\ Goto(c, "ready", "done")
  /\ product' = [product EXCEPT ![c] = DrainOut(snk)]
  /\ snk' = AfterDrain(snk)
  /\ order' = Append(order, c)
  /\ UNCHANGED <<serial, ran, runner, graph>>

\* drain() by two threads, or during a push, is a data race on the std::queue: any
\* item or none comes back or the call never returns, with or without a pop.
RacingDrain(c) ==
  /\ Contended(c)
  /\ snk' \in {snk, AfterDrain(snk)}
  /\ \/ /\ Goto(c, "ready", "done")
        /\ \E x \in 1..NumItems \cup {Null} : product' = [product EXCEPT ![c] = x]
        /\ order' = Append(order, c)
     \/ /\ Goto(c, "ready", "stuck")
        /\ UNCHANGED <<product, order>>
  /\ UNCHANGED <<serial, ran, runner, graph>>

Run(c) == ReadItem(c) \/ CallSink(c) \/ GraphDone(c)

\* What the thread of the call for c does next, if no node of the graph throws.
Proceed(c) == Exchange(c) \/ Run(c) \/ Drain(c) \/ RacingDrain(c)

Step(c) == Enter(c) \/ Proceed(c) \/ NodeThrows(c)

Next == \E c \in Cells : Step(c)

\* A thread inside a call keeps going, and the framework asks for every cell unless
\* an exception has come out of a call.
Spec ==
  /\ Init
  /\ [][Next]_vars
  /\ \A c \in Cells : WF_vars(Proceed(c)) /\ WF_vars(~Threw /\ Enter(c))

-----------------------------------------------------------------------------
(* Properties.                                                             *)

\* The graph is driven by one call only, however many calls race for it: two
\* threads inside the same WCT graph, or a second pass over the input file, is
\* what the atomic m_ran is there to prevent.
OneRun == [][\A c \in Cells : pc'[c] = "running" /\ pc[c] # "running" => runner = Idle]_vars

\* With one call at a time the calls that drain get the records of the file one
\* after the other, however the framework orders the cells: nothing is repeated or
\* out of order, and the null products begin behind the last record of the file.
\* After an exception they begin behind the last record that had got through.
ServedInOrder ==
  serial => \E last \in 0..NumItems :
    /\ ~Threw => last = NumItems
    /\ \A n \in DOMAIN order : product[order[n]] = IF n <= last THEN n ELSE Null

\* With one call at a time, and no exception out of the run, the file has been read
\* to its end when a call drains and everything read is either in the sink or
\* already handed out: a null means exhausted, never not yet.
DrainAfterRun ==
  serial /\ ~Threw => \A c \in Cells : pc[c] = "ready" =>
    eos /\ edge = <<>> /\ Len(snk) + Len(order) >= NumItems

\* With one call at a time every call that began returns or throws, also the calls
\* after one that threw, and every cell has its answer unless a node threw.
EveryCallReturns ==
  \A c \in Cells :
    /\ serial /\ c \in Inside ~> pc[c] \in {"done", "threw"}
    /\ serial ~> pc[c] = "done" \/ Threw
=============================================================================
