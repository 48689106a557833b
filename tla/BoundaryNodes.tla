---------------------------- MODULE BoundaryNodes ----------------------------
(***************************************************************************)
(* The two buffers between PHLEX and a WCT graph, as operators on their    *)
(* state: BoundarySource (BoundarySource.hpp) and BoundarySink             *)
(* (BoundarySink.hpp).  Neither class locks; every executor of             *)
(* ShapeExecutors.hpp is built from them, so the modules that model        *)
(* executors all extend this one.                                          *)
(*                                                                         *)
(* A shared_ptr is the thing it points to, or Null.  Null is also what WCT *)
(* uses as its end-of-stream (EOS) marker: the code has no second value    *)
(* for it, and neither has this module.                                    *)
(***************************************************************************)
EXTENDS Sequences, Integers

CONSTANT Null    \* nullptr, and the WCT end-of-stream marker

\* The elements of s that pass Test: SelectSeq, as a function that a proof can unfold.
Filtered(s, Test(_)) ==
  LET kept[k \in 0..Len(s)] == IF k = 0 THEN <<>>
                               ELSE IF Test(s[k]) THEN Append(kept[k - 1], s[k])
                               ELSE kept[k - 1]
  IN  kept[Len(s)]

(* Definitions under the heading "Variants" are mistakes the code might    *)
(* have made, each a replacement for a definition of the model.            *)

-----------------------------------------------------------------------------
(* BoundarySource: m_queue and m_eos_sent.                                 *)

NewSource == [queue |-> <<>>, eosSent |-> FALSE]

\* Variants: m_eos_sent not cleared; one slot instead of a queue; a stack.
FillKeepsEos(s, data) == [s EXCEPT !.queue = Append(@, data)]
FillReplaces(s, data) == [queue |-> <<data>>, eosSent |-> FALSE]
FillFront(s, data)    == [queue |-> <<data>> \o s.queue, eosSent |-> FALSE]

\* fill(data): enqueue, and let the source send one more EOS.
Fill(s, data) == [queue |-> Append(s.queue, data), eosSent |-> FALSE]

\* The boolean that operator()(out) returns; FALSE lets the graph stop.
SourceOk(s) == s.queue # <<>> \/ ~s.eosSent

\* The value operator()(out) leaves in out.
SourceOut(s) == IF s.queue # <<>> THEN Head(s.queue) ELSE Null

\* Variant: m_eos_sent never set.
AfterCallForgetsEos(s) == IF s.queue # <<>> THEN [s EXCEPT !.queue = Tail(@)] ELSE s

\* The source after operator()(out).
AfterCall(s) ==
  IF s.queue # <<>> THEN [s EXCEPT !.queue = Tail(@)] ELSE [s EXCEPT !.eosSent = TRUE]

-----------------------------------------------------------------------------
(* BoundarySink: m_queue.                                                  *)

NewSink == <<>>

\* Variants: EOS stored like data; a stack.
AcceptAll(q, in)   == Append(q, in)
AcceptFront(q, in) == IF in = Null THEN q ELSE <<in>> \o q

\* operator()(in): keep data, ignore EOS.
Accept(q, in) == IF in = Null THEN q ELSE Append(q, in)

\* Variants: the last item is never handed out; the front is not popped.
DrainOutLate(q)    == IF q = <<>> \/ Tail(q) = <<>> THEN Null ELSE Head(q)
AfterDrainPeeks(q) == q

\* The value drain() returns, and the sink after it.
DrainOut(q)   == IF q = <<>> THEN Null ELSE Head(q)
AfterDrain(q) == IF q = <<>> THEN q ELSE Tail(q)
=============================================================================
