------------------------------- MODULE Shapes --------------------------------
(***************************************************************************)
(* What the register_ helpers (register_shapes.hpp) make of their template *)
(* arguments: how the node is declared to PHLEX, and the data type of each *)
(* input and output port.  Below them, the module files of src/modules,    *)
(* one call of a helper each.                                              *)
(***************************************************************************)
EXTENDS Integers, Sequences

Shape(via, ins, outs) == [via |-> via, inTypes |-> ins, outTypes |-> outs]
Times(n, type) == [k \in 1..n |-> type]

Function(in, out)  == Shape("transform", <<in>>, <<out>>)
Collect(in, item)  == Shape("transform", <<in>>, <<item>>)
Join(ins, out)     == Shape("transform", ins, <<out>>)
Sink(in)           == Shape("observe", <<in>>, <<>>)
Source(out)        == Shape("provide", <<>>, <<out>>)
Fanin(in, out, n)  == Shape("transform", Times(n, in), <<out>>)
Fanout(in, out, n) == Shape("transform", <<in>>, Times(n, out))

\* The arity that check_arity asks of the "inputs" and "outputs" arrays.
WantIn(s)  == Len(s.inTypes)
WantOut(s) == Len(s.outTypes)

\* Variant: a class that no WIRECELL_FACTORY line registers.
SourceClassesForgotten == {"Frame", "DepoSet"}

\* Types with a boundary source in WCT's factory.
SourceClasses == {"Frame", "DepoSet", "TrackSegmentSet"}

\* Types with a boundary sink: blob sets and clusters only ever come out.
SinkClasses == {"Frame", "DepoSet", "TrackSegmentSet", "BlobSet", "Cluster"}

-----------------------------------------------------------------------------
FrameFilter      == Function("Frame", "Frame")
DepoSetFilter    == Function("DepoSet", "DepoSet")
DepoSetToFrame   == Function("DepoSet", "Frame")
FrameToCluster   == Function("Frame", "Cluster")
TracksToDepoSet  == Function("TrackSegmentSet", "DepoSet")
TracksToFrame    == Function("TrackSegmentSet", "Frame")
FrameToBlobSets  == Collect("Frame", "BlobSet")
FrameDepoSetToCluster == Join(<<"Frame", "DepoSet">>, "Cluster")
FrameSource      == Source("Frame")
DepoSetSource    == Source("DepoSet")
FrameSink        == Sink("Frame")
DepoSetSink      == Sink("DepoSet")
FramesToFrame(n) == Fanin("Frame", "Frame", n)
\* Registered together, by one module file.
FrameFaninSink   == {Fanin("Frame", "Frame", 4), Sink("Frame")}

ModuleFiles ==
  {FrameFilter, DepoSetFilter, DepoSetToFrame, FrameToCluster, TracksToDepoSet, TracksToFrame,
   FrameToBlobSets, FrameDepoSetToCluster, FrameSource, DepoSetSource, FrameSink, DepoSetSink}
  \cup {FramesToFrame(n) : n \in {2, 3, 4, 6, 8}} \cup FrameFaninSink
=============================================================================
