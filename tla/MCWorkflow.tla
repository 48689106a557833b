----------------------------- MODULE MCWorkflow ------------------------------
(***************************************************************************)
(* The workflows of src/test, with fewer branches, for Workflow.           *)
(***************************************************************************)
EXTENDS Workflow, TLC

MCCells == "job" :> {0} @@ "event" :> {1, 2, 3}

Executor(inputs, outputs) == Node("executor", "event", inputs, outputs)
File(suffix, items)       == [Node("source", "event", <<>>, <<suffix>>) EXCEPT !.items = items]
PassThrough(node)         == [node EXCEPT !.passes = TRUE]
Lossy(node)               == [node EXCEPT !.drops = TRUE]

\* multi-instance-workflow.jsonnet: two generators, each behind a filter with
\* the pass-through graph, and an observer of both frames.
MultiInstance ==
  "source_a" :> FrameGen("event", "frame_a") @@
  "source_b" :> FrameGen("event", "frame_b") @@
  "sigproc_a" :> PassThrough(Executor(<<Select("input", "frame_a")>>, <<"frame">>)) @@
  "sigproc_b" :> PassThrough(Executor(<<Select("input", "frame_b")>>, <<"frame">>)) @@
  "verify" :> TwoFrameObserver("event", "sigproc_a", "sigproc_b")

\* fans-workflow.jsonnet.in with two simulations instead of four: one file of
\* depositions fed to both, a fan-in of their frames, and a file sink.  There
\* are fewer records than cells.
Fans ==
  "depo_source" :> File("deposet", 2) @@
  "sim_0" :> Lossy(Executor(<<Select("input", "deposet")>>, <<"frame">>)) @@
  "sim_1" :> Executor(<<Select("", "deposet")>>, <<"frame">>) @@
  "fanin" :> Executor(<<Select("sim_0", "frame"), Select("sim_1", "frame")>>, <<"frame">>) @@
  "frame_sink" :> Executor(<<Select("fanin", "frame")>>, <<>>)

\* frame_deposet_to_cluster between two files, one of which ends earlier.
TwoFiles ==
  "frame_source" :> File("frame", 3) @@
  "depo_source" :> File("deposet", 2) @@
  "join" :> Executor(<<Select("input", "frame"), Select("input", "deposet")>>, <<"cluster">>)

\* wire-schema-workflow.jsonnet beside deposet-filter-workflow.jsonnet: the wire
\* geometry is a product of the job, read and checked once whatever the number
\* of events.
WireSchema ==
  "geo" :> WireSchemaSource("job") @@
  "verify_geo" :> WireSchemaObserver("job") @@
  "source" :> DepoSetGen("event") @@
  "filter" :> PassThrough(Executor(<<Select("input", "deposet")>>, <<"deposet">>)) @@
  "verify" :> DepoSetObserver("event", "filter")

\* deposet-to-frame-workflow.jsonnet with an observer of the frames.
ToFrame ==
  "source" :> DepoSetGen("event") @@
  "to_frame" :> Executor(<<Select("input", "deposet")>>, <<"frame">>) @@
  "verify" :> FrameObserver("event", "to_frame")

MCWorkflows == {MultiInstance, Fans, TwoFiles, WireSchema, ToFrame}

\* The condition under which NoAbort is proved holds of all of them.
ASSUME ObserversAreFed == \A w \in MCWorkflows : ObserversFed(w)
=============================================================================
