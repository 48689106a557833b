--------------------------- MODULE MCRegistration ----------------------------
(***************************************************************************)
(* Small jobs for Registration: configurations of several shapes that are  *)
(* right, and one for every way in which a registration throws.            *)
(***************************************************************************)
EXTENDS Registration, TLC

\* A configuration that is right for a shape.
Node(shape, label, parts) ==
  shape @@ ExecutorConfig(label)
    @@ [layers |-> TRUE, extra |-> FALSE, in |-> WantIn(shape), out |-> WantOut(shape),
        graphIn |-> WantIn(shape), graphOut |-> WantOut(shape), parts |-> parts]

\* A service two sub-graphs may share (AnodePlane:apa0, with the default empty
\* service_prefix) and the settings it may be given.
Service(s) == [type |-> "AnodePlane", name |-> "apa0", settings |-> s]

\* cfg/frame-file-sink.jsonnet as wcph_frame_sink loads it, writing to file,
\* and cfg/frame-file-source.jsonnet as wcph_frame_source does.
FileSink(label, file) ==
  Node(FrameSink, label,
       {[type |-> "FrameFileSink", name |-> "file_sink", settings |-> file]})
FileSource(label, file) ==
  Node(FrameSource, label,
       {[type |-> "FrameFileSource", name |-> "file_source", settings |-> file]})

Good(label) == {Node(FrameFilter, label, {Service("s1")}),
                Node(FrameToBlobSets, label, {Service("s2")}),
                Node(FramesToFrame(2), label, {}), Node(Fanout("Frame", "Frame", 2), label, {}),
                FileSink(label, "out.npz"),
                [FileSource(label, "in.npz") EXCEPT !.extra = TRUE]}

\* One configuration per way to throw; a source's port may be wrong as well.
Bad(label) ==
  LET f == Node(FrameFilter, label, {})
      j == Node(FrameDepoSetToCluster, label, {})
  IN {[j EXCEPT !.in = 1], [f EXCEPT !.wctConfig = FALSE], [f EXCEPT !.graphIn = 2],
      [f EXCEPT !.graphOut = 0], [f EXCEPT !.extra = TRUE], [j EXCEPT !.layers = FALSE],
      [FileSource(label, "in.npz") EXCEPT !.layers = FALSE],
      Node(Function("Cluster", "Frame"), label, {})}

\* Every module file of the repository, with a right configuration.
Files(label) == {Node(s, label, {}) : s \in ModuleFiles}

MCConfigs == UNION {Good(l) \cup Bad(l) : l \in {"a", "b", NoLabel}} \cup Files("a")
MCPipeline == {Node(FrameFilter, l, {}) : l \in {"a", "b"}}
MCFileSinks == {FileSink("a", "a.npz"), FileSink("b", "b.npz")}
\* One module feeds the other.
MCFeeds == LET up == CHOOSE m \in Modules : TRUE IN {up} \X (Modules \ {up})
=============================================================================
