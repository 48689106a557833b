------------------------ MODULE Registration_proofs --------------------------
(***************************************************************************)
(* Proofs about Registration, for any modules, any configurations of them  *)
(* and any order of registration.  Safety only: that the Mains of a job    *)
(* that ran are destroyed is left to TLC.                                  *)
(***************************************************************************)
EXTENDS Registration, TLAPS

-----------------------------------------------------------------------------
(* Names.                                                                  *)

\* A configuration is given once and for all.
LEMMA NamesStay ==
  ASSUME conf' = conf
  PROVE  /\ \A m \in Modules : /\ Scope(m)' = Scope(m) /\ Ports(m)' = Ports(m)
                               /\ GraphPorts(m)' = GraphPorts(m) /\ PartIds(m)' = PartIds(m)
                               /\ Components(m)' = Components(m)
                               /\ \A c : SettingOf(m, c)' = SettingOf(m, c)
         /\ DistinctScopes' = DistinctScopes
         /\ PartsAgree' = PartsAgree
<1>1. ASSUME NEW m \in Modules
      PROVE  /\ Scope(m)' = Scope(m) /\ Ports(m)' = Ports(m)
             /\ GraphPorts(m)' = GraphPorts(m) /\ PartIds(m)' = PartIds(m)
             /\ App(m)' = App(m)
  BY DEF Scope, Ports, SourcePorts, SinkPorts, SourcePort, SinkPort, GraphPorts, PartIds, App
<1>2. ASSUME NEW m \in Modules PROVE Components(m)' = Components(m)
  BY <1>1 DEF Components
<1>3. ASSUME NEW m \in Modules, NEW c PROVE SettingOf(m, c)' = SettingOf(m, c)
  BY <1>1 DEF SettingOf
<1>4. DistinctScopes' = DistinctScopes
  BY <1>1 DEF DistinctScopes
<1>5. PartsAgree' = PartsAgree
  BY <1>1, <1>3 DEF PartsAgree
<1> QED
  BY <1>1, <1>2, <1>3, <1>4, <1>5

\* A component is found by type and name.
LEMMA TypeAndName ==
  ASSUME NEW type, NEW data, NEW name
  PROVE  Component(type, data, name)[1] = type /\ Component(type, data, name)[3] = name
BY DEF Component

\* A name's first part.
LEMMA FirstOf == ASSUME NEW a, NEW b PROVE <<a, b>>[1] = a
OBVIOUS

\* Boundary nodes and apps bear the scope of their executor.
LEMMA OwnNames ==
  ASSUME NEW m \in Modules, NEW c \in GraphPorts(m) \cup Ports(m) \cup {App(m)}
  PROVE  /\ c[1] \in Wiring
         /\ c[1] = "Pgrapher" => c[3] = Scope(m)
         /\ c[1] # "Pgrapher" => c[3][1] = Scope(m)
<1>1. ASSUME NEW i, c = SourcePort(m, i)
      PROVE  c[1] = "BoundarySource" /\ c[3] = <<Scope(m), i>>
  BY <1>1, TypeAndName DEF SourcePort
<1>2. ASSUME NEW j, c = SinkPort(m, j)
      PROVE  c[1] = "BoundarySink" /\ c[3] = <<Scope(m), j>>
  BY <1>2, TypeAndName DEF SinkPort
<1>3. c = App(m) => c[1] = "Pgrapher" /\ c[3] = Scope(m)
  BY TypeAndName DEF App
<1>4. (\E i : c = SourcePort(m, i)) \/ (\E j : c = SinkPort(m, j)) \/ c = App(m)
  BY DEF GraphPorts, Ports, SourcePorts, SinkPorts
<1> QED
  BY <1>1, <1>2, <1>3, <1>4, FirstOf DEF Wiring

\* The other components are of other types.
LEMMA PartNames ==
  ASSUME conf \in [Modules -> Configs], NEW m \in Modules, NEW c \in PartIds(m)
  PROVE  c[1] \notin Wiring
<1>1. PICK p \in conf[m].parts : c = PartId(p)
  BY DEF PartIds
<1>2. p.type \notin Wiring
  BY RegistrationAssumption
<1> QED
  BY <1>1, <1>2, TypeAndName DEF PartId

\* The graph's boundary nodes are among the executor's.
LEMMA GraphPortsArePorts ==
  ASSUME NEW m \in Modules
  PROVE  GraphPorts(m) \subseteq Ports(m)
BY DEF GraphPorts, Ports, SourcePorts, SinkPorts

\* With a scope each, two sub-graphs share nothing but parts.
LEMMA SharedAreParts ==
  ASSUME conf \in [Modules -> Configs], DistinctScopes,
         NEW m \in Modules, NEW n \in Modules, m # n,
         NEW c \in Components(m) \cup Ports(m), c \in Components(n) \cup Ports(n)
  PROVE  c \in PartIds(m) \cap PartIds(n)
<1>1. Scope(m) # Scope(n)
  BY DEF DistinctScopes
<1>2. c \in PartIds(m) => c \in PartIds(n)
  BY PartNames, OwnNames DEF Components
<1>3. c \in PartIds(n) => c \in PartIds(m)
  BY PartNames, OwnNames DEF Components
<1>4. c \in PartIds(m) \/ c \in PartIds(n)
  BY <1>1, OwnNames DEF Components
<1> QED
  BY <1>2, <1>3, <1>4

-----------------------------------------------------------------------------
(* The invariant.                                                          *)

\* An executor, or a node declared over one, has boundary nodes of the factory.
Bound == /\ nodes \cup executors \subseteq {m \in Modules : bound[m] = Ports(m)}
         /\ \A m \in Modules : bound[m] \subseteq DOMAIN factory

\* What a registration has passed when it gets to a stage.
Passed ==
  /\ \A m \in nodes : ~BadPort(conf[m]) /\ ~BadArity(conf[m])
  /\ job = "registering" /\ current # None /\ stage # "arity" => ~BadArity(conf[current])
  /\ At("declare") => current \in executors

\* Executors live as long as the job does.
Alive == /\ job \in {"registering", "running"} => nodes \subseteq executors
         /\ job = "running" => nodes = Modules

\* The modules that were initialized and not given up.
Settled == executors \cup (IF At("ports") THEN {current} ELSE {})

HasSettings(m) == \A c \in Components(m) : c \in DOMAIN factory /\ factory[c] = SettingOf(m, c)

SettingsKept == DistinctScopes /\ PartsAgree => \A m \in Settled : HasSettings(m)

Inv == TypeOK /\ Bound /\ Passed /\ Alive /\ SettingsKept

\* At the start nothing is registered.
LEMMA InitInv == Init => Inv
<1> SUFFICES ASSUME Init PROVE Inv
  OBVIOUS
<1>1. TypeOK
  <2>1. <<>> \in Seq(Modules) /\ DOMAIN factory = {}
    BY DEF Init
  <2> QED
    BY <2>1 DEF Init, TypeOK
<1>2. Bound /\ Passed /\ Alive /\ SettingsKept
  BY RegistrationAssumption
  DEF Init, Bound, Passed, Alive, SettingsKept, Settled, At
<1> QED
  BY <1>1, <1>2 DEF Inv

\* Main::initialize() configures this executor's components, and of the others'
\* only parts that are given the same settings.
LEMMA InitializeInv ==
  ASSUME Inv, Initialize
  PROVE  Inv'
<1> USE DEF Inv
<1>a. /\ UNCHANGED <<conf, nodes, executors, bound, destroyed>> /\ current \in Modules
      /\ At("initialize") /\ current' = current
  BY DEF Initialize, At, TypeOK, Fail, GoOn
<1>b. conf \in [Modules -> Configs]
  BY DEF TypeOK
<1>1. CASE factory' = Configured(current) /\ inited' = Append(inited, current) /\ GoOn("ports")
  <2>1. DOMAIN factory' = DOMAIN factory \cup Components(current)
    BY <1>1 DEF Configured
  <2>2. inited' \in Seq(Modules)
    BY <1>1, <1>a DEF TypeOK
  <2>3. TypeOK'
    BY <1>1, <1>a, <2>1, <2>2, NamesStay DEF TypeOK, GoOn
  <2>4. Bound'
    BY <1>a, <2>1, NamesStay DEF Bound
  <2>5. Passed' /\ Alive'
    BY <1>1, <1>a DEF Passed, Alive, At, GoOn
  <2>6. SettingsKept'
    <3> SUFFICES ASSUME DistinctScopes, PartsAgree, NEW m \in Modules, m \in Settled \cup {current},
                        NEW c \in Components(m)
                 PROVE  c \in DOMAIN factory' /\ factory'[c] = SettingOf(m, c)
      <4>1. Settled' \subseteq Settled \cup {current} /\ Settled' \subseteq Modules
        BY <1>1, <1>a DEF Settled, At, GoOn, TypeOK
      <4>2. DistinctScopes' = DistinctScopes /\ PartsAgree' = PartsAgree
            /\ \A m \in Modules : /\ Components(m)' = Components(m)
                                  /\ \A c : SettingOf(m, c)' = SettingOf(m, c)
        BY <1>a, NamesStay
      <4> QED
        BY <4>1, <4>2 DEF SettingsKept, HasSettings
    <3>1. CASE c \in Components(current)
      <4>1. factory'[c] = SettingOf(current, c)
        BY <1>1, <3>1 DEF Configured
      <4>2. SettingOf(current, c) = SettingOf(m, c)
        BY <1>a, <1>b, <3>1, SharedAreParts DEF PartsAgree
      <4> QED
        BY <4>1, <4>2, <2>1, <3>1
    <3>2. CASE c \notin Components(current)
      <4>1. m \in executors
        BY <1>a, <3>2 DEF Settled, At
      <4>2. c \in DOMAIN factory /\ factory[c] = SettingOf(m, c)
        BY <4>1 DEF SettingsKept, Settled, HasSettings
      <4> QED
        BY <1>1, <2>1, <3>2, <4>2 DEF Configured
    <3> QED
      BY <3>1, <3>2
  <2> QED
    BY <2>3, <2>4, <2>5, <2>6
<1>2. CASE Fail /\ UNCHANGED <<factory, inited>>
  BY <1>2, <1>a, NamesStay
  DEF TypeOK, Bound, Passed, Alive, SettingsKept, Settled, HasSettings, At, Fail
<1> QED
  BY <1>1, <1>2 DEF Initialize

\* initialize_ports() binds all boundary nodes of the executor, or throws.
LEMMA BindInv ==
  ASSUME Inv, BindPorts
  PROVE  Inv'
<1> USE DEF Inv
<1>a. /\ UNCHANGED <<conf, nodes, factory, inited>> /\ current \in Modules
      /\ At("ports") /\ current' = current
  BY DEF BindPorts, At, TypeOK, Fail, GoOn
<1>1. CASE Found(current)
  <2>1. /\ bound' = [bound EXCEPT ![current] = Ports(current)] /\ destroyed' = destroyed
        /\ executors' = executors \cup {current} /\ stage' = "declare" /\ job' = job
    BY <1>1 DEF BindPorts, GoOn
  <2>2. TypeOK'
    BY <1>a, <2>1, NamesStay DEF TypeOK
  <2>3. Bound'
    <3>1. \A m \in Modules : bound'[m] = IF m = current THEN Ports(m) ELSE bound[m]
      BY <2>1 DEF TypeOK
    <3>2. \A m \in Modules : Ports(m)' = Ports(m)
      BY <1>a, NamesStay
    <3> QED
      BY <1>1, <1>a, <2>1, <3>1, <3>2 DEF Bound, Found
  <2>4. Passed' /\ Alive'
    BY <1>a, <2>1 DEF Passed, Alive, At
  <2>5. Settled' = Settled
    BY <1>a, <2>1 DEF Settled, At
  <2>6. SettingsKept'
    <3>1. Settled \subseteq Modules
      BY <1>a DEF TypeOK, Settled
    <3>2. DistinctScopes' = DistinctScopes /\ PartsAgree' = PartsAgree
          /\ \A m \in Modules : /\ Components(m)' = Components(m)
                                /\ \A c : SettingOf(m, c)' = SettingOf(m, c)
      BY <1>a, NamesStay
    <3> QED
      BY <1>a, <2>5, <3>1, <3>2 DEF SettingsKept, HasSettings
  <2> QED
    BY <2>2, <2>3, <2>4, <2>6
<1>2. CASE ~Found(current)
  <2>1. /\ UNCHANGED <<bound, executors, stage>> /\ job' = "failed"
        /\ destroyed' = destroyed \cup {current}
    BY <1>2 DEF BindPorts, Fail
  <2> QED
    BY <1>a, <2>1, NamesStay
    DEF TypeOK, Bound, Passed, Alive, SettingsKept, Settled, HasSettings, At
<1> QED
  BY <1>1, <1>2

\* The steps that touch no component: the settings of those that exist stay.
LEMMA OtherInv ==
  ASSUME Inv,
         \/ \E m \in Modules : Begin(m) \/ Destroy(m)
         \/ CheckArity \/ ConstructBase \/ Declare \/ Finish
  PROVE  Inv'
<1> USE RegistrationAssumption DEF Inv
<1>a. UNCHANGED <<conf, bound, factory, inited>>
  BY DEF Begin, Destroy, CheckArity, ConstructBase, Declare, Finish
<1>1. ASSUME NEW m \in Modules, Begin(m) PROVE Inv'
  BY <1>1, <1>a, NamesStay
  DEF Begin, TypeOK, Bound, Passed, Alive, SettingsKept, Settled, HasSettings, At
<1>2. ASSUME NEW m \in Modules, Destroy(m) PROVE Inv'
  BY <1>2, <1>a, NamesStay
  DEF Destroy, TypeOK, Bound, Passed, Alive, SettingsKept, Settled, HasSettings, At
<1>3. CASE CheckArity
  BY <1>3, <1>a, NamesStay
  DEF CheckArity, Fail, GoOn, TypeOK, Bound, Passed, Alive, SettingsKept, Settled, HasSettings, At
<1>4. CASE ConstructBase
  BY <1>4, <1>a, NamesStay
  DEF ConstructBase, Fail, GoOn, TypeOK, Bound, Passed, Alive, SettingsKept, Settled,
      HasSettings, At
<1>5. CASE Declare
  BY <1>5, <1>a, NamesStay
  DEF Declare, Fail, TypeOK, Bound, Passed, Alive, SettingsKept, Settled, HasSettings, At
<1>6. CASE Finish
  BY <1>6, <1>a, NamesStay
  DEF Finish, TypeOK, Bound, Passed, Alive, SettingsKept, Settled, HasSettings, At
<1> QED
  BY <1>1, <1>2, <1>3, <1>4, <1>5, <1>6

\* No step breaks the invariant.
LEMMA NextInv == Inv /\ [Next]_vars => Inv'
<1> SUFFICES ASSUME Inv, [Next]_vars PROVE Inv'
  OBVIOUS
<1>1. CASE Next
  BY <1>1, InitializeInv, BindInv, OtherInv DEF Next
<1>2. CASE UNCHANGED vars
  BY <1>2, NamesStay
  DEF vars, Inv, TypeOK, Bound, Passed, Alive, SettingsKept, Settled, HasSettings, At
<1> QED
  BY <1>1, <1>2

-----------------------------------------------------------------------------
\* Types; the factory holds components of the job's sub-graphs only.
THEOREM RegistrationTypes == Spec => []TypeOK
<1>1. Inv => TypeOK
  BY DEF Inv
<1> QED
  BY <1>1, InitInv, NextInv, PTL DEF Spec

\* A job runs complete or not at all.
THEOREM JobsAreWhole == Spec => []RunsWhole
<1>1. Inv => RunsWhole
  BY DEF Inv, TypeOK, Bound, Passed, Alive, RunsWhole
<1> QED
  BY <1>1, InitInv, NextInv, PTL DEF Spec

\* Components keep the settings of all who use them.
THEOREM SettingsAreKept == Spec => []SettingsHold
<1>1. Inv => SettingsHold
  BY DEF Inv, TypeOK, Alive, SettingsKept, Settled, HasSettings, SettingsHold
<1> QED
  BY <1>1, InitInv, NextInv, PTL DEF Spec

\* Executors with a label each are bound to the boundary nodes of their own graph.
THEOREM OwnPorts == Spec => []PortsAreOwn
<1>1. Inv => PortsAreOwn
  <2> SUFFICES ASSUME Inv, DistinctScopes, NEW m \in executors
               PROVE  /\ bound[m] = GraphPorts(m)
                      /\ \A n \in executors \ {m} : bound[m] \cap bound[n] = {}
    BY DEF PortsAreOwn
  <2> USE DEF Inv
  <2>1. /\ m \in Modules /\ executors \subseteq Modules /\ conf \in [Modules -> Configs]
        /\ \A n \in executors : bound[n] = Ports(n)
    BY DEF TypeOK, Bound
  <2>2. ASSUME NEW c \in Ports(m) PROVE c \in GraphPorts(m)
    <3>1. PICK n \in Modules : c \in Components(n)
      BY <2>1, <2>2 DEF TypeOK, Bound
    <3>2. c[1] \in Wiring
      BY <2>1, <2>2, OwnNames
    <3>3. c \notin PartIds(m)
      BY <2>1, <3>2, PartNames
    <3>4. n = m
      BY <2>1, <2>2, <3>1, <3>3, SharedAreParts
    <3>5. c # App(m)
      <4>1. ASSUME NEW i, c = SourcePort(m, i) PROVE c[1] = "BoundarySource"
        BY <4>1, TypeAndName DEF SourcePort
      <4>2. ASSUME NEW j, c = SinkPort(m, j) PROVE c[1] = "BoundarySink"
        BY <4>2, TypeAndName DEF SinkPort
      <4>3. (\E i : c = SourcePort(m, i)) \/ (\E j : c = SinkPort(m, j))
        BY <2>2 DEF Ports, SourcePorts, SinkPorts
      <4>4. c[1] # "Pgrapher"
        BY <4>1, <4>2, <4>3
      <4> QED
        BY <4>4, TypeAndName DEF App
    <3> QED
      BY <3>1, <3>3, <3>4, <3>5 DEF Components
  <2>3. bound[m] = GraphPorts(m)
    BY <2>1, <2>2, GraphPortsArePorts
  <2>4. ASSUME NEW n \in executors \ {m}, NEW c \in bound[m] \cap bound[n] PROVE FALSE
    <3>1. c \in PartIds(m)
      BY <2>1, <2>4, SharedAreParts
    <3> QED
      BY <2>1, <2>4, <3>1, PartNames, OwnNames
  <2> QED
    BY <2>3, <2>4
<1> QED
  BY <1>1, InitInv, NextInv, PTL DEF Spec

-----------------------------------------------------------------------------
(* Module files.                                                           *)

\* Several ports of one type.
LEMMA TimesSeq ==
  ASSUME NEW n \in Nat, NEW S, NEW type \in S
  PROVE  Times(n, type) \in Seq(S)
BY DEF Times

\* Every port type of every module file has a boundary class in the factory.
LEMMA FilesHaveClasses ==
  ASSUME NEW s \in ModuleFiles
  PROVE  s.inTypes \in Seq(SourceClasses) /\ s.outTypes \in Seq(SinkClasses)
<1>1. ASSUME NEW n \in Nat
      PROVE  /\ FramesToFrame(n).inTypes \in Seq(SourceClasses)
             /\ FramesToFrame(n).outTypes \in Seq(SinkClasses)
  <2>1. Times(n, "Frame") \in Seq(SourceClasses)
    BY TimesSeq DEF SourceClasses
  <2>2. <<"Frame">> \in Seq(SinkClasses)
    BY DEF SinkClasses
  <2> QED
    BY <2>1, <2>2 DEF FramesToFrame, Fanin, Shape
<1>t. /\ {"Frame", "DepoSet", "TrackSegmentSet"} \subseteq SourceClasses
      /\ {"Frame", "DepoSet", "BlobSet", "Cluster"} \subseteq SinkClasses
  BY DEF SourceClasses, SinkClasses
<1>s. /\ \A t \in SourceClasses : <<t>> \in Seq(SourceClasses)
      /\ \A t, u \in SourceClasses : <<t, u>> \in Seq(SourceClasses)
      /\ \A t \in SinkClasses : <<t>> \in Seq(SinkClasses)
      /\ <<>> \in Seq(SourceClasses) /\ <<>> \in Seq(SinkClasses)
  OBVIOUS
<1>2. ASSUME NEW via, NEW in \in SourceClasses, NEW out \in SinkClasses, s = Shape(via, <<in>>, <<out>>)
      PROVE  s.inTypes \in Seq(SourceClasses) /\ s.outTypes \in Seq(SinkClasses)
  BY <1>2, <1>s DEF Shape
<1>a. ASSUME NEW via, NEW out \in SinkClasses, s = Shape(via, <<>>, <<out>>)
      PROVE  s.inTypes \in Seq(SourceClasses) /\ s.outTypes \in Seq(SinkClasses)
  BY <1>a, <1>s DEF Shape
<1>b. ASSUME NEW via, NEW in \in SourceClasses, s = Shape(via, <<in>>, <<>>)
      PROVE  s.inTypes \in Seq(SourceClasses) /\ s.outTypes \in Seq(SinkClasses)
  BY <1>b, <1>s DEF Shape
<1>3. CASE s \in {FrameFilter, DepoSetFilter, DepoSetToFrame, FrameToCluster, TracksToDepoSet,
                  TracksToFrame, FrameToBlobSets}
  BY <1>2, <1>3, <1>t, Zenon
  DEF FrameFilter, DepoSetFilter, DepoSetToFrame, FrameToCluster, TracksToDepoSet,
      TracksToFrame, FrameToBlobSets, Function, Collect
<1>5. CASE s = FrameDepoSetToCluster
  BY <1>5, <1>s, <1>t DEF FrameDepoSetToCluster, Join, Shape
<1>6. CASE s \in {FrameSource, DepoSetSource}
  BY <1>6, <1>a, <1>t, Zenon DEF FrameSource, DepoSetSource, Source
<1>7. CASE s \in {FrameSink, DepoSetSink, Sink("Frame")}
  BY <1>7, <1>b, <1>t, Zenon DEF FrameSink, DepoSetSink, Sink
<1>4. CASE s = Fanin("Frame", "Frame", 4)
  BY <1>1, <1>4 DEF FramesToFrame
<1> QED
  BY <1>1, <1>3, <1>4, <1>5, <1>6, <1>7 DEF ModuleFiles, FrameFaninSink

\* A right configuration uses ports that its executor has and the factory can make.
LEMMA RightConfig ==
  ASSUME NEW m \in Modules, Right(conf[m])
  PROVE  /\ Evaluates(conf[m]) /\ HasClasses(conf[m])
         /\ Ports(m) \subseteq Components(m)
<1> DEFINE c == conf[m]
           s == Shape(c.via, c.inTypes, c.outTypes)
<1>1. s.inTypes = c.inTypes /\ s.outTypes = c.outTypes
  BY DEF Shape
<1>2. c.inTypes \in Seq(SourceClasses) /\ c.outTypes \in Seq(SinkClasses)
  <2>1. s \in ModuleFiles
    BY DEF Right
  <2> HIDE DEF s
  <2> QED
    BY <1>1, <2>1, FilesHaveClasses
<1>3. c.graphIn = WantIn(c) /\ c.graphOut = WantOut(c)
  BY DEF Right
<1>4. WantIn(c) = Len(c.inTypes) /\ WantOut(c) = Len(c.outTypes)
  BY DEF WantIn, WantOut
<1> HIDE DEF s
<1>5. Evaluates(c) /\ HasClasses(c)
  <2>1. Len(c.inTypes) \in Nat /\ Len(c.outTypes) \in Nat
    BY <1>2
  <2>2. /\ \A i \in 1..Len(c.inTypes) : c.inTypes[i] \in SourceClasses
        /\ \A j \in 1..Len(c.outTypes) : c.outTypes[j] \in SinkClasses
    BY <1>2
  <2> QED
    BY <1>3, <1>4, <2>1, <2>2 DEF Evaluates, HasClasses
<1>6. Ports(m) \subseteq GraphPorts(m)
  BY <1>3 DEF Ports, SourcePorts, SinkPorts, GraphPorts
<1> QED
  BY <1>5, <1>6 DEF Components

\* What registration finds when it comes to look for its ports.
MadeForPorts == At("ports") => Components(current) \subseteq DOMAIN factory

\* With right configurations no registration has failed.
NoneFails == MadeForPorts /\ RightJobRuns

\* Each step of a registration throws only for a configuration that is not right.
LEMMA NoneFailsNext == Inv /\ NoneFails /\ [Next]_vars => NoneFails'
<1> SUFFICES ASSUME Inv, NoneFails, [Next]_vars PROVE NoneFails'
  OBVIOUS
<1>a. conf' = conf
  BY DEF Next, vars, Begin, Destroy, CheckArity, ConstructBase, Initialize, BindPorts, Declare,
     Finish
<1>b. \A m \in Modules : Components(m)' = Components(m) /\ Right(conf[m])' = Right(conf[m])
  BY <1>a, NamesStay
<1>c. current # None => current \in Modules
  BY DEF Inv, TypeOK
<1>1. MadeForPorts'
  <2>1. CASE Initialize
    <3>1. current \in Modules /\ current' = current
      BY <1>c, <2>1 DEF Initialize, At, Fail, GoOn
    <3>2. At("ports")' => factory' = Configured(current)
      BY <2>1 DEF Initialize, At, Fail
    <3>3. DOMAIN Configured(current) = DOMAIN factory \cup Components(current)
      BY DEF Configured
    <3> QED
      BY <1>b, <3>1, <3>2, <3>3 DEF MadeForPorts
  <2>2. CASE BindPorts \/ \E m \in Modules : Begin(m)
    BY <2>2 DEF BindPorts, Begin, At, Fail, GoOn, MadeForPorts
  <2>3. CASE CheckArity \/ ConstructBase \/ Declare \/ Finish
    BY <2>3 DEF CheckArity, ConstructBase, Declare, Finish, At, Fail, GoOn, MadeForPorts
  <2>4. CASE UNCHANGED vars \/ \E m \in Modules : Destroy(m)
    <3>1. UNCHANGED <<conf, job, current, stage, factory>>
      BY <2>4 DEF vars, Destroy
    <3>2. At("ports")' => current \in Modules
      BY <1>c, <3>1 DEF At
    <3> QED
      BY <1>b, <3>1, <3>2 DEF NoneFails, MadeForPorts, At
  <2> QED
    BY <2>1, <2>2, <2>3, <2>4 DEF Next
<1>2. RightJobRuns'
  <2> SUFFICES ASSUME \A m \in Modules : Right(conf[m]), job # "failed"
               PROVE  job' # "failed"
    BY <1>b, <1>a DEF NoneFails, RightJobRuns
  <2>1. \A m \in Modules : ~BadArity(conf[m]) /\ conf[m].layers /\ ~BadConfig(conf[m])
                           /\ ~BadPort(conf[m])
    BY DEF Right
  <2>2. CASE CheckArity \/ ConstructBase \/ Declare
    BY <1>c, <2>1, <2>2 DEF CheckArity, ConstructBase, Declare, At, GoOn
  <2>3. CASE Initialize
    <3>1. current \in Modules
      BY <1>c, <2>3 DEF Initialize, At
    <3>2. Evaluates(conf[current]) /\ HasClasses(conf[current])
      BY <3>1, RightConfig
    <3> QED
      BY <2>3, <3>2 DEF Initialize, GoOn
  <2>4. CASE BindPorts
    <3>1. current \in Modules /\ Components(current) \subseteq DOMAIN factory
      BY <1>c, <2>4 DEF BindPorts, At, NoneFails, MadeForPorts
    <3>2. Found(current)
      BY <3>1, RightConfig DEF Found
    <3> QED
      BY <2>4, <3>2 DEF BindPorts, GoOn
  <2>5. CASE UNCHANGED vars \/ Finish \/ \E m \in Modules : Begin(m) \/ Destroy(m)
    BY <2>5 DEF vars, Finish, Begin, Destroy
  <2> QED
    BY <2>2, <2>3, <2>4, <2>5 DEF Next
<1> QED
  BY <1>1, <1>2 DEF NoneFails

\* A job of any of the module files, registered in any order with configurations
\* that are right, is never refused.
THEOREM RightJobsRegister == Spec => []RightJobRuns
<1>1. Init => NoneFails
  BY DEF Init, NoneFails, MadeForPorts, RightJobRuns, At
<1>2. NoneFails => RightJobRuns
  BY DEF NoneFails
<1> QED
  BY <1>1, <1>2, InitInv, NextInv, NoneFailsNext, PTL DEF Spec
=============================================================================
