----------------------- MODULE SourceExecutor_proofs -------------------------
(***************************************************************************)
(* Proofs about SourceExecutor, for any cells, any length of the file and  *)
(* any order and overlap of calls.  Safety only: that every call returns   *)
(* is left to TLC.                                                         *)
(***************************************************************************)
EXTENDS SourceExecutor, SequenceTheorems, TLAPS

Records == 1..NumItems

\* Where a call can be.
Places == {"new", "entered", "running", "ready", "done", "threw", "stuck"}

Outputs == Records \cup {Null}

\* The n-th of a file of k records.
Nth(n, k) == IF n <= k THEN n ELSE Null

\* The n-th thing the graph's source delivers.
Delivered(n) == Nth(n, NumItems)

-----------------------------------------------------------------------------
(* What holds however calls overlap.                                       *)

\* Nobody drives the graph before m_ran is set, and then its runner alone.
Guarded == /\ ~ran => runner = Idle
           /\ \A c \in Cells : pc[c] = "running" => runner = c

PlainInv == TypeOK /\ Guarded

\* A source executor as constructed.
LEMMA PlainInit == Init => PlainInv
<1> SUFFICES ASSUME Init PROVE PlainInv
  OBVIOUS
<1>1. TypeOK
  <2>1. <<>> \in Seq(1..NumItems) /\ <<>> \in Seq(1..NumItems \cup {Null}) /\ <<>> \in Seq(Cells)
    OBVIOUS
  <2>2. [c \in Cells |-> "new"] \in [Cells -> Places]
    BY DEF Places
  <2>3. [c \in Cells |-> Null] \in [Cells -> 1..NumItems \cup {Null}]
    OBVIOUS
  <2>4. 0 \in 0..NumItems
    BY SourceAssumption
  <2> QED
    BY <2>1, <2>2, <2>3, <2>4 DEF Init, TypeOK, NewSink, Places
<1>2. Guarded
  BY DEF Init, Guarded
<1> QED
  BY <1>1, <1>2 DEF PlainInv

\* BoundarySink::operator() keeps records and drops the end of stream.
LEMMA AcceptType ==
  ASSUME NEW q \in Seq(Records), NEW x \in Outputs
  PROVE  Accept(q, x) \in Seq(Records)
BY DEF Accept, Outputs

\* BoundarySink::drain() gives a record or null and leaves records.
LEMMA DrainType ==
  ASSUME NEW q \in Seq(Records)
  PROVE  AfterDrain(q) \in Seq(Records) /\ DrainOut(q) \in Outputs
<1>1. CASE q = <<>>
  BY <1>1 DEF AfterDrain, DrainOut, Outputs
<1>2. CASE q # <<>>
  <2>1. Head(q) \in Records /\ Tail(q) \in Seq(Records)
    BY <1>2, HeadTailProperties
  <2> QED
    BY <1>2, <2>1 DEF AfterDrain, DrainOut, Outputs
<1> QED
  BY <1>1, <1>2

\* No step of any thread breaks the types, or lets a second one into the graph.
LEMMA PlainNext == PlainInv /\ [Next]_vars => PlainInv'
<1> SUFFICES ASSUME PlainInv, [Next]_vars PROVE PlainInv'
  OBVIOUS
<1> USE SourceAssumption
<1>0. TypeOK /\ Guarded
  BY DEF PlainInv
<1>a. /\ snk \in Seq(Records) /\ edge \in Seq(Outputs) /\ read \in 0..NumItems
      /\ order \in Seq(Cells) /\ product \in [Cells -> Outputs]
  BY <1>0 DEF TypeOK, Records, Outputs
<1>1. ASSUME NEW c \in Cells, Enter(c) PROVE PlainInv'
  BY <1>0, <1>1 DEF PlainInv, TypeOK, Guarded, Enter, Goto, graph
<1>2. ASSUME NEW c \in Cells, Exchange(c) PROVE PlainInv'
  <2>1. TypeOK'
    BY <1>0, <1>2 DEF TypeOK, Exchange, Goto, graph
  <2>2. Guarded'
    BY <1>0, <1>2 DEF TypeOK, Guarded, Exchange, Goto, graph
  <2> QED
    BY <2>1, <2>2 DEF PlainInv
<1>3. ASSUME NEW c \in Cells, ReadItem(c) PROVE PlainInv'
  <2>1. (IF read < NumItems THEN read + 1 ELSE Null) \in Outputs
    BY <1>a DEF Outputs, Records
  <2>2. edge' \in Seq(Outputs)
    BY <1>3, <2>1, <1>a DEF ReadItem
  <2>3. read' \in 0..NumItems /\ eos' \in BOOLEAN
    BY <1>3, <1>a DEF ReadItem
  <2> QED
    BY <1>0, <1>3, <2>2, <2>3 DEF PlainInv, TypeOK, Guarded, ReadItem, Outputs, Records
<1>4. ASSUME NEW c \in Cells, CallSink(c) PROVE PlainInv'
  <2>1. Head(edge) \in Outputs /\ Tail(edge) \in Seq(Outputs)
    BY <1>4, <1>a, HeadTailProperties DEF CallSink
  <2>2. snk' \in Seq(Records) /\ edge' \in Seq(Outputs)
    BY <1>4, <1>a, <2>1, AcceptType DEF CallSink
  <2> QED
    BY <1>0, <1>4, <2>2 DEF PlainInv, TypeOK, Guarded, CallSink, Outputs, Records
<1>5. ASSUME NEW c \in Cells, GraphDone(c) PROVE PlainInv'
  BY <1>0, <1>5 DEF PlainInv, TypeOK, Guarded, GraphDone, Goto, graph
<1>6. ASSUME NEW c \in Cells, Drain(c) PROVE PlainInv'
  <2>1. snk' \in Seq(Records) /\ product' \in [Cells -> Outputs]
    BY <1>6, <1>a, DrainType DEF Drain
  <2>2. order' \in Seq(Cells)
    BY <1>6, <1>a DEF Drain
  <2> QED
    BY <1>0, <1>6, <2>1, <2>2
    DEF PlainInv, TypeOK, Guarded, Drain, Goto, graph, Outputs, Records
<1>8. ASSUME NEW c \in Cells, RacingDrain(c) PROVE PlainInv'
  <2>1. snk' \in Seq(Records)
    BY <1>8, <1>a, DrainType DEF RacingDrain
  <2>2. product' \in [Cells -> Outputs]
    BY <1>8, <1>a DEF RacingDrain, Outputs, Records
  <2>3. order' \in Seq(Cells)
    <3>1. order' = Append(order, c) \/ order' = order
      BY <1>8 DEF RacingDrain
    <3>2. Append(order, c) \in Seq(Cells)
      BY <1>a
    <3> QED
      BY <3>1, <3>2, <1>a
  <2>4. /\ pc' = [pc EXCEPT ![c] = "done"] \/ pc' = [pc EXCEPT ![c] = "stuck"]
        /\ UNCHANGED <<serial, ran, runner, read, eos, edge>>
    BY <1>8 DEF RacingDrain, Goto, graph
  <2> QED
    BY <1>0, <2>1, <2>2, <2>3, <2>4
    DEF PlainInv, TypeOK, Guarded, Outputs, Records
<1>9. ASSUME NEW c \in Cells, NodeThrows(c) PROVE PlainInv'
  BY <1>0, <1>9 DEF PlainInv, TypeOK, Guarded, NodeThrows, Goto, graph
<1>7. CASE UNCHANGED vars
  BY <1>0, <1>7 DEF PlainInv, TypeOK, Guarded, vars, graph
<1> QED
  BY <1>1, <1>2, <1>3, <1>4, <1>5, <1>6, <1>7, <1>8, <1>9 DEF Next, Step, Proceed, Run

\* The types hold however calls overlap, the data race on the sink included.
THEOREM SourceTypes == Spec => []TypeOK
<1>1. PlainInv => TypeOK
  BY DEF PlainInv
<1> QED
  BY <1>1, PlainInit, PlainNext, PTL DEF Spec

\* Only the call that finds m_ran clear ever starts to drive the graph.
THEOREM RunsOnce == Spec => OneRun
<1>1. PlainInv /\ [Next]_vars =>
        [\A c \in Cells : pc'[c] = "running" /\ pc[c] # "running" => runner = Idle]_vars
  <2> SUFFICES ASSUME PlainInv, Next, NEW c \in Cells, pc'[c] = "running", pc[c] # "running"
               PROVE  runner = Idle
    BY DEF vars
  <2>1. PICK d \in Cells : Step(d)
    BY DEF Next
  <2>2. ~ran
    BY <2>1 DEF PlainInv, TypeOK, Step, Proceed, Run, Enter, Exchange, ReadItem, CallSink,
                GraphDone, NodeThrows, Drain, RacingDrain, Goto
  <2> QED
    BY <2>2 DEF PlainInv, Guarded
<1> QED
  BY <1>1, PlainInit, PlainNext, PTL DEF Spec, OneRun

-----------------------------------------------------------------------------
(* What holds if PHLEX lets one call in at a time: the file goes through   *)
(* edge and sink to the calls in order.  At any moment the calls that have *)
(* drained, the sink and the edge hold the beginning of what the graph's   *)
(* source delivers, in this order, cut at three places.                    *)

Single == \A c, d \in Inside : c = d

Running == \E c \in Cells : pc[c] = "running"

Drained == \A n \in DOMAIN order : pc[order[n]] = "done"

BeforeRun == ~ran => /\ order = <<>> /\ snk = <<>> /\ edge = <<>> /\ read = 0 /\ ~eos
                     /\ \A c \in Cells : pc[c] \in {"new", "entered"}

InRun ==
  Running => /\ order = <<>>
             /\ Len(snk) <= NumItems
             /\ \A n \in 1..Len(snk) : snk[n] = n
             /\ \A n \in 1..Len(edge) : edge[n] = Delivered(Len(snk) + n)
             /\ ~eos => Len(snk) + Len(edge) = read
             /\ eos => \/ edge = <<>> /\ Len(snk) = NumItems
                       \/ Len(snk) + Len(edge) = NumItems + 1

\* Of the file, k records have got through and the calls that drained had the
\* first of them; the rest is in the sink.
Through(k) ==
  /\ \A n \in 1..Len(snk) : snk[n] = Len(order) + n
  /\ Len(snk) = IF Len(order) <= k THEN k - Len(order) ELSE 0
  /\ \A n \in DOMAIN order : product[order[n]] = Nth(n, k)

AfterRun ==
  ran /\ ~Running => \E k \in 0..NumItems : /\ ~Threw => eos /\ edge = <<>> /\ k = NumItems
                                            /\ Through(k)

SerialInv == Single /\ Drained /\ BeforeRun /\ InRun /\ AfterRun

FileInv == PlainInv /\ (serial => SerialInv)

\* A source executor as constructed has read nothing.
LEMMA FileInit == Init => FileInv
<1> SUFFICES ASSUME Init PROVE FileInv
  OBVIOUS
<1>1. PlainInv
  BY PlainInit
<1>2. \A c \in Cells : pc[c] = "new"
  BY DEF Init
<1>3. Single /\ BeforeRun /\ ~Running
  BY <1>2 DEF Single, Inside, BeforeRun, Running, Init, NewSink
<1>4. Drained /\ InRun /\ AfterRun
  BY <1>3 DEF Drained, InRun, AfterRun, Init
<1> QED
  BY <1>1, <1>3, <1>4 DEF FileInv, SerialInv

\* One call at a time: which states of the program counters go together.
LEMMA OneInside ==
  ASSUME TypeOK, Single, NEW c \in Inside, NEW d \in Cells, d # c
  PROVE  pc[d] \in {"new", "done", "threw"}
BY DEF TypeOK, Single, Inside

\* A step that leaves the file, the sink and the answers alone, and by which no call
\* stops running or throws, leaves AfterRun alone.
LEMMA AfterSame ==
  ASSUME AfterRun, ran' => ran, Running => Running', Threw => Threw',
         UNCHANGED <<eos, edge, snk, order, product>>
  PROVE  AfterRun'
<1> SUFFICES ASSUME ran', ~Running'
             PROVE  \E k \in 0..NumItems : /\ ~Threw' => eos' /\ edge' = <<>> /\ k = NumItems
                                           /\ Through(k)'
  BY DEF AfterRun
<1>1. PICK k \in 0..NumItems : /\ ~Threw => eos /\ edge = <<>> /\ k = NumItems
                               /\ Through(k)
  BY DEF AfterRun
<1>2. Through(k)'
  BY <1>1 DEF Through
<1> QED
  BY <1>1, <1>2

\* The exchange of m_ran starts the run, or finds it over.
LEMMA ExchangeInv ==
  ASSUME PlainInv, SerialInv, NEW c \in Cells, Exchange(c)
  PROVE  SerialInv'
<1>a. TypeOK /\ Single /\ Drained /\ BeforeRun /\ InRun /\ AfterRun
  BY DEF PlainInv, SerialInv
<1>b. pc[c] = "entered" /\ c \in Inside /\ snk' = snk /\ edge' = edge /\ read' = read
      /\ eos' = eos /\ order' = order /\ product' = product /\ ran' = TRUE
      /\ pc' = [pc EXCEPT ![c] = IF ran THEN "ready" ELSE "running"]
  BY DEF Exchange, Goto, Inside, graph
<1>c. pc \in [Cells -> Places] /\ order \in Seq(Cells)
  BY <1>a DEF TypeOK, Places
<1>1. ~Running
  BY <1>a, <1>b, OneInside DEF Running
<1>2. Single'
  BY <1>a, <1>b, <1>c DEF Single, Inside
<1>3. Drained'
  BY <1>a, <1>b, <1>c DEF Drained
<1>4. BeforeRun'
  BY <1>a, <1>b DEF BeforeRun
<1>5. CASE ran
  <2>1. ~Running'
    BY <1>1, <1>b, <1>c, <1>5 DEF Running
  <2>2. AfterRun'
    <3>1. Threw => Threw'
      BY <1>b, <1>c DEF Threw
    <3> QED
      BY <1>a, <1>b, <1>1, <1>5, <3>1, AfterSame
  <2> QED
    BY <1>1, <1>2, <1>3, <1>4, <1>5, <2>1, <2>2, <1>a, <1>b DEF SerialInv, InRun
<1>6. CASE ~ran
  <2>1. Running'
    BY <1>b, <1>c, <1>6 DEF Running
  <2>2. InRun'
    BY <1>a, <1>b, <1>6, SourceAssumption DEF InRun, BeforeRun
  <2> QED
    BY <1>2, <1>3, <1>4, <2>1, <2>2 DEF SerialInv, AfterRun
<1> QED
  BY <1>5, <1>6

\* The graph's source reads the next record, or the end of the file.
LEMMA ReadItemInv ==
  ASSUME PlainInv, SerialInv, NEW c \in Cells, ReadItem(c)
  PROVE  SerialInv'
<1>a. TypeOK /\ Single /\ Drained /\ BeforeRun /\ InRun /\ AfterRun
  BY DEF PlainInv, SerialInv
<1>b. pc[c] = "running" /\ ~eos /\ pc' = pc /\ snk' = snk /\ order' = order
      /\ product' = product /\ ran' = ran
  BY DEF ReadItem
<1>c. edge \in Seq(Outputs) /\ snk \in Seq(Records) /\ read \in 0..NumItems
  BY <1>a DEF TypeOK, Outputs, Records
<1>1. Running /\ Running' /\ ran
  BY <1>a, <1>b DEF Running, BeforeRun
<1>2. /\ order = <<>> /\ Len(snk) <= NumItems /\ \A n \in 1..Len(snk) : snk[n] = n
      /\ \A n \in 1..Len(edge) : edge[n] = Delivered(Len(snk) + n)
      /\ Len(snk) + Len(edge) = read
  BY <1>1, <1>a, <1>b DEF InRun
<1>3. edge' = Append(edge, Delivered(read + 1)) /\ eos' = (read = NumItems)
      /\ read' = IF read < NumItems THEN read + 1 ELSE read
  BY <1>c, SourceAssumption DEF ReadItem, Delivered, Nth
<1>4. Len(edge) \in Nat /\ Len(snk) \in Nat /\ Len(edge') = Len(edge) + 1
  BY <1>3, <1>c
<1>5. \A n \in 1..Len(edge') : edge'[n] = Delivered(Len(snk) + n)
  <2> TAKE n \in 1..Len(edge')
  <2>1. CASE n = Len(edge) + 1
    <3>1. edge'[n] = Delivered(read + 1)
      BY <1>3, <1>c, <2>1
    <3>2. Len(snk) + n = read + 1
      <4>1. Len(snk) + Len(edge) = read
        BY <1>2
      <4> QED
        BY <4>1, <1>4, <2>1
    <3> QED
      BY <3>1, <3>2
  <2>2. CASE n # Len(edge) + 1
    <3>1. n \in 1..Len(edge)
      BY <1>4, <2>2
    <3>2. edge'[n] = edge[n]
      BY <1>3, <1>c, <3>1
    <3> QED
      BY <1>2, <3>1, <3>2
  <2> QED
    BY <2>1, <2>2
<1>6. InRun'
  <2>1. eos' = (read = NumItems) /\ read' = IF read < NumItems THEN read + 1 ELSE read
    BY <1>3
  <2>2. Len(snk') + Len(edge') = read + 1
    <3>1. Len(snk) + Len(edge) = read /\ Len(snk') = Len(snk)
      BY <1>2, <1>b
    <3> QED
      BY <3>1, <1>4
  <2>3. ~eos' => Len(snk') + Len(edge') = read'
    <3>1. read # NumItems => read < NumItems
      BY <1>c, SourceAssumption
    <3> QED
      BY <3>1, <2>1, <2>2
  <2>4. eos' => Len(snk') + Len(edge') = NumItems + 1
    BY <2>1, <2>2
  <2>5. order' = <<>> /\ Len(snk') <= NumItems /\ \A n \in 1..Len(snk') : snk'[n] = n
    BY <1>2, <1>b
  <2>6. \A n \in 1..Len(edge') : edge'[n] = Delivered(Len(snk') + n)
    BY <1>5, <1>b
  <2> QED
    BY <2>3, <2>4, <2>5, <2>6 DEF InRun
<1>7. Single' /\ Drained' /\ BeforeRun' /\ AfterRun'
  BY <1>a, <1>b, <1>1 DEF Single, Inside, Drained, BeforeRun, AfterRun, Running
<1> QED
  BY <1>6, <1>7 DEF SerialInv

\* The boundary sink takes the next record, and at the end drops the marker.
LEMMA CallSinkInv ==
  ASSUME PlainInv, SerialInv, NEW c \in Cells, CallSink(c)
  PROVE  SerialInv'
<1>a. TypeOK /\ Single /\ Drained /\ BeforeRun /\ InRun /\ AfterRun
  BY DEF PlainInv, SerialInv
<1>b. pc[c] = "running" /\ pc' = pc /\ order' = order /\ edge # <<>> /\ eos' = eos
      /\ read' = read /\ product' = product /\ ran' = ran
  BY DEF CallSink
<1>c. edge \in Seq(Outputs) /\ snk \in Seq(Records) /\ read \in 0..NumItems
  BY <1>a DEF TypeOK, Outputs, Records
<1>1. Running /\ Running' /\ ran
  BY <1>a, <1>b DEF Running, BeforeRun
<1>2. /\ order = <<>> /\ Len(snk) <= NumItems /\ \A n \in 1..Len(snk) : snk[n] = n
      /\ \A n \in 1..Len(edge) : edge[n] = Delivered(Len(snk) + n)
      /\ ~eos => Len(snk) + Len(edge) = read
      /\ eos => \/ edge = <<>> /\ Len(snk) = NumItems
                \/ Len(snk) + Len(edge) = NumItems + 1
  BY <1>1, <1>a DEF InRun
<1>3. /\ Len(edge) \in Nat \ {0} /\ Len(snk) \in Nat
      /\ Tail(edge) \in Seq(Outputs) /\ Len(Tail(edge)) = Len(edge) - 1
      /\ \A n \in 1..Len(Tail(edge)) : Tail(edge)[n] = edge[n + 1]
      /\ Head(edge) = edge[1]
  BY <1>b, <1>c
<1>4. Head(edge) = Delivered(Len(snk) + 1) /\ edge' = Tail(edge)
  BY <1>2, <1>3 DEF CallSink
<1>5. snk' = Accept(snk, Head(edge))
  BY DEF CallSink
<1>6. CASE Len(snk) < NumItems
  <2>1. Head(edge) = Len(snk) + 1 /\ Head(edge) # Null
    BY <1>3, <1>4, <1>6, SourceAssumption DEF Delivered, Nth
  <2>2. snk' = Append(snk, Len(snk) + 1)
    BY <1>5, <2>1 DEF Accept
  <2>3. Len(snk') = Len(snk) + 1
    BY <2>2, <1>c
  <2>4. \A n \in 1..Len(snk') : snk'[n] = n
    BY <2>2, <2>3, <1>2, <1>3, <1>c
  <2>5. \A n \in 1..Len(edge') : edge'[n] = Delivered(Len(snk') + n)
    <3> TAKE n \in 1..Len(edge')
    <3>1. edge'[n] = edge[n + 1] /\ n + 1 \in 1..Len(edge)
      BY <1>3, <1>4
    <3>2. Len(snk') + n = Len(snk) + (n + 1)
      BY <2>3, <1>3
    <3> QED
      BY <3>1, <3>2, <1>2
  <2>6. Len(snk') + Len(edge') = Len(snk) + Len(edge)
    BY <2>3, <1>3, <1>4
  <2>7. InRun'
    BY <1>2, <1>3, <1>6, <1>b, <2>3, <2>4, <2>5, <2>6, SourceAssumption DEF InRun
  <2> QED
    BY <2>7, <1>a, <1>b, <1>1
    DEF SerialInv, Single, Inside, Drained, BeforeRun, AfterRun, Running
<1>7. CASE ~(Len(snk) < NumItems)
  <2>1. Len(snk) = NumItems
    BY <1>2, <1>3, <1>7, SourceAssumption
  <2>2. eos /\ Len(edge) = 1
    BY <2>1, <1>2, <1>3, <1>b, <1>c, SourceAssumption
  <2>3. Head(edge) = Null
    BY <2>1, <1>4, SourceAssumption DEF Delivered, Nth
  <2>4. snk' = snk /\ edge' = <<>>
    BY <2>2, <2>3, <1>3, <1>4, <1>5 DEF Accept
  <2>5. InRun'
    BY <2>1, <2>2, <2>4, <1>2, <1>b DEF InRun
  <2> QED
    BY <2>5, <1>a, <1>b, <1>1
    DEF SerialInv, Single, Inside, Drained, BeforeRun, AfterRun, Running
<1> QED
  BY <1>6, <1>7

\* run_graph() returns: the whole file is in the sink.
LEMMA GraphDoneInv ==
  ASSUME PlainInv, SerialInv, NEW c \in Cells, GraphDone(c)
  PROVE  SerialInv'
<1>a. TypeOK /\ Single /\ Drained /\ BeforeRun /\ InRun /\ AfterRun
  BY DEF PlainInv, SerialInv
<1>b. pc[c] = "running" /\ c \in Inside /\ pc' = [pc EXCEPT ![c] = "ready"]
      /\ snk' = snk /\ edge' = edge /\ read' = read /\ eos' = eos /\ order' = order
      /\ product' = product /\ ran' = ran /\ eos /\ edge = <<>>
  BY DEF GraphDone, Goto, Inside, graph
<1>c. pc \in [Cells -> Places] /\ snk \in Seq(Records)
  BY <1>a DEF TypeOK, Records, Places
<1>1. Running /\ ran
  BY <1>a, <1>b DEF Running, BeforeRun
<1>2. ~Running'
  BY <1>a, <1>b, <1>c, OneInside DEF Running
<1>3. order = <<>> /\ (\A n \in 1..Len(snk) : snk[n] = n) /\ Len(snk) = NumItems
  BY <1>1, <1>a, <1>b, <1>c, SourceAssumption DEF InRun
<1>4. AfterRun'
  <2>1. Through(NumItems)'
    <3>1. \A n \in 1..Len(snk') : snk'[n] = Len(order') + n
      BY <1>3, <1>b, <1>c
    <3>2. Len(snk') = IF Len(order') <= NumItems THEN NumItems - Len(order') ELSE 0
      BY <1>3, <1>b, SourceAssumption
    <3>3. DOMAIN order' = {}
      BY <1>3, <1>b
    <3> QED
      BY <3>1, <3>2, <3>3 DEF Through
  <2>2. NumItems \in 0..NumItems
    BY SourceAssumption
  <2> QED
    BY <2>1, <2>2, <1>b DEF AfterRun
<1>5. Single'
  BY <1>a, <1>b, <1>c DEF Single, Inside
<1> QED
  BY <1>1, <1>2, <1>3, <1>4, <1>5, <1>b DEF SerialInv, InRun, BeforeRun, Drained

\* An exception out of run_graph(): what the sink holds is the beginning of the file,
\* and it is all that later calls will get.
LEMMA NodeThrowsInv ==
  ASSUME PlainInv, SerialInv, NEW c \in Cells, NodeThrows(c)
  PROVE  SerialInv'
<1>a. TypeOK /\ Single /\ Drained /\ BeforeRun /\ InRun /\ AfterRun
  BY DEF PlainInv, SerialInv
<1>b. pc[c] = "running" /\ c \in Inside /\ pc' = [pc EXCEPT ![c] = "threw"]
      /\ snk' = snk /\ edge' = edge /\ read' = read /\ eos' = eos /\ order' = order
      /\ product' = product /\ ran' = ran
  BY DEF NodeThrows, Goto, Inside, graph
<1>c. pc \in [Cells -> Places] /\ snk \in Seq(Records)
  BY <1>a DEF TypeOK, Records, Places
<1>1. Running /\ ran
  BY <1>a, <1>b DEF Running, BeforeRun
<1>2. ~Running'
  BY <1>a, <1>b, <1>c, OneInside DEF Running
<1>3. order = <<>> /\ (\A n \in 1..Len(snk) : snk[n] = n) /\ Len(snk) <= NumItems
  BY <1>1, <1>a DEF InRun
<1>4. AfterRun'
  <2>1. Through(Len(snk))'
    <3>1. \A n \in 1..Len(snk') : snk'[n] = Len(order') + n
      BY <1>3, <1>b, <1>c
    <3>2. Len(snk') = IF Len(order') <= Len(snk') THEN Len(snk') - Len(order') ELSE 0
      BY <1>3, <1>b, <1>c
    <3>3. DOMAIN order' = {}
      BY <1>3, <1>b
    <3> QED
      BY <3>1, <3>2, <3>3 DEF Through
  <2>2. Len(snk') \in 0..NumItems
    BY <1>3, <1>b, <1>c, SourceAssumption
  <2>3. Threw'
    BY <1>b, <1>c DEF Threw
  <2> QED
    BY <2>1, <2>2, <2>3 DEF AfterRun
<1>5. Single'
  BY <1>a, <1>b, <1>c DEF Single, Inside
<1>6. Drained'
  BY <1>3, <1>b DEF Drained
<1> QED
  BY <1>1, <1>2, <1>4, <1>5, <1>6, <1>b DEF SerialInv, InRun, BeforeRun

\* drain(): the call gets the record whose number is that of the call.
LEMMA DrainInv ==
  ASSUME PlainInv, SerialInv, NEW c \in Cells, Drain(c)
  PROVE  SerialInv'
<1>a. TypeOK /\ Single /\ Drained /\ BeforeRun /\ InRun /\ AfterRun
  BY DEF PlainInv, SerialInv
<1>b. pc[c] = "ready" /\ c \in Inside /\ pc' = [pc EXCEPT ![c] = "done"]
      /\ edge' = edge /\ eos' = eos /\ order' = Append(order, c) /\ ran' = ran
  BY DEF Drain, Goto, Inside, graph
<1>c. /\ pc \in [Cells -> Places]
      /\ snk \in Seq(Records) /\ order \in Seq(Cells) /\ product \in [Cells -> Outputs]
  BY <1>a DEF TypeOK, Records, Outputs, Places
<1>1. ~Running /\ ran
  BY <1>a, <1>b, OneInside DEF Running, BeforeRun
<1>2. ~Running' /\ ran'
  BY <1>1, <1>b, <1>c DEF Running
<1>4. product' = [product EXCEPT ![c] = DrainOut(snk)] /\ snk' = AfterDrain(snk)
  BY DEF Drain
<1>3. PICK k \in 0..NumItems : /\ ~Threw => eos /\ edge = <<>> /\ k = NumItems
                               /\ Through(k)
  BY <1>1, <1>a DEF AfterRun
<1>5. /\ \A n \in 1..Len(snk) : snk[n] = Len(order) + n
      /\ Len(snk) = IF Len(order) <= k THEN k - Len(order) ELSE 0
      /\ \A n \in DOMAIN order : product[order[n]] = Nth(n, k)
  BY <1>3 DEF Through
<1>6. Len(order) \in Nat /\ Len(order') = Len(order) + 1 /\ DOMAIN order = 1..Len(order)
      /\ DOMAIN order' = 1..Len(order')
  BY <1>b, <1>c
<1>k. Len(order) \in Nat /\ Len(order') = Len(order) + 1
  BY <1>6
<1>l. /\ Len(order) <= k => Len(snk) = k - Len(order)
      /\ ~(Len(order) <= k) => Len(snk) = 0
      /\ k \in Nat /\ Len(snk) \in Nat
  BY <1>5, <1>c, SourceAssumption
<1>7. DrainOut(snk) = Nth(Len(order'), k)
      /\ (\A n \in 1..Len(snk') : snk'[n] = Len(order') + n)
      /\ Len(snk') = IF Len(order') <= k THEN k - Len(order') ELSE 0
  <2>1. CASE snk = <<>>
    <3>0. Len(snk) = 0
      BY <2>1
    <3>1. Len(snk) = 0 /\ ~(Len(order') <= k)
      BY <3>0, <1>k, <1>l
    <3>2. snk' = snk
      BY <2>1, <1>4 DEF AfterDrain
    <3>3. DrainOut(snk) = Nth(Len(order'), k)
      BY <2>1, <3>1 DEF DrainOut, Nth
    <3> QED
      BY <2>1, <3>0, <3>1, <3>2, <3>3
  <2>2. CASE snk # <<>>
    <3>1. /\ Len(snk) \in Nat \ {0} /\ Head(snk) = snk[1] /\ Tail(snk) \in Seq(Records)
          /\ Len(Tail(snk)) = Len(snk) - 1
          /\ \A n \in 1..Len(Tail(snk)) : Tail(snk)[n] = snk[n + 1]
      BY <2>2, <1>c
    <3>2. Len(order) < k
      BY <3>1, <1>k, <1>l
    <3>3. snk' = Tail(snk) /\ DrainOut(snk) = Head(snk)
      BY <2>2, <1>4 DEF AfterDrain, DrainOut
    <3>4. DrainOut(snk) = Nth(Len(order'), k)
      <4>1. Head(snk) = Len(order) + 1
        BY <3>1, <1>5
      <4> QED
        BY <4>1, <3>2, <3>3, <1>k, <1>l DEF Nth
    <3>5. \A n \in 1..Len(snk') : snk'[n] = Len(order') + n
      <4> TAKE n \in 1..Len(snk')
      <4>1. snk'[n] = snk[n + 1] /\ n + 1 \in 1..Len(snk)
        BY <3>1, <3>3
      <4> QED
        BY <4>1, <1>5, <1>6
    <3>6. Len(snk') = k - Len(order')
      <4>1. Len(snk) = k - Len(order) /\ Len(snk') = Len(snk) - 1
        BY <3>1, <3>2, <3>3, <1>k, <1>l
      <4> QED
        BY <4>1, <1>k, <1>l
    <3> QED
      BY <3>2, <3>4, <3>5, <3>6, <1>k, <1>l
  <2> QED
    BY <2>1, <2>2
<1>8. \A n \in 1..Len(order) : order'[n] = order[n] /\ order[n] \in Cells /\ order[n] # c
  BY <1>a, <1>b, <1>c, <1>6 DEF Drained
<1>9. order'[Len(order')] = c
  BY <1>b, <1>c, <1>6
<1>10. Drained'
  BY <1>8, <1>9, <1>6, <1>a, <1>b, <1>c DEF Drained
<1>11. \A n \in DOMAIN order' : product'[order'[n]] = Nth(n, k)
  <2> SUFFICES ASSUME NEW n \in 1..Len(order') PROVE product'[order'[n]] = Nth(n, k)
    BY <1>6
  <2>1. CASE n = Len(order')
    BY <2>1, <1>4, <1>7, <1>9, <1>c
  <2>2. CASE n # Len(order')
    <3>1. n \in 1..Len(order)
      BY <2>2, <1>6
    <3> QED
      BY <3>1, <1>4, <1>5, <1>6, <1>8, <1>c
  <2> QED
    BY <2>1, <2>2
<1>12. Single'
  BY <1>a, <1>b, <1>c DEF Single, Inside
<1>13. AfterRun'
  <2>1. Through(k)'
    BY <1>7, <1>11 DEF Through
  <2>2. Threw => Threw'
    BY <1>b, <1>c DEF Threw
  <2> QED
    BY <2>1, <2>2, <1>3, <1>b DEF AfterRun
<1> QED
  BY <1>2, <1>10, <1>12, <1>13 DEF SerialInv, InRun, BeforeRun

\* A call begins when no other is inside.
LEMMA EnterInv ==
  ASSUME PlainInv, SerialInv, serial, NEW c \in Cells, Enter(c)
  PROVE  SerialInv'
<1>a. TypeOK /\ Single /\ Drained /\ BeforeRun /\ InRun /\ AfterRun
  BY DEF PlainInv, SerialInv
<1>b. pc[c] = "new" /\ Inside = {} /\ pc' = [pc EXCEPT ![c] = "entered"]
      /\ snk' = snk /\ edge' = edge /\ read' = read /\ eos' = eos /\ order' = order
      /\ product' = product /\ ran' = ran
  BY DEF Enter, Goto, graph
<1>c. pc \in [Cells -> Places] /\ order \in Seq(Cells)
  BY <1>a DEF TypeOK, Places
<1>1. ~Running /\ ~Running'
  BY <1>b, <1>c DEF Running, Inside
<1>2. Single' /\ BeforeRun' /\ InRun'
  BY <1>a, <1>b, <1>c, <1>1 DEF Single, Inside, BeforeRun, InRun
<1>3. Drained'
  BY <1>a, <1>b, <1>c DEF Drained
<1>4. AfterRun'
  <2>1. Threw => Threw'
    BY <1>b, <1>c DEF Threw
  <2> QED
    BY <1>a, <1>b, <1>1, <2>1, AfterSame
<1> QED
  BY <1>2, <1>3, <1>4 DEF SerialInv

\* No step loses, repeats or reorders a record, if calls do not overlap.
LEMMA FileNext == FileInv /\ [Next]_vars => FileInv'
<1> SUFFICES ASSUME FileInv, [Next]_vars, serial' PROVE SerialInv'
  BY PlainNext DEF FileInv
<1>1. serial
  BY DEF Next, Step, Proceed, Run, Enter, Exchange, ReadItem, CallSink, GraphDone, NodeThrows,
         Drain, RacingDrain, vars
<1>2. PlainInv /\ SerialInv
  BY <1>1 DEF FileInv
<1>3. ASSUME NEW c \in Cells, Step(c) PROVE SerialInv'
  <2>1. ASSUME RacingDrain(c) PROVE FALSE
    <3>1. c \in Inside /\ TypeOK /\ Single
      BY <1>2, <2>1 DEF RacingDrain, Goto, Inside, PlainInv, SerialInv
    <3> QED
      BY <2>1, <3>1, OneInside DEF RacingDrain, Contended
  <2> QED
    BY <1>1, <1>2, <1>3, <2>1, EnterInv, ExchangeInv, ReadItemInv, CallSinkInv, GraphDoneInv,
       NodeThrowsInv, DrainInv
    DEF Step, Proceed, Run
<1>4. CASE UNCHANGED vars
  <2>1. UNCHANGED <<ran, eos, edge, snk, order, product, read, pc>>
    BY <1>4 DEF vars, graph
  <2>2. Running' = Running /\ Threw' = Threw
    BY <2>1 DEF Running, Threw
  <2>3. AfterRun'
    BY <1>2, <2>1, <2>2, AfterSame DEF SerialInv
  <2> QED
    BY <1>2, <2>1, <2>2, <2>3 DEF SerialInv, Single, Inside, Drained, BeforeRun, InRun
<1> QED
  BY <1>3, <1>4 DEF Next

\* With one call at a time the n-th call to drain returns the n-th record of the
\* file and, beyond its end, a null product; after an exception the nulls begin
\* behind the last record that had got through.
THEOREM FileInOrder == Spec => []ServedInOrder
<1>1. FileInv => ServedInOrder
  <2> SUFFICES ASSUME FileInv, serial
               PROVE  \E last \in 0..NumItems :
                        /\ ~Threw => last = NumItems
                        /\ \A n \in DOMAIN order : product[order[n]] = Nth(n, last)
    BY DEF ServedInOrder, Nth
  <2>1. TypeOK /\ BeforeRun /\ InRun /\ AfterRun
    BY DEF FileInv, SerialInv, PlainInv
  <2>2. CASE ran /\ ~Running
    BY <2>1, <2>2 DEF AfterRun, Through
  <2>3. CASE ~(ran /\ ~Running)
    <3>1. order = <<>>
      BY <2>1, <2>3 DEF BeforeRun, InRun, TypeOK
    <3>2. NumItems \in 0..NumItems /\ DOMAIN order = {}
      BY <3>1, SourceAssumption
    <3> QED
      BY <3>2
  <2> QED
    BY <2>2, <2>3
<1> QED
  BY <1>1, FileInit, FileNext, PTL DEF Spec

\* With one call at a time, and no exception out of the run, no call drains before
\* the file has been read to its end.
THEOREM DrainsAfterRun == Spec => []DrainAfterRun
<1>1. FileInv => DrainAfterRun
  <2> SUFFICES ASSUME FileInv, serial, ~Threw, NEW c \in Cells, pc[c] = "ready"
               PROVE  eos /\ edge = <<>> /\ Len(snk) + Len(order) >= NumItems
    BY DEF DrainAfterRun
  <2>1. TypeOK /\ Single /\ BeforeRun /\ AfterRun
    BY DEF FileInv, SerialInv, PlainInv
  <2>2. c \in Inside
    BY DEF Inside
  <2>3. ran /\ ~Running
    BY <2>1, <2>2, OneInside DEF Running, BeforeRun
  <2>4. Len(order) \in Nat
    BY <2>1 DEF TypeOK
  <2> QED
    BY <2>1, <2>3, <2>4, SourceAssumption DEF AfterRun, Through
<1> QED
  BY <1>1, FileInit, FileNext, PTL DEF Spec
=============================================================================
