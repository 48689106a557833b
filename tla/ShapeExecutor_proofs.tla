------------------------ MODULE ShapeExecutor_proofs -------------------------
(***************************************************************************)
(* Proofs about ShapeExecutor, for any number of ports and calls and any   *)
(* island: the type invariant, the safety invariants and the refinement of *)
(* PureCall.  All follow from one inductive invariant, Inv.                *)
(***************************************************************************)
EXTENDS ShapeExecutor, Induction

-----------------------------------------------------------------------------
(* The inductive invariant.                                                *)

SourceState(q, e) == [queue |-> q, eosSent |-> e]

\* How far the input of port i and its end of stream have come, by the number
\* of tuples the island has taken.
InputAt(i) ==
  \/ /\ fired = 0
     /\ \/ src[i] = SourceState(<<args[i]>>, FALSE) /\ edge[i] = <<>>
        \/ src[i] = SourceState(<<>>, FALSE) /\ edge[i] = <<args[i]>>
        \/ src[i] = SourceState(<<>>, TRUE) /\ edge[i] = <<args[i], Null>>
  \/ /\ fired = 1
     /\ \/ src[i] = SourceState(<<>>, FALSE) /\ edge[i] = <<>>
        \/ src[i] = SourceState(<<>>, TRUE) /\ edge[i] = <<Null>>
  \/ /\ fired = 2
     /\ src[i] = SourceState(<<>>, TRUE) /\ edge[i] = <<>>

\* Nothing is on the way out.
OutputEmpty == held = <<>> /\ \A j \in OutPorts : snk[j] = <<>> /\ oedge[j] = <<>>

\* A call with a null argument makes end-of-stream markers only.
OutputNull ==
  /\ held = <<>>
  /\ \A j \in OutPorts : snk[j] = <<>> /\ oedge[j] \in Seq({Null})

\* What is in, before, and still kept from the sink is what the call makes.
OutputHeld == \E k \in Emits : \A j \in OutPorts :
                (snk[j] \o oedge[j]) \o held = ProductsOf(args, k)

\* The same after the flush, with the end of stream behind it until accepted.
OutputFlushed ==
  /\ held = <<>>
  /\ \E k \in Emits : \A j \in OutPorts :
       \/ snk[j] \o oedge[j] = Append(ProductsOf(args, k), Null)
       \/ snk[j] = ProductsOf(args, k) /\ oedge[j] = <<>>

OutputInv ==
  /\ fired = 0 => OutputEmpty
  /\ fired \in {1, 2} /\ HasNull(args) => OutputNull
  /\ fired = 1 /\ ~HasNull(args) => OutputHeld
  /\ fired = 2 /\ ~HasNull(args) => OutputFlushed

RunInv == pc \in {"run", "drain", "failed"} => (\A i \in InPorts : InputAt(i)) /\ OutputInv

DrainInv == pc = "drain" => fired = 2 /\ \A j \in OutPorts : oedge[j] = <<>>

Inv == TypeOK /\ NoResidue /\ RunInv /\ DrainInv

-----------------------------------------------------------------------------
(* Facts about sequences.                                                  *)

\* Appending to a singleton, and taking the pair apart again.
LEMMA PairSeq ==
  ASSUME NEW x, NEW y
  PROVE  /\ Append(<<x>>, y) = <<x, y>>
         /\ Head(<<x, y>>) = x
         /\ Tail(<<x, y>>) = <<y>>
<1>1. <<x>> \in Seq({x, y}) /\ <<x, y>> \in Seq({x, y}) /\ <<y>> \in Seq({x, y})
  OBVIOUS
<1>2. Append(<<x>>, y) = <<x, y>>
  <2> DEFINE u == Append(<<x>>, y)
  <2>1. /\ u \in Seq({x, y})
        /\ Len(u) = 2 /\ u[1] = x /\ u[2] = y
    BY <1>1, AppendProperties
  <2>2. Len(<<x, y>>) = 2 /\ <<x, y>>[1] = x /\ <<x, y>>[2] = y
    OBVIOUS
  <2>3. \A i \in 1..Len(u) : u[i] = <<x, y>>[i]
    <3> HIDE DEF u
    <3> QED
      BY <2>1, <2>2
  <2> QED
    BY <1>1, <2>1, <2>2, <2>3, SeqEqual, Zenon
<1>3. Tail(<<x, y>>) = <<y>>
  BY <1>1, HeadTailProperties, SeqEqual
<1> QED
  BY <1>2, <1>3

\* The first element of t is where s ends in their concatenation, so an end of
\* stream z there can only be the one after all products p.
LEMMA HeadIsEnd ==
  ASSUME NEW A, NEW z, z \notin A, NEW s \in Seq(A), NEW p \in Seq(A),
         NEW t \in Seq(A \cup {z}), t # <<>>, Head(t) = z
  PROVE  /\ s \o t # p
         /\ s \o t = Append(p, z) => s = p /\ Tail(t) = <<>>
<1>1. s \in Seq(A \cup {z}) /\ p \in Seq(A \cup {z})
  BY SeqMonotonic
<1>2. Len(t) \in Nat \ {0} /\ Len(s) \in Nat /\ Len(p) \in Nat
  BY LenProperties, EmptySeq
<1>3. /\ Len(s \o t) = Len(s) + Len(t)
      /\ (s \o t)[Len(s) + 1] = t[1]
      /\ \A i \in 1..Len(s) : (s \o t)[i] = s[i]
  BY <1>1, <1>2, ConcatProperties
<1>4. t[1] = z
  BY <1>2
<1>5. \A i \in 1..Len(p) : p[i] # z
  BY LenProperties
<1>6. ASSUME s \o t = p
      PROVE  FALSE
  <2>1. Len(s) + 1 \in 1..Len(p)
    BY <1>2, <1>3, <1>6
  <2>2. p[Len(s) + 1] = z
    BY <1>3, <1>4, <1>6
  <2> QED
    BY <1>5, <2>1, <2>2
<1>7. ASSUME s \o t = Append(p, z)
      PROVE  s = p /\ Tail(t) = <<>>
  <2>1. /\ Len(s) + Len(t) = Len(p) + 1
        /\ \A i \in 1..Len(p) : (s \o t)[i] = p[i]
    BY <1>1, <1>3, <1>7, AppendProperties
  <2>2. Len(s) = Len(p) /\ Len(t) = 1
    <3>1. ASSUME Len(s) < Len(p)
          PROVE  FALSE
      <4>1. Len(s) + 1 \in 1..Len(p)
        BY <1>2, <3>1
      <4>2. p[Len(s) + 1] = z
        BY <1>3, <1>4, <2>1, <4>1
      <4> QED
        BY <1>5, <4>1, <4>2
    <3> QED
      BY <1>2, <2>1, <3>1
  <2>3. s = p
    BY <1>3, <2>1, <2>2, SeqEqual
  <2>4. Tail(t) = <<>>
    <3>1. Tail(t) \in Seq(A \cup {z}) /\ Len(Tail(t)) = 0
      BY <2>2, HeadTailProperties
    <3> QED
      BY <3>1, EmptySeq
  <2> QED
    BY <2>3, <2>4
<1> QED
  BY <1>6, <1>7

-----------------------------------------------------------------------------
(* Inv is inductive: one lemma for every action.                           *)

\* The products of a tuple are a sequence of products, each made from it.
LEMMA ProductsType ==
  ASSUME NEW a \in ArgTuples, NEW k \in Nat
  PROVE  /\ ProductsOf(a, k) \in Seq(AllProducts)
         /\ Len(ProductsOf(a, k)) = k
         /\ \A n \in 1..k : ProductsOf(a, k)[n] = Product(a, n)
<1>1. ProductsOf(a, k) \in [1..k -> AllProducts]
  BY DEF ProductsOf, Product, AllProducts
<1>2. ProductsOf(a, k) \in Seq(AllProducts)
  BY <1>1, SeqDef
<1> QED
  BY <1>1, <1>2, LenProperties DEF ProductsOf

\* An executor as constructed: buffers and graph are empty.
LEMMA InitInv == Init => Inv
<1> SUFFICES ASSUME Init PROVE Inv
  OBVIOUS
<1> USE DEF Init, NoQueues, NewSource, NewSink
<1>1. TypeOK
  <2>1. args \in ArgTuples
    BY DEF NoArgs, ArgTuples
  <2>2. result \in [OutPorts -> IF Collect THEN Seq(AllProducts) ELSE AllProducts \cup {Null}]
    <3>1. CASE Collect
      BY <3>1 DEF NoResult
    <3>2. CASE ~Collect
      BY <3>2 DEF NoResult
    <3> QED
      BY <3>1, <3>2
  <2> QED
    BY <2>1, <2>2, ShapeAssumption DEF TypeOK, ShapeAssumption
<1>2. NoResidue /\ RunInv /\ DrainInv
  BY DEF NoResidue, RunInv, DrainInv
<1> QED
  BY <1>1, <1>2 DEF Inv

\* fill_all() starts a run: one item in every source, each armed, and nothing of
\* an earlier call anywhere.
LEMMA FillAllInv ==
  ASSUME Inv, NEW a \in ArgsOf(calls + 1), FillAll(a)
  PROVE  Inv'
<1> USE DEF Inv, FillAll, island
<1>1. a \in ArgTuples
  BY DEF ArgsOf
<1>2. TypeOK'
  <2>1. src' \in [InPorts -> [queue : Seq(Items \cup {Null}), eosSent : BOOLEAN]]
    BY <1>1 DEF TypeOK, Fill, ArgTuples
  <2>2. calls' \in 0..MaxCalls
    BY ShapeAssumption DEF TypeOK, ShapeAssumption
  <2> QED
    BY <1>1, <2>1, <2>2 DEF TypeOK
<1>3. ASSUME NEW i \in InPorts
      PROVE  InputAt(i)'
  <2>1. src[i].queue = <<>> /\ edge[i] = <<>>
    BY DEF NoResidue
  <2>2. Append(src[i].queue, a[i]) = <<a[i]>>
    BY <2>1
  <2>3. src'[i] = SourceState(<<a[i]>>, FALSE)
    BY <2>2 DEF Fill, SourceState
  <2> QED
    BY <2>1, <2>3 DEF InputAt
<1>4. OutputInv'
  BY DEF NoResidue, OutputInv, OutputEmpty
<1> QED
  BY <1>2, <1>3, <1>4 DEF NoResidue, RunInv, DrainInv

\* One call of a source that holds one item, and one of a source that holds none
\* and has not reported end of stream.
LEMMA SourceStep ==
  ASSUME NEW x
  PROVE  /\ SourceOut(SourceState(<<x>>, FALSE)) = x
         /\ AfterCall(SourceState(<<x>>, FALSE)) = SourceState(<<>>, FALSE)
         /\ SourceOut(SourceState(<<>>, FALSE)) = Null
         /\ AfterCall(SourceState(<<>>, FALSE)) = SourceState(<<>>, TRUE)
<1>1. <<x>> # <<>> /\ Head(<<x>>) = x /\ Tail(<<x>>) = <<>>
  OBVIOUS
<1> HIDE DEF SourceState
<1>2. [SourceState(<<x>>, FALSE) EXCEPT !.queue = <<>>] = SourceState(<<>>, FALSE)
  <2>1. ASSUME NEW q, NEW e, NEW r
        PROVE  [SourceState(q, e) EXCEPT !.queue = r] = SourceState(r, e)
    BY DEF SourceState
  <2> QED
    BY <2>1
<1>3. [SourceState(<<>>, FALSE) EXCEPT !.eosSent = TRUE] = SourceState(<<>>, TRUE)
  <2>1. ASSUME NEW q, NEW e, NEW f
        PROVE  [SourceState(q, e) EXCEPT !.eosSent = f] = SourceState(q, f)
    BY DEF SourceState
  <2> QED
    BY <2>1
<1>4. SourceState(<<x>>, FALSE).queue = <<x>> /\ SourceState(<<>>, FALSE).queue = <<>>
  BY DEF SourceState
<1> QED
  BY <1>1, <1>2, <1>3, <1>4, Zenon DEF SourceOut, AfterCall

\* BoundarySource::operator() moves the head of one port, item or marker, from the
\* source to the edge; the other ports are as they were.
LEMMA CallSourceInv ==
  ASSUME Inv, NEW i \in InPorts, CallSource(i)
  PROVE  Inv'
<1> USE DEF Inv, CallSource
<1>1. SourceOut(src[i]) \in Items \cup {Null}
  BY DEF TypeOK, SourceOut
<1>2. TypeOK'
  <2>1. src' \in [InPorts -> [queue : Seq(Items \cup {Null}), eosSent : BOOLEAN]]
    <3>1. src[i] \in [queue : Seq(Items \cup {Null}), eosSent : BOOLEAN]
      BY DEF TypeOK
    <3>2. CASE src[i].queue # <<>>
      <4>1. Tail(src[i].queue) \in Seq(Items \cup {Null})
        BY <3>1, <3>2
      <4>2. AfterCall(src[i]) = [src[i] EXCEPT !.queue = Tail(src[i].queue)]
        BY <3>2 DEF AfterCall
      <4> QED
        BY <3>1, <4>1, <4>2 DEF TypeOK
    <3>3. CASE src[i].queue = <<>>
      BY <3>1, <3>3 DEF TypeOK, AfterCall
    <3> QED
      BY <3>2, <3>3
  <2>2. edge' \in [InPorts -> Seq(Items \cup {Null})]
    BY <1>1 DEF TypeOK
  <2> QED
    BY <2>1, <2>2 DEF TypeOK
<1>3. InputAt(i)'
  <2>1. /\ src'[i] = AfterCall(src[i])
        /\ edge'[i] = Append(edge[i], SourceOut(src[i]))
    BY DEF TypeOK
  <2>2. SourceOk(src[i]) /\ InputAt(i)
    BY DEF RunInv
  <2>3. UNCHANGED <<fired, args>>
    OBVIOUS
  <2>4. CASE src[i] = SourceState(<<args[i]>>, FALSE)
    <3>1. fired = 0 /\ edge[i] = <<>>
      BY <2>2, <2>4 DEF InputAt, SourceState
    <3>2. SourceOut(src[i]) = args[i] /\ AfterCall(src[i]) = SourceState(<<>>, FALSE)
      BY <2>4, SourceStep
    <3>3. Append(<<>>, args[i]) = <<args[i]>>
      OBVIOUS
    <3> QED
      BY <2>1, <2>3, <3>1, <3>2, <3>3, Zenon DEF InputAt
  <2>5. CASE src[i] = SourceState(<<>>, FALSE)
    <3>1. \/ fired = 0 /\ edge[i] = <<args[i]>>
          \/ fired = 1 /\ edge[i] = <<>>
      BY <2>2, <2>5 DEF InputAt, SourceState
    <3>2. SourceOut(src[i]) = Null /\ AfterCall(src[i]) = SourceState(<<>>, TRUE)
      BY <2>5, SourceStep
    <3>3. Append(<<args[i]>>, Null) = <<args[i], Null>> 
      BY PairSeq, Zenon
    <3>4. Append(<<>>, Null) = <<Null>>
      OBVIOUS
    <3> QED
      BY <2>1, <2>3, <3>1, <3>2, <3>3, <3>4, Zenon DEF InputAt
  <2>6. src[i] # SourceState(<<>>, TRUE)
    BY <2>2 DEF SourceOk, SourceState
  <2> QED
    BY <2>2, <2>4, <2>5, <2>6 DEF InputAt
<1>4. \A h \in InPorts \ {i} : InputAt(h)'
  BY DEF RunInv, InputAt, TypeOK
<1>5. OutputInv'
  BY DEF RunInv, OutputInv, OutputEmpty, OutputNull, OutputHeld, OutputFlushed
<1> QED
  BY <1>2, <1>3, <1>4, <1>5 DEF NoResidue, RunInv, DrainInv

\* The first tuple the island takes is the arguments, the second one is end of
\* stream on every port, and there is no third.
LEMMA TakeInputsFacts ==
  ASSUME Inv, TakeInputs
  PROVE  /\ \/ fired = 0 /\ Heads = args
            \/ fired = 1 /\ HasNull(Heads)
         /\ edge' \in [InPorts -> Seq(Items \cup {Null})]
         /\ fired' \in 1..2
         /\ \A i \in InPorts : InputAt(i)'
<1> USE DEF TakeInputs, EdgesReady
<1>1. \A i \in InPorts : InputAt(i) /\ edge[i] # <<>>
  BY DEF Inv, RunInv
<1>2. PICK h \in InPorts : TRUE
  BY ShapeAssumption DEF ShapeAssumption
<1>3. fired \in {0, 1}
  BY <1>1, <1>2 DEF InputAt
<1>4. edge' \in [InPorts -> Seq(Items \cup {Null})]
  BY <1>1, HeadTailProperties DEF Inv, TypeOK
<1>5. CASE fired = 0
  <2>1. ASSUME NEW i \in InPorts
        PROVE  Head(edge[i]) = args[i] /\ InputAt(i)'
    <3>1. UNCHANGED <<src, args>> /\ fired' = 1 /\ edge'[i] = Tail(edge[i])
      BY <1>5
    <3>2. CASE src[i] = SourceState(<<>>, FALSE) /\ edge[i] = <<args[i]>>
      <4>1. Head(edge[i]) = args[i] /\ Tail(edge[i]) = <<>>
        BY <3>2
      <4> QED
        BY <3>1, <3>2, <4>1, Zenon DEF InputAt
    <3>3. CASE src[i] = SourceState(<<>>, TRUE) /\ edge[i] = <<args[i], Null>>
      <4>1. Head(edge[i]) = args[i] /\ Tail(edge[i]) = <<Null>>
        BY <3>3, PairSeq, Zenon
      <4> QED
        BY <3>1, <3>3, <4>1, Zenon DEF InputAt
    <3>4. edge[i] # <<>> /\ InputAt(i) /\ fired # 1 /\ fired # 2
      BY <1>1, <1>5
    <3> QED
      BY <3>2, <3>3, <3>4, Zenon DEF InputAt
  <2>2. Heads = args
    BY <2>1 DEF Heads, Inv, TypeOK, ArgTuples
  <2> QED
    BY <1>4, <1>5, <2>1, <2>2
<1>6. CASE fired = 1
  <2>1. ASSUME NEW i \in InPorts
        PROVE  Head(edge[i]) = Null /\ InputAt(i)'
    <3>1. UNCHANGED <<src, args>> /\ fired' = 2 /\ edge'[i] = Tail(edge[i])
      BY <1>6
    <3>2. src[i] = SourceState(<<>>, TRUE) /\ edge[i] = <<Null>>
      <4>1. edge[i] # <<>> /\ InputAt(i) /\ fired # 0 /\ fired # 2
        BY <1>1, <1>6
      <4> QED
        BY <4>1, Zenon DEF InputAt
    <3>3. Head(edge[i]) = Null /\ Tail(edge[i]) = <<>>
      BY <3>2
    <3> QED
      BY <3>1, <3>2, <3>3, Zenon DEF InputAt
  <2>2. HasNull(Heads)
    BY <1>2, <2>1 DEF HasNull, Heads
  <2> QED
    BY <1>4, <1>6, <2>1, <2>2
<1> QED
  BY <1>3, <1>5, <1>6

\* A node of the island takes the tuple of this call, of which nothing was made
\* yet, and what it makes goes to the edges or is held back.
LEMMA ProcessDataInv ==
  ASSUME Inv, ProcessData
  PROVE  Inv'
<1> USE DEF ProcessData
<1>1. TakeInputs /\ UNCHANGED <<src, snk, pc, calls, args, result>>
  BY DEF TakeInputs
<1>2. fired = 0 /\ fired' = 1 /\ ~HasNull(args)
  BY <1>1, TakeInputsFacts DEF TakeInputs
<1>3. pc = "run" /\ OutputEmpty
  BY <1>1, <1>2 DEF TakeInputs, Inv, RunInv, OutputInv
<1>4. PICK k \in Emits :
        LET pending == held \o ProductsOf(Heads, k) IN
        \E m \in 0..Len(pending) :
          /\ oedge' = [j \in OutPorts |-> oedge[j] \o SubSeq(pending, 1, m)]
          /\ held' = SubSeq(pending, m + 1, Len(pending))
  OBVIOUS
<1> DEFINE P == ProductsOf(args, k)
<1>5. k \in Nat /\ P \in Seq(AllProducts)
  BY ProductsType, ShapeAssumption DEF ShapeAssumption, Inv, TypeOK
<1> HIDE DEF P
<1>6. held \o ProductsOf(Heads, k) = P
  <2>1. Heads = args
    BY <1>1, <1>2, TakeInputsFacts
  <2> QED
    BY <1>3, <1>5, <2>1, ConcatEmptySeq DEF OutputEmpty, P
<1>7. PICK m \in 0..Len(P) : /\ oedge' = [j \in OutPorts |-> oedge[j] \o SubSeq(P, 1, m)]
                             /\ held' = SubSeq(P, m + 1, Len(P))
  BY <1>4, <1>6
<1>8. /\ SubSeq(P, 1, m) \in Seq(AllProducts)
      /\ held' \in Seq(AllProducts)
      /\ SubSeq(P, 1, m) \o held' = P
  BY <1>5, <1>7, CutSeq
<1>9. \A j \in OutPorts : oedge'[j] = SubSeq(P, 1, m)
  BY <1>3, <1>7, <1>8, ConcatEmptySeq DEF OutputEmpty
<1>10. oedge' \in [OutPorts -> Seq(AllProducts \cup {Null})]
  <2>1. SubSeq(P, 1, m) \in Seq(AllProducts \cup {Null})
    BY <1>8, SeqMonotonic
  <2> QED
    BY <1>7, <1>9, <2>1
<1>11. TypeOK'
  BY <1>1, <1>8, <1>10, TakeInputsFacts DEF Inv, TypeOK
<1>12. OutputHeld'
  <2>1. ASSUME NEW j \in OutPorts
        PROVE  (snk'[j] \o oedge'[j]) \o held' = P
    BY <1>1, <1>3, <1>8, <1>9, ConcatEmptySeq DEF OutputEmpty
  <2> QED
    BY <1>1, <2>1 DEF OutputHeld, P
<1>13. OutputInv'
  BY <1>1, <1>2, <1>12 DEF OutputInv
<1> QED
  BY <1>1, <1>3, <1>11, <1>13, TakeInputsFacts DEF Inv, NoResidue, RunInv, DrainInv

\* A node of the island takes end of stream on all in-edges: what was held back is
\* flushed, and a null ends every out-edge.
LEMMA ProcessEosInv ==
  ASSUME Inv, ProcessEos
  PROVE  Inv'
<1> USE DEF ProcessEos
<1> DEFINE Out == AllProducts \cup {Null}
<1>1. /\ TakeInputs
      /\ UNCHANGED <<src, snk, pc, calls, args, result>>
      /\ pc = "run" /\ fired' = fired + 1
      /\ held' = <<>>
      /\ \A j \in OutPorts : oedge'[j] = Append(oedge[j] \o held, Null)
  BY DEF TakeInputs
<1>2. OutputInv /\ TypeOK
  BY <1>1 DEF Inv, RunInv
<1>3. held \in Seq(Out) /\ \A j \in OutPorts : snk[j] \in Seq(Out) /\ oedge[j] \in Seq(Out)
  BY <1>2, SeqMonotonic DEF TypeOK
<1>4. TypeOK'
  <2>1. \A j \in OutPorts : Append(oedge[j] \o held, Null) \in Seq(Out)
    BY <1>3, ConcatProperties, AppendProperties
  <2>2. oedge' \in [OutPorts -> Seq(AllProducts \cup {Null})]
    BY <2>1
  <2>3. held' \in Seq(AllProducts)
    BY <1>1
  <2> QED
    BY <1>1, <1>2, <2>2, <2>3, TakeInputsFacts DEF TypeOK
<1>5. CASE HasNull(args)
  <2>1. /\ held = <<>>
        /\ \A j \in OutPorts : snk[j] = <<>> /\ oedge[j] \in Seq({Null})
    <3>1. CASE fired = 0
      <4>1. OutputEmpty /\ <<>> \in Seq({Null})
        BY <1>2, <3>1 DEF OutputInv
      <4> QED
        BY <4>1 DEF OutputEmpty
    <3>2. CASE fired = 1
      BY <1>2, <1>5, <3>2 DEF OutputInv, OutputNull
    <3> QED
      BY <1>1, <3>1, <3>2, TakeInputsFacts
  <2>2. \A j \in OutPorts : oedge'[j] \in Seq({Null})
    BY <1>1, <2>1, ConcatEmptySeq, AppendProperties
  <2>3. OutputNull' /\ HasNull(args)' /\ fired' # 0
    BY <1>1, <1>5, <2>1, <2>2, TakeInputsFacts DEF OutputNull
  <2> QED
    BY <1>1, <1>4, <2>3, TakeInputsFacts DEF Inv, NoResidue, RunInv, DrainInv, OutputInv
<1>6. CASE ~HasNull(args)
  <2>1. fired = 1 /\ fired' = 2
    BY <1>1, <1>6, TakeInputsFacts
  <2>2. PICK k \in Emits : \A j \in OutPorts :
                             (snk[j] \o oedge[j]) \o held = ProductsOf(args, k)
    BY <1>2, <1>6, <2>1 DEF OutputInv, OutputHeld
  <2>3. ASSUME NEW j \in OutPorts
        PROVE  snk'[j] \o oedge'[j] = Append(ProductsOf(args, k), Null)
    <3>1. /\ oedge[j] \in Seq(Out) /\ held \in Seq(Out) /\ snk[j] \in Seq(Out)
          /\ oedge[j] \o held \in Seq(Out) /\ Null \in Out
      BY <1>3, ConcatProperties
    <3> HIDE DEF Out
    <3>2. snk[j] \o Append(oedge[j] \o held, Null) = Append(snk[j] \o (oedge[j] \o held), Null)
      <4>1. \A s, t \in Seq(Out), y \in Out : s \o Append(t, y) = Append(s \o t, y)
        BY ConcatAppend
      <4> QED
        BY <3>1, <4>1, Zenon
    <3>3. snk[j] \o (oedge[j] \o held) = (snk[j] \o oedge[j]) \o held
      <4>1. \A s, t, u \in Seq(Out) : (s \o t) \o u = s \o (t \o u)
        BY ConcatAssociative
      <4> QED
        BY <3>1, <4>1, Zenon
    <3> QED
      BY <1>1, <2>2, <3>2, <3>3
  <2>4. OutputFlushed'
    <3> HIDE DEF Out
    <3> QED
      BY <1>1, <2>3, Zenon DEF OutputFlushed
  <2> QED
    BY <1>1, <1>4, <1>6, <2>1, <2>4, TakeInputsFacts
       DEF Inv, NoResidue, RunInv, DrainInv, OutputInv
<1> QED
  BY <1>5, <1>6

\* BoundarySink::operator() moves a product from the edge to the sink, and drops
\* the marker: the products of the port are the same as before.
LEMMA CallSinkInv ==
  ASSUME Inv, NEW j \in OutPorts, CallSink(j)
  PROVE  Inv'
<1> USE DEF CallSink
<1> DEFINE x == Head(oedge[j])
<1>1. /\ pc = "run" /\ oedge[j] # <<>>
      /\ UNCHANGED <<src, edge, held, pc, calls, args, result, fired>>
      /\ OutputInv /\ TypeOK
  BY DEF Inv, RunInv
<1>2. /\ snk[j] \in Seq(AllProducts) /\ oedge[j] \in Seq(AllProducts \cup {Null})
      /\ snk[j] \in Seq(AllProducts \cup {Null})
      /\ x \in AllProducts \cup {Null}
      /\ Tail(oedge[j]) \in Seq(AllProducts \cup {Null})
  BY <1>1, HeadTailProperties, SeqMonotonic DEF TypeOK
<1>3. /\ snk'[j] = Accept(snk[j], x) /\ oedge'[j] = Tail(oedge[j])
      /\ \A h \in OutPorts \ {j} : snk'[h] = snk[h] /\ oedge'[h] = oedge[h]
  BY <1>1 DEF TypeOK
<1>4. TypeOK'
  <2>1. Accept(snk[j], x) \in Seq(AllProducts)
    BY <1>2 DEF Accept
  <2> QED
    BY <1>1, <1>2, <2>1 DEF TypeOK
<1>5. \A i \in InPorts : InputAt(i)'
  BY <1>1 DEF Inv, RunInv, InputAt
<1>6. ASSUME x # Null
      PROVE  snk'[j] \o oedge'[j] = snk[j] \o oedge[j]
  <2> DEFINE Out == AllProducts \cup {Null}
  <2>1. snk[j] \in Seq(Out) /\ oedge[j] \in Seq(Out)
    BY <1>2
  <2> HIDE DEF Out
  <2>2. Append(snk[j], x) \o Tail(oedge[j]) = snk[j] \o oedge[j]
    BY <1>1, <2>1, MoveHead
  <2> QED
    BY <1>3, <1>6, <2>2 DEF Accept
<1>7. fired # 0
  BY <1>1 DEF OutputInv, OutputEmpty
<1>8. CASE HasNull(args)
  <2>1. OutputNull
    BY <1>1, <1>7, <1>8 DEF OutputInv, TypeOK
  <2>2. x = Null /\ Tail(oedge[j]) \in Seq({Null})
    BY <1>1, <2>1, HeadTailProperties DEF OutputNull
  <2>3. OutputNull'
    BY <1>1, <1>3, <2>1, <2>2 DEF OutputNull, Accept
  <2> QED
    BY <1>1, <1>4, <1>5, <1>7, <1>8, <2>3 DEF Inv, NoResidue, RunInv, DrainInv, OutputInv
<1>9. CASE ~HasNull(args) /\ fired = 1
  <2>1. PICK k \in Emits : \A h \in OutPorts :
                             (snk[h] \o oedge[h]) \o held = ProductsOf(args, k)
    BY <1>1, <1>9 DEF OutputInv, OutputHeld
  <2>2. x # Null
    <3>1. ProductsOf(args, k) \in Seq(AllProducts)
      BY <1>1, ProductsType, ShapeAssumption DEF TypeOK, ShapeAssumption
    <3>2. held \in Seq(AllProducts \cup {Null})
      BY <1>1, SeqMonotonic DEF TypeOK
    <3>3. /\ oedge[j] \o held \in Seq(AllProducts \cup {Null})
          /\ oedge[j] \o held # <<>> /\ Head(oedge[j] \o held) = x
      BY <1>1, <1>2, <3>2, ConcatProperties, EmptySeq
    <3>4. snk[j] \o (oedge[j] \o held) = ProductsOf(args, k)
      <4> DEFINE Out == AllProducts \cup {Null}
      <4>1. snk[j] \in Seq(Out) /\ oedge[j] \in Seq(Out) /\ held \in Seq(Out)
        BY <1>2, <3>2
      <4> HIDE DEF Out
      <4>2. \A s, t, u \in Seq(Out) : (s \o t) \o u = s \o (t \o u)
        BY ConcatAssociative
      <4>3. (snk[j] \o oedge[j]) \o held = snk[j] \o (oedge[j] \o held)
        BY <4>1, <4>2, Zenon
      <4> QED
        BY <2>1, <4>3
    <3> DEFINE t == oedge[j] \o held
    <3> DEFINE p == ProductsOf(args, k)
    <3>5. /\ Null \notin AllProducts /\ snk[j] \in Seq(AllProducts) /\ p \in Seq(AllProducts)
          /\ t \in Seq(AllProducts \cup {Null}) /\ t # <<>> /\ Head(t) = x
          /\ snk[j] \o t = p
      BY <1>2, <3>1, <3>3, <3>4, ShapeAssumption DEF ShapeAssumption
    <3> HIDE DEF t, p
    <3> QED
      BY <3>5, HeadIsEnd
  <2>3. \A h \in OutPorts : snk'[h] \o oedge'[h] = snk[h] \o oedge[h]
    BY <1>3, <1>6, <2>2
  <2>4. OutputHeld'
    BY <1>1, <2>1, <2>3 DEF OutputHeld
  <2> QED
    BY <1>1, <1>4, <1>5, <1>9, <2>4 DEF Inv, NoResidue, RunInv, DrainInv, OutputInv
<1>10. CASE ~HasNull(args) /\ fired = 2
  <2>1. PICK k \in Emits : \A h \in OutPorts :
          \/ snk[h] \o oedge[h] = Append(ProductsOf(args, k), Null)
          \/ snk[h] = ProductsOf(args, k) /\ oedge[h] = <<>>
    BY <1>1, <1>10 DEF OutputInv, OutputFlushed
  <2>2. snk[j] \o oedge[j] = Append(ProductsOf(args, k), Null)
    BY <1>1, <2>1
  <2>4. ASSUME x = Null
        PROVE  snk'[j] = ProductsOf(args, k) /\ oedge'[j] = <<>>
    <3>1. ProductsOf(args, k) \in Seq(AllProducts)
      BY <1>1, ProductsType, ShapeAssumption DEF TypeOK, ShapeAssumption
    <3>2. snk[j] = ProductsOf(args, k) /\ Tail(oedge[j]) = <<>>
      <4> DEFINE p == ProductsOf(args, k)
      <4>1. /\ Null \notin AllProducts /\ snk[j] \in Seq(AllProducts) /\ p \in Seq(AllProducts)
            /\ oedge[j] \in Seq(AllProducts \cup {Null}) /\ oedge[j] # <<>>
            /\ Head(oedge[j]) = Null /\ snk[j] \o oedge[j] = Append(p, Null)
        BY <1>1, <1>2, <2>2, <2>4, <3>1, ShapeAssumption DEF ShapeAssumption
      <4> HIDE DEF p
      <4>2. \A s \in Seq(AllProducts), t \in Seq(AllProducts \cup {Null}) :
              t # <<>> /\ Head(t) = Null /\ s \o t = Append(p, Null) => s = p /\ Tail(t) = <<>>
        BY <4>1, HeadIsEnd
      <4>3. snk[j] = p /\ Tail(oedge[j]) = <<>>
        BY <4>1, <4>2, Zenon
      <4> QED
        BY <4>3 DEF p
    <3> QED
      BY <1>3, <2>4, <3>2 DEF Accept
  <2>5. \A h \in OutPorts :
          \/ snk'[h] \o oedge'[h] = Append(ProductsOf(args, k), Null)
          \/ snk'[h] = ProductsOf(args, k) /\ oedge'[h] = <<>>
    BY <1>3, <1>6, <2>1, <2>2, <2>4
  <2>6. OutputFlushed'
    BY <1>1, <1>10, <2>5 DEF OutputInv, OutputFlushed
  <2> QED
    BY <1>1, <1>4, <1>5, <1>10, <2>6 DEF Inv, NoResidue, RunInv, DrainInv, OutputInv
<1> QED
  BY <1>1, <1>7, <1>8, <1>9, <1>10 DEF TypeOK

\* When the engine finds no work, both tuples have gone through: a port that
\* has not come so far keeps its source willing, or fills its edge.
LEMMA EndRunInv ==
  ASSUME Inv, EndRun
  PROVE  Inv' /\ fired = 2
<1> USE DEF EndRun
<1>1. /\ pc = "run" /\ pc' = "drain"
      /\ UNCHANGED <<src, snk, edge, held, oedge, calls, args, result, fired>>
      /\ TypeOK /\ OutputInv /\ \A i \in InPorts : InputAt(i)
      /\ \A i \in InPorts : ~SourceOk(src[i])
      /\ \A j \in OutPorts : oedge[j] = <<>>
  BY DEF island, Inv, RunInv, NoWork
<1>2. fired = 2
  <2>1. PICK i \in InPorts : edge[i] = <<>>
    BY DEF NoWork, EdgesReady
  <2>2. InputAt(i) /\ ~SourceOk(src[i])
    BY <1>1
  <2>3. src[i] # SourceState(<<args[i]>>, FALSE)
    BY <2>2 DEF SourceOk, SourceState
  <2>4. src[i] # SourceState(<<>>, FALSE)
    BY <2>2 DEF SourceOk, SourceState
  <2>5. <<args[i], Null>> # <<>> /\ <<Null>> # <<>> /\ <<args[i]>> # <<>>
    OBVIOUS
  <2> QED
    BY <2>1, <2>2, <2>3, <2>4, <2>5, Zenon DEF InputAt
<1>3. TypeOK' /\ OutputInv'
  BY <1>1 DEF TypeOK, OutputInv, OutputEmpty, OutputNull, OutputHeld, OutputFlushed
<1>4. \A i \in InPorts : InputAt(i)'
  BY <1>1 DEF InputAt
<1> QED
  BY <1>1, <1>2, <1>3, <1>4 DEF Inv, NoResidue, RunInv, DrainInv

\* An exception out of run_graph() changes nothing but the program counter.
LEMMA NodeThrowsInv ==
  ASSUME Inv, NodeThrows
  PROVE  Inv'
<1>1. /\ pc = "run" /\ pc' = "failed"
      /\ UNCHANGED <<src, snk, edge, held, oedge, calls, args, result, fired>>
  BY DEF NodeThrows, island
<1>2. TypeOK' /\ OutputInv'
  BY <1>1 DEF Inv, RunInv, TypeOK, OutputInv, OutputEmpty, OutputNull, OutputHeld, OutputFlushed
<1>3. \A i \in InPorts : InputAt(i)'
  BY <1>1 DEF Inv, RunInv, InputAt
<1> QED
  BY <1>1, <1>2, <1>3 DEF Inv, NoResidue, RunInv, DrainInv

\* At the drain each sink holds what the call made, the same k products in all
\* of them, and nothing if an argument was null.
LEMMA SinksAtDrain ==
  ASSUME Inv, pc = "drain"
  PROVE  /\ HasNull(args) => \A j \in OutPorts : snk[j] = <<>>
         /\ ~HasNull(args) => \E k \in Emits : \A j \in OutPorts :
                                 snk[j] = ProductsOf(args, k)
         /\ held = <<>>
<1>1. fired = 2 /\ OutputInv /\ TypeOK /\ \A j \in OutPorts : oedge[j] = <<>>
  BY DEF Inv, RunInv, DrainInv
<1>2. CASE HasNull(args)
  BY <1>1, <1>2 DEF OutputInv, OutputNull
<1>3. CASE ~HasNull(args)
  <2>1. held = <<>>
    BY <1>1, <1>3 DEF OutputInv, OutputFlushed
  <2>2. PICK k \in Emits : \A j \in OutPorts :
          \/ snk[j] \o oedge[j] = Append(ProductsOf(args, k), Null)
          \/ snk[j] = ProductsOf(args, k) /\ oedge[j] = <<>>
    BY <1>1, <1>3 DEF OutputInv, OutputFlushed
  <2>3. ASSUME NEW j \in OutPorts
        PROVE  snk[j] \o oedge[j] # Append(ProductsOf(args, k), Null)
    <3> DEFINE p == ProductsOf(args, k)
    <3>1. snk[j] \in Seq(AllProducts) /\ p \in Seq(AllProducts) /\ Null \notin AllProducts
      BY <1>1, ProductsType, ShapeAssumption DEF TypeOK, ShapeAssumption
    <3>2. snk[j] \o oedge[j] \in Seq(AllProducts)
      BY <1>1, <3>1, ConcatEmptySeq
    <3>3. Append(p, Null) \notin Seq(AllProducts)
      <4>1. p \in Seq(AllProducts \cup {Null})
        BY <3>1, SeqMonotonic
      <4>2. Len(p) \in Nat /\ Len(Append(p, Null)) = Len(p) + 1
            /\ Append(p, Null)[Len(p) + 1] = Null
        <5> HIDE DEF p
        <5> QED
          BY <4>1, AppendProperties, LenProperties
      <4> QED
        <5> HIDE DEF p
        <5> QED
          BY <3>1, <4>2, ElementOfSeq
    <3> QED
      BY <3>2, <3>3
  <2> QED
    BY <1>3, <2>1, <2>2, <2>3
<1> QED
  BY <1>2, <1>3

\* Draining one item empties a sink that holds at most one.
LEMMA DrainAllInv ==
  ASSUME Inv, DrainAll
  PROVE  /\ Inv'
         /\ result' \in Outcomes(args)
<1> USE DEF DrainAll
<1>1. /\ pc = "drain" /\ pc' = "idle"
      /\ UNCHANGED <<src, edge, held, oedge, calls, args, fired>>
      /\ TypeOK /\ fired = 2 /\ held = <<>>
      /\ \A j \in OutPorts : oedge[j] = <<>>
      /\ \A i \in InPorts : InputAt(i)
  BY SinksAtDrain DEF island, Inv, RunInv, DrainInv
<1>2. \A i \in InPorts : src[i].queue = <<>> /\ edge[i] = <<>>
  BY <1>1 DEF InputAt, SourceState
<1>3. /\ \A j \in OutPorts : snk'[j] = <<>>
      /\ result' \in Outcomes(args)
  <2>1. CASE HasNull(args)
    <3>1. \A j \in OutPorts : snk[j] = <<>>
      BY <1>1, <2>1, SinksAtDrain
    <3>2. \A j \in OutPorts : snk'[j] = <<>>
      BY <3>1 DEF LeftIn, AfterDrain, NewSink
    <3>3. result' = NoResult
      BY <3>1 DEF Returned, DrainOut, NoResult
    <3> QED
      BY <2>1, <3>2, <3>3 DEF Outcomes
  <2>2. CASE ~HasNull(args)
    <3>1. PICK k \in Emits : \A j \in OutPorts : snk[j] = ProductsOf(args, k)
      BY <1>1, <2>2, SinksAtDrain
    <3>2. result' \in Outcomes(args)
      <4>1. k \in Nat
        BY ShapeAssumption DEF ShapeAssumption
      <4>2. /\ ProductsOf(args, k) \in Seq(AllProducts) /\ Len(ProductsOf(args, k)) = k
            /\ \A n \in 1..k : ProductsOf(args, k)[n] = Product(args, n)
        BY <1>1, <4>1, ProductsType DEF TypeOK
      <4>3. DrainOut(ProductsOf(args, k)) = TheOne(args, k)
        <5> DEFINE p == ProductsOf(args, k)
        <5>1. p \in Seq(AllProducts) /\ Len(p) = k /\ \A n \in 1..k : p[n] = Product(args, n)
          BY <4>2
        <5> HIDE DEF p
        <5>2. DrainOut(p) = TheOne(args, k)
          BY <4>1, <5>1, EmptySeq DEF DrainOut, TheOne
        <5> QED
          BY <5>2 DEF p
      <4>4. result' = [j \in OutPorts |-> IF Collect THEN ProductsOf(args, k) ELSE TheOne(args, k)]
        BY <3>1, <4>3 DEF Returned
      <4> QED
        BY <2>2, <4>4 DEF Outcomes
    <3>3. \A j \in OutPorts : snk'[j] = <<>>
      <4>1. CASE Collect
        BY <4>1 DEF LeftIn, NewSink
      <4>2. CASE ~Collect
        <5>1. k \in {0, 1}
          BY <4>2, ShapeAssumption DEF ShapeAssumption, AtMostOne
        <5>2. ProductsOf(args, k) \in Seq(AllProducts) /\ Len(ProductsOf(args, k)) = k
          BY <1>1, <5>1, ProductsType DEF TypeOK
        <5>3. AfterDrain(ProductsOf(args, k)) = <<>>
          <6> DEFINE p == ProductsOf(args, k)
          <6>1. CASE p = <<>>
            BY <6>1 DEF AfterDrain
          <6>2. CASE p # <<>>
            <7>1. Len(Tail(p)) = 0 /\ Tail(p) \in Seq(AllProducts)
              <8> HIDE DEF p
              <8>1. p \in Seq(AllProducts) /\ Len(p) = k
                BY <5>2 DEF p
              <8> QED
                BY <5>1, <6>2, <8>1, HeadTailProperties, EmptySeq
            <7> HIDE DEF p
            <7>2. Tail(p) = <<>>
              BY <7>1, EmptySeq
            <7> QED
              BY <6>2, <7>2 DEF AfterDrain, p
          <6> QED
            BY <6>1, <6>2
        <5> QED
          BY <3>1, <4>2, <5>3 DEF LeftIn
      <4> QED
        BY <4>1, <4>2
    <3> QED
      BY <3>2, <3>3
  <2> QED
    BY <2>1, <2>2
<1>4. NoResidue'
  BY <1>1, <1>2, <1>3 DEF NoResidue
<1>5. TypeOK'
  <2>1. snk' \in [OutPorts -> Seq(AllProducts)]
    <3>1. DOMAIN snk' = OutPorts /\ snk' = [j \in OutPorts |-> snk'[j]]
      OBVIOUS
    <3>2. \A j \in OutPorts : snk'[j] \in Seq(AllProducts)
      <4>1. <<>> \in Seq(AllProducts)
        OBVIOUS
      <4> QED
        BY <1>3, <4>1, Zenon
    <3> QED
      BY <3>1, <3>2
  <2>2. result' \in [OutPorts -> IF Collect THEN Seq(AllProducts) ELSE AllProducts \cup {Null}]
    <3>1. CASE Collect
      BY <1>1, <3>1 DEF TypeOK, Returned
    <3>2. CASE ~Collect
      <4>1. \A j \in OutPorts : DrainOut(snk[j]) \in AllProducts \cup {Null}
        BY <1>1 DEF TypeOK, DrainOut
      <4> QED
        BY <3>2, <4>1 DEF Returned
    <3> QED
      BY <3>1, <3>2
  <2> QED
    BY <1>1, <2>1, <2>2 DEF TypeOK
<1> QED
  BY <1>1, <1>3, <1>4, <1>5 DEF Inv, RunInv, DrainInv

\* A stuttering step.
LEMMA UnchangedInv ==
  ASSUME Inv, UNCHANGED <<src, snk, edge, held, oedge, pc, args, result, fired>>,
         calls' \in 0..MaxCalls
  PROVE  Inv'
<1>1. TypeOK' /\ OutputInv = OutputInv'
  BY DEF Inv, TypeOK, OutputInv, OutputEmpty, OutputNull, OutputHeld, OutputFlushed
<1>2. \A i \in InPorts : InputAt(i) = InputAt(i)'
  BY DEF InputAt
<1> QED
  BY <1>1, <1>2 DEF Inv, NoResidue, RunInv, DrainInv

\* No step breaks the invariant.
LEMMA NextInv == Inv /\ [Next]_vars => Inv'
<1> SUFFICES ASSUME Inv, [Next]_vars
             PROVE  Inv'
  OBVIOUS
<1>1. CASE \E a \in ArgsOf(calls + 1) : FillAll(a)
  BY <1>1, FillAllInv
<1>2. CASE RejectSize
  <2>1. calls' \in 0..MaxCalls
    BY <1>2, ShapeAssumption DEF RejectSize, Inv, TypeOK, ShapeAssumption
  <2> QED
    BY <1>2, <2>1, UnchangedInv DEF RejectSize, island
<1>3. CASE RunStep
  BY <1>3, CallSourceInv, ProcessDataInv, ProcessEosInv, CallSinkInv, EndRunInv DEF RunStep
<1>4. CASE NodeThrows
  BY <1>4, NodeThrowsInv
<1>5. CASE DrainAll
  BY <1>5, DrainAllInv
<1>6. CASE UNCHANGED vars
  BY <1>6, UnchangedInv DEF vars, island, Inv, TypeOK
<1> QED
  BY <1>1, <1>2, <1>3, <1>4, <1>5, <1>6 DEF Next

-----------------------------------------------------------------------------
(* Results.                                                                *)

\* The inductive invariant holds for any ports, island and number of calls.
THEOREM Invariance == Spec => []Inv
<1> QED
  BY InitInv, NextInv, PTL DEF Spec

\* The state is what its declarations say, in particular the island never takes
\* a third tuple in a run: the source of every port falls silent after one EOS.
THEOREM TypeCorrect == Spec => []TypeOK
<1>1. Inv => TypeOK
  BY DEF Inv
<1> QED
  BY <1>1, Invariance, PTL

\* No call leaves anything behind in the sources, the graph or the sinks for the
\* next one, for any number of ports (operator() drives one persistent graph).
THEOREM CallsLeaveNothing == Spec => []NoResidue
<1>1. Inv => NoResidue
  BY DEF Inv
<1> QED
  BY <1>1, Invariance, PTL

\* run_graph() only returns after the input tuple and the end of stream went
\* through the island, whatever order the engine calls the nodes in.
THEOREM RunsAreComplete == Spec => []RunIsDataThenEos
<1>1. Inv => RunIsDataThenEos
  <2> SUFFICES ASSUME Inv, pc = "drain"
               PROVE  RunIsDataThenEos
    BY DEF RunIsDataThenEos
  <2>1. fired = 2 /\ fired # 0 /\ fired # 1 /\ \A i \in InPorts : InputAt(i)
    BY DEF Inv, DrainInv, RunInv
  <2>2. \A i \in InPorts : src[i] = SourceState(<<>>, TRUE)
    BY <2>1, Zenon DEF InputAt
  <2>3. \A i \in InPorts : src[i] \in [queue : {<<>>}, eosSent : {TRUE}]
    <3>1. SourceState(<<>>, TRUE) \in [queue : {<<>>}, eosSent : {TRUE}]
      BY DEF SourceState
    <3> QED
      BY <2>2, <3>1
  <2> QED
    BY <2>1, <2>3 DEF Inv, TypeOK, RunIsDataThenEos
<1> QED
  BY <1>1, Invariance, PTL

\* Every product under way or waiting was made from the arguments of the call
\* in progress.
THEOREM ProductsAreOwn == Spec => []NoForeignProduct
<1>1. Inv => NoForeignProduct
  <2> SUFFICES ASSUME Inv, NEW j \in OutPorts
               PROVE  /\ \A n \in DOMAIN snk[j] : snk[j][n].from = args
                      /\ \A n \in DOMAIN oedge[j] : oedge[j][n] = Null \/ oedge[j][n].from = args
    BY DEF NoForeignProduct
  <2> DEFINE Out == AllProducts \cup {Null}
  <2>1. TypeOK /\ fired \in {0, 1, 2} /\ args \in ArgTuples
    BY DEF Inv, TypeOK
  <2>2. snk[j] \in Seq(Out) /\ oedge[j] \in Seq(Out) /\ held \in Seq(Out)
    BY <2>1, SeqMonotonic DEF TypeOK
  <2> DEFINE w == (snk[j] \o oedge[j]) \o held
  <2> DEFINE Own == {x \in Out : x = Null \/ x.from = args}
  <2>3. ASSUME NEW k \in Emits
        PROVE  /\ ProductsOf(args, k) \in Seq(Own)
               /\ Append(ProductsOf(args, k), Null) \in Seq(Own)
    <3>1. k \in Nat
      BY ShapeAssumption DEF ShapeAssumption
    <3>2. \A n \in 1..k : Product(args, n) \in Own
      BY <2>1 DEF Product, AllProducts
    <3> HIDE DEF Own
    <3>3. ProductsOf(args, k) \in [1..k -> Own]
      BY <3>2 DEF ProductsOf
    <3>4. ProductsOf(args, k) \in Seq(Own)
      BY <3>1, <3>3, SeqDef
    <3>5. Null \in Own
      BY DEF Own
    <3> QED
      BY <3>4, <3>5, AppendProperties
  <2>4. w \in Seq(Own)
    <3>1. CASE OutputEmpty \/ OutputNull
      <4>1. snk[j] = <<>> /\ held = <<>> /\ oedge[j] \in Seq({Null})
        <5>1. <<>> \in Seq({Null})
          OBVIOUS
        <5> QED
          BY <3>1, <5>1, Zenon DEF OutputEmpty, OutputNull
      <4>2. w = oedge[j]
        BY <2>2, <4>1, ConcatEmptySeq
      <4>3. {Null} \subseteq Own
        OBVIOUS
      <4> QED
        BY <4>1, <4>2, <4>3, SeqMonotonic
    <3>2. CASE OutputHeld
      BY <2>3, <3>2 DEF OutputHeld
    <3>3. CASE OutputFlushed
      <4>1. w = snk[j] \o oedge[j]
        BY <2>2, <3>3, ConcatProperties, ConcatEmptySeq DEF OutputFlushed
      <4>2. PICK k \in Emits :
              \/ snk[j] \o oedge[j] = Append(ProductsOf(args, k), Null)
              \/ snk[j] = ProductsOf(args, k) /\ oedge[j] = <<>>
        BY <3>3 DEF OutputFlushed
      <4>3. w \in {ProductsOf(args, k), Append(ProductsOf(args, k), Null)}
        BY <2>2, <4>1, <4>2, ConcatEmptySeq
      <4> HIDE DEF w, Own
      <4> QED
        BY <2>3, <4>3
    <3>4. CASE pc = "idle"
      <4>1. w = <<>>
        BY <3>4, ConcatEmptySeq DEF Inv, NoResidue
      <4> QED
        BY <4>1
    <3> QED
      BY <2>1, <3>1, <3>2, <3>3, <3>4 DEF Inv, RunInv, OutputInv, TypeOK
  <2>5. snk[j] \in Seq(Own) /\ oedge[j] \in Seq(Own)
    <3>1. snk[j] \o oedge[j] \in Seq(Out)
      <4> HIDE DEF Out
      <4> QED
        BY <2>2, ConcatProperties
    <3> HIDE DEF Out, Own
    <3>2. snk[j] \o oedge[j] \in Seq(Own)
      BY <2>2, <2>4, <3>1, ConcatParts
    <3> QED
      BY <2>2, <3>2, ConcatParts
  <2>6. \A n \in DOMAIN snk[j] : snk[j][n] # Null
    BY <2>1, LenProperties, ShapeAssumption DEF TypeOK, ShapeAssumption
  <2>7. /\ \A n \in DOMAIN snk[j] : snk[j][n] \in Own
        /\ \A n \in DOMAIN oedge[j] : oedge[j][n] \in Own
    <3> HIDE DEF Own
    <3> QED
      BY <2>5, LenProperties
  <2> QED
    BY <2>6, <2>7
<1> QED
  BY <1>1, Invariance, PTL

\* A call returns what a pure function of its own arguments may return: the
\* executor with its persistent graph implements PureCall.
THEOREM CallsArePure == Spec => ImplementsPureCall
<1>1. Init => Pure!Init(NoArgs, NoResult)
  BY DEF Init, Pure!Init, Phase
<1>2. Inv /\ [Next]_vars => [Pure!Next]_<<Phase, args, result>>
  <2> SUFFICES ASSUME Inv, [Next]_vars
               PROVE  Pure!Next \/ UNCHANGED <<Phase, args, result>>
    OBVIOUS
  <2>1. ASSUME NEW a \in ArgsOf(calls + 1), FillAll(a)
        PROVE  Pure!Next
    <3>1. a \in ArgTuples
      BY DEF ArgsOf
    <3>2. Pure!Call(a)
      BY <2>1 DEF FillAll, Phase, Pure!Call
    <3> QED
      BY <3>1, <3>2 DEF Pure!Next
  <2>2. CASE RejectSize
    BY <2>2 DEF RejectSize, Phase
  <2>3. CASE RunStep
    BY <2>3 DEF RunStep, CallSource, ProcessData, ProcessEos, TakeInputs, CallSink, EndRun, Phase
  <2>4. CASE NodeThrows
    <3>1. Pure!Throw
      BY <2>4 DEF NodeThrows, Phase, Pure!Throw
    <3> QED
      BY <3>1 DEF Pure!Next
  <2>5. CASE DrainAll
    <3>1. Pure!Return
      BY <2>5, DrainAllInv DEF DrainAll, Phase, Pure!Return
    <3> QED
      BY <3>1 DEF Pure!Next
  <2>6. CASE UNCHANGED vars
    BY <2>6 DEF vars, Phase
  <2> QED
    BY <2>1, <2>2, <2>3, <2>4, <2>5, <2>6 DEF Next
<1> QED
  BY <1>1, <1>2, Invariance, PTL DEF Spec, ImplementsPureCall

=============================================================================
