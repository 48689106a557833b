------------------------ MODULE BoundaryPair_proofs --------------------------
(***************************************************************************)
(* Proofs about BoundaryPair, for any items and any number of fills:       *)
(* types, the placement of end-of-stream markers, and that items arrive    *)
(* once and in order, as through the channel of module Fifo.               *)
(***************************************************************************)
EXTENDS BoundaryPair, Induction

-----------------------------------------------------------------------------
(* The inductive invariant: a source that still owes an EOS was filled     *)
(* after the last one it sent.                                             *)

EosOwed == ~src.eosSent => \A n \in DOMAIN ends : ends[n] < Len(filled)

PairInv == TypeOK /\ EosClosesBatches /\ EosOwed

SourceType == [queue : Seq(Products), eosSent : BOOLEAN]

\* A source and a sink as constructed: nothing filled, nothing owed.
LEMMA PairInit == Init => PairInv
  BY DEF Init, PairInv, TypeOK, EosClosesBatches, EosOwed, NewSource, NewSink

\* BoundarySource::fill() leaves a source that will send end of stream again.
LEMMA FillType ==
  ASSUME NEW s \in SourceType, NEW x \in Products
  PROVE  Fill(s, x) \in SourceType /\ ~Fill(s, x).eosSent
BY DEF SourceType, Fill

\* One call of a willing source: it hands on what is queued and keeps its flag,
\* or sets the flag.
LEMMA CallType ==
  ASSUME NEW s \in SourceType, SourceOk(s)
  PROVE  /\ AfterCall(s) \in SourceType
         /\ SourceOut(s) \in Products
         /\ s.queue # <<>> => AfterCall(s).eosSent = s.eosSent
         /\ s.queue = <<>> => AfterCall(s).eosSent /\ AfterCall(s).queue = <<>> /\ ~s.eosSent
<1>1. s.queue \in Seq(Products) /\ s.eosSent \in BOOLEAN
  BY DEF SourceType
<1>2. CASE s.queue # <<>>
  <2>1. Head(s.queue) \in Products /\ Tail(s.queue) \in Seq(Products)
    BY <1>1, <1>2, HeadTailProperties
  <2>2. AfterCall(s) = [s EXCEPT !.queue = Tail(s.queue)]
    BY <1>2 DEF AfterCall
  <2>3. [s EXCEPT !.queue = Tail(s.queue)] \in SourceType
    BY <2>1 DEF SourceType
  <2>4. [s EXCEPT !.queue = Tail(s.queue)].eosSent = s.eosSent
    BY DEF SourceType
  <2> QED
    BY <1>2, <2>1, <2>2, <2>3, <2>4 DEF SourceOut
<1>3. CASE s.queue = <<>>
  BY <1>3 DEF AfterCall, SourceOut, SourceOk, SourceType, Products
<1> QED
  BY <1>2, <1>3

\* No fill, engine step or drain breaks the invariant.
LEMMA PairNext == PairInv /\ [Next]_vars => PairInv'
<1> SUFFICES ASSUME PairInv, [Next]_vars
             PROVE  PairInv'
  OBVIOUS
<1>1. /\ src \in SourceType /\ snk \in Seq(Items) /\ filled \in Seq(Products)
      /\ drained \in Seq(Items) /\ ends \in Seq(Nat)
      /\ EosClosesBatches /\ EosOwed
      /\ Len(filled) \in Nat /\ Len(ends) \in Nat /\ DOMAIN ends = 1..Len(ends)
      /\ \A n \in DOMAIN ends : ends[n] \in Nat
  BY LenProperties DEF PairInv, TypeOK, SourceType
<1>2. \A n \in DOMAIN ends : ends[n] <= Len(filled)
  <2>1. CASE src.eosSent
    <3>1. /\ Len(ends) \in DOMAIN ends /\ ends[Len(ends)] = Len(filled)
          /\ \A n \in DOMAIN ends : n < Len(ends) => ends[n] < ends[Len(ends)]
      BY <1>1, <2>1, EmptySeq DEF EosClosesBatches
    <3>2. \A n \in DOMAIN ends : n < Len(ends) \/ n = Len(ends)
      BY <1>1
    <3> QED
      BY <1>1, <3>1, <3>2
  <2>2. CASE ~src.eosSent
    BY <1>1, <2>2 DEF EosOwed
  <2> QED
    BY <2>1, <2>2
<1>3. ASSUME NEW x \in Products, FillSource(x)
      PROVE  PairInv'
  <2>1. src' \in SourceType /\ ~src'.eosSent
    BY <1>1, <1>3, FillType DEF FillSource
  <2>2. filled' \in Seq(Products) /\ Len(filled') = Len(filled) + 1
    BY <1>1, <1>3, AppendProperties DEF FillSource
  <2>3. UNCHANGED <<snk, drained, ends>>
    BY <1>3 DEF FillSource
  <2>4. TypeOK'
    BY <1>1, <2>1, <2>2, <2>3 DEF TypeOK, SourceType
  <2>5. EosClosesBatches' /\ EosOwed'
    BY <1>1, <1>2, <2>1, <2>2, <2>3 DEF EosClosesBatches, EosOwed
  <2> QED
    BY <2>4, <2>5 DEF PairInv
<1>4. CASE DrainSink
  <2>1. UNCHANGED <<src, filled, ends>>
    BY <1>4 DEF DrainSink
  <2>2. snk' \in Seq(Items) /\ drained' \in Seq(Items)
    <3>1. snk # <<>> /\ snk' = Tail(snk) /\ drained' = Append(drained, Head(snk))
      BY <1>4 DEF DrainSink, DrainOut, AfterDrain
    <3> QED
      BY <1>1, <3>1, HeadTailProperties, AppendProperties
  <2> QED
    BY <1>1, <2>1, <2>2 DEF PairInv, TypeOK, EosClosesBatches, EosOwed, SourceType
<1>5. CASE Tick
  <2>1. /\ src' \in SourceType /\ SourceOut(src) \in Products
        /\ src.queue # <<>> => src'.eosSent = src.eosSent
        /\ src.queue = <<>> => src'.eosSent /\ src'.queue = <<>> /\ ~src.eosSent
    BY <1>1, <1>5, CallType DEF Tick
  <2>2. snk' \in Seq(Items)
    BY <1>1, <1>5, <2>1, AppendProperties DEF Tick, Accept, Products
  <2>3. UNCHANGED <<filled, drained>>
    BY <1>5 DEF Tick
  <2>4. CASE src.queue # <<>>
    <3>1. ~src.eosSent /\ ~src'.eosSent /\ ends' = ends
      BY <1>1, <1>5, <2>1, <2>4 DEF EosClosesBatches, Tick, EosNow
    <3> QED
      BY <1>1, <2>1, <2>2, <2>3, <3>1
         DEF PairInv, TypeOK, EosClosesBatches, EosOwed, SourceType
  <2>5. CASE src.queue = <<>>
    <3>1. ~src.eosSent /\ src'.eosSent /\ src'.queue = <<>> /\ ends' = Append(ends, Len(filled))
      BY <1>5, <2>1, <2>5 DEF Tick, EosNow
    <3>2. /\ ends' \in Seq(Nat) /\ ends' # <<>> /\ Len(ends') = Len(ends) + 1
          /\ \A n \in 1..Len(ends) : ends'[n] = ends[n]
          /\ ends'[Len(ends) + 1] = Len(filled)
      <4>1. ends \in Seq(Nat) /\ Len(filled) \in Nat
        BY <1>1
      <4> QED
        BY <3>1, <4>1, AppendProperties
    <3>3. DOMAIN ends' = 1..Len(ends) + 1
      BY <3>2, LenProperties
    <3>4. \A n \in DOMAIN ends : ends[n] < Len(filled)
      BY <1>1, <3>1 DEF EosOwed
    <3>5. EosClosesBatches'
      <4>1. \A m, n \in DOMAIN ends' : m < n => ends'[m] < ends'[n]
        <5> SUFFICES ASSUME NEW m \in DOMAIN ends', NEW n \in DOMAIN ends', m < n
                     PROVE  ends'[m] < ends'[n]
          OBVIOUS
        <5>1. m \in DOMAIN ends /\ ends'[m] = ends[m]
          BY <1>1, <3>2, <3>3
        <5>2. CASE n \in DOMAIN ends
          BY <1>1, <3>2, <5>1, <5>2 DEF EosClosesBatches
        <5>3. CASE n = Len(ends) + 1
          BY <3>2, <3>4, <5>1, <5>3
        <5> QED
          BY <1>1, <3>3, <5>2, <5>3
      <4> QED
        BY <2>3, <3>1, <3>2, <4>1 DEF EosClosesBatches
    <3> QED
      BY <1>1, <2>1, <2>2, <2>3, <3>1, <3>2, <3>5 DEF PairInv, TypeOK, EosOwed, SourceType
  <2> QED
    BY <2>4, <2>5
<1>6. CASE UNCHANGED vars
  BY <1>1, <1>6 DEF vars, PairInv, TypeOK, EosClosesBatches, EosOwed, SourceType
<1> QED
  BY <1>3, <1>4, <1>5, <1>6 DEF Next

-----------------------------------------------------------------------------
(* Results.                                                                *)

\* The strengthening of EosClosesBatches holds for any number of fills.
THEOREM PairInvariance == Spec => []PairInv
  BY PairInit, PairNext, PTL DEF Spec

\* Queues hold what was put in, and in particular no null ever gets into the sink.
THEOREM PairTypes == Spec => []TypeOK
<1>1. PairInv => TypeOK
  BY DEF PairInv
<1> QED
  BY <1>1, PairInvariance, PTL

\* However often the source is filled and called, in whatever order, it sends
\* one EOS for every batch and none in between: fill() clears m_eos_sent and
\* operator() sets it only when the queue is empty.
THEOREM EosOncePerBatch == Spec => []EosClosesBatches
<1>1. PairInv => EosClosesBatches
  BY DEF PairInv
<1> QED
  BY <1>1, PairInvariance, PTL

-----------------------------------------------------------------------------
(* Which items arrive.                                                     *)

\* The function behind NonNull: what is kept of the first k elements.
IsKept(f, s, n, S) ==
  /\ f \in [0..n -> Seq(S)]
  /\ f[0] = <<>>
  /\ \A k \in 1..n : f[k] = IF s[k] # Null THEN Append(f[k - 1], s[k]) ELSE f[k - 1]

\* Such a function exists.
LEMMA KeptExists ==
  ASSUME NEW S, NEW s, NEW n \in Nat, \A k \in 1..n : s[k] \in S
  PROVE  \E f : IsKept(f, s, n, S)
<1> DEFINE T == Seq(S)
           empty == <<>>
           step == [k \in 1..n |-> [t \in T |-> IF s[k] # Null THEN Append(t, s[k]) ELSE t]]
<1>1. \A k \in 1..n : \A t \in T : Append(t, s[k]) \in T
  BY AppendProperties
<1>2. empty \in T
  BY EmptySeq
<1> HIDE DEF T, empty
<1>3. step \in [1..n -> [T -> T]]
  BY <1>1
<1>4. PICK f \in [0..n -> T] : f[0] = empty /\ \A k \in 1..n : f[k] = step[k][f[k - 1]]
  <2> HIDE DEF step
  <2> QED
    BY <1>2, <1>3, RecursionExists
<1>5. \A k \in 1..n : f[k] = IF s[k] # Null THEN Append(f[k - 1], s[k]) ELSE f[k - 1]
  <2> TAKE k \in 1..n
  <2>1. f[k - 1] \in T
    OBVIOUS
  <2>2. step[k] = [t \in T |-> IF s[k] # Null THEN Append(t, s[k]) ELSE t]
    OBVIOUS
  <2>3. f[k] = step[k][f[k - 1]]
    BY <1>4
  <2> HIDE DEF step
  <2> QED
    BY <2>1, <2>2, <2>3
<1>6. f \in [0..n -> Seq(S)]
  BY DEF T
<1> QED
  BY <1>4, <1>5, <1>6 DEF IsKept, empty

\* NonNull is what its recursion says.
LEMMA NonNullUnfolds ==
  ASSUME NEW S, NEW s \in Seq(S), NEW n, n = Len(s), NEW f, IsKept(f, s, n, S)
  PROVE  NonNull(s) = f[n]
<1> DEFINE Body(g) == [k \in 0..n |-> IF k = 0 THEN <<>>
                                      ELSE IF s[k] # Null THEN Append(g[k - 1], s[k])
                                      ELSE g[k - 1]]
           kept == CHOOSE g : g = Body(g)
<1>1. n \in Nat
  BY LenProperties
<1>2. f = Body(f)
  <2>1. \A k \in 0..n : f[k] = Body(f)[k]
    <3> TAKE k \in 0..n
    <3>1. CASE k = 0
      BY <3>1, <1>1 DEF IsKept
    <3>2. CASE k # 0
      <4>1. k \in 1..n
        BY <3>2, <1>1
      <4> QED
        BY <4>1, <3>2 DEF IsKept
    <3> QED
      BY <3>1, <3>2
  <2> QED
    BY <2>1 DEF IsKept
<1>3. kept = Body(kept)
  <2>1. \E g : g = Body(g)
    BY <1>2
  <2> HIDE DEF Body
  <2> QED
    BY <2>1
<1> HIDE DEF kept
<1>4. \A k \in 0..n : kept[k] = Body(kept)[k]
  <2> HIDE DEF Body
  <2> QED
    BY <1>3
<1>5. \A k \in 0..n : Body(kept)[k] = IF k = 0 THEN <<>>
                                       ELSE IF s[k] # Null THEN Append(kept[k - 1], s[k])
                                       ELSE kept[k - 1]
  OBVIOUS
<1> HIDE DEF Body
<1>6. \A k \in 0..(n - 1) : kept[k] = f[k] => kept[k + 1] = f[k + 1]
  <2> SUFFICES ASSUME NEW k \in 0..(n - 1), kept[k] = f[k] PROVE kept[k + 1] = f[k + 1]
    OBVIOUS
  <2>1. k + 1 \in 1..n /\ k + 1 \in 0..n /\ k + 1 # 0 /\ (k + 1) - 1 = k
    BY <1>1
  <2>2. kept[k + 1] = IF s[k + 1] # Null THEN Append(kept[k], s[k + 1]) ELSE kept[k]
    BY <1>4, <1>5, <2>1
  <2>3. f[k + 1] = IF s[k + 1] # Null THEN Append(f[k], s[k + 1]) ELSE f[k]
    BY <2>1 DEF IsKept
  <2> QED
    BY <2>2, <2>3
<1>7. kept[0] = f[0]
  BY <1>1, <1>4, <1>5 DEF IsKept
<1>8. kept[n] = f[n]
  <2> DEFINE P == {k \in 0..n : kept[k] = f[k]}
  <2>1. 0 \in P /\ \A k \in 0..(n - 1) : k \in P => k + 1 \in P
    BY <1>1, <1>6, <1>7
  <2>2. 0..n \subseteq P
    <3> HIDE DEF P
    <3> QED
      BY <1>1, <2>1, BoundedInduction
  <2> QED
    BY <2>2, <1>1
<1> QED
  BY <1>8 DEF NonNull, Filtered, kept, Body

\* NonNull of a sequence one longer.
LEMMA NonNullAppend ==
  ASSUME NEW S, NEW s \in Seq(S), NEW x \in S
  PROVE  /\ NonNull(<<>>) = <<>>
         /\ NonNull(s) \in Seq(S)
         /\ NonNull(Append(s, x)) = IF x # Null THEN Append(NonNull(s), x) ELSE NonNull(s)
<1> DEFINE t == Append(s, x)
           n == Len(s)
<1>1. n \in Nat /\ \A k \in 1..n : s[k] \in S
  BY LenProperties, ElementOfSeq
<1>2. t \in Seq(S) /\ Len(t) = n + 1 /\ t[n + 1] = x /\ \A k \in 1..n : t[k] = s[k]
  BY AppendProperties
<1> HIDE DEF t, n
<1>3. \A k \in 1..(n + 1) : t[k] \in S
  BY <1>1, <1>2
<1>4. PICK f : IsKept(f, t, n + 1, S)
  <2> DEFINE m == n + 1
  <2>1. m \in Nat
    BY <1>1
  <2> HIDE DEF m
  <2>2. \E f : IsKept(f, t, m, S)
    BY <1>3, <2>1, KeptExists DEF m
  <2> QED
    BY <2>2 DEF m
<1> DEFINE g == [k \in 0..n |-> f[k]]
<1>5. IsKept(g, s, n, S)
  <2>1. g \in [0..n -> Seq(S)] /\ g[0] = <<>>
    BY <1>1, <1>4 DEF IsKept
  <2>2. \A k \in 1..n : g[k] = IF s[k] # Null THEN Append(g[k - 1], s[k]) ELSE g[k - 1]
    <3> TAKE k \in 1..n
    <3>1. k \in 1..(n + 1) /\ k \in 0..n /\ k - 1 \in 0..n
      BY <1>1
    <3>2. f[k] = IF t[k] # Null THEN Append(f[k - 1], t[k]) ELSE f[k - 1]
      BY <1>4, <3>1 DEF IsKept
    <3>3. t[k] = s[k] /\ g[k] = f[k] /\ g[k - 1] = f[k - 1]
      BY <1>2, <3>1
    <3> QED
      BY <3>2, <3>3
  <2> QED
    BY <2>1, <2>2 DEF IsKept
<1>6. g[n] = f[n] /\ f[n] \in Seq(S)
  BY <1>1, <1>4 DEF IsKept
<1> HIDE DEF g
<1>7. NonNull(s) = f[n]
  BY <1>5, <1>6, NonNullUnfolds DEF n
<1>8. NonNull(t) = f[n + 1]
  BY <1>2, <1>4, NonNullUnfolds
<1>9. f[n + 1] = IF x # Null THEN Append(f[n], x) ELSE f[n]
  BY <1>1, <1>2, <1>4 DEF IsKept
<1>10. NonNull(<<>>) = <<>>
  <2> DEFINE h == [k \in 0..0 |-> <<>>]
  <2>1. IsKept(h, <<>>, 0, S)
    BY EmptySeq DEF IsKept
  <2>2. h[0] = <<>>
    OBVIOUS
  <2> HIDE DEF h
  <2> QED
    BY <2>1, <2>2, EmptySeq, NonNullUnfolds
<1> QED
  BY <1>6, <1>7, <1>8, <1>9, <1>10 DEF t

\* NonNull by the first element.
LEMMA NonNullHead ==
  ASSUME NEW S, NEW s \in Seq(S), s # <<>>
  PROVE  NonNull(s) = IF Head(s) # Null THEN <<Head(s)>> \o NonNull(Tail(s)) ELSE NonNull(Tail(s))
<1> DEFINE First(t) == IF Head(t) # Null THEN <<Head(t)>> \o NonNull(Tail(t)) ELSE NonNull(Tail(t))
           P == {t \in Seq(S) : t # <<>> => NonNull(t) = First(t)}
<1>1. <<>> \in P
  BY EmptySeq
<1>2. ASSUME NEW t \in Seq(S), NEW x \in S, t \in P PROVE Append(t, x) \in P
  <2>1. /\ Append(t, x) \in Seq(S)
        /\ Head(Append(t, x)) = IF t = <<>> THEN x ELSE Head(t)
        /\ Tail(Append(t, x)) = IF t = <<>> THEN <<>> ELSE Append(Tail(t), x)
    BY HeadTailAppend, AppendProperties
  <2>2. NonNull(Append(t, x)) = IF x # Null THEN Append(NonNull(t), x) ELSE NonNull(t)
    BY NonNullAppend
  <2>3. CASE t = <<>>
    <3>1. NonNull(<<>>) = <<>>
      BY NonNullAppend
    <3>2. Append(<<>>, x) = <<x>> /\ <<x>> \o <<>> = <<x>>
      OBVIOUS
    <3> QED
      BY <2>1, <2>2, <2>3, <3>1, <3>2
  <2>4. CASE t # <<>>
    <3>1. Head(t) \in S /\ Tail(t) \in Seq(S)
      BY <2>4, HeadTailProperties
    <3>2. /\ NonNull(Tail(t)) \in Seq(S)
          /\ NonNull(Append(Tail(t), x)) =
               IF x # Null THEN Append(NonNull(Tail(t)), x) ELSE NonNull(Tail(t))
      BY <3>1, NonNullAppend
    <3>3. <<Head(t)>> \o Append(NonNull(Tail(t)), x) = Append(<<Head(t)>> \o NonNull(Tail(t)), x)
      BY <3>1, <3>2
    <3>4. NonNull(t) = First(t)
      BY <1>2, <2>4
    <3>5. First(Append(t, x)) = IF Head(t) # Null THEN <<Head(t)>> \o NonNull(Append(Tail(t), x))
                                                 ELSE NonNull(Append(Tail(t), x))
      BY <2>1, <2>4
    <3>6. NonNull(Append(t, x)) = First(Append(t, x))
      BY <2>2, <3>2, <3>3, <3>4, <3>5
    <3> QED
      BY <2>1, <3>6
  <2> QED
    BY <2>3, <2>4
<1>3. Seq(S) \subseteq P
  <2> HIDE DEF P
  <2> QED
    BY <1>1, <1>2, SeqSetInduction
<1> QED
  BY <1>3

\* Every step keeps what was drained and what is under way, in order, to what
\* was filled, and is a step of the channel or none.
LEMMA ChannelStep ==
  ASSUME TypeOK, ExactlyOnceInOrder, [Next]_vars
  PROVE  /\ ExactlyOnceInOrder'
         /\ [Channel!Next]_<<snk \o NonNull(src.queue), drained>>
<1> DEFINE queue == NonNull(src.queue)
<1>1. /\ src \in SourceType /\ src.queue \in Seq(Products) /\ snk \in Seq(Products)
      /\ filled \in Seq(Products) /\ drained \in Seq(Products) /\ queue \in Seq(Products)
      /\ NonNull(filled) \in Seq(Products) /\ Null \in Products
  <2>1. src \in SourceType /\ src.queue \in Seq(Products) /\ filled \in Seq(Products)
    BY DEF TypeOK, SourceType
  <2>2. Items \subseteq Products /\ Null \in Products
    BY DEF Products
  <2>3. snk \in Seq(Products) /\ drained \in Seq(Products)
    BY <2>2, SeqMonotonic DEF TypeOK
  <2>4. queue \in Seq(Products) /\ NonNull(filled) \in Seq(Products)
    BY <2>1, <2>2, NonNullAppend
  <2> QED
    BY <2>1, <2>2, <2>3, <2>4
<1>2. drained \o snk \o queue = NonNull(filled)
  BY DEF ExactlyOnceInOrder
<1>3. ASSUME NEW x \in Products, FillSource(x)
      PROVE  /\ ExactlyOnceInOrder'
             /\ Channel!Next \/ UNCHANGED <<snk \o NonNull(src.queue), drained>>
  <2>1. /\ src'.queue = Append(src.queue, x) /\ filled' = Append(filled, x)
        /\ snk' = snk /\ drained' = drained
    BY <1>3 DEF FillSource, Fill
  <2>2. /\ NonNull(src'.queue) = IF x # Null THEN Append(queue, x) ELSE queue
        /\ NonNull(filled') = IF x # Null THEN Append(NonNull(filled), x) ELSE NonNull(filled)
    <3>1. NonNull(Append(src.queue, x)) = IF x # Null THEN Append(queue, x) ELSE queue
      BY <1>1, NonNullAppend
    <3>2. NonNull(Append(filled, x)) =
            IF x # Null THEN Append(NonNull(filled), x) ELSE NonNull(filled)
      BY <1>1, NonNullAppend
    <3> QED
      BY <2>1, <3>1, <3>2
  <2> HIDE DEF queue
  <2>3. CASE x = Null
    BY <1>2, <2>1, <2>2, <2>3 DEF ExactlyOnceInOrder, queue
  <2>4. CASE x # Null
    <3>1. /\ drained \o snk \o Append(queue, x) = Append(drained \o snk \o queue, x)
          /\ snk \o Append(queue, x) = Append(snk \o queue, x)
      <4>1. drained \o snk \in Seq(Products)
        BY <1>1, ConcatProperties
      <4>2. (drained \o snk) \o Append(queue, x) = Append((drained \o snk) \o queue, x)
        BY <1>1, <4>1, ConcatAppend
      <4>3. snk \o Append(queue, x) = Append(snk \o queue, x)
        BY <1>1, ConcatAppend
      <4> QED
        BY <4>2, <4>3
    <3>2. ExactlyOnceInOrder'
      BY <1>2, <2>1, <2>2, <2>4, <3>1 DEF ExactlyOnceInOrder
    <3>3. x \in Items
      BY <2>4 DEF Products
    <3>4. Channel!Put(x)
      BY <2>1, <2>2, <2>4, <3>1 DEF Channel!Put, queue
    <3> QED
      BY <3>2, <3>3, <3>4 DEF Channel!Next
  <2> QED
    BY <2>3, <2>4
<1>4. ASSUME DrainSink
      PROVE  ExactlyOnceInOrder' /\ Channel!Next
  <2>1. /\ snk # <<>> /\ snk' = Tail(snk) /\ drained' = Append(drained, Head(snk))
        /\ src' = src /\ filled' = filled
    BY <1>4 DEF DrainSink, DrainOut, AfterDrain
  <2> HIDE DEF queue
  <2>3. /\ Append(drained, Head(snk)) \o Tail(snk) \o queue = drained \o snk \o queue
        /\ snk \o queue # <<>> /\ Head(snk \o queue) = Head(snk)
        /\ Tail(snk \o queue) = Tail(snk) \o queue
    <3>1. Append(drained, Head(snk)) \o Tail(snk) = drained \o snk
      BY <1>1, <2>1, MoveHead
    <3>2. /\ snk \o queue # <<>> /\ Head(snk \o queue) = Head(snk)
          /\ Tail(snk \o queue) = Tail(snk) \o queue
      BY <1>1, <2>1, HeadOfConcat
    <3> QED
      BY <3>1, <3>2
  <2>4. ExactlyOnceInOrder'
    BY <1>2, <2>1, <2>3 DEF ExactlyOnceInOrder, queue
  <2>5. Channel!Get
    BY <2>1, <2>3 DEF Channel!Get, queue
  <2> QED
    BY <2>4, <2>5 DEF Channel!Next
<1>5. ASSUME Tick
      PROVE  /\ ExactlyOnceInOrder'
             /\ UNCHANGED <<snk \o NonNull(src.queue), drained>>
  <2>1. /\ SourceOk(src) /\ src' = AfterCall(src) /\ snk' = Accept(snk, SourceOut(src))
        /\ filled' = filled /\ drained' = drained
    BY <1>5 DEF Tick
  <2>2. snk' \o NonNull(src'.queue) = snk \o queue
    <3>1. CASE src.queue # <<>>
      <4>1. src'.queue = Tail(src.queue) /\ SourceOut(src) = Head(src.queue)
        BY <1>1, <2>1, <3>1 DEF AfterCall, SourceOut, SourceType
      <4>2. Head(src.queue) \in Products /\ Tail(src.queue) \in Seq(Products)
        BY <1>1, <3>1, HeadTailProperties
      <4>3. NonNull(Tail(src.queue)) \in Seq(Products)
        BY <1>1, <4>2, NonNullAppend
      <4>4. queue = IF Head(src.queue) # Null
                    THEN <<Head(src.queue)>> \o NonNull(Tail(src.queue))
                    ELSE NonNull(Tail(src.queue))
        BY <1>1, <3>1, NonNullHead
      <4>5. Append(snk, Head(src.queue)) \o NonNull(Tail(src.queue))
              = snk \o (<<Head(src.queue)>> \o NonNull(Tail(src.queue)))
        BY <1>1, <4>2, <4>3, PassAlong
      <4> HIDE DEF queue
      <4> QED
        BY <2>1, <4>1, <4>4, <4>5 DEF Accept
    <3>2. CASE src.queue = <<>>
      <4>1. src'.queue = <<>> /\ SourceOut(src) = Null
        BY <1>1, <2>1, <3>2 DEF AfterCall, SourceOut, SourceType
      <4> QED
        BY <2>1, <3>2, <4>1 DEF Accept
    <3> QED
      BY <3>1, <3>2
  <2>3. drained \o snk' \o NonNull(src'.queue) = drained \o snk \o queue
    <3>1. snk' \in Seq(Products) /\ NonNull(src'.queue) \in Seq(Products)
      <4>1. AfterCall(src) \in SourceType /\ SourceOut(src) \in Products
        BY <1>1, <2>1, CallType
      <4>2. src'.queue \in Seq(Products)
        BY <2>1, <4>1 DEF SourceType
      <4>3. snk' \in Seq(Products)
        BY <1>1, <2>1, <4>1, AppendProperties DEF Accept
      <4> QED
        BY <1>1, <4>2, <4>3, NonNullAppend
    <3> HIDE DEF queue
    <3>2. ASSUME NEW s \in Seq(Products), NEW t \in Seq(Products)
          PROVE  (drained \o s) \o t = drained \o (s \o t)
      <4>1. drained \in Seq(Products)
        BY <1>1
      <4> QED
        BY <4>1, ConcatAssociative
    <3>3. (drained \o snk') \o NonNull(src'.queue) = drained \o (snk' \o NonNull(src'.queue))
      BY <3>1, <3>2
    <3>4. (drained \o snk) \o queue = drained \o (snk \o queue)
      BY <1>1, <3>2
    <3> QED
      BY <2>2, <3>3, <3>4
  <2> QED
    BY <1>2, <2>1, <2>2, <2>3 DEF ExactlyOnceInOrder
<1>6. CASE UNCHANGED vars
  BY <1>6 DEF vars, ExactlyOnceInOrder
<1> QED
  BY <1>3, <1>4, <1>5, <1>6 DEF Next

\* Nothing filled, nothing drained.
LEMMA ChannelInit == Init => ExactlyOnceInOrder /\ Channel!Init
<1>1. NonNull(<<>>) = <<>>
  BY EmptySeq, NonNullAppend
<1> QED
  BY <1>1 DEF Init, ExactlyOnceInOrder, Channel!Init, NewSource, NewSink

\* However fills, drains and engine steps interleave, every product that is not
\* null comes out of drain() once, in the order of fill(), or is in one queue.
THEOREM NothingLost == Spec => []ExactlyOnceInOrder
<1>1. Init => ExactlyOnceInOrder
  BY ChannelInit
<1>2. TypeOK /\ ExactlyOnceInOrder /\ [Next]_vars => ExactlyOnceInOrder'
  BY ChannelStep
<1> QED
  BY <1>1, <1>2, PairTypes, PTL DEF Spec

\* The safety part of ImplementsFifo: the two buffers with a graph between them
\* take no step that a FIFO channel could not take.
THEOREM StepsOfAFifo == Spec => Channel!Safety
<1>1. Init => Channel!Init
  BY ChannelInit
<1>2. TypeOK /\ ExactlyOnceInOrder /\ [Next]_vars
        => [Channel!Next]_<<snk \o NonNull(src.queue), drained>>
  BY ChannelStep
<1> QED
  BY <1>1, <1>2, PairTypes, NothingLost, PTL DEF Spec, Channel!Safety

=============================================================================
