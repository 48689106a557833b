------------------------- MODULE WireGeometry_proofs --------------------------
(***************************************************************************)
(* Proofs about WireGeometry, for any executors, scopes and geometries.    *)
(***************************************************************************)
EXTENDS WireGeometry, TLAPS

Stages == {"made", "registered", "copying", "configured", "validated", "ready", "failed"}

Registered == {"registered", "copying", "configured", "validated", "ready"}
Configured == {"configured", "validated", "ready"}
Validated  == {"validated", "ready"}

-----------------------------------------------------------------------------
\* What TypeOK does not say of the variables it leaves out.
Given == /\ scope \in [Executors -> Scopes]
         /\ schema \in [Executors -> Stores]
         /\ holder \in Executors \cup {Nobody}

\* How far the geometry of an executor has come: registry, facade, anode plane.
CarriedFor(e) ==
  /\ pc[e] \in Registered => Key(e) \in DOMAIN stores /\ stores[Key(e)] = schema[e]
  /\ pc[e] \in Configured => facade[Key(e)] = schema[e]
  /\ pc[e] \in Validated => schema[e] \in Geometries
  /\ pc[e] = "ready" => anode[e] = schema[e]

\* Nobody interferes with a graph that has a scope of its own.
Carried == \A e \in Executors : Alone(e) => CarriedFor(e)

\* What is copied is there, for every graph.
Present == \A e \in Executors : pc[e] \in {"registered", "copying"} => Key(e) \in DOMAIN stores

\* What is registered under a scope was registered by an executor that has it.
Origins ==
  \A s \in DOMAIN stores : \E f \in Executors : Key(f) = s /\ pc[f] # "made"

Inv == TypeOK /\ Given /\ Present /\ Carried /\ Origins

-----------------------------------------------------------------------------
\* At the start the registry is empty.
LEMMA InitInv == Init => Inv
<1> SUFFICES ASSUME Init PROVE Inv
  OBVIOUS
<1> USE GeometryAssumption DEF Init
<1>1. stores \in UNION {[registered -> Stores] : registered \in SUBSET Scopes}
  <2>1. {} \in SUBSET Scopes
    OBVIOUS
  <2>2. stores \in [{} -> Stores]
    OBVIOUS
  <2> QED
    BY <2>1, <2>2
<1>2. TypeOK
  BY <1>1 DEF TypeOK, Stores
<1>3. Given /\ Present /\ Carried /\ Origins
  BY DEF Given, Present, Carried, CarriedFor, Key, Origins, Registered, Configured, Validated
<1> QED
  BY <1>2, <1>3 DEF Inv

\* The registry stays a map from scopes to stores.
LEMMA StoresType ==
  ASSUME NEW old \in UNION {[registered -> Stores] : registered \in SUBSET Scopes},
         NEW k \in Scopes, NEW x \in Stores
  PROVE  [s \in DOMAIN old \cup {k} |-> IF s = k THEN x ELSE old[s]]
           \in UNION {[registered -> Stores] : registered \in SUBSET Scopes}
<1>1. PICK registered \in SUBSET Scopes : old \in [registered -> Stores]
  OBVIOUS
<1>2. DOMAIN old \cup {k} \in SUBSET Scopes
  BY <1>1
<1>3. [s \in DOMAIN old \cup {k} |-> IF s = k THEN x ELSE old[s]]
        \in [DOMAIN old \cup {k} -> Stores]
  BY <1>1
<1> QED
  BY <1>2, <1>3

\* A registered store is a store.
LEMMA StoreOf ==
  ASSUME NEW old \in UNION {[registered -> Stores] : registered \in SUBSET Scopes},
         NEW k \in DOMAIN old
  PROVE  old[k] \in Stores
OBVIOUS

\* An executor with a scope of its own reads what its own facade holds.
LEMMA SeenAlone ==
  ASSUME NEW e \in Executors, Alone(e)
  PROVE  Seen(e) = {facade[Key(e)]}
BY DEF Alone, Seen, Key

\* Registration touches the one scope only.
LEMMA RegisterInv ==
  ASSUME Inv, NEW e \in Executors, RegisterStore(e)
  PROVE  Inv'
<1> USE DEF Inv
<1>1. /\ Key(e) \in Scopes /\ schema[e] \in Stores
      /\ stores' = [s \in DOMAIN stores \cup {Key(e)} |->
                     IF s = Key(e) THEN schema[e] ELSE stores[s]]
      /\ pc' = [pc EXCEPT ![e] = "registered"] /\ pc[e] = "made"
      /\ UNCHANGED <<scope, schema, holder, facade, anode>>
  BY DEF Given, Key, RegisterStore, Goto
<1>2. TypeOK'
  <2>1. stores' \in UNION {[registered -> Stores] : registered \in SUBSET Scopes}
    <3> DEFINE Maps == UNION {[registered -> Stores] : registered \in SUBSET Scopes}
    <3>1. stores \in Maps /\ Key(e) \in Scopes /\ schema[e] \in Stores
      BY <1>1 DEF TypeOK
    <3>2. [s \in DOMAIN stores \cup {Key(e)} |-> IF s = Key(e) THEN schema[e] ELSE stores[s]]
            \in Maps
      BY <3>1, StoresType
    <3> QED
      BY <3>2, <1>1
  <2> QED
    BY <1>1, <2>1 DEF TypeOK
<1>3. Carried'
  <2> SUFFICES ASSUME NEW f \in Executors, Alone(f) PROVE CarriedFor(f)'
    BY <1>1 DEF Carried, Alone
  <2>1. CASE f = e
    BY <1>1, <2>1 DEF TypeOK, CarriedFor, Key, Configured, Validated
  <2>2. CASE f # e
    <3>1. Key(f) # Key(e)
      BY <2>2 DEF Alone, Key
    <3> QED
      BY <1>1, <2>2, <3>1 DEF TypeOK, Carried, CarriedFor, Key
  <2> QED
    BY <2>1, <2>2
<1>4. Present' /\ Origins'
  BY <1>1 DEF TypeOK, Present, Origins, Key
<1> QED
  BY <1>1, <1>2, <1>3, <1>4 DEF Given

\* configure() finds its scope, or fails and changes nothing.
LEMMA BeginInv ==
  ASSUME Inv, NEW e \in Executors, BeginConfigure(e)
  PROVE  Inv'
<1> USE GeometryAssumption DEF Inv
<1>1. UNCHANGED <<scope, schema, stores, facade, anode>> /\ holder = Nobody
  BY DEF BeginConfigure
<1>2. CASE Key(e) \in DOMAIN stores
  <2>1. pc[e] \in {"made", "registered"} /\ (Alone(e) => pc[e] = "registered")
    BY <1>2 DEF BeginConfigure, InitializeNow, Origins, Alone, Key
  <2>2. holder' = e /\ pc' = [pc EXCEPT ![e] = "copying"]
    BY <1>2 DEF BeginConfigure, Goto
  <2>3. TypeOK'
    BY <1>1, <2>1, <2>2 DEF TypeOK
  <2>4. Carried'
    BY <1>1, <2>1, <2>2
    DEF TypeOK, Carried, CarriedFor, Alone, Key, Registered, Configured, Validated
  <2>5. Present' /\ Origins'
    BY <1>1, <1>2, <2>2 DEF TypeOK, Present, Origins, Key
  <2> QED
    BY <1>1, <2>1, <2>2, <2>3, <2>4, <2>5 DEF Given
<1>3. CASE Key(e) \notin DOMAIN stores
  <2>1. holder' = holder /\ pc' = [pc EXCEPT ![e] = "failed"]
    BY <1>3 DEF BeginConfigure, Goto
  <2>2. pc[e] # "copying"
    BY DEF BeginConfigure, InitializeNow
  <2>3. TypeOK'
    BY <1>1, <2>1, <2>2 DEF TypeOK
  <2>4. Carried'
    BY <1>1, <2>1 DEF TypeOK, Carried, CarriedFor, Alone, Key, Registered, Configured, Validated
  <2>5. Present' /\ Origins'
    BY <1>1, <2>1 DEF TypeOK, Present, Origins, Key
  <2> QED
    BY <1>1, <2>1, <2>3, <2>4, <2>5 DEF Given, TypeOK
<1> QED
  BY <1>2, <1>3

\* The copy writes the facade of the one scope only.
LEMMA EndInv ==
  ASSUME Inv, NEW e \in Executors, EndConfigure(e)
  PROVE  Inv'
<1> USE GeometryAssumption DEF Inv
<1>1. /\ UNCHANGED <<scope, schema, stores, anode>> /\ holder = e /\ holder' = Nobody
      /\ facade' = [facade EXCEPT ![Key(e)] = stores[Key(e)]]
      /\ pc[e] = "copying" /\ pc' = [pc EXCEPT ![e] = "configured"] /\ Key(e) \in Scopes
  BY DEF EndConfigure, Goto, TypeOK, Given, Key
<1>3. ASSUME NEW f \in Executors, Alone(f)
      PROVE CarriedFor(f)'
  <2>1. CASE f = e
    BY <1>1, <1>3, <2>1 DEF TypeOK, Carried, CarriedFor, Key, Registered, Validated
  <2>2. CASE f # e
    <3>1. Key(f) # Key(e)
      BY <1>3, <2>2 DEF Alone, Key
    <3>2. facade'[Key(f)] = facade[Key(f)] /\ pc'[f] = pc[f]
      BY <1>1, <2>2, <3>1 DEF TypeOK, Given, Key
    <3> QED
      BY <1>1, <1>3, <3>2 DEF Carried, CarriedFor, Key
  <2> QED
    BY <2>1, <2>2
<1>4. Carried'
  BY <1>1, <1>3 DEF Carried, Alone
<1>5. stores[Key(e)] \in Stores
  BY <1>1, StoreOf DEF TypeOK, Present
<1>6. TypeOK'
  BY <1>1, <1>5 DEF TypeOK, Given
<1>7. Present' /\ Origins'
  BY <1>1 DEF TypeOK, Present, Origins, Key
<1> QED
  BY <1>1, <1>4, <1>6, <1>7 DEF Given

\* Only a facade with wires gets past the validator.
LEMMA ValidateInv ==
  ASSUME Inv, NEW e \in Executors, Validate(e)
  PROVE  Inv'
<1> USE DEF Inv
<1>1. UNCHANGED <<scope, schema, stores, holder, facade, anode>> /\ pc[e] = "configured"
  BY DEF Validate
<1>2. \/ \E store \in Seen(e) :
           pc' = [pc EXCEPT ![e] = IF store \in Geometries THEN "validated" ELSE "failed"]
      \/ pc' = [pc EXCEPT ![e] = "failed"]
  BY DEF Validate, Goto
<1>3. TypeOK'
  BY <1>1, <1>2 DEF TypeOK
<1>4. Carried'
  <2> SUFFICES ASSUME NEW f \in Executors, Alone(f) PROVE CarriedFor(f)'
    BY <1>1 DEF Carried, Alone
  <2>1. CASE f = e
    <3>1. Seen(e) = {facade[Key(e)]}
      BY <2>1, SeenAlone
    <3> QED
      BY <1>1, <1>2, <2>1, <3>1
      DEF TypeOK, Carried, CarriedFor, Key, Registered, Configured, Validated
  <2>2. CASE f # e
    BY <1>1, <1>2, <2>2 DEF TypeOK, Carried, CarriedFor, Key
  <2> QED
    BY <2>1, <2>2
<1>5. Present' /\ Origins'
  BY <1>1, <1>2 DEF TypeOK, Present, Origins, Key
<1> QED
  BY <1>1, <1>3, <1>4, <1>5 DEF Given

\* The anode plane takes what the facade then holds.
LEMMA AnodeInv ==
  ASSUME Inv, NEW e \in Executors, ConfigureAnode(e)
  PROVE  Inv'
<1> USE DEF Inv
<1>1. /\ UNCHANGED <<scope, schema, stores, holder, facade>>
      /\ pc[e] = "validated" /\ pc' = [pc EXCEPT ![e] = "ready"]
  BY DEF ConfigureAnode, Goto
<1>2. PICK store \in Seen(e) : anode' = [anode EXCEPT ![e] = store]
  BY DEF ConfigureAnode
<1>3. store \in Stores
  <2>1. Key(e) \in Scopes
    BY DEF Key, Given
  <2> QED
    BY <2>1 DEF Seen, TypeOK
<1>4. TypeOK'
  BY <1>1, <1>2, <1>3 DEF TypeOK
<1>5. Carried'
  <2> SUFFICES ASSUME NEW f \in Executors, Alone(f) PROVE CarriedFor(f)'
    BY <1>1 DEF Carried, Alone
  <2>1. CASE f = e
    <3>1. Seen(e) = {facade[Key(e)]}
      BY <2>1, SeenAlone
    <3> QED
      BY <1>1, <1>2, <2>1, <3>1
      DEF TypeOK, Carried, CarriedFor, Key, Registered, Configured, Validated
  <2>2. CASE f # e
    BY <1>1, <1>2, <2>2 DEF TypeOK, Carried, CarriedFor, Key
  <2> QED
    BY <2>1, <2>2
<1>6. Present' /\ Origins'
  BY <1>1 DEF TypeOK, Present, Origins, Key
<1> QED
  BY <1>1, <1>4, <1>5, <1>6 DEF Given

\* No step of any executor breaks the invariant.
LEMMA NextInv == Inv /\ [Next]_vars => Inv'
<1> SUFFICES ASSUME Inv, [Next]_vars PROVE Inv'
  OBVIOUS
<1>1. ASSUME NEW e \in Executors, RegisterStore(e) \/ Initialize(e) PROVE Inv'
  BY <1>1, RegisterInv, BeginInv, EndInv, ValidateInv, AnodeInv DEF Initialize
<1>2. CASE UNCHANGED vars
  BY <1>2 DEF Inv, TypeOK, Given, Present, Carried, CarriedFor, Origins, Alone, Key, vars
<1> QED
  BY <1>1, <1>2 DEF Next

-----------------------------------------------------------------------------
\* Types, and that the registry is copied only by the holder of the lock.
THEOREM GeometryTypes == Spec => []TypeOK
<1>1. Inv => TypeOK
  BY DEF Inv
<1> QED
  BY <1>1, InitInv, NextInv, PTL DEF Spec

\* A graph whose scope is its executor's own runs on that executor's geometry.
THEOREM OwnGeometry == Spec => []RunsOnOwnGeometry
<1>1. Inv => RunsOnOwnGeometry
  BY DEF Inv, Carried, CarriedFor, Key, RunsOnOwnGeometry, Validated
<1> QED
  BY <1>1, InitInv, NextInv, PTL DEF Spec
=============================================================================
