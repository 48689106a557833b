---------------------------- MODULE WireGeometry -----------------------------
(***************************************************************************)
(* FacadeWireSchema: wire geometry from a data product to components that  *)
(* take it when they are configured.  An executor deposits the product in  *)
(* a static registry under its scope; then its graph is initialized, which *)
(* configures, in this order, the facade (copies from the registry), a     *)
(* WireSchemaValidator and an anode plane, which both read the facade.     *)
(*                                                                         *)
(* The source file is kept and not built: executors now initialize when    *)
(* they are constructed, and the design it was made for did so at the      *)
(* first event, after the registration.  An executor here initializes at   *)
(* any time, with its geometry registered or without.                      *)
(***************************************************************************)
EXTENDS FiniteSets

CONSTANTS Executors,
          Scopes,      \* the names executors may have
          Geometries,  \* stores with wires
          NoWires,     \* a store without wires
          NullStore,   \* a default-constructed store
          Nobody       \* not an executor

Stores == Geometries \cup {NoWires, NullStore}

ASSUME GeometryAssumption == Nobody \notin Executors

VARIABLES scope,   \* [Executors -> Scopes]
          schema,  \* [Executors -> Stores]: the product an executor is called with
          stores,  \* s_stores: [registered scopes -> Stores]
          holder,  \* who holds s_mutex
          facade,  \* [Scopes -> Stores]: m_store of the component of that name
          anode,   \* [Executors -> Stores]: the geometry its anode plane has
          pc       \* [Executors -> the last thing that was done for it]

vars == <<scope, schema, stores, holder, facade, anode, pc>>

Init ==
  /\ scope \in [Executors -> Scopes]
  /\ schema \in [Executors -> Stores]
  /\ stores = << >>
  /\ holder = Nobody
  /\ facade = [s \in Scopes |-> NullStore]
  /\ anode = [e \in Executors |-> NullStore]
  /\ pc = [e \in Executors |-> "made"]

Goto(e, stage) == pc' = [pc EXCEPT ![e] = stage]

\* Variant: one name for the facades of all sub-graphs, whatever the scope.
KeyFixed(e) == CHOOSE s \in Scopes : TRUE

\* The key of the registry, and the name of the facade: the executor's scope.
Key(e) == scope[e]

-----------------------------------------------------------------------------
\* The first call of the executor, with the geometry beside the event's data.
RegisterStore(e) ==
  /\ pc[e] = "made"
  /\ holder = Nobody
  /\ stores' = [s \in DOMAIN stores \cup {Key(e)} |-> IF s = Key(e) THEN schema[e] ELSE stores[s]]
  /\ Goto(e, "registered")
  /\ UNCHANGED <<scope, schema, holder, facade, anode>>

\* initialize() comes once, whether or not the executor has registered anything.
InitializeNow(e) == pc[e] \in {"made", "registered"}

\* Variant: configure() does not lock.
BeginConfigureUnlocked(e) ==
  /\ InitializeNow(e)
  /\ Goto(e, IF Key(e) \in DOMAIN stores THEN "copying" ELSE "failed")
  /\ UNCHANGED <<scope, schema, stores, holder, facade, anode>>

\* FacadeWireSchema::configure locks and looks its scope up, or throws (and unlocks).
BeginConfigure(e) ==
  /\ InitializeNow(e)
  /\ holder = Nobody
  /\ IF Key(e) \in DOMAIN stores
     THEN holder' = e /\ Goto(e, "copying")
     ELSE Goto(e, "failed") /\ UNCHANGED holder
  /\ UNCHANGED <<scope, schema, stores, facade, anode>>

\* Variant: the lock is not given back.
EndConfigureLocked(e) ==
  /\ pc[e] = "copying"
  /\ facade' = [facade EXCEPT ![Key(e)] = stores[Key(e)]]
  /\ Goto(e, "configured")
  /\ UNCHANGED <<scope, schema, stores, holder, anode>>

\* It copies the store and unlocks.
EndConfigure(e) ==
  /\ pc[e] = "copying"
  /\ facade' = [facade EXCEPT ![Key(e)] = stores[Key(e)]]
  /\ holder' = Nobody
  /\ Goto(e, "configured")
  /\ UNCHANGED <<scope, schema, stores, anode>>

\* wire_schema_store() hands out a reference and does not lock: while another
\* executor's initialization writes the same component, a reader may see anything.
Seen(e) == IF \E f \in Executors \ {e} : pc[f] = "copying" /\ Key(f) = Key(e)
           THEN Stores ELSE {facade[Key(e)]}

\* WireSchemaValidator::configure throws if the facade has no wires, and if its own
\* configuration names no component; to ask a null store for its wires ends the
\* process.
Validate(e) ==
  /\ pc[e] = "configured"
  /\ \/ \E store \in Seen(e) : Goto(e, IF store \in Geometries THEN "validated" ELSE "failed")
     \/ Goto(e, "failed")
  /\ UNCHANGED <<scope, schema, stores, holder, facade, anode>>

\* AnodePlane::configure takes its geometry once and for all.
ConfigureAnode(e) ==
  /\ pc[e] = "validated"
  /\ \E store \in Seen(e) : anode' = [anode EXCEPT ![e] = store]
  /\ Goto(e, "ready")
  /\ UNCHANGED <<scope, schema, stores, holder, facade>>

Initialize(e) == BeginConfigure(e) \/ EndConfigure(e) \/ Validate(e) \/ ConfigureAnode(e)

Next == \E e \in Executors : RegisterStore(e) \/ Initialize(e)

\* An initialization that began goes on; no executor need be called.
Spec == Init /\ [][Next]_vars /\ \A e \in Executors : WF_vars(Initialize(e))

-----------------------------------------------------------------------------
(* Properties.                                                             *)

\* The registry is copied by one executor at a time, the one that holds the lock.
TypeOK ==
  /\ stores \in UNION {[registered -> Stores] : registered \in SUBSET Scopes}
  /\ facade \in [Scopes -> Stores]
  /\ anode \in [Executors -> Stores]
  /\ pc \in [Executors -> {"made", "registered", "copying", "configured", "validated",
                           "ready", "failed"}]
  /\ \A e \in Executors : pc[e] = "copying" <=> holder = e

Alone(e) == \A f \in Executors \ {e} : scope[f] # scope[e]

\* Whatever other executors register and configure meanwhile, a graph whose scope
\* is its executor's own is initialized with the geometry that executor was given,
\* and not at all if that has no wires.
RunsOnOwnGeometry ==
  \A e \in Executors : Alone(e) =>
    /\ pc[e] = "ready" => anode[e] = schema[e]
    /\ pc[e] \in {"validated", "ready"} => schema[e] \in Geometries

\* An initialization that began ends, ready or failed: the lock is never kept.
InitializationsEnd ==
  \A e \in Executors : pc[e] = "registered" ~> pc[e] \in {"ready", "failed"}
=============================================================================
