------------------------------ MODULE MCIslands ------------------------------
(***************************************************************************)
(* Jobs for Islands: every sub-graph alone, and pairs that share names of  *)
(* components or, by service_prefix or anode, do not.                      *)
(***************************************************************************)
EXTENDS Islands, TLC

Apa0   == Scope("", "apa0")
Apa1   == Scope("", "apa1")
Drift0 == Scope("drift_", "apa0")

Alone == {"img" :> ImgBlobs(Apa0), "img" :> ImgSolve(Apa0), "img" :> ImgDepoFill(Apa0),
          "simsp" :> SimSigproc(Apa0), "fanin" :> FrameFanin(3)}

DriftAndSim == {"drift" :> Drift(Drift0) @@ "sim" :> Sim(Apa0)}

\* The first two share a component or a service, the last two do not.
Pairs == {"a" :> DepoSetToFrame @@ "b" :> DepoSetToFrame,
          "drift" :> Drift(Apa0) @@ "sim" :> Drift(Apa0),
          "a" :> Drift(Apa0) @@ "b" :> Drift(Apa1)}

\* After two frames without slices the third call meets depositions of another.
MCMaxCalls == [e \in Names |-> IF e = "img" THEN 3 ELSE 2]

MCJobs == Alone \cup Pairs \cup DriftAndSim

\* The jobs are such as the theorem about NoResidue asks for.
ASSUME ClusteringsAreOwn == \A j \in MCJobs : OwnClusterings(j)

\* And the graphs such as the theorem about ResultIsOwn asks for.
ASSUME GraphsAreWhole == \A j \in MCJobs : \A e \in DOMAIN j : Whole(j[e])
=============================================================================
