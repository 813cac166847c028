------------------------------ MODULE MCInfra ------------------------------
(* Three servers, one volume, three versions of nvoi.yaml. *)
EXTENDS InfraProperties, TLC

CONSTANTS m, w, b, d

MCServers == {m, w, b}
MCVolumes == {d}

\* A master alone, behind Caddy; a worker and a rule of its own; a builder,
\* and the volume moved to the worker.
Alone == [role |-> (m :> "master"), volume |-> (d :> m), web |-> TRUE, custom |-> FALSE]
Pair == [role |-> (m :> "master" @@ w :> "worker"), volume |-> (d :> m),
         web |-> FALSE, custom |-> TRUE]
Crew == [role |-> (m :> "master" @@ w :> "worker" @@ b :> "builder"), volume |-> (d :> w),
         web |-> FALSE, custom |-> FALSE]
MCConfigs == {Alone, Pair, Crew}
============================================================================
