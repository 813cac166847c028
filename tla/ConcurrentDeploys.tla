------------------------- MODULE ConcurrentDeploys -------------------------
(***************************************************************************)
(* Deploys of one application that run at the same time (an operator and   *)
(* CI), as far as they write services: each service's Secret, the pruning  *)
(* of its keys, its workload, and the sweeps at the end.                   *)
(***************************************************************************)
EXTENDS KubeWrites, FiniteSets

CONSTANTS
    Services,
    Configs,    \* service |-> its secret entries, partial
    MaxFaults   \* bound on requests that fail and status updates

Secret(s) == <<"secret", s>>
Workload(s) == <<"workload", s>>

ASSUME ObjectsAssumption ==
    /\ Objects = {Secret(s) : s \in Services} \cup {Workload(s) : s \in Services}
    /\ \A f \in Configs : DOMAIN f \subseteq Services /\ \A s \in DOMAIN f : f[s] \in Atomic!Data
    /\ Services # {} /\ Absent \notin Atomic!Data
    /\ MaxFaults \in Nat

VARIABLES
    cfg,        \* client |-> the nvoi.yaml it read
    step,       \* client |-> where its deploy is
    left,       \* client |-> services still to apply
    service,    \* client |-> the service it applies
    doomed,     \* client |-> keys to prune, or objects to sweep
    faults,     \* so far
    unpruned    \* <<Secret, key>> whose removal lost against another write

deploys == <<cfg, step, left, service, doomed>>
mishaps == <<faults, unpruned>>
allvars == <<vars, deploys, mishaps>>

Ended == {"succeeded", "failed"}

----------------------------------------------------------------------------
\* What a deploy of f leaves.
Deployed(f) ==
    [o \in Objects |->
        IF o[2] \notin DOMAIN f \/ (o[1] = "secret" /\ f[o[2]] = <<>>) THEN Absent
        ELSE f[o[2]]]

DeploysInit ==
    /\ \E f \in Configs \cup {<<>>} : store = Deployed(f)
    /\ version = [o \in Objects |-> 0]
    /\ call = [c \in Clients |-> <<"delete", CHOOSE o \in Objects : TRUE, "-">>]
    /\ phase = [c \in Clients |-> "idle"]
    /\ seen = [c \in Clients |-> Absent]
    /\ seenAt = [c \in Clients |-> 0]
    /\ tries = [c \in Clients |-> 0]
    /\ cfg \in [Clients -> Configs]
    /\ step = [c \in Clients |-> "next"]
    /\ left = [c \in Clients |-> DOMAIN cfg[c]]
    /\ service = [c \in Clients |-> CHOOSE s \in Services : TRUE]
    /\ doomed = [c \in Clients |-> {}]
    /\ faults = 0
    /\ unpruned = {}

Goto(c, next) == step' = [step EXCEPT ![c] = next]
Desired(c) == cfg[c][service[c]]

\* upsertServiceSecrets: no entries, no Secret.
UpsertSecret(c, s) ==
    /\ step[c] = "next" /\ ~ InFlight(c) /\ s \in left[c]
    /\ Start(c, IF cfg[c][s] = <<>> THEN <<"delete", Secret(s), "-">>
                ELSE <<"ensure", Secret(s), cfg[c][s]>>)
    /\ Goto(c, "secret")
    /\ service' = [service EXCEPT ![c] = s]
    /\ UNCHANGED <<cfg, left, doomed, mishaps>>

\* The keys nobody declares are listed, unless the Secret was deleted.
ListKeys(c) ==
    /\ step[c] = "secret" /\ phase[c] = "done"
    /\ LET d == store[Secret(service[c])]
       IN doomed' = [doomed EXCEPT ![c] =
              IF Desired(c) = <<>> \/ d = Absent THEN {}
              ELSE DOMAIN d \ DOMAIN Desired(c)]
    /\ Goto(c, "prune")
    /\ UNCHANGED <<vars, cfg, left, service, mishaps>>

\* An error of a removal is ignored, here and before.
PruneKey(c, k) ==
    /\ step[c] = "prune" /\ ~ InFlight(c) /\ k \in doomed[c]
    /\ Start(c, <<"prune", Secret(service[c]), k>>)
    /\ doomed' = [doomed EXCEPT ![c] = @ \ {k}]
    /\ UNCHANGED <<cfg, step, left, service, mishaps>>

\* The workload refers to the declared entries.
ApplyWorkload(c) ==
    /\ step[c] = "prune" /\ ~ InFlight(c) /\ doomed[c] = {}
    /\ Start(c, <<"apply", Workload(service[c]), Desired(c)>>)
    /\ Goto(c, "workload")
    /\ UNCHANGED <<cfg, left, service, doomed, mishaps>>

WorkloadApplied(c) ==
    /\ step[c] = "workload" /\ phase[c] = "done"
    /\ left' = [left EXCEPT ![c] = @ \ {service[c]}]
    /\ Goto(c, "next")
    /\ UNCHANGED <<vars, cfg, service, doomed, mishaps>>

StepFails(c) ==
    /\ step[c] \in {"secret", "workload"} /\ phase[c] = "failed"
    /\ Goto(c, "failed")
    /\ UNCHANGED <<vars, cfg, left, service, doomed, mishaps>>

\* SweepOwned: what is listed and not declared is deleted by name; the first
\* error ends the sweep of a kind with a warning.
Listed(c, kind) ==
    {o \in Objects : o[1] = kind /\ o[2] \notin DOMAIN cfg[c] /\ store[o] # Absent}

SweepWorkloads(c) ==
    /\ step[c] = "next" /\ left[c] = {}
    /\ doomed' = [doomed EXCEPT ![c] = Listed(c, "workload")]
    /\ Goto(c, "sweep")
    /\ UNCHANGED <<vars, cfg, left, service, mishaps>>

SweepDeletes(c, o) ==
    /\ step[c] \in {"sweep", "sweep secrets"} /\ ~ InFlight(c) /\ o \in doomed[c]
    /\ Start(c, <<"delete", o, "-">>)
    /\ doomed' = [doomed EXCEPT ![c] = @ \ {o}]
    /\ UNCHANGED <<cfg, step, left, service, mishaps>>

SweepOver(c) == ~ InFlight(c) /\ (doomed[c] = {} \/ phase[c] = "failed")

\* Mutant: names of Secrets are looked for among names of services.
SweepByServiceName(c) ==
    /\ step[c] = "sweep" /\ SweepOver(c)
    /\ doomed' = [doomed EXCEPT ![c] = {Secret(s) : s \in {t \in Services : store[Secret(t)] # Absent}}]
    /\ Goto(c, "sweep secrets")
    /\ UNCHANGED <<vars, cfg, left, service, mishaps>>

SweepSecrets(c) ==
    /\ step[c] = "sweep" /\ SweepOver(c)
    /\ doomed' = [doomed EXCEPT ![c] = Listed(c, "secret")]
    /\ Goto(c, "sweep secrets")
    /\ UNCHANGED <<vars, cfg, left, service, mishaps>>

Succeeds(c) ==
    /\ step[c] = "sweep secrets" /\ SweepOver(c)
    /\ Goto(c, "succeeded")
    /\ UNCHANGED <<vars, cfg, left, service, doomed, mishaps>>

\* The process ends between two requests.
Stops(c) ==
    /\ step[c] \notin Ended /\ ~ InFlight(c)
    /\ faults < MaxFaults /\ faults' = faults + 1
    /\ Goto(c, "failed")
    /\ UNCHANGED <<vars, cfg, left, service, doomed, unpruned>>

\* Nobody is told of a key that stays because of a conflict.
LosesConflict(c) ==
    /\ Rejected(c)
    /\ unpruned' = IF Op(call[c]) = "prune"
                   THEN unpruned \cup {<<Target(call[c]), Arg(call[c])>>} ELSE unpruned

Requests ==
    /\ UNCHANGED deploys
    /\ \/ \E c \in Clients : (Read(c) \/ Write(c, "done")) /\ UNCHANGED mishaps
       \/ \E c \in Clients : LosesConflict(c) /\ UNCHANGED faults
       \/ /\ faults < MaxFaults /\ faults' = faults + 1
          /\ \/ \E c \in Clients : RequestFails(c) \/ Write(c, "failed")
             \/ \E s \in Services : StatusWritten(Workload(s))
          /\ UNCHANGED unpruned

DeploysNext ==
    \/ \E c \in Clients :
          \/ \E s \in Services : UpsertSecret(c, s)
          \/ ListKeys(c)
          \/ \E k \in Keys : PruneKey(c, k)
          \/ ApplyWorkload(c) \/ WorkloadApplied(c) \/ StepFails(c)
          \/ SweepWorkloads(c) \/ SweepSecrets(c)
          \/ \E o \in Objects : SweepDeletes(c, o)
          \/ Succeeds(c) \/ Stops(c)
    \/ Requests

DeploysSpec == DeploysInit /\ [][DeploysNext]_allvars

----------------------------------------------------------------------------
(***************************************************************************)
(* Whatever two deploys do to each other, what both declare stays: a       *)
(* deploy that has succeeded finds its services, and in their Secrets the  *)
(* entries every other deploy declares too, however those go on or end.    *)
(***************************************************************************)
DeclaredByAll(s) == \A c \in Clients : s \in DOMAIN cfg[c]
KeysOfAll(s) == {k \in Keys : \A c \in Clients : k \in DOMAIN cfg[c][s]}

CommonSurvives ==
    \A c \in Clients : step[c] = "succeeded" =>
        \A s \in {t \in Services : DeclaredByAll(t)} :
            /\ store[Workload(s)] # Absent
            /\ KeysOfAll(s) # {} =>
                  store[Secret(s)] # Absent /\ KeysOfAll(s) \subseteq DOMAIN store[Secret(s)]

(***************************************************************************)
(* Two deploys of the same nvoi.yaml that both succeed, with no request    *)
(* lost, leave what it declares: the entries, the workloads that refer to  *)
(* them, no service of before, and no key of before but one whose removal  *)
(* lost against a write of the other deploy.                               *)
(***************************************************************************)
SameFile == \A c, d \in Clients : cfg[c] = cfg[d]

WithoutKeys(d, K) == [k \in DOMAIN d \ K |-> d[k]]

Converged(f) ==
    \A s \in Services :
        /\ store[Workload(s)] = IF s \in DOMAIN f THEN f[s] ELSE Absent
        /\ IF s \notin DOMAIN f \/ f[s] = <<>> THEN store[Secret(s)] = Absent
           ELSE /\ store[Secret(s)] # Absent
                /\ LET stale == {k \in Keys \ DOMAIN f[s] : <<Secret(s), k>> \in unpruned}
                   IN WithoutKeys(store[Secret(s)], stale) = f[s]

TwinsConverge ==
    (SameFile /\ faults = 0 /\ \A c \in Clients : step[c] = "succeeded")
        => \A c \in Clients : Converged(cfg[c])
============================================================================
