------------------------------ MODULE Rollout ------------------------------
(***************************************************************************)
(* The services of a deploy are applied one after the other, in the order  *)
(* of ServiceOrder, and after each one WaitRollout polls its pods.  The    *)
(* workload controllers and the kubelet work at their own pace: they are   *)
(* external, as BuildService sets them up.                                 *)
(***************************************************************************)
EXTENDS ServiceOrder, TLC

CONSTANTS
    Deployed,       \* the graphs whose deploy is followed to its end
    Setups,         \* service |-> what a service may be, see SetupType
    MaxRestarts     \* bound: crashes of one pod

VARIABLES
    setup,      \* what each service is, was, and shall run
    template,   \* pod template the cluster holds: "old" or "new"
    pods,       \* pods of each service, by name
    phase,      \* "order", "apply", "wait", "settle", "passed" or "failed"
    at,         \* place in order of the service being deployed
    seen,       \* initialRestarts of WaitRollout
    why         \* the error the deploy ended with

cluster_vars == <<template, pods>>
wait_vars == <<phase, at, seen, why>>
rollout_vars == <<order_vars, setup, cluster_vars, wait_vars>>

Images == {"good", "crashing", "missing"}
SetupType == [kind: {"deployment", "statefulset"}, replicas: 1..2,
              image: Images \cup {"same"}, old: Images \cup {"none"},
              health: BOOLEAN]

ASSUME SetupsAssumption ==
    /\ \A n \in ToSet(Names) : Setups[n] # {} /\ Setups[n] \subseteq SetupType
    /\ MaxRestarts \in Nat

Pod(rev, state) == [rev |-> rev, state |-> state, restarts |-> 0]
OldPods(s) ==
    IF s.old = "none" THEN <<>>
    ELSE [i \in 1..s.replicas |->
             Pod("old", IF s.old = "missing" THEN "stuck" ELSE "ready")]

\* A graph that is not followed to its end needs one setup only.
RolloutInit ==
    /\ OrderInit
    /\ setup \in IF deps \in Deployed
                 THEN {f \in [Declared -> UNION {Setups[n] : n \in Declared}] :
                          \A n \in Declared : f[n] \in Setups[n]}
                 ELSE {[n \in Declared |-> CHOOSE s \in Setups[n] : TRUE]}
    /\ template = [n \in Declared |-> "old"]
    /\ pods = [n \in Declared |-> OldPods(setup[n])]
    /\ phase = "order" /\ at = 1 /\ seen = <<>> /\ why = "none"

Service == order[at]
Image(n, rev) == IF rev = "old" THEN setup[n].old ELSE setup[n].image
PodsIn(n, states) == {p \in DOMAIN pods[n] : pods[n][p].state \in states}
PodsOf(n, rev) == {p \in DOMAIN pods[n] : pods[n][p].rev = rev}

----------------------------------------------------------------------------
\* The deploy: Services and WaitRollout.
Begin ==
    /\ phase = "order" /\ stage = "sorted" /\ deps \in Deployed
    /\ phase' = "apply"
    /\ UNCHANGED <<order_vars, setup, cluster_vars, at, seen, why>>

\* The pods are replaced only when their template changes.
Apply ==
    /\ phase = "apply" /\ at <= Len(order)
    /\ template' = IF setup[Service].image = "same" THEN template
                   ELSE [template EXCEPT ![Service] = "new"]
    /\ phase' = "wait"
    /\ seen' = <<>>
    /\ UNCHANGED <<order_vars, setup, pods, at, why>>

\* Mutant: the error is not returned.
FailsQuietly(reason) ==
    /\ phase' = "failed"
    /\ UNCHANGED <<order_vars, setup, cluster_vars, at, why>>

Fails(reason) ==
    /\ phase' = "failed"
    /\ why' = reason
    /\ UNCHANGED <<order_vars, setup, cluster_vars, at>>

Passes ==
    /\ phase' = "apply"
    /\ at' = at + 1
    /\ UNCHANGED <<order_vars, setup, cluster_vars, why>>

Unreachable ==
    /\ phase \in {"apply", "settle"} /\ at <= Len(order)
    /\ Fails("unreachable")
    /\ UNCHANGED seen

\* A poll that finds no pods, or no API server, is no step: it changes nothing.
\* Mutant: no pods are all ready.
ListedOrNone == phase = "wait"

Listed == phase = "wait" /\ DOMAIN pods[Service] # {}

Track == seen' = seen @@ [p \in DOMAIN pods[Service] |-> pods[Service][p].restarts]

\* Mutant: a container that is being created is taken for a failed one.
HardFailWaiting(n) == PodsIn(n, {"stuck", "starting"}) # {}

HardFail(n) == PodsIn(n, {"stuck"}) # {}
AllReady(n) == PodsIn(n, {"ready"}) = DOMAIN pods[n]

\* Mutant: an unrecoverable service is passed with a warning.
PollWarns ==
    /\ Listed /\ HardFail(Service)
    /\ Track /\ Passes

PollFails ==
    /\ Listed /\ HardFail(Service)
    /\ Track /\ Fails("hard")

PollWaits ==
    /\ Listed /\ ~ HardFail(Service) /\ ~ AllReady(Service)
    /\ Track
    /\ UNCHANGED <<order_vars, setup, cluster_vars, phase, at, why>>

PollReady ==
    /\ Listed /\ AllReady(Service)
    /\ Track
    /\ \/ setup[Service].health /\ Passes
       \/ /\ ~ setup[Service].health
          /\ phase' = "settle"
          /\ UNCHANGED <<order_vars, setup, cluster_vars, at, why>>

TimesOut ==
    /\ phase = "wait"
    /\ Fails("timeout") /\ UNCHANGED seen

\* verifyStability: pods that were not there before are not compared.
Crashed ==
    \E p \in DOMAIN pods[Service] \cap DOMAIN seen :
        pods[Service][p].restarts > seen[p]

StabilityFails ==
    /\ phase = "settle" /\ (Crashed \/ HardFail(Service))
    /\ Fails("crashed") /\ UNCHANGED seen

StabilityHolds ==
    /\ phase = "settle" /\ ~ Crashed /\ ~ HardFail(Service)
    /\ Passes /\ UNCHANGED seen

AllPassed ==
    /\ phase = "apply" /\ at > Len(order)
    /\ phase' = "passed"
    /\ UNCHANGED <<order_vars, setup, cluster_vars, at, seen, why>>

----------------------------------------------------------------------------
\* The cluster, as BuildService asks: a Deployment surges by one and is never
\* short of a pod; a StatefulSet replaces its one pod in place.
SetPods(n, f) ==
    /\ pods' = [pods EXCEPT ![n] = f]
    /\ UNCHANGED <<order_vars, setup, template, wait_vars>>

CreatePod(n) ==
    /\ template[n] = "new"
    /\ \E name \in 1..(2 * setup[n].replicas) \ DOMAIN pods[n] :
        /\ IF setup[n].kind = "statefulset"
           THEN name = 1 /\ DOMAIN pods[n] = {}
           ELSE /\ name > setup[n].replicas
                /\ Cardinality(DOMAIN pods[n]) <= setup[n].replicas
        /\ SetPods(n, [p \in DOMAIN pods[n] \cup {name} |->
                          IF p = name THEN Pod("new", "starting") ELSE pods[n][p]])

Ready(n) == Cardinality(PodsIn(n, {"ready"}))
Removable(n, p) ==
    IF setup[n].kind = "statefulset" THEN pods[n][p].state = "ready"
    ELSE \/ Ready(n) > setup[n].replicas
         \/ /\ pods[n][p].state # "ready"
            /\ Cardinality(DOMAIN pods[n])
                 > setup[n].replicas + Cardinality(PodsOf(n, "new") \ PodsIn(n, {"ready"}))

RemovePod(n) ==
    /\ template[n] = "new"
    /\ \E p \in PodsOf(n, "old") :
        /\ Removable(n, p)
        /\ SetPods(n, [q \in DOMAIN pods[n] \ {p} |-> pods[n][q]])

StartPod(n) ==
    \E p \in PodsIn(n, {"starting", "down"}) :
        SetPods(n, [pods[n] EXCEPT ![p].state =
                       IF Image(n, pods[n][p].rev) = "missing" THEN "stuck" ELSE "ready"])

CrashPod(n) ==
    \E p \in PodsIn(n, {"ready"}) :
        /\ Image(n, pods[n][p].rev) = "crashing"
        /\ pods[n][p].restarts < MaxRestarts
        /\ SetPods(n, [pods[n] EXCEPT ![p].state = "down", ![p].restarts = @ + 1])

Orders == OrderNext /\ UNCHANGED <<setup, cluster_vars, wait_vars>>

RolloutNext ==
    \/ Orders \/ Begin \/ Apply \/ Unreachable \/ AllPassed
    \/ PollFails \/ PollWaits \/ PollReady \/ TimesOut
    \/ StabilityFails \/ StabilityHolds
    \/ \E n \in Declared : CreatePod(n) \/ RemovePod(n) \/ StartPod(n) \/ CrashPod(n)

\* The deploy goes on by itself and polls until it ends; controllers and the
\* kubelet do what they are there for.  No crash and no failed call is owed.
RolloutSpec ==
    /\ RolloutInit /\ [][RolloutNext]_rollout_vars
    /\ WF_rollout_vars(Orders \/ Begin \/ Apply \/ AllPassed)
    /\ WF_rollout_vars(PollFails \/ PollReady \/ StabilityFails \/ StabilityHolds)
    /\ \A n \in ToSet(Names) :
        WF_rollout_vars(n \in Declared /\ (CreatePod(n) \/ RemovePod(n) \/ StartPod(n)))
----------------------------------------------------------------------------
\* The variables keep their shapes (the type invariant of the two modules).
TypeOK ==
    /\ deps \in Graphs
    /\ stage \in {"validate", "search", "sort", "sorted", "rejected"}
    /\ color \in [Declared -> {"white", "gray", "black"}]
    /\ inDegree \in [Declared -> Nat]
    /\ ToSet(order) \cup ready \subseteq Declared
    /\ setup \in [Declared -> SetupType]
    /\ template \in [Declared -> {"old", "new"}]
    /\ \A n \in Declared : \A p \in DOMAIN pods[n] :
        pods[n][p] \in [rev: {"old", "new"}, restarts: 0..MaxRestarts,
                       state: {"starting", "ready", "down", "stuck"}]
    /\ phase \in {"order", "apply", "wait", "settle", "passed", "failed"}
    /\ at \in 1..(Cardinality(Declared) + 1)
    /\ why \in {"none", "unreachable", "hard", "timeout", "crashed"}
    /\ (phase = "failed") <=> (why # "none")

\* What the deploy asks for works, and so did what it replaces.
Steady(n) ==
    /\ setup[n].image \in {"good", "same"}
    /\ setup[n].old \in {"good", "none"}

InPlace(n) == setup[n].kind = "statefulset" /\ setup[n].old # "none"
Starting(n) == \E p \in PodsOf(n, "new") : pods[n][p].state = "starting"
Serves(n) == PodsIn(n, {"ready"}) # {}

(***************************************************************************)
(* services.go:25: no pod of this deploy starts while one of its service's *)
(* dependencies is not there to answer; for dependencies whose pods are    *)
(* not replaced in place.                                                  *)
(***************************************************************************)
DependenciesServe ==
    \A n \in Declared : Starting(n) =>
        \A dep \in ToSet(deps[n]) : Steady(dep) /\ ~ InPlace(dep) => Serves(dep)

(***************************************************************************)
(* rollout.go:66: a new service whose image cannot be fetched is never     *)
(* passed, nor anything that depends on it applied, however the polls and  *)
(* the cluster interleave.                                                 *)
(***************************************************************************)
MissingImagesStop ==
    \A i \in 1..Len(order) :
        setup[order[i]].image = "missing" /\ setup[order[i]].old = "none" =>
            /\ at <= i
            /\ \A n \in Declared : order[i] \in ToSet(deps[n]) => template[n] = "old"

(***************************************************************************)
(* rollout.go:66-77: a deploy of services that work, over services that    *)
(* worked, goes through unless its time runs out or a call fails: no       *)
(* state on the way is taken for an unrecoverable one, and no wait is for  *)
(* something that will not come.                                           *)
(***************************************************************************)
GoodDeploysSucceed ==
    (deps \in Deployed /\ \A n \in Declared : Steady(n)) =>
        <>(phase = "passed" \/ why \in {"timeout", "unreachable"} \/ stage = "rejected")
=============================================================================
