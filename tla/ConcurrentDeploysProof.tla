----------------------- MODULE ConcurrentDeploysProof -----------------------
(***************************************************************************)
(* Deploys that run at the same time, any number of them, over any         *)
(* services and configurations: each of their requests is a step of        *)
(* KubeWrites, what all declare survives, and twins converge.              *)
(***************************************************************************)
EXTENDS ConcurrentDeploys, KubeWritesProof

Places == {"next", "secret", "prune", "workload", "sweep", "sweep secrets",
           "succeeded", "failed"}

Shape ==
    /\ cfg \in [Clients -> Configs]
    /\ step \in [Clients -> Places]
    /\ left \in [Clients -> SUBSET Services]
    /\ service \in [Clients -> Services]
    /\ doomed \in [Clients -> SUBSET (Keys \cup Objects)]
    /\ faults \in Nat
    /\ \A c \in Clients : left[c] \subseteq DOMAIN cfg[c]

\* Objects of services this deploy does not declare.
Foreign(c) == {o \in Objects : o[2] \notin DOMAIN cfg[c]}

SecretCall(c) ==
    IF Desired(c) = <<>> THEN <<"delete", Secret(service[c]), "-">>
    ELSE <<"ensure", Secret(service[c]), Desired(c)>>

\* Where a deploy is tells which call it makes, and what it may still remove.
Doing(c) ==
    /\ step[c] \in {"secret", "prune", "workload"} => service[c] \in left[c]
    /\ step[c] \in {"sweep", "sweep secrets", "succeeded"} => left[c] = {}
    /\ step[c] \in {"succeeded", "failed"} => ~ InFlight(c)
    /\ step[c] = "next" => phase[c] \in {"idle", "done"}
    /\ step[c] = "secret" => call[c] = SecretCall(c)
    /\ step[c] = "prune" =>
          /\ doomed[c] \subseteq Keys \ DOMAIN Desired(c)
          /\ Desired(c) = <<>> => doomed[c] = {}
          /\ InFlight(c) =>
                /\ Desired(c) # <<>>
                /\ \E k \in Keys \ DOMAIN Desired(c) : call[c] = <<"prune", Secret(service[c]), k>>
    /\ step[c] = "workload" => call[c] = <<"apply", Workload(service[c]), Desired(c)>>
    /\ step[c] \in {"sweep", "sweep secrets"} =>
          /\ doomed[c] \subseteq Foreign(c)
          /\ InFlight(c) => \E o \in Foreign(c) : call[c] = <<"delete", o, "-">>

Base == TypeOK /\ SeenIsCurrent /\ Shape /\ \A c \in Clients : Doing(c)

----------------------------------------------------------------------------
(***************************************************************************)
(* Objects and configurations.                                             *)
(***************************************************************************)
LEMMA ObjectFacts ==
    /\ \A s \in Services : Secret(s) \in Objects /\ Workload(s) \in Objects
    /\ \A s, t : Secret(s) # Workload(t) /\ Secret(s)[2] = s /\ Workload(s)[2] = s
    /\ \A s, t : (Secret(s) = Secret(t) => s = t) /\ (Workload(s) = Workload(t) => s = t)
  BY ObjectsAssumption DEF Secret, Workload

LEMMA CfgFacts ==
    ASSUME Shape, NEW c \in Clients, NEW s \in DOMAIN cfg[c]
    PROVE  /\ s \in Services /\ cfg[c][s] \in Atomic!Data
           /\ DOMAIN cfg[c][s] \subseteq Keys /\ cfg[c][s] # Absent
  <1>1. cfg[c] \in Configs
    BY DEF Shape
  <1>2. s \in Services /\ cfg[c][s] \in Atomic!Data
    BY <1>1, ObjectsAssumption
  <1>3. DOMAIN cfg[c][s] \subseteq Keys
    BY <1>2 DEF Atomic!Data
  <1>. QED
    BY <1>2, <1>3, ObjectsAssumption

----------------------------------------------------------------------------
(***************************************************************************)
(* What a deploy does by itself, and what its requests do.                 *)
(***************************************************************************)
Own(c) ==
    \/ \E s \in Services : UpsertSecret(c, s)
    \/ ListKeys(c)
    \/ \E k \in Keys : PruneKey(c, k)
    \/ ApplyWorkload(c) \/ WorkloadApplied(c) \/ StepFails(c)
    \/ SweepWorkloads(c) \/ SweepSecrets(c)
    \/ \E o \in Objects : SweepDeletes(c, o)
    \/ Succeeds(c) \/ Stops(c)

LEMMA InitBase == DeploysInit => Init /\ Base
  <1>. SUFFICES ASSUME DeploysInit PROVE Init /\ Base
    OBVIOUS
  <1>. USE DEF DeploysInit
  <1>1. store \in [Objects -> Atomic!States]
    <2>1. PICK f \in Configs \cup {<<>>} : store = Deployed(f)
      OBVIOUS
    <2>2. \A o \in Objects : o[2] \in DOMAIN f => f[o[2]] \in Atomic!Data
      <3>1. CASE f \in Configs
        BY <3>1, ObjectsAssumption
      <3>2. CASE f = <<>>
        BY <3>2
      <3>. QED
        BY <3>1, <3>2
    <2>. QED
      BY <2>1, <2>2 DEF Deployed, Atomic!States
  <1>2. (CHOOSE o \in Objects : TRUE) \in Objects /\ (CHOOSE s \in Services : TRUE) \in Services
    BY ObjectFacts, ObjectsAssumption
  <1>3. call \in [Clients -> Calls]
    BY <1>2 DEF Calls, Atomic!Calls
  <1>4. Init
    BY <1>1, <1>3 DEF Init
  <1>5. TypeOK /\ SeenIsCurrent
    BY <1>4, InitTypes, InitSeen
  <1>6. Shape
    <2>1. \A c \in Clients : DOMAIN cfg[c] \subseteq Services
      BY ObjectsAssumption
    <2>. QED
      BY <1>2, <2>1 DEF Shape, Places
  <1>7. \A c \in Clients : Doing(c)
    BY DEF Doing, InFlight
  <1>. QED
    BY <1>4, <1>5, <1>6, <1>7 DEF Base

\* Each call a deploy makes is one of KubeWrites.
LEMMA OwnCalls ==
    ASSUME Base, NEW c \in Clients, Own(c)
    PROVE  (\E x \in Calls : Start(c, x)) \/ UNCHANGED vars
  <1>1. Shape /\ Doing(c) /\ service[c] \in Services /\ left[c] \subseteq DOMAIN cfg[c]
    BY DEF Base, Shape
  <1>2. \A o \in Objects : <<"delete", o, "-">> \in Calls
    BY DEF Calls, Atomic!Calls
  <1>3. ASSUME NEW s \in Services, UpsertSecret(c, s)
        PROVE  \E x \in Calls : Start(c, x)
    <2>1. s \in DOMAIN cfg[c]
      BY <1>1, <1>3 DEF UpsertSecret
    <2>2. <<"ensure", Secret(s), cfg[c][s]>> \in Calls
      BY <1>1, <2>1, CfgFacts, ObjectFacts DEF Calls, Atomic!Calls
    <2>3. <<"delete", Secret(s), "-">> \in Calls
      BY <1>2, ObjectFacts
    <2>. QED
      BY <1>3, <2>2, <2>3 DEF UpsertSecret
  <1>4. ASSUME NEW k \in Keys, PruneKey(c, k)
        PROVE  \E x \in Calls : Start(c, x)
    <2>1. <<"prune", Secret(service[c]), k>> \in Calls
      BY <1>1, ObjectFacts DEF Calls, Atomic!Calls
    <2>. QED
      BY <1>4, <2>1 DEF PruneKey
  <1>5. ASSUME ApplyWorkload(c)
        PROVE  \E x \in Calls : Start(c, x)
    <2>1. service[c] \in DOMAIN cfg[c]
      BY <1>1, <1>5 DEF ApplyWorkload, Doing
    <2>2. <<"apply", Workload(service[c]), Desired(c)>> \in Calls
      BY <1>1, <2>1, CfgFacts, ObjectFacts DEF Calls, Atomic!Calls, Desired
    <2>. QED
      BY <1>5, <2>2 DEF ApplyWorkload
  <1>6. ASSUME NEW o \in Objects, SweepDeletes(c, o)
        PROVE  \E x \in Calls : Start(c, x)
    BY <1>2, <1>6 DEF SweepDeletes
  <1>7. ASSUME \/ ListKeys(c) \/ WorkloadApplied(c) \/ StepFails(c) \/ SweepWorkloads(c)
               \/ SweepSecrets(c) \/ Succeeds(c) \/ Stops(c)
        PROVE  UNCHANGED vars
    BY <1>7 DEF ListKeys, WorkloadApplied, StepFails, SweepWorkloads, SweepSecrets, Succeeds, Stops
  <1>. QED
    BY <1>3, <1>4, <1>5, <1>6, <1>7 DEF Own

LEMMA StepsAreCalls == Base /\ [DeploysNext]_allvars => [Next]_vars
  <1>. SUFFICES ASSUME Base, [DeploysNext]_allvars PROVE [Next]_vars
    OBVIOUS
  <1>1. CASE \E c \in Clients : Own(c)
    BY <1>1, OwnCalls DEF Next
  <1>2. CASE Requests
    <2>1. \A s \in Services : Workload(s) \in Objects
      BY ObjectFacts
    <2>. QED
      BY <1>2, <2>1 DEF Requests, LosesConflict, Next
  <1>3. CASE UNCHANGED allvars
    BY <1>3 DEF allvars
  <1>. QED
    BY <1>1, <1>2, <1>3 DEF DeploysNext, Own

LEMMA ShapeKeeps == Base /\ [DeploysNext]_allvars => Shape'
  <1>. SUFFICES ASSUME Base, [DeploysNext]_allvars PROVE Shape'
    OBVIOUS
  <1>0. Shape /\ TypeOK /\ \A c \in Clients : Doing(c)
    BY DEF Base
  <1>a. faults \in Nat
    BY <1>0 DEF Shape
  <1>. USE DEF Shape, Places, Goto, deploys, mishaps
  <1>1. ASSUME NEW c \in Clients, NEW s \in Services, UpsertSecret(c, s)
        PROVE  Shape'
    BY <1>0, <1>1 DEF UpsertSecret
  <1>2. ASSUME NEW c \in Clients, ListKeys(c)
        PROVE  Shape'
    <2>1. store[Secret(service[c])] = Absent \/ DOMAIN store[Secret(service[c])] \subseteq Keys
      <3>1. store[Secret(service[c])] \in Atomic!States
        BY <1>0, ObjectFacts DEF TypeOK
      <3>. QED
        BY <3>1 DEF Atomic!States, Atomic!Data
    <2>. QED
      BY <1>0, <1>2, <2>1 DEF ListKeys
  <1>3. ASSUME NEW c \in Clients, NEW k \in Keys, PruneKey(c, k)
        PROVE  Shape'
    BY <1>0, <1>3 DEF PruneKey
  <1>4. ASSUME NEW c \in Clients, ApplyWorkload(c)
        PROVE  Shape'
    BY <1>0, <1>4 DEF ApplyWorkload
  <1>5. ASSUME NEW c \in Clients, WorkloadApplied(c)
        PROVE  Shape'
    BY <1>0, <1>5 DEF WorkloadApplied
  <1>6. ASSUME NEW c \in Clients, StepFails(c) \/ Succeeds(c) \/ Stops(c)
        PROVE  Shape'
    <2>1. UNCHANGED <<cfg, left, service, doomed>>
      BY <1>6 DEF StepFails, Succeeds, Stops
    <2>2. step' = [step EXCEPT ![c] = "failed"] \/ step' = [step EXCEPT ![c] = "succeeded"]
      BY <1>6 DEF StepFails, Succeeds, Stops
    <2>3. faults' = faults \/ faults' = faults + 1
      BY <1>6 DEF StepFails, Succeeds, Stops
    <2>4. faults' \in Nat
      BY <1>a, <2>3
    <2>. QED
      BY <1>0, <2>1, <2>2, <2>4
  <1>7. ASSUME NEW c \in Clients, SweepWorkloads(c) \/ SweepSecrets(c)
        PROVE  Shape'
    BY <1>0, <1>7 DEF SweepWorkloads, SweepSecrets, Listed
  <1>8. ASSUME NEW c \in Clients, NEW o \in Objects, SweepDeletes(c, o)
        PROVE  Shape'
    BY <1>0, <1>8 DEF SweepDeletes
  <1>9. ASSUME Requests
        PROVE  Shape'
    <2>1. UNCHANGED <<cfg, step, left, service, doomed>>
      BY <1>9 DEF Requests
    <2>2. faults' = faults \/ faults' = faults + 1
      BY <1>9 DEF Requests
    <2>3. faults' \in Nat
      BY <1>a, <2>2
    <2>. QED
      BY <1>0, <2>1, <2>3
  <1>10. CASE UNCHANGED allvars
    BY <1>0, <1>10 DEF allvars
  <1>. QED
    BY <1>1, <1>2, <1>3, <1>4, <1>5, <1>6, <1>7, <1>8, <1>9, <1>10 DEF DeploysNext

\* A deploy of which a step changes nothing.
Same(d) ==
    /\ cfg'[d] = cfg[d] /\ step'[d] = step[d] /\ left'[d] = left[d]
    /\ service'[d] = service[d] /\ doomed'[d] = doomed[d]
    /\ call'[d] = call[d] /\ phase'[d] = phase[d]

LEMMA OwnFrame ==
    ASSUME Base, NEW c \in Clients, Own(c)
    PROVE  /\ UNCHANGED <<store, unpruned, cfg>>
           /\ faults' = 0 => faults = 0
           /\ \A d \in Clients \ {c} : Same(d)
  <1>0. Shape /\ TypeOK
    BY DEF Base
  <1>. USE DEF Shape, Goto, vars, mishaps, Same, TypeOK, Start
  <1>1. ASSUME NEW s \in Services, UpsertSecret(c, s)
        PROVE  UNCHANGED <<store, unpruned, faults, cfg>> /\ \A d \in Clients \ {c} : Same(d)
    BY <1>0, <1>1 DEF UpsertSecret
  <1>2. ASSUME ListKeys(c) \/ WorkloadApplied(c) \/ StepFails(c) \/ Succeeds(c)
        PROVE  UNCHANGED <<store, unpruned, faults, cfg>> /\ \A d \in Clients \ {c} : Same(d)
    BY <1>0, <1>2 DEF ListKeys, WorkloadApplied, StepFails, Succeeds
  <1>3. ASSUME NEW k \in Keys, PruneKey(c, k)
        PROVE  UNCHANGED <<store, unpruned, faults, cfg>> /\ \A d \in Clients \ {c} : Same(d)
    BY <1>0, <1>3 DEF PruneKey
  <1>4. ASSUME ApplyWorkload(c)
        PROVE  UNCHANGED <<store, unpruned, faults, cfg>> /\ \A d \in Clients \ {c} : Same(d)
    BY <1>0, <1>4 DEF ApplyWorkload
  <1>5. ASSUME SweepWorkloads(c) \/ SweepSecrets(c)
        PROVE  UNCHANGED <<store, unpruned, faults, cfg>> /\ \A d \in Clients \ {c} : Same(d)
    BY <1>0, <1>5 DEF SweepWorkloads, SweepSecrets
  <1>6. ASSUME NEW o \in Objects, SweepDeletes(c, o)
        PROVE  UNCHANGED <<store, unpruned, faults, cfg>> /\ \A d \in Clients \ {c} : Same(d)
    BY <1>0, <1>6 DEF SweepDeletes
  <1>7. ASSUME Stops(c)
        PROVE  /\ UNCHANGED <<store, unpruned, cfg>> /\ faults' = faults + 1
               /\ \A d \in Clients \ {c} : Same(d)
    BY <1>0, <1>7 DEF Stops
  <1>8. faults \in Nat
    BY <1>0
  <1>. QED
    BY <1>1, <1>2, <1>3, <1>4, <1>5, <1>6, <1>7, <1>8 DEF Own

\* A request that ends changes nothing but its phase, and the store.
LEMMA RequestFrame ==
    ASSUME Base, Requests
    PROVE  /\ UNCHANGED <<cfg, step, left, service, doomed, call>>
           /\ faults' = 0 => faults = 0
           /\ unpruned \subseteq unpruned'
           /\ \A d \in Clients : ~ InFlight(d) => phase'[d] = phase[d]
  <1>0. Shape /\ TypeOK
    BY DEF Base
  <1>. USE DEF deploys, TypeOK, InFlight, Shape, mishaps
  <1>1. UNCHANGED <<cfg, step, left, service, doomed>>
    BY DEF Requests
  <1>2. ASSUME NEW c \in Clients, (Read(c) \/ Write(c, "done")) /\ UNCHANGED mishaps
        PROVE  /\ UNCHANGED <<call, faults, unpruned>>
               /\ \A d \in Clients : ~ InFlight(d) => phase'[d] = phase[d]
    BY <1>0, <1>2 DEF Read, Write
  <1>3. ASSUME NEW c \in Clients, LosesConflict(c) /\ UNCHANGED faults
        PROVE  /\ UNCHANGED <<call, faults>> /\ unpruned \subseteq unpruned'
               /\ \A d \in Clients : ~ InFlight(d) => phase'[d] = phase[d]
    BY <1>0, <1>3 DEF LosesConflict, Rejected
  <1>4. ASSUME faults' = faults + 1, UNCHANGED unpruned,
               \/ \E c \in Clients : RequestFails(c) \/ Write(c, "failed")
               \/ \E s \in Services : StatusWritten(Workload(s))
        PROVE  /\ UNCHANGED call /\ faults' # 0
               /\ \A d \in Clients : ~ InFlight(d) => phase'[d] = phase[d]
    <2>1. faults' # 0
      BY <1>0, <1>4
    <2>2. ASSUME NEW c \in Clients, RequestFails(c) \/ Write(c, "failed")
          PROVE  UNCHANGED call /\ \A d \in Clients : ~ InFlight(d) => phase'[d] = phase[d]
      BY <1>0, <2>2 DEF RequestFails, Write
    <2>3. ASSUME NEW s \in Services, StatusWritten(Workload(s))
          PROVE  UNCHANGED call /\ \A d \in Clients : ~ InFlight(d) => phase'[d] = phase[d]
      BY <1>0, <2>3 DEF StatusWritten
    <2>. QED
      BY <1>4, <2>1, <2>2, <2>3
  <1>. QED
    BY <1>1, <1>2, <1>3, <1>4 DEF Requests

LEMMA DoingKeeps == Base /\ [DeploysNext]_allvars => \A c \in Clients : Doing(c)'
  <1>. SUFFICES ASSUME Base, [DeploysNext]_allvars, NEW d \in Clients PROVE Doing(d)'
    OBVIOUS
  <1>0. Shape /\ TypeOK /\ Doing(d)
    BY DEF Base
  <1>1. ASSUME Same(d)
        PROVE  Doing(d)'
    BY <1>0, <1>1 DEF Same, Doing, InFlight, Desired, Foreign, SecretCall
  <1>2. ASSUME Requests
        PROVE  Doing(d)'
    <2>1. /\ UNCHANGED <<cfg, step, left, service, doomed, call>>
          /\ ~ InFlight(d) => phase'[d] = phase[d]
      BY <1>2, RequestFrame
    <2>2. InFlight(d)' => InFlight(d)
      BY <2>1 DEF InFlight
    <2>3. Desired(d)' = Desired(d) /\ Foreign(d)' = Foreign(d) /\ SecretCall(d)' = SecretCall(d)
      BY <2>1 DEF Desired, Foreign, SecretCall
    <2>4. step[d] = "next" => phase'[d] = phase[d]
      BY <1>0, <2>1 DEF Doing, InFlight
    <2>. QED
      BY <1>0, <2>1, <2>2, <2>3, <2>4 DEF Doing
  <1>3. ASSUME Own(d)
        PROVE  Doing(d)'
    <2>a. cfg' = cfg
      BY <1>3, OwnFrame
    <2>b. d \in DOMAIN call /\ d \in DOMAIN phase
      BY <1>0 DEF TypeOK
    <2>0. /\ service[d] \in Services /\ left[d] \subseteq DOMAIN cfg[d] /\ cfg' = cfg
          /\ d \in DOMAIN step /\ d \in DOMAIN left /\ d \in DOMAIN service /\ d \in DOMAIN doomed
          /\ d \in DOMAIN call /\ d \in DOMAIN phase
      BY <1>0, <2>a, <2>b DEF Shape
    <2>1. ASSUME NEW s \in Services, UpsertSecret(d, s)
          PROVE  Doing(d)'
      <3>1. /\ step'[d] = "secret" /\ service'[d] = s /\ s \in left[d] /\ left' = left
            /\ call'[d] = IF cfg[d][s] = <<>> THEN <<"delete", Secret(s), "-">>
                          ELSE <<"ensure", Secret(s), cfg[d][s]>>
        BY <2>0, <2>1 DEF UpsertSecret, Goto, Start
      <3>. QED
        BY <2>0, <3>1 DEF Doing, SecretCall, Desired
    <2>2. ASSUME ListKeys(d)
          PROVE  Doing(d)'
      <3>0. Secret(service[d]) \in Objects
        BY <2>0, ObjectFacts
      <3>1. store[Secret(service[d])] = Absent \/ DOMAIN store[Secret(service[d])] \subseteq Keys
        <4>1. store[Secret(service[d])] \in Atomic!States
          BY <1>0, <3>0 DEF TypeOK
        <4>. QED
          BY <4>1 DEF Atomic!States, Atomic!Data
      <3>2. /\ step'[d] = "prune" /\ step[d] = "secret" /\ UNCHANGED <<left, service, phase>>
            /\ phase[d] = "done"
            /\ doomed'[d] = IF Desired(d) = <<>> \/ store[Secret(service[d])] = Absent THEN {}
                            ELSE DOMAIN store[Secret(service[d])] \ DOMAIN Desired(d)
        BY <2>0, <2>2 DEF ListKeys, Goto, vars
      <3>3. service[d] \in left[d]
        BY <1>0, <3>2 DEF Doing
      <3>4. doomed'[d] \subseteq Keys \ DOMAIN Desired(d) /\ (Desired(d) = <<>> => doomed'[d] = {})
        BY <3>1, <3>2
      <3>. QED
        BY <2>0, <3>2, <3>3, <3>4 DEF Doing, InFlight, Desired
    <2>3. ASSUME NEW k \in Keys, PruneKey(d, k)
          PROVE  Doing(d)'
      <3>1. /\ step'[d] = "prune" /\ step[d] = "prune" /\ UNCHANGED <<left, service>>
            /\ k \in doomed[d] /\ doomed'[d] = doomed[d] \ {k}
            /\ call'[d] = <<"prune", Secret(service[d]), k>>
        BY <2>0, <2>3 DEF PruneKey, Start
      <3>2. /\ service[d] \in left[d] /\ doomed[d] \subseteq Keys \ DOMAIN Desired(d)
            /\ Desired(d) # <<>>
        BY <1>0, <3>1 DEF Doing
      <3>. QED
        BY <2>0, <3>1, <3>2 DEF Doing, Desired
    <2>4. ASSUME ApplyWorkload(d)
          PROVE  Doing(d)'
      <3>1. /\ step'[d] = "workload" /\ step[d] = "prune" /\ UNCHANGED <<left, service>>
            /\ call'[d] = <<"apply", Workload(service[d]), Desired(d)>>
        BY <2>0, <2>4 DEF ApplyWorkload, Start, Goto
      <3>. QED
        BY <1>0, <2>0, <3>1 DEF Doing, Desired
    <2>5. ASSUME WorkloadApplied(d)
          PROVE  Doing(d)'
      <3>1. step'[d] = "next" /\ phase'[d] = "done"
        BY <2>0, <2>5 DEF WorkloadApplied, Goto, vars
      <3>. QED
        BY <3>1 DEF Doing, InFlight
    <2>6. ASSUME StepFails(d) \/ Stops(d)
          PROVE  Doing(d)'
      <3>1. step'[d] = "failed" /\ ~ InFlight(d)'
        BY <2>0, <2>6 DEF StepFails, Stops, Goto, vars, InFlight
      <3>. QED
        BY <3>1 DEF Doing
    <2>7. ASSUME SweepWorkloads(d) \/ SweepSecrets(d)
          PROVE  Doing(d)'
      <3>1. /\ step'[d] \in {"sweep", "sweep secrets"} /\ UNCHANGED <<left, phase>>
            /\ left[d] = {} /\ ~ InFlight(d)
            /\ doomed'[d] \in {Listed(d, "workload"), Listed(d, "secret")}
        BY <1>0, <2>0, <2>7
        DEF SweepWorkloads, SweepSecrets, SweepOver, Goto, vars, Doing, InFlight
      <3>2. doomed'[d] \subseteq Foreign(d)
        BY <3>1 DEF Listed, Foreign
      <3>. QED
        BY <2>0, <3>1, <3>2 DEF Doing, Foreign, InFlight
    <2>8. ASSUME NEW o \in Objects, SweepDeletes(d, o)
          PROVE  Doing(d)'
      <3>1. /\ step'[d] \in {"sweep", "sweep secrets"} /\ step' = step /\ UNCHANGED left
            /\ o \in doomed[d] /\ doomed'[d] = doomed[d] \ {o}
            /\ call'[d] = <<"delete", o, "-">>
        BY <2>0, <2>8 DEF SweepDeletes, Start
      <3>2. left[d] = {} /\ doomed[d] \subseteq Foreign(d)
        BY <1>0, <3>1 DEF Doing
      <3>. QED
        BY <2>0, <3>1, <3>2 DEF Doing, Foreign
    <2>9. ASSUME Succeeds(d)
          PROVE  Doing(d)'
      <3>1. /\ step'[d] = "succeeded" /\ step[d] = "sweep secrets" /\ UNCHANGED <<left, phase>>
            /\ ~ InFlight(d)
        BY <2>0, <2>9 DEF Succeeds, SweepOver, Goto, vars
      <3>. QED
        BY <1>0, <3>1 DEF Doing, InFlight
    <2>. QED
      BY <1>3, <2>1, <2>2, <2>3, <2>4, <2>5, <2>6, <2>7, <2>8, <2>9 DEF Own
  <1>4. ASSUME NEW c \in Clients, c # d, Own(c)
        PROVE  Doing(d)'
    BY <1>1, <1>4, OwnFrame
  <1>5. CASE UNCHANGED allvars
    BY <1>1, <1>5 DEF allvars, vars, deploys, Same
  <1>. QED
    BY <1>2, <1>3, <1>4, <1>5 DEF DeploysNext, Own

LEMMA BaseKeeps == Base /\ [DeploysNext]_allvars => Base'
  BY StepsAreCalls, StepTypes, StepSeen, ShapeKeeps, DoingKeeps DEF Base

LEMMA BaseAlways == DeploysSpec => []Base
  BY InitBase, BaseKeeps, PTL DEF DeploysSpec

----------------------------------------------------------------------------
(***************************************************************************)
(* What a write does to the store.                                         *)
(***************************************************************************)
LEMMA RequestStores ==
    ASSUME Base, Requests
    PROVE  \/ UNCHANGED store
           \/ \E e \in Clients, answer \in {"done", "failed"} : Write(e, answer)
  BY DEF Requests, Read, LosesConflict, Rejected, RequestFails, StatusWritten

LEMMA WriteForms ==
    ASSUME Base, NEW e \in Clients, NEW answer \in {"done", "failed"}, Write(e, answer)
    PROVE  \/ \E s \in DOMAIN cfg[e] :
                 /\ cfg[e][s] = <<>>
                 /\ call[e] = <<"delete", Secret(s), "-">>
                 /\ store' = [store EXCEPT ![Secret(s)] = Absent]
           \/ \E s \in DOMAIN cfg[e] :
                 /\ cfg[e][s] # <<>>
                 /\ call[e] = <<"ensure", Secret(s), cfg[e][s]>>
                 /\ store' = [store EXCEPT ![Secret(s)] =
                                 IF store[Secret(s)] = Absent THEN cfg[e][s]
                                 ELSE Atomic!Merge(store[Secret(s)], cfg[e][s])]
           \/ \E s \in DOMAIN cfg[e] : \E k \in Keys \ DOMAIN cfg[e][s] :
                 /\ cfg[e][s] # <<>> /\ store[Secret(s)] # Absent
                 /\ call[e] = <<"prune", Secret(s), k>>
                 /\ store' = [store EXCEPT ![Secret(s)] = Atomic!Without(store[Secret(s)], k)]
           \/ \E s \in DOMAIN cfg[e] :
                 /\ call[e] = <<"apply", Workload(s), cfg[e][s]>>
                 /\ store' = [store EXCEPT ![Workload(s)] = cfg[e][s]]
           \/ \E o \in Foreign(e) :
                 /\ call[e] = <<"delete", o, "-">>
                 /\ store' = [store EXCEPT ![o] = Absent]
  <1>0. Shape /\ TypeOK /\ SeenIsCurrent /\ Doing(e)
    BY DEF Base
  <1>1. /\ phase[e] = "writing" /\ Accepted(e) /\ InFlight(e)
        /\ store' = [store EXCEPT ![Target(call[e])] =
                        IF Op(call[e]) = "delete" THEN Absent
                        ELSE Atomic!Effect(call[e], seen[e])]
    BY DEF Write, InFlight
  <1>2. Op(call[e]) # "delete" => /\ seen[e] = store[Target(call[e])]
                                  /\ ~ NothingToWrite(call[e], seen[e])
    BY <1>0, <1>1 DEF Accepted, Carries, SeenIsCurrent
  <1>3. step[e] \in {"secret", "prune", "workload", "sweep", "sweep secrets"}
    BY <1>0, <1>1 DEF Shape, Places, Doing, InFlight
  <1>4. step[e] \in {"secret", "prune", "workload"} =>
          service[e] \in DOMAIN cfg[e] /\ Desired(e) = cfg[e][service[e]]
    BY <1>0 DEF Shape, Doing, Desired
  <1>. USE DEF Op, Target, Arg, Atomic!Op, Atomic!Target, Atomic!Arg
  <1>5. CASE step[e] = "secret" /\ Desired(e) = <<>>
    <2>1. call[e] = <<"delete", Secret(service[e]), "-">>
      BY <1>0, <1>5 DEF Doing, SecretCall
    <2>2. Op(call[e]) = "delete" /\ Target(call[e]) = Secret(service[e])
      BY <2>1
    <2>3. store' = [store EXCEPT ![Secret(service[e])] = Absent]
      BY <1>1, <2>2
    <2>. QED
      BY <1>4, <1>5, <2>1, <2>3
  <1>6. CASE step[e] = "secret" /\ Desired(e) # <<>>
    <2>1. call[e] = <<"ensure", Secret(service[e]), Desired(e)>>
      BY <1>0, <1>6 DEF Doing, SecretCall
    <2>2. store' = [store EXCEPT ![Secret(service[e])] =
                      IF store[Secret(service[e])] = Absent THEN Desired(e)
                      ELSE Atomic!Merge(store[Secret(service[e])], Desired(e))]
      <3>1. /\ Op(call[e]) = "ensure" /\ Target(call[e]) = Secret(service[e])
            /\ Arg(call[e]) = Desired(e)
        BY <2>1
      <3>2. seen[e] = store[Secret(service[e])]
        BY <1>2, <3>1
      <3>3. Atomic!Effect(call[e], seen[e]) =
              IF store[Secret(service[e])] = Absent THEN Desired(e)
              ELSE Atomic!Merge(store[Secret(service[e])], Desired(e))
        BY <3>1, <3>2 DEF Atomic!Effect
      <3>. QED
        BY <1>1, <3>1, <3>3
    <2>. QED
      BY <1>4, <1>6, <2>1, <2>2
  <1>7. CASE step[e] = "prune"
    <2>1. PICK k \in Keys \ DOMAIN Desired(e) : call[e] = <<"prune", Secret(service[e]), k>>
      BY <1>0, <1>1, <1>7 DEF Doing
    <2>2. Desired(e) # <<>>
      BY <1>0, <1>1, <1>7 DEF Doing
    <2>3. store[Secret(service[e])] # Absent /\ seen[e] = store[Secret(service[e])]
      BY <1>2, <2>1 DEF NothingToWrite
    <2>4. store' = [store EXCEPT ![Secret(service[e])] =
                      Atomic!Without(store[Secret(service[e])], k)]
      BY <1>1, <2>1, <2>3 DEF Atomic!Effect
    <2>. QED
      BY <1>4, <1>7, <2>1, <2>2, <2>3, <2>4
  <1>8. CASE step[e] = "workload"
    <2>1. call[e] = <<"apply", Workload(service[e]), Desired(e)>>
      BY <1>0, <1>8 DEF Doing
    <2>2. store' = [store EXCEPT ![Workload(service[e])] = Desired(e)]
      BY <1>1, <2>1 DEF Atomic!Effect
    <2>. QED
      BY <1>4, <1>8, <2>1, <2>2
  <1>9. CASE step[e] \in {"sweep", "sweep secrets"}
    <2>1. PICK o \in Foreign(e) : call[e] = <<"delete", o, "-">>
      BY <1>0, <1>1, <1>9 DEF Doing
    <2>2. Op(call[e]) = "delete" /\ Target(call[e]) = o
      BY <2>1
    <2>3. store' = [store EXCEPT ![o] = Absent]
      BY <1>1, <2>2
    <2>. QED
      BY <2>1, <2>3
  <1>. QED
    BY <1>3, <1>5, <1>6, <1>7, <1>8, <1>9

\* A call is done with the write that is accepted, or with nothing to write.
LEMMA Finishes ==
    ASSUME Base, Requests, NEW d \in Clients, InFlight(d), ~ InFlight(d)'
    PROVE  \/ Write(d, "done")
           \/ Read(d) /\ Op(call[d]) \in {"prune", "create"}
                      /\ NothingToWrite(call[d], store[Target(call[d])])
           \/ phase'[d] = "failed" /\ LosesConflict(d)
           \/ phase'[d] = "failed" /\ faults' # 0
  <1>0. TypeOK /\ faults \in Nat
    BY DEF Base, Shape
  <1>1. ASSUME NEW c \in Clients, Read(c)
        PROVE  Read(d) /\ Op(call[d]) \in {"prune", "create"}
                       /\ NothingToWrite(call[d], store[Target(call[d])])
    <2>1. c = d
      BY <1>0, <1>1 DEF Read, InFlight, TypeOK
    <2>2. NothingToWrite(call[d], store[Target(call[d])])
      BY <1>0, <1>1, <2>1 DEF Read, InFlight, TypeOK
    <2>. QED
      BY <1>1, <2>1, <2>2 DEF NothingToWrite
  <1>2. ASSUME NEW c \in Clients, NEW answer \in {"done", "failed"}, Write(c, answer)
        PROVE  c = d /\ phase'[d] = answer
    BY <1>0, <1>2 DEF Write, InFlight, TypeOK
  <1>3. ASSUME NEW c \in Clients, LosesConflict(c)
        PROVE  c = d /\ phase'[d] = "failed"
    BY <1>0, <1>3 DEF LosesConflict, Rejected, InFlight, TypeOK
  <1>4. ASSUME NEW c \in Clients, RequestFails(c)
        PROVE  phase'[d] = "failed"
    BY <1>0, <1>4 DEF RequestFails, InFlight, TypeOK
  <1>5. ASSUME NEW s \in Services, StatusWritten(Workload(s))
        PROVE  FALSE
    BY <1>5 DEF StatusWritten, InFlight
  <1>6. faults' = faults + 1 => faults' # 0
    BY <1>0
  <1>. QED
    BY <1>1, <1>2, <1>3, <1>4, <1>5, <1>6 DEF Requests

----------------------------------------------------------------------------
(***************************************************************************)
(* How far a deploy is with a service.                                     *)
(***************************************************************************)
\* How far a deploy is with a service it declares.
AppliedBy(c, s) ==
    /\ s \in DOMAIN cfg[c]
    /\ \/ s \notin left[c]
       \/ service[c] = s /\ step[c] = "workload" /\ phase[c] = "done"
ListedBy(c, s) ==
    /\ s \in DOMAIN cfg[c]
    /\ s \notin left[c] \/ (service[c] = s /\ step[c] \in {"prune", "workload"})
EnsuredBy(c, s) ==
    \/ ListedBy(c, s)
    \/ s \in DOMAIN cfg[c] /\ service[c] = s /\ step[c] = "secret" /\ phase[c] = "done"


LEMMA OwnReach ==
    ASSUME Base, NEW c \in Clients, Own(c), NEW s
    PROVE  /\ AppliedBy(c, s)' => AppliedBy(c, s)
           /\ EnsuredBy(c, s)' => EnsuredBy(c, s)
           /\ ListedBy(c, s)' => ListedBy(c, s) \/ (ListKeys(c) /\ service[c] = s)
  <1>0. Shape /\ TypeOK
    BY DEF Base
  <1>a. cfg' = cfg
    BY OwnFrame
  <1>1. /\ c \in DOMAIN step /\ c \in DOMAIN left /\ c \in DOMAIN service
        /\ c \in DOMAIN call /\ c \in DOMAIN phase
    BY <1>0 DEF Shape, TypeOK
  <1>2. ASSUME NEW t \in Services, UpsertSecret(c, t)
        PROVE  step'[c] = "secret" /\ left' = left /\ phase'[c] # "done"
    BY <1>1, <1>2 DEF UpsertSecret, Goto, Start
  <1>3. ASSUME ListKeys(c)
        PROVE  /\ step'[c] = "prune" /\ UNCHANGED <<left, phase, service>>
               /\ step[c] = "secret" /\ phase[c] = "done"
    BY <1>1, <1>3 DEF ListKeys, Goto, vars
  <1>4. ASSUME NEW k \in Keys, PruneKey(c, k)
        PROVE  step[c] = "prune" /\ UNCHANGED <<step, left, service>>
    BY <1>4 DEF PruneKey
  <1>5. ASSUME ApplyWorkload(c)
        PROVE  /\ step[c] = "prune" /\ step'[c] = "workload" /\ UNCHANGED <<left, service>>
               /\ phase'[c] # "done"
    BY <1>1, <1>5 DEF ApplyWorkload, Goto, Start, Op, Atomic!Op
  <1>6. ASSUME WorkloadApplied(c)
        PROVE  /\ step[c] = "workload" /\ phase[c] = "done" /\ step'[c] = "next"
               /\ left'[c] = left[c] \ {service[c]} /\ UNCHANGED service
    BY <1>1, <1>6 DEF WorkloadApplied, Goto
  <1>7. ASSUME \/ StepFails(c) \/ SweepWorkloads(c) \/ SweepSecrets(c)
               \/ Succeeds(c) \/ Stops(c)
        PROVE  step'[c] \in {"failed", "sweep", "sweep secrets", "succeeded"} /\ left' = left
    BY <1>1, <1>7 DEF StepFails, SweepWorkloads, SweepSecrets, Succeeds, Stops, Goto
  <1>8. ASSUME NEW o \in Objects, SweepDeletes(c, o)
        PROVE  step'[c] \in {"sweep", "sweep secrets"} /\ left' = left
    BY <1>1, <1>8 DEF SweepDeletes
  <1>. QED
    BY <1>a, <1>2, <1>3, <1>4, <1>5, <1>6, <1>7, <1>8 DEF Own, AppliedBy, EnsuredBy, ListedBy

LEMMA RequestReach ==
    ASSUME Base, Requests, NEW c \in Clients, NEW s
    PROVE  /\ AppliedBy(c, s)' => \/ AppliedBy(c, s)
                                  \/ /\ s \in DOMAIN cfg[c] /\ Write(c, "done")
                                     /\ call[c] = <<"apply", Workload(s), cfg[c][s]>>
           /\ EnsuredBy(c, s)' => \/ EnsuredBy(c, s)
                                  \/ /\ s \in DOMAIN cfg[c] /\ Write(c, "done")
                                     /\ call[c] = IF cfg[c][s] = <<>>
                                                  THEN <<"delete", Secret(s), "-">>
                                                  ELSE <<"ensure", Secret(s), cfg[c][s]>>
           /\ ListedBy(c, s)' = ListedBy(c, s)
  <1>0. /\ UNCHANGED <<cfg, step, left, service, doomed, call>>
        /\ ~ InFlight(c) => phase'[c] = phase[c]
    BY RequestFrame
  <1>1. Doing(c) /\ Shape
    BY DEF Base
  <1>2. ListedBy(c, s)' = ListedBy(c, s)
    BY <1>0 DEF ListedBy
  <1>. USE DEF Op, Target, Arg, Atomic!Op, Atomic!Target, Atomic!Arg
  <1>3. ASSUME AppliedBy(c, s)', ~ AppliedBy(c, s)
        PROVE  /\ s \in DOMAIN cfg[c] /\ Write(c, "done")
               /\ call[c] = <<"apply", Workload(s), cfg[c][s]>>
    <2>1. /\ s \in DOMAIN cfg[c] /\ service[c] = s /\ step[c] = "workload"
          /\ phase'[c] = "done" /\ phase[c] # "done"
      BY <1>0, <1>3 DEF AppliedBy
    <2>2. call[c] = <<"apply", Workload(s), cfg[c][s]>>
      BY <1>1, <2>1 DEF Doing, Desired
    <2>3. InFlight(c) /\ ~ InFlight(c)'
      BY <1>0, <2>1 DEF InFlight
    <2>4. Write(c, "done")
      BY <2>1, <2>2, <2>3, Finishes
    <2>. QED
      BY <2>1, <2>2, <2>4
  <1>4. ASSUME EnsuredBy(c, s)', ~ EnsuredBy(c, s)
        PROVE  /\ s \in DOMAIN cfg[c] /\ Write(c, "done")
               /\ call[c] = IF cfg[c][s] = <<>> THEN <<"delete", Secret(s), "-">>
                            ELSE <<"ensure", Secret(s), cfg[c][s]>>
    <2>1. /\ s \in DOMAIN cfg[c] /\ service[c] = s /\ step[c] = "secret"
          /\ phase'[c] = "done" /\ phase[c] # "done"
      BY <1>0, <1>2, <1>4 DEF EnsuredBy
    <2>2. call[c] = IF cfg[c][s] = <<>> THEN <<"delete", Secret(s), "-">>
                    ELSE <<"ensure", Secret(s), cfg[c][s]>>
      BY <1>1, <2>1 DEF Doing, Desired, SecretCall
    <2>3. InFlight(c) /\ ~ InFlight(c)'
      BY <1>0, <2>1 DEF InFlight
    <2>4. Write(c, "done")
      BY <2>1, <2>2, <2>3, Finishes
    <2>. QED
      BY <2>1, <2>2, <2>4
  <1>. QED
    BY <1>2, <1>3, <1>4

----------------------------------------------------------------------------
(***************************************************************************)
(* What a write makes of the two objects of a service.                     *)
(***************************************************************************)
LEMMA WorkloadWritten ==
    ASSUME Base, NEW e \in Clients, NEW answer \in {"done", "failed"}, Write(e, answer),
           NEW s \in Services
    PROVE  \/ /\ store'[Workload(s)] = store[Workload(s)]
              /\ call[e] # <<"delete", Workload(s), "-">>
              /\ s \in DOMAIN cfg[e] => call[e] # <<"apply", Workload(s), cfg[e][s]>>
           \/ /\ s \in DOMAIN cfg[e]
              /\ call[e] = <<"apply", Workload(s), cfg[e][s]>>
              /\ store'[Workload(s)] = cfg[e][s]
           \/ /\ s \notin DOMAIN cfg[e]
              /\ call[e] = <<"delete", Workload(s), "-">>
              /\ store'[Workload(s)] = Absent
  <1>0. DOMAIN store = Objects /\ Workload(s) \in Objects
    BY ObjectFacts DEF Base, TypeOK
  <1>1. CASE \E t \in DOMAIN cfg[e] :
               /\ cfg[e][t] = <<>>
               /\ call[e] = <<"delete", Secret(t), "-">>
               /\ store' = [store EXCEPT ![Secret(t)] = Absent]
    BY <1>0, <1>1, ObjectFacts
  <1>2. CASE \E t \in DOMAIN cfg[e] :
               /\ cfg[e][t] # <<>>
               /\ call[e] = <<"ensure", Secret(t), cfg[e][t]>>
               /\ store' = [store EXCEPT ![Secret(t)] =
                               IF store[Secret(t)] = Absent THEN cfg[e][t]
                               ELSE Atomic!Merge(store[Secret(t)], cfg[e][t])]
    BY <1>0, <1>2, ObjectFacts
  <1>3. CASE \E t \in DOMAIN cfg[e] : \E k \in Keys \ DOMAIN cfg[e][t] :
               /\ cfg[e][t] # <<>> /\ store[Secret(t)] # Absent
               /\ call[e] = <<"prune", Secret(t), k>>
               /\ store' = [store EXCEPT ![Secret(t)] = Atomic!Without(store[Secret(t)], k)]
    BY <1>0, <1>3, ObjectFacts
  <1>4. CASE \E t \in DOMAIN cfg[e] :
               /\ call[e] = <<"apply", Workload(t), cfg[e][t]>>
               /\ store' = [store EXCEPT ![Workload(t)] = cfg[e][t]]
    BY <1>0, <1>4, ObjectFacts
  <1>5. CASE \E o \in Foreign(e) :
               /\ call[e] = <<"delete", o, "-">>
               /\ store' = [store EXCEPT ![o] = Absent]
    BY <1>0, <1>5, ObjectFacts DEF Foreign
  <1>. QED
    BY <1>1, <1>2, <1>3, <1>4, <1>5, WriteForms

LEMMA SecretWritten ==
    ASSUME Base, NEW e \in Clients, NEW answer \in {"done", "failed"}, Write(e, answer),
           NEW s \in Services
    PROVE  \/ /\ store'[Secret(s)] = store[Secret(s)]
              /\ call[e] # <<"delete", Secret(s), "-">>
              /\ s \in DOMAIN cfg[e] => call[e] # <<"ensure", Secret(s), cfg[e][s]>>
              /\ \A k : call[e] # <<"prune", Secret(s), k>>
           \/ /\ s \in DOMAIN cfg[e] /\ cfg[e][s] = <<>>
              /\ call[e] = <<"delete", Secret(s), "-">>
              /\ store'[Secret(s)] = Absent
           \/ /\ s \in DOMAIN cfg[e] /\ cfg[e][s] # <<>>
              /\ call[e] = <<"ensure", Secret(s), cfg[e][s]>>
              /\ store'[Secret(s)] = IF store[Secret(s)] = Absent THEN cfg[e][s]
                                     ELSE Atomic!Merge(store[Secret(s)], cfg[e][s])
           \/ /\ s \in DOMAIN cfg[e] /\ cfg[e][s] # <<>> /\ store[Secret(s)] # Absent
              /\ \E k \in Keys \ DOMAIN cfg[e][s] :
                    /\ call[e] = <<"prune", Secret(s), k>>
                    /\ store'[Secret(s)] = Atomic!Without(store[Secret(s)], k)
           \/ /\ s \notin DOMAIN cfg[e]
              /\ call[e] = <<"delete", Secret(s), "-">>
              /\ store'[Secret(s)] = Absent
  <1>0. DOMAIN store = Objects /\ Secret(s) \in Objects
    BY ObjectFacts DEF Base, TypeOK
  <1>1. CASE \E t \in DOMAIN cfg[e] :
               /\ cfg[e][t] = <<>>
               /\ call[e] = <<"delete", Secret(t), "-">>
               /\ store' = [store EXCEPT ![Secret(t)] = Absent]
    BY <1>0, <1>1, ObjectFacts
  <1>2. CASE \E t \in DOMAIN cfg[e] :
               /\ cfg[e][t] # <<>>
               /\ call[e] = <<"ensure", Secret(t), cfg[e][t]>>
               /\ store' = [store EXCEPT ![Secret(t)] =
                               IF store[Secret(t)] = Absent THEN cfg[e][t]
                               ELSE Atomic!Merge(store[Secret(t)], cfg[e][t])]
    BY <1>0, <1>2, ObjectFacts
  <1>3. CASE \E t \in DOMAIN cfg[e] : \E k \in Keys \ DOMAIN cfg[e][t] :
               /\ cfg[e][t] # <<>> /\ store[Secret(t)] # Absent
               /\ call[e] = <<"prune", Secret(t), k>>
               /\ store' = [store EXCEPT ![Secret(t)] = Atomic!Without(store[Secret(t)], k)]
    BY <1>0, <1>3, ObjectFacts
  <1>4. CASE \E t \in DOMAIN cfg[e] :
               /\ call[e] = <<"apply", Workload(t), cfg[e][t]>>
               /\ store' = [store EXCEPT ![Workload(t)] = cfg[e][t]]
    BY <1>0, <1>4, ObjectFacts
  <1>5. CASE \E o \in Foreign(e) :
               /\ call[e] = <<"delete", o, "-">>
               /\ store' = [store EXCEPT ![o] = Absent]
    BY <1>0, <1>5, ObjectFacts DEF Foreign
  <1>. QED
    BY <1>1, <1>2, <1>3, <1>4, <1>5, WriteForms

----------------------------------------------------------------------------
(***************************************************************************)
(* What every deploy declares survives: the workload from the first deploy *)
(* that has applied it on, the entries from the first that has written the *)
(* Secret on.                                                              *)
(***************************************************************************)
LEMMA MergeFacts ==
    ASSUME NEW d \in Atomic!Data, NEW f \in Atomic!Data
    PROVE  /\ Atomic!Merge(d, f) \in Atomic!Data /\ Atomic!Merge(d, f) # Absent
           /\ DOMAIN Atomic!Merge(d, f) = DOMAIN d \cup DOMAIN f
           /\ \A k \in DOMAIN f : Atomic!Merge(d, f)[k] = f[k]
  <1>1. DOMAIN Atomic!Merge(d, f) = DOMAIN d \cup DOMAIN f
    BY DEF Atomic!Merge
  <1>2. \A k \in DOMAIN f : Atomic!Merge(d, f)[k] = f[k]
    BY DEF Atomic!Merge
  <1>3. Atomic!Merge(d, f) \in [DOMAIN d \cup DOMAIN f -> Values]
    BY DEF Atomic!Merge, Atomic!Data
  <1>4. DOMAIN d \cup DOMAIN f \in SUBSET Keys
    BY DEF Atomic!Data
  <1>5. Atomic!Merge(d, f) \in Atomic!Data
    BY <1>3, <1>4 DEF Atomic!Data
  <1>. QED
    BY <1>1, <1>2, <1>5, ObjectsAssumption

LEMMA WithoutFacts ==
    ASSUME NEW d \in Atomic!Data, NEW l \in Keys
    PROVE  /\ Atomic!Without(d, l) \in Atomic!Data /\ Atomic!Without(d, l) # Absent
           /\ DOMAIN Atomic!Without(d, l) = DOMAIN d \ {l}
           /\ \A k \in DOMAIN d \ {l} : Atomic!Without(d, l)[k] = d[k]
  <1>1. Atomic!Without(d, l) \in [DOMAIN d \ {l} -> Values]
    BY DEF Atomic!Without, Atomic!Data
  <1>2. DOMAIN d \ {l} \in SUBSET Keys
    BY DEF Atomic!Data
  <1>3. Atomic!Without(d, l) \in Atomic!Data
    BY <1>1, <1>2 DEF Atomic!Data
  <1>4. /\ DOMAIN Atomic!Without(d, l) = DOMAIN d \ {l}
        /\ \A k \in DOMAIN d \ {l} : Atomic!Without(d, l)[k] = d[k]
    BY DEF Atomic!Without
  <1>. QED
    BY <1>3, <1>4, ObjectsAssumption

HasKey(s, k) == store[Secret(s)] # Absent /\ k \in DOMAIN store[Secret(s)]

Common ==
    \A c \in Clients : \A s \in {t \in Services : DeclaredByAll(t)} :
        /\ AppliedBy(c, s) => store[Workload(s)] # Absent
        /\ EnsuredBy(c, s) => \A k \in KeysOfAll(s) : HasKey(s, k)

LEMMA InitReach ==
    ASSUME DeploysInit, NEW c \in Clients, NEW s
    PROVE  ~ AppliedBy(c, s) /\ ~ ListedBy(c, s) /\ ~ EnsuredBy(c, s)
  BY DEF DeploysInit, AppliedBy, ListedBy, EnsuredBy

LEMMA CommonWritten ==
    ASSUME Base, NEW e \in Clients, NEW answer \in {"done", "failed"}, Write(e, answer),
           NEW s \in Services, DeclaredByAll(s)
    PROVE  /\ \/ store[Workload(s)] # Absent
              \/ call[e] = <<"apply", Workload(s), cfg[e][s]>>
              => store'[Workload(s)] # Absent
           /\ \A k \in KeysOfAll(s) :
                 \/ HasKey(s, k)
                 \/ call[e] = <<"ensure", Secret(s), cfg[e][s]>>
                 => HasKey(s, k)'
  <1>1. s \in DOMAIN cfg[e] /\ cfg[e][s] # Absent
    BY CfgFacts DEF DeclaredByAll, Base
  <1>2. \/ store[Workload(s)] # Absent
        \/ call[e] = <<"apply", Workload(s), cfg[e][s]>>
        => store'[Workload(s)] # Absent
    BY <1>1, WorkloadWritten
  <1>3. ASSUME NEW k \in KeysOfAll(s),
               HasKey(s, k) \/ call[e] = <<"ensure", Secret(s), cfg[e][s]>>
        PROVE  HasKey(s, k)'
    <2>1. k \in DOMAIN cfg[e][s] /\ cfg[e][s] # <<>>
      BY <1>3 DEF KeysOfAll
    <2>2. /\ \A x, y, z, w : <<"ensure", x, y>> # <<"delete", z, w>>
          /\ \A x, y, z, w : <<"ensure", x, y>> # <<"prune", z, w>>
      OBVIOUS
    <2>3. store[Secret(s)] \in Atomic!Data \cup {Absent} /\ cfg[e][s] \in Atomic!Data
      BY <1>1, CfgFacts, ObjectFacts DEF Base, TypeOK, Atomic!States
    <2>4. CASE store'[Secret(s)] = store[Secret(s)] /\ HasKey(s, k)
      BY <2>4 DEF HasKey
    <2>5. CASE store'[Secret(s)] = IF store[Secret(s)] = Absent THEN cfg[e][s]
                                   ELSE Atomic!Merge(store[Secret(s)], cfg[e][s])
      BY <1>1, <2>1, <2>3, <2>5, MergeFacts DEF HasKey
    <2>6. ASSUME HasKey(s, k), NEW l \in Keys \ DOMAIN cfg[e][s],
                 store'[Secret(s)] = Atomic!Without(store[Secret(s)], l)
          PROVE  HasKey(s, k)'
      <3>1. store[Secret(s)] \in Atomic!Data /\ k \in DOMAIN store[Secret(s)] /\ k # l
        BY <2>1, <2>3, <2>6 DEF HasKey
      <3>a. l \in Keys
        OBVIOUS
      <3>2. Atomic!Without(store[Secret(s)], l) # Absent
        BY <3>1, <3>a, WithoutFacts
      <3>3. DOMAIN Atomic!Without(store[Secret(s)], l) = DOMAIN store[Secret(s)] \ {l}
        BY <3>1, <3>a, WithoutFacts
      <3>. QED
        BY <2>6, <3>1, <3>2, <3>3 DEF HasKey
    <2>. QED
      BY <1>1, <1>3, <2>1, <2>2, <2>4, <2>5, <2>6, SecretWritten
  <1>. QED
    BY <1>2, <1>3

LEMMA CommonKeeps == Base /\ Common /\ [DeploysNext]_allvars => Common'
  <1>. SUFFICES ASSUME Base, Common, [DeploysNext]_allvars,
                       NEW c \in Clients, NEW s \in Services, DeclaredByAll(s)'
                PROVE  /\ AppliedBy(c, s)' => (store[Workload(s)] # Absent)'
                       /\ EnsuredBy(c, s)' => \A k \in KeysOfAll(s)' : HasKey(s, k)'
    BY DEF Common
  <1>1. UNCHANGED cfg
    BY OwnFrame, RequestFrame DEF DeploysNext, Own, allvars, deploys
  <1>2. DeclaredByAll(s) /\ KeysOfAll(s)' = KeysOfAll(s)
    BY <1>1 DEF DeclaredByAll, KeysOfAll
  <1>3. /\ AppliedBy(c, s) => store[Workload(s)] # Absent
        /\ EnsuredBy(c, s) => \A k \in KeysOfAll(s) : HasKey(s, k)
    BY <1>2 DEF Common
  <1>4. CASE /\ UNCHANGED store
             /\ AppliedBy(c, s)' => AppliedBy(c, s)
             /\ EnsuredBy(c, s)' => EnsuredBy(c, s)
    BY <1>2, <1>3, <1>4 DEF HasKey
  <1>5. ASSUME NEW d \in Clients, Own(d)
        PROVE  /\ UNCHANGED store
               /\ AppliedBy(c, s)' => AppliedBy(c, s)
               /\ EnsuredBy(c, s)' => EnsuredBy(c, s)
    <2>1. CASE d = c
      BY <1>5, <2>1, OwnReach, OwnFrame
    <2>2. CASE d # c
      BY <1>5, <2>2, OwnFrame DEF Same, AppliedBy, EnsuredBy, ListedBy
    <2>. QED
      BY <2>1, <2>2
  <1>6. CASE Requests
    <2>1. \/ AppliedBy(c, s)' => AppliedBy(c, s)
          \/ Write(c, "done") /\ call[c] = <<"apply", Workload(s), cfg[c][s]>>
      BY <1>6, RequestReach
    <2>2. \/ EnsuredBy(c, s)' => EnsuredBy(c, s)
          \/ /\ Write(c, "done")
             /\ call[c] = IF cfg[c][s] = <<>> THEN <<"delete", Secret(s), "-">>
                          ELSE <<"ensure", Secret(s), cfg[c][s]>>
      BY <1>6, RequestReach
    <2>3. \A k \in KeysOfAll(s) : cfg[c][s] # <<>>
      BY DEF KeysOfAll
    <2>4. /\ store[Workload(s)] # Absent => store'[Workload(s)] # Absent
          /\ \A k \in KeysOfAll(s) : HasKey(s, k) => HasKey(s, k)'
      <3>1. CASE UNCHANGED store
        BY <3>1 DEF HasKey
      <3>2. ASSUME NEW e \in Clients, NEW answer \in {"done", "failed"}, Write(e, answer)
            PROVE  /\ store[Workload(s)] # Absent => store'[Workload(s)] # Absent
                   /\ \A k \in KeysOfAll(s) : HasKey(s, k) => HasKey(s, k)'
        BY <1>2, <3>2, CommonWritten
      <3>. QED
        BY <1>6, <3>1, <3>2, RequestStores
    <2>5. ASSUME Write(c, "done"), call[c] = <<"apply", Workload(s), cfg[c][s]>>
          PROVE  store'[Workload(s)] # Absent
      BY <1>2, <2>5, CommonWritten
    <2>6. ASSUME Write(c, "done"), call[c] = <<"ensure", Secret(s), cfg[c][s]>>
          PROVE  \A k \in KeysOfAll(s) : HasKey(s, k)'
      BY <1>2, <2>6, CommonWritten
    <2>7. (store[Workload(s)] # Absent)' <=> store'[Workload(s)] # Absent
      OBVIOUS
    <2>. QED
      BY <1>2, <1>3, <2>1, <2>2, <2>3, <2>4, <2>5, <2>6, <2>7
  <1>7. CASE UNCHANGED allvars
    BY <1>4, <1>7 DEF allvars, vars, deploys, AppliedBy, EnsuredBy, ListedBy
  <1>. QED
    BY <1>4, <1>5, <1>6, <1>7 DEF DeploysNext, Own

THEOREM AlwaysCommonSurvives == DeploysSpec => []CommonSurvives
  <1>1. DeploysInit => Common
    BY InitReach DEF Common
  <1>2. Base /\ Common => CommonSurvives
    <2>. SUFFICES ASSUME Base, Common, NEW c \in Clients, step[c] = "succeeded",
                         NEW s \in Services, DeclaredByAll(s)
                  PROVE  /\ store[Workload(s)] # Absent
                         /\ KeysOfAll(s) # {} =>
                               /\ store[Secret(s)] # Absent
                               /\ KeysOfAll(s) \subseteq DOMAIN store[Secret(s)]
      BY DEF CommonSurvives
    <2>1. left[c] = {} /\ s \in DOMAIN cfg[c]
      BY DEF Base, Doing, DeclaredByAll
    <2>2. AppliedBy(c, s) /\ EnsuredBy(c, s)
      BY <2>1 DEF AppliedBy, EnsuredBy, ListedBy
    <2>. QED
      BY <2>2 DEF Common, HasKey
  <1>. QED
    BY <1>1, <1>2, CommonKeeps, BaseAlways, PTL DEF DeploysSpec

(***************************************************************************)
(* The types, and that deploys change objects as if one call ran after the *)
(* other: every step of a deploy is one of KubeWrites.                     *)
(***************************************************************************)
THEOREM DeploysAreTyped == DeploysSpec => []TypeOK
  <1>1. Base => TypeOK
    BY DEF Base
  <1>. QED
    BY <1>1, BaseAlways, PTL

THEOREM DeploysAreAtomic == DeploysSpec => StoreIsAtomic
  <1>1. DeploysInit => Atomic!Init
    BY InitBase, InitRefines
  <1>2. Base /\ [DeploysNext]_allvars => [Atomic!Next]_(Atomic!vars)
    BY StepsAreCalls, StepRefines DEF Base
  <1>. QED
    BY <1>1, <1>2, BaseAlways, PTL DEF DeploysSpec, StoreIsAtomic, Atomic!Spec

----------------------------------------------------------------------------
(***************************************************************************)
(* Twins: without lost requests, every deploy of the one file has what it  *)
(* is done with, and no other undoes it.                                   *)
(***************************************************************************)
Deleting(c, o) == InFlight(c) /\ call[c] = <<"delete", o, "-">>

\* What the sweep of a kind has still to delete.
Swept(c, o) == store[o] # Absent => o \in doomed[c] \/ Deleting(c, o)

Pruning(c, s, k) ==
    /\ step[c] = "prune" /\ service[c] = s
    /\ k \in doomed[c] \/ (InFlight(c) /\ call[c] = <<"prune", Secret(s), k>>)

HasEntries(s, d) ==
    /\ store[Secret(s)] # Absent
    /\ \A k \in DOMAIN d : HasKey(s, k) /\ store[Secret(s)][k] = d[k]

TwinServices(c) ==
    \A s \in DOMAIN cfg[c] :
        /\ AppliedBy(c, s) => store[Workload(s)] = cfg[c][s]
        /\ EnsuredBy(c, s) /\ cfg[c][s] = <<>> => store[Secret(s)] = Absent
        /\ EnsuredBy(c, s) /\ cfg[c][s] # <<>> => HasEntries(s, cfg[c][s])
        /\ ListedBy(c, s) => \A k \in Keys \ DOMAIN cfg[c][s] :
              HasKey(s, k) => Pruning(c, s, k) \/ <<Secret(s), k>> \in unpruned

TwinSweeps(c) ==
    /\ step[c] \in {"sweep", "sweep secrets"} => phase[c] # "failed"
    /\ \A s \in Services \ DOMAIN cfg[c] :
        /\ step[c] = "sweep" => Swept(c, Workload(s))
        /\ step[c] \in {"sweep secrets", "succeeded"} => store[Workload(s)] = Absent
        /\ step[c] = "sweep secrets" => Swept(c, Secret(s))
        /\ step[c] = "succeeded" => store[Secret(s)] = Absent

Twins == (SameFile /\ faults = 0) => \A c \in Clients : TwinServices(c) /\ TwinSweeps(c)

\* A write of a twin leaves what its file declares, and adds no other key.
LEMMA TwinWrites ==
    ASSUME Base, NEW e \in Clients, NEW answer \in {"done", "failed"}, Write(e, answer),
           NEW s \in DOMAIN cfg[e], NEW d, d = cfg[e][s]
    PROVE  /\ store[Workload(s)] = d => store'[Workload(s)] = d
           /\ call[e] = <<"apply", Workload(s), d>> => store'[Workload(s)] = d
           /\ (d = <<>> /\ store[Secret(s)] = Absent) => store'[Secret(s)] = Absent
           /\ call[e] = <<"delete", Secret(s), "-">> => store'[Secret(s)] = Absent
           /\ (d # <<>> /\ HasEntries(s, d)) => HasEntries(s, d)'
           /\ call[e] = <<"ensure", Secret(s), d>> => HasEntries(s, d)'
           /\ \A k \in Keys \ DOMAIN d :
                 /\ HasKey(s, k)' => HasKey(s, k)
                 /\ call[e] = <<"prune", Secret(s), k>> => ~ HasKey(s, k)'
  <1>0. /\ s \in Services /\ d \in Atomic!Data /\ DOMAIN d \subseteq Keys /\ d # Absent
        /\ store[Secret(s)] \in Atomic!Data \cup {Absent}
    BY CfgFacts, ObjectFacts DEF Base, TypeOK, Atomic!States
  <1>1. /\ store[Workload(s)] = d => store'[Workload(s)] = d
        /\ call[e] = <<"apply", Workload(s), d>> => store'[Workload(s)] = d
    BY <1>0, WorkloadWritten
  <1>2. \A x, y, z, w : /\ <<"ensure", x, y>> # <<"delete", z, w>>
                        /\ <<"ensure", x, y>> # <<"prune", z, w>>
                        /\ <<"prune", x, y>> # <<"delete", z, w>>
                        /\ <<"prune", x, y>> = <<"prune", z, w>> => y = w
    OBVIOUS
  <1>3. CASE /\ store'[Secret(s)] = store[Secret(s)]
             /\ call[e] # <<"delete", Secret(s), "-">>
             /\ call[e] # <<"ensure", Secret(s), d>>
             /\ \A k : call[e] # <<"prune", Secret(s), k>>
    BY <1>1, <1>3 DEF HasEntries, HasKey
  <1>4. CASE /\ d = <<>>
             /\ call[e] = <<"delete", Secret(s), "-">>
             /\ store'[Secret(s)] = Absent
    BY <1>1, <1>2, <1>4 DEF HasKey
  <1>5. CASE /\ d # <<>>
             /\ call[e] = <<"ensure", Secret(s), d>>
             /\ store'[Secret(s)] = IF store[Secret(s)] = Absent THEN d
                                    ELSE Atomic!Merge(store[Secret(s)], d)
    <2>1. CASE store[Secret(s)] = Absent
      BY <1>0, <1>1, <1>2, <1>5, <2>1 DEF HasEntries, HasKey
    <2>2. CASE store[Secret(s)] # Absent
      <3>1. store'[Secret(s)] = Atomic!Merge(store[Secret(s)], d)
        BY <1>5, <2>2
      <3>2. /\ Atomic!Merge(store[Secret(s)], d) # Absent
            /\ DOMAIN Atomic!Merge(store[Secret(s)], d) = DOMAIN store[Secret(s)] \cup DOMAIN d
            /\ \A k \in DOMAIN d : Atomic!Merge(store[Secret(s)], d)[k] = d[k]
        BY <1>0, <2>2, MergeFacts
      <3>3. HasEntries(s, d)'
        BY <3>1, <3>2 DEF HasEntries, HasKey
      <3>4. \A k \in Keys \ DOMAIN d : HasKey(s, k)' => HasKey(s, k)
        BY <2>2, <3>1, <3>2 DEF HasKey
      <3>. QED
        BY <1>1, <1>2, <1>5, <2>2, <3>3, <3>4
    <2>. QED
      BY <2>1, <2>2
  <1>6. ASSUME d # <<>>, store[Secret(s)] # Absent, NEW l \in Keys \ DOMAIN d,
               call[e] = <<"prune", Secret(s), l>>,
               store'[Secret(s)] = Atomic!Without(store[Secret(s)], l)
        PROVE  /\ (d = <<>> /\ store[Secret(s)] = Absent) => store'[Secret(s)] = Absent
               /\ call[e] = <<"delete", Secret(s), "-">> => store'[Secret(s)] = Absent
               /\ (d # <<>> /\ HasEntries(s, d)) => HasEntries(s, d)'
               /\ call[e] = <<"ensure", Secret(s), d>> => HasEntries(s, d)'
               /\ \A k \in Keys \ DOMAIN d :
                     /\ HasKey(s, k)' => HasKey(s, k)
                     /\ call[e] = <<"prune", Secret(s), k>> => ~ HasKey(s, k)'
    <2>0. store[Secret(s)] \in Atomic!Data /\ l \in Keys
      BY <1>0, <1>6
    <2>1. Atomic!Without(store[Secret(s)], l) # Absent
      BY <2>0, WithoutFacts
    <2>2. DOMAIN Atomic!Without(store[Secret(s)], l) = DOMAIN store[Secret(s)] \ {l}
      BY <2>0, WithoutFacts
    <2>3. \A k \in DOMAIN store[Secret(s)] \ {l} :
            Atomic!Without(store[Secret(s)], l)[k] = store[Secret(s)][k]
      BY <2>0, WithoutFacts
    <2>4. HasEntries(s, d) => HasEntries(s, d)'
      BY <1>6, <2>1, <2>2, <2>3 DEF HasEntries, HasKey
    <2>5. \A k \in Keys \ DOMAIN d : HasKey(s, k)' => HasKey(s, k) /\ k # l
      BY <1>6, <2>2 DEF HasKey
    <2>. QED
      BY <1>2, <1>6, <2>4, <2>5
  <1>7. CASE /\ store[Secret(s)] # Absent /\ d # <<>>
             /\ \E l \in Keys \ DOMAIN d :
                   /\ call[e] = <<"prune", Secret(s), l>>
                   /\ store'[Secret(s)] = Atomic!Without(store[Secret(s)], l)
    BY <1>1, <1>6, <1>7
  <1>. QED
    BY <1>0, <1>3, <1>4, <1>5, <1>7, SecretWritten

LEMMA TwinSweepWrites ==
    ASSUME Base, NEW e \in Clients, NEW answer \in {"done", "failed"}, Write(e, answer),
           NEW s \in Services \ DOMAIN cfg[e], NEW o \in {Workload(s), Secret(s)}
    PROVE  /\ store[o] = Absent => store'[o] = Absent
           /\ call[e] = <<"delete", o, "-">> => store'[o] = Absent
  <1>1. CASE o = Workload(s)
    BY <1>1, WorkloadWritten
  <1>2. CASE o = Secret(s)
    BY <1>2, SecretWritten
  <1>. QED
    BY <1>1, <1>2

\* The deletions of a sweep end with what they delete gone.
LEMMA SweepFinishes ==
    ASSUME Base, Requests, faults' = 0, NEW c \in Clients,
           step[c] \in {"sweep", "sweep secrets"}, InFlight(c), ~ InFlight(c)'
    PROVE  Write(c, "done") /\ phase'[c] = "done"
  <1>1. PICK o \in Foreign(c) : call[c] = <<"delete", o, "-">>
    BY DEF Base, Doing
  <1>2. Op(call[c]) = "delete"
    <2>1. <<"delete", o, "-">>[1] = "delete"
      OBVIOUS
    <2>. QED
      BY <1>1, <2>1, Zenon DEF Op, Atomic!Op
  <1>3. ~ LosesConflict(c)
    BY <1>2 DEF LosesConflict, Rejected, Accepted
  <1>4. Write(c, "done")
    BY <1>2, <1>3, Finishes
  <1>5. c \in DOMAIN phase
    BY DEF Base, TypeOK
  <1>. QED
    BY <1>4, <1>5 DEF Write

LEMMA RequestKeepsServices ==
    ASSUME Base, Requests, SameFile, faults' = 0, NEW c \in Clients, TwinServices(c)
    PROVE  TwinServices(c)'
  <1>0. /\ UNCHANGED <<cfg, step, left, service, doomed, call>> /\ unpruned \subseteq unpruned'
        /\ \A e \in Clients : cfg[e] = cfg[c]
    BY RequestFrame DEF SameFile
  <1>. SUFFICES ASSUME NEW s \in DOMAIN cfg[c], NEW d, d = cfg[c][s]
                PROVE  /\ AppliedBy(c, s)' => store'[Workload(s)] = d
                       /\ EnsuredBy(c, s)' /\ d = <<>> => store'[Secret(s)] = Absent
                       /\ EnsuredBy(c, s)' /\ d # <<>> => HasEntries(s, d)'
                       /\ ListedBy(c, s)' => \A k \in Keys \ DOMAIN d : HasKey(s, k)' =>
                              Pruning(c, s, k)' \/ (<<Secret(s), k>> \in unpruned')
    BY <1>0 DEF TwinServices
  <1>1. /\ AppliedBy(c, s) => store[Workload(s)] = d
        /\ EnsuredBy(c, s) /\ d = <<>> => store[Secret(s)] = Absent
        /\ EnsuredBy(c, s) /\ d # <<>> => HasEntries(s, d)
        /\ ListedBy(c, s) => \A k \in Keys \ DOMAIN d : HasKey(s, k) =>
              Pruning(c, s, k) \/ <<Secret(s), k>> \in unpruned
    BY DEF TwinServices
  <1>2. /\ store[Workload(s)] = d => store'[Workload(s)] = d
        /\ (d = <<>> /\ store[Secret(s)] = Absent) => store'[Secret(s)] = Absent
        /\ (d # <<>> /\ HasEntries(s, d)) => HasEntries(s, d)'
        /\ \A k \in Keys \ DOMAIN d : HasKey(s, k)' => HasKey(s, k)
    <2>1. CASE UNCHANGED store
      BY <2>1 DEF HasEntries, HasKey
    <2>2. ASSUME NEW e \in Clients, NEW answer \in {"done", "failed"}, Write(e, answer)
          PROVE  /\ store[Workload(s)] = d => store'[Workload(s)] = d
                 /\ (d = <<>> /\ store[Secret(s)] = Absent) => store'[Secret(s)] = Absent
                 /\ (d # <<>> /\ HasEntries(s, d)) => HasEntries(s, d)'
                 /\ \A k \in Keys \ DOMAIN d : HasKey(s, k)' => HasKey(s, k)
      <3>1. s \in DOMAIN cfg[e] /\ d = cfg[e][s]
        BY <1>0
      <3>. QED
        BY <2>2, <3>1, TwinWrites
    <2>. QED
      BY <2>1, <2>2, RequestStores
  <1>3. AppliedBy(c, s)' => store'[Workload(s)] = d
    <2>1. ASSUME Write(c, "done"), call[c] = <<"apply", Workload(s), d>>
          PROVE  store'[Workload(s)] = d
      BY <2>1, TwinWrites
    <2>. QED
      BY <1>1, <1>2, <2>1, RequestReach
  <1>4. /\ EnsuredBy(c, s)' /\ d = <<>> => store'[Secret(s)] = Absent
        /\ EnsuredBy(c, s)' /\ d # <<>> => HasEntries(s, d)'
    <2>1. ASSUME Write(c, "done"), call[c] = <<"delete", Secret(s), "-">>
          PROVE  store'[Secret(s)] = Absent
      BY <2>1, TwinWrites
    <2>2. ASSUME Write(c, "done"), call[c] = <<"ensure", Secret(s), d>>
          PROVE  HasEntries(s, d)'
      BY <2>2, TwinWrites
    <2>. QED
      BY <1>1, <1>2, <2>1, <2>2, RequestReach
  <1>5. ASSUME ListedBy(c, s)', NEW k \in Keys \ DOMAIN d, HasKey(s, k)'
        PROVE  Pruning(c, s, k)' \/ (<<Secret(s), k>> \in unpruned')
    <2>1. HasKey(s, k) /\ (Pruning(c, s, k) \/ <<Secret(s), k>> \in unpruned)
      BY <1>1, <1>2, <1>5, RequestReach
    <2>2. CASE <<Secret(s), k>> \in unpruned
      BY <1>0, <2>2
    <2>3. CASE Pruning(c, s, k) /\ (k \in doomed[c] \/ InFlight(c)')
      BY <1>0, <2>3 DEF Pruning
    <2>4. CASE Pruning(c, s, k) /\ k \notin doomed[c] /\ ~ InFlight(c)'
      <3>1. InFlight(c) /\ call[c] = <<"prune", Secret(s), k>>
        BY <2>4 DEF Pruning
      <3>2. Op(call[c]) = "prune" /\ Target(call[c]) = Secret(s) /\ Arg(call[c]) = k
        BY <3>1 DEF Op, Target, Arg, Atomic!Op, Atomic!Target, Atomic!Arg
      <3>3. ~ Write(c, "done")
        BY <1>5, <3>1, TwinWrites
      <3>4. ~ NothingToWrite(call[c], store[Target(call[c])])
        BY <2>1, <3>2 DEF NothingToWrite, HasKey
      <3>5. LosesConflict(c)
        BY <2>4, <3>1, <3>3, <3>4, Finishes
      <3>. QED
        BY <3>2, <3>5 DEF LosesConflict
    <2>. QED
      BY <2>1, <2>2, <2>3, <2>4
  <1>. QED
    BY <1>3, <1>4, <1>5

LEMMA RequestKeepsSweeps ==
    ASSUME Base, Requests, SameFile, faults' = 0, NEW c \in Clients, TwinSweeps(c)
    PROVE  TwinSweeps(c)'
  <1>0. /\ UNCHANGED <<cfg, step, left, service, doomed, call>>
        /\ ~ InFlight(c) => phase'[c] = phase[c]
        /\ \A e \in Clients : cfg[e] = cfg[c]
    BY RequestFrame DEF SameFile
  <1>1. step[c] \in {"sweep", "sweep secrets"} => phase'[c] # "failed"
    BY <1>0, SweepFinishes DEF TwinSweeps, InFlight
  <1>2. ASSUME NEW s \in Services \ DOMAIN cfg[c], NEW o \in {Workload(s), Secret(s)}
        PROVE  /\ store[o] = Absent => store'[o] = Absent
               /\ step[c] \in {"sweep", "sweep secrets"} /\ Swept(c, o) => Swept(c, o)'
    <2>1. store[o] = Absent => store'[o] = Absent
      <3>1. ASSUME NEW e \in Clients, NEW answer \in {"done", "failed"}, Write(e, answer)
            PROVE  store[o] = Absent => store'[o] = Absent
        <4>1. s \in Services \ DOMAIN cfg[e]
          BY <1>0
        <4>. QED
          BY <3>1, <4>1, TwinSweepWrites
      <3>. QED
        BY <3>1, RequestStores
    <2>2. ASSUME step[c] \in {"sweep", "sweep secrets"}, Deleting(c, o), ~ InFlight(c)'
          PROVE  store'[o] = Absent
      <3>1. Write(c, "done")
        BY <2>2, SweepFinishes DEF Deleting
      <3>. QED
        BY <2>2, <3>1, TwinSweepWrites DEF Deleting
    <2>. QED
      BY <1>0, <2>1, <2>2 DEF Swept, Deleting
  <1>. QED
    BY <1>0, <1>1, <1>2 DEF TwinSweeps

LEMMA OwnKeepsServices ==
    ASSUME Base, NEW c \in Clients, Own(c), faults = 0, faults' = 0, TwinServices(c)
    PROVE  TwinServices(c)'
  <1>0. /\ UNCHANGED <<store, unpruned, cfg>> /\ Shape /\ TypeOK
        /\ c \in DOMAIN step /\ c \in DOMAIN doomed /\ c \in DOMAIN call /\ c \in DOMAIN phase
    BY OwnFrame DEF Base, Shape, TypeOK
  <1>. SUFFICES ASSUME NEW s \in DOMAIN cfg[c], NEW d, d = cfg[c][s]
                PROVE  /\ AppliedBy(c, s)' => store'[Workload(s)] = d
                       /\ EnsuredBy(c, s)' /\ d = <<>> => store'[Secret(s)] = Absent
                       /\ EnsuredBy(c, s)' /\ d # <<>> => HasEntries(s, d)'
                       /\ ListedBy(c, s)' => \A k \in Keys \ DOMAIN d : HasKey(s, k)' =>
                              Pruning(c, s, k)' \/ (<<Secret(s), k>> \in unpruned')
    BY <1>0 DEF TwinServices
  <1>1. /\ AppliedBy(c, s) => store[Workload(s)] = d
        /\ EnsuredBy(c, s) /\ d = <<>> => store[Secret(s)] = Absent
        /\ EnsuredBy(c, s) /\ d # <<>> => HasEntries(s, d)
        /\ ListedBy(c, s) => \A k \in Keys \ DOMAIN d : HasKey(s, k) =>
              Pruning(c, s, k) \/ <<Secret(s), k>> \in unpruned
    BY DEF TwinServices
  <1>2. /\ AppliedBy(c, s)' => store'[Workload(s)] = d
        /\ EnsuredBy(c, s)' /\ d = <<>> => store'[Secret(s)] = Absent
        /\ EnsuredBy(c, s)' /\ d # <<>> => HasEntries(s, d)'
    BY <1>0, <1>1, OwnReach DEF HasEntries, HasKey
  <1>3. ASSUME ListedBy(c, s)', NEW k \in Keys \ DOMAIN d, HasKey(s, k)'
        PROVE  Pruning(c, s, k)' \/ (<<Secret(s), k>> \in unpruned')
    <2>0. HasKey(s, k)
      BY <1>0, <1>3 DEF HasKey
    <2>1. CASE ListKeys(c) /\ service[c] = s
      <3>1. /\ step'[c] = "prune" /\ service' = service
            /\ step[c] = "secret" /\ phase[c] = "done"
            /\ doomed'[c] = IF Desired(c) = <<>> \/ store[Secret(s)] = Absent THEN {}
                            ELSE DOMAIN store[Secret(s)] \ DOMAIN Desired(c)
        BY <1>0, <2>1 DEF ListKeys, Goto
      <3>2. Desired(c) = d /\ EnsuredBy(c, s)
        BY <2>1, <3>1 DEF Desired, EnsuredBy
      <3>3. d # <<>> /\ k \in doomed'[c]
        BY <1>1, <2>0, <3>1, <3>2 DEF HasKey
      <3>. QED
        BY <2>1, <3>1, <3>3 DEF Pruning
    <2>2. CASE ListedBy(c, s) /\ Pruning(c, s, k)
      <3>1. CASE \E l \in Keys : PruneKey(c, l)
        <4>1. PICK l \in Keys : PruneKey(c, l)
          BY <3>1
        <4>2. /\ ~ InFlight(c) /\ InFlight(c)'
              /\ call'[c] = <<"prune", Secret(s), l>>
              /\ doomed'[c] = doomed[c] \ {l} /\ UNCHANGED <<step, service>>
          BY <1>0, <2>2, <4>1 DEF PruneKey, Start, InFlight, Pruning
        <4>. QED
          BY <2>2, <4>2 DEF Pruning
      <3>2. ~ ApplyWorkload(c)
        BY <2>2 DEF Pruning, ApplyWorkload
      <3>3. ~ Stops(c)
        BY DEF Stops
      <3>4. /\ \A t \in Services : ~ UpsertSecret(c, t)
            /\ ~ ListKeys(c) /\ ~ WorkloadApplied(c) /\ ~ StepFails(c)
            /\ ~ SweepWorkloads(c) /\ ~ SweepSecrets(c) /\ ~ Succeeds(c)
            /\ \A o \in Objects : ~ SweepDeletes(c, o)
        BY <2>2 DEF Pruning, UpsertSecret, ListKeys, WorkloadApplied, StepFails,
                    SweepWorkloads, SweepSecrets, Succeeds, SweepDeletes
      <3>. QED
        BY <3>1, <3>2, <3>3, <3>4 DEF Own
    <2>. QED
      BY <1>0, <1>1, <1>3, <2>0, <2>1, <2>2, OwnReach
  <1>. QED
    BY <1>2, <1>3

LEMMA OwnKeepsSweeps ==
    ASSUME Base, NEW c \in Clients, Own(c), TwinSweeps(c)
    PROVE  TwinSweeps(c)'
  <1>0. /\ UNCHANGED <<store, unpruned, cfg>> /\ Shape /\ TypeOK /\ Doing(c)
        /\ c \in DOMAIN step /\ c \in DOMAIN doomed /\ c \in DOMAIN call /\ c \in DOMAIN phase
    BY OwnFrame DEF Base, Shape, TypeOK
  <1>1. CASE SweepWorkloads(c)
    <2>1. /\ step'[c] = "sweep" /\ phase'[c] = phase[c] /\ step[c] = "next"
          /\ doomed'[c] = Listed(c, "workload")
      BY <1>0, <1>1 DEF SweepWorkloads, Goto, vars
    <2>2. phase'[c] # "failed"
      BY <1>0, <2>1 DEF Doing
    <2>3. ASSUME NEW s \in Services \ DOMAIN cfg[c]
          PROVE  Swept(c, Workload(s))'
      <3>1. store[Workload(s)] # Absent => Workload(s) \in Listed(c, "workload")
        BY ObjectFacts DEF Listed, Workload
      <3>. QED
        BY <1>0, <2>1, <3>1 DEF Swept
    <2>. QED
      BY <1>0, <2>1, <2>2, <2>3 DEF TwinSweeps
  <1>2. CASE SweepSecrets(c)
    <2>1. /\ step'[c] = "sweep secrets" /\ phase'[c] = phase[c] /\ step[c] = "sweep"
          /\ doomed'[c] = Listed(c, "secret") /\ SweepOver(c)
      BY <1>0, <1>2 DEF SweepSecrets, Goto, vars
    <2>2. phase'[c] # "failed" /\ doomed[c] = {} /\ ~ InFlight(c)
      BY <2>1 DEF TwinSweeps, SweepOver
    <2>3. ASSUME NEW s \in Services \ DOMAIN cfg[c]
          PROVE  store'[Workload(s)] = Absent /\ Swept(c, Secret(s))'
      <3>1. store[Secret(s)] # Absent => Secret(s) \in Listed(c, "secret")
        BY ObjectFacts DEF Listed, Secret
      <3>2. store[Workload(s)] = Absent
        BY <2>1, <2>2 DEF TwinSweeps, Swept, Deleting
      <3>. QED
        BY <1>0, <2>1, <3>1, <3>2 DEF Swept
    <2>. QED
      BY <1>0, <2>1, <2>2, <2>3 DEF TwinSweeps
  <1>3. ASSUME NEW o \in Objects, SweepDeletes(c, o)
        PROVE  TwinSweeps(c)'
    <2>1. /\ UNCHANGED step /\ step[c] \in {"sweep", "sweep secrets"} /\ ~ InFlight(c)
          /\ doomed'[c] = doomed[c] \ {o} /\ call'[c] = <<"delete", o, "-">>
          /\ phase'[c] = "writing"
      BY <1>0, <1>3 DEF SweepDeletes, Start, Op, Atomic!Op
    <2>2. ASSUME NEW p, Swept(c, p)
          PROVE  Swept(c, p)'
      BY <1>0, <2>1, <2>2 DEF Swept, Deleting, InFlight
    <2>. QED
      BY <1>0, <2>1, <2>2 DEF TwinSweeps
  <1>4. CASE Succeeds(c)
    <2>1. /\ step'[c] = "succeeded" /\ step[c] = "sweep secrets" /\ SweepOver(c)
      BY <1>0, <1>4 DEF Succeeds, Goto
    <2>2. doomed[c] = {} /\ ~ InFlight(c)
      BY <2>1 DEF TwinSweeps, SweepOver
    <2>. QED
      BY <1>0, <2>1, <2>2 DEF TwinSweeps, Swept, Deleting
  <1>5. CASE \/ \E s \in Services : UpsertSecret(c, s)
             \/ ListKeys(c)
             \/ \E k \in Keys : PruneKey(c, k)
             \/ ApplyWorkload(c) \/ WorkloadApplied(c) \/ StepFails(c) \/ Stops(c)
    <2>1. step'[c] \in {"secret", "prune", "workload", "next", "failed"}
      BY <1>0, <1>5 DEF UpsertSecret, ListKeys, PruneKey, ApplyWorkload, WorkloadApplied,
                        StepFails, Stops, Goto
    <2>. QED
      BY <2>1 DEF TwinSweeps
  <1>. QED
    BY <1>1, <1>2, <1>3, <1>4, <1>5 DEF Own

LEMMA TwinsKeep == Base /\ Twins /\ [DeploysNext]_allvars => Twins'
  <1>. SUFFICES ASSUME Base, Twins, [DeploysNext]_allvars, SameFile', faults' = 0,
                       NEW c \in Clients
                PROVE  TwinServices(c)' /\ TwinSweeps(c)'
    BY DEF Twins
  <1>1. UNCHANGED cfg /\ faults = 0
    BY OwnFrame, RequestFrame DEF DeploysNext, Own, allvars, deploys, mishaps
  <1>2. SameFile /\ TwinServices(c) /\ TwinSweeps(c)
    BY <1>1 DEF SameFile, Twins
  <1>3. ASSUME UNCHANGED <<store, unpruned, cfg>>, Same(c)
        PROVE  TwinServices(c)' /\ TwinSweeps(c)'
    <2>1. TwinServices(c)'
      BY <1>2, <1>3 DEF Same, TwinServices, AppliedBy, EnsuredBy, ListedBy, HasEntries, HasKey,
                        Pruning, InFlight
    <2>2. TwinSweeps(c)'
      BY <1>2, <1>3 DEF Same, TwinSweeps, Swept, Deleting, InFlight
    <2>. QED
      BY <2>1, <2>2
  <1>4. CASE Own(c)
    BY <1>1, <1>2, <1>4, OwnKeepsServices, OwnKeepsSweeps
  <1>5. ASSUME NEW d \in Clients, d # c, Own(d)
        PROVE  TwinServices(c)' /\ TwinSweeps(c)'
    BY <1>3, <1>5, OwnFrame
  <1>6. CASE Requests
    BY <1>2, <1>6, RequestKeepsServices, RequestKeepsSweeps
  <1>7. CASE UNCHANGED allvars
    BY <1>3, <1>7 DEF allvars, vars, deploys, mishaps, Same
  <1>. QED
    BY <1>4, <1>5, <1>6, <1>7 DEF DeploysNext, Own

\* What a deploy that has succeeded is done with is all its file declares.
LEMMA TwinsSettle == Base /\ Twins => TwinsConverge
  <1>. SUFFICES ASSUME Base, Twins, SameFile, faults = 0,
                       NEW c \in Clients, step[c] = "succeeded", NEW s \in Services
                PROVE  /\ store[Workload(s)] =
                             IF s \in DOMAIN cfg[c] THEN cfg[c][s] ELSE Absent
                       /\ IF s \notin DOMAIN cfg[c] \/ cfg[c][s] = <<>>
                          THEN store[Secret(s)] = Absent
                          ELSE /\ store[Secret(s)] # Absent
                               /\ WithoutKeys(store[Secret(s)],
                                      {k \in Keys \ DOMAIN cfg[c][s] : <<Secret(s), k>> \in unpruned})
                                    = cfg[c][s]
    BY DEF TwinsConverge, Converged
  <1>1. left[c] = {} /\ Shape /\ TwinServices(c) /\ TwinSweeps(c)
    BY DEF Base, Doing, Twins
  <1>2. CASE s \notin DOMAIN cfg[c]
    BY <1>1, <1>2 DEF TwinSweeps
  <1>3. ASSUME s \in DOMAIN cfg[c]
        PROVE  /\ store[Workload(s)] = cfg[c][s]
               /\ cfg[c][s] = <<>> => store[Secret(s)] = Absent
               /\ cfg[c][s] # <<>> =>
                     /\ HasEntries(s, cfg[c][s])
                     /\ \A k \in Keys \ DOMAIN cfg[c][s] :
                           HasKey(s, k) => <<Secret(s), k>> \in unpruned
    <2>1. AppliedBy(c, s) /\ EnsuredBy(c, s) /\ ListedBy(c, s)
      BY <1>1, <1>3 DEF AppliedBy, EnsuredBy, ListedBy
    <2>2. \A k : ~ Pruning(c, s, k)
      BY DEF Pruning
    <2>. QED
      BY <1>1, <1>3, <2>1, <2>2 DEF TwinServices
  <1>4. ASSUME s \in DOMAIN cfg[c], cfg[c][s] # <<>>
        PROVE  WithoutKeys(store[Secret(s)],
                  {k \in Keys \ DOMAIN cfg[c][s] : <<Secret(s), k>> \in unpruned}) = cfg[c][s]
    <2>. DEFINE d == store[Secret(s)]
                f == cfg[c][s]
                stale == {k \in Keys \ DOMAIN f : <<Secret(s), k>> \in unpruned}
    <2>1. store[Secret(s)] # Absent /\ HasEntries(s, f)
      BY <1>3, <1>4 DEF HasEntries
    <2>2. d \in Atomic!Data
      BY <2>1, ObjectFacts DEF Base, TypeOK, Atomic!States
    <2>3. DOMAIN d \subseteq Keys
      BY <2>2 DEF Atomic!Data
    <2>4. DOMAIN d \ stale = DOMAIN f
      BY <1>3, <1>4, <2>1, <2>3 DEF HasEntries, HasKey
    <2>5. \A k \in DOMAIN f : d[k] = f[k]
      BY <2>1 DEF HasEntries
    <2>6. f = [k \in DOMAIN f |-> f[k]]
      BY <1>1, <1>4, CfgFacts DEF Atomic!Data
    <2>. QED
      BY <2>4, <2>5, <2>6 DEF WithoutKeys
  <1>. QED
    BY <1>2, <1>3, <1>4 DEF HasEntries

THEOREM AlwaysTwinsConverge == DeploysSpec => []TwinsConverge
  <1>1. DeploysInit => Twins
    BY InitReach DEF Twins, TwinServices, TwinSweeps, DeploysInit
  <1>. QED
    BY <1>1, TwinsKeep, TwinsSettle, BaseAlways, PTL DEF DeploysSpec

=============================================================================
