------------------------- MODULE DeployConvergesProof -------------------------
(***************************************************************************)
(* What a deploy that ran to its end has left: everything nvoi.yaml asks   *)
(* for, whatever failed on the way, and nothing else where no deletion and *)
(* no read fails; and what the next deploy finds: nothing to ask, and what *)
(* a sweep has left.                                                       *)
(*                                                                         *)
(* The invariants follow the run: each step's work, once done, stays done  *)
(* while later steps write objects of the same kinds and sweep them.       *)
(***************************************************************************)
EXTENDS DeployProof

\* No name is a service and a cron at once: the two would share a Secret.
NamesApart == \A c \in Configs : DOMAIN c.services \cap DOMAIN c.crons = {}

\* A service does not turn from a Deployment into a StatefulSet or back.
KindsStable ==
    \A b, c \in Configs : \A n \in DOMAIN b.services \cap DOMAIN c.services :
        b.services[n].stateful = c.services[n].stateful

----------------------------------------------------------------------------
(***************************************************************************)
(* Objects of services and crons, and the pull secret.                     *)
(***************************************************************************)
AppRoles == {"app", "app-secrets"}

Apps == {o \in objs : o.name[1] \in AppRoles}

PullSecret == Object("Secret", "registry-auth", NoVal, "registries")

KubeService(n) == Object("Service", "app", n, "services")

AppSecret(n, keys) == [Object("Secret", "app-secrets", n, "services") EXCEPT !.keys = keys]

\* An owner label tells the role of an object, and that the rest: where no
\* service changes its kind, the kind of a workload is the declared one.
Sound(o) ==
    \/ /\ o.name[1] = "app" /\ o.owner = "services"
       /\ o.kind \in {"Deployment", "StatefulSet"}
       /\ KindsStable => \A c \in Configs : o.name[2] \in DOMAIN c.services =>
             (o.kind = "StatefulSet" <=> c.services[o.name[2]].stateful)
    \/ o = KubeService(o.name[2])
    \/ o = AppSecret(o.name[2], o.keys)
    \/ o.name[1] = "app" /\ o.owner = "crons" /\ o.kind = "CronJob"
    \/ o = PullSecret
    \/ /\ o.name[1] \notin AppRoles \cup {"registry-auth"}
       /\ o.owner \notin {"services", "crons", "registries"}

\* A name is used once.
Distinct == \A o, p \in Apps : SameObject(o, p) => o = p

Shaped == (\A o \in objs : Sound(o)) /\ Distinct

LEMMA SoundFacts ==
    ASSUME NEW o, Sound(o)
    PROVE  /\ o.owner \in {"services", "crons"} <=> o.name[1] \in AppRoles
           /\ o.owner = "registries" <=> o = PullSecret
           /\ o.name[1] = "registry-auth" <=> o = PullSecret
           /\ o.name[1] = "app-secrets" => o = AppSecret(o.name[2], o.keys)
           /\ (o.owner = "services" /\ o.kind = "Service") => o = KubeService(o.name[2])
           /\ (o.owner = "services" /\ o.kind = "Secret") => o = AppSecret(o.name[2], o.keys)
           /\ (o.owner = "services" /\ o.kind # "Secret") => o.name[1] = "app" /\ o.kind # "CronJob"
           /\ o.owner = "crons" => o.kind = "CronJob" /\ o.name[1] = "app"
  <1>1. /\ PullSecret.owner = "registries" /\ PullSecret.kind = "Secret"
        /\ PullSecret.name[1] = "registry-auth"
    BY DEF PullSecret, Object
  <1>2. ASSUME o = KubeService(o.name[2])
        PROVE  o.owner = "services" /\ o.kind = "Service" /\ o.name[1] = "app"
    <2>1. \A n : /\ KubeService(n).owner = "services" /\ KubeService(n).kind = "Service"
                /\ KubeService(n).name[1] = "app"
      BY DEF KubeService, Object
    <2>. QED
      BY <1>2, <2>1
  <1>3. ASSUME o = AppSecret(o.name[2], o.keys)
        PROVE  o.owner = "services" /\ o.kind = "Secret" /\ o.name[1] = "app-secrets"
    <2>1. \A n, keys : /\ AppSecret(n, keys).owner = "services" /\ AppSecret(n, keys).kind = "Secret"
                      /\ AppSecret(n, keys).name[1] = "app-secrets"
      BY DEF AppSecret, Object
    <2>. QED
      BY <1>3, <2>1
  <1>. USE DEF AppRoles
  <1>4. CASE o.name[1] = "app" /\ o.owner = "services" /\ o.kind \in {"Deployment", "StatefulSet"}
    BY <1>1, <1>4
  <1>5. CASE o = KubeService(o.name[2])
    BY <1>1, <1>2, <1>5
  <1>6. CASE o = AppSecret(o.name[2], o.keys)
    BY <1>1, <1>3, <1>6
  <1>7. CASE o.name[1] = "app" /\ o.owner = "crons" /\ o.kind = "CronJob"
    BY <1>1, <1>7
  <1>8. CASE o = PullSecret
    BY <1>1, <1>8
  <1>9. CASE /\ o.name[1] \notin AppRoles \cup {"registry-auth"}
             /\ o.owner \notin {"services", "crons", "registries"}
    BY <1>1, <1>9
  <1>. QED
    BY <1>4, <1>5, <1>6, <1>7, <1>8, <1>9 DEF Sound

LEMMA AppSecretFacts ==
    ASSUME NEW n, NEW keys
    PROVE  LET o == AppSecret(n, keys)
           IN  /\ o.kind = "Secret" /\ o.name = <<"app-secrets", n>> /\ o.keys = keys
               /\ o.owner = "services" /\ Sound(o)
  <1>1. LET o == AppSecret(n, keys)
        IN  /\ o.kind = "Secret" /\ o.name = <<"app-secrets", n>> /\ o.keys = keys
            /\ o.owner = "services"
    BY DEF AppSecret, Object
  <1>. QED
    BY <1>1 DEF Sound

\* What a step adds is sound.
LEMMA NewObjects ==
    ASSUME TypeInv, Shaped, [Next]_vars, NEW o \in objs' \ objs
    PROVE  Sound(o)
  <1>0. cfg \in Configs
    BY DEF TypeInv, TypeOK, ClusterTypeOK
  <1>1. ASSUME NEW n, NEW keys, UpsertSecret(n, keys) \/ PruneSecret(n, keys)
        PROVE  Sound(o)
    <2>1. CASE UpsertSecret(n, keys)
      <3>1. \E ks : SecretWith("app-secrets", n, "services", keys) = AppSecret(n, ks)
        BY DEF SecretWith, AppSecret
      <3>2. o = SecretWith("app-secrets", n, "services", keys)
        BY <2>1, AppliedNew DEF UpsertSecret
      <3>. QED
        BY <3>1, <3>2, AppSecretFacts
    <2>2. CASE PruneSecret(n, keys)
      <3>1. \E ks : o \in SetKeys(n, ks)
        BY <2>2 DEF PruneSecret, PruneKey, PruneDone
      <3>2. PICK ks : o \in SetKeys(n, ks)
        BY <3>1
      <3>3. PICK q \in Get("Secret", "app-secrets", n) : o = [q EXCEPT !.keys = ks]
        BY <3>2 DEF SetKeys
      <3>4. q.name[1] = "app-secrets" /\ q.name[2] = n /\ Sound(q)
        BY DEF Get, Shaped
      <3>5. q = AppSecret(n, q.keys)
        BY <3>4, SoundFacts
      <3>6. o = AppSecret(n, ks)
        BY <3>3, <3>5 DEF AppSecret, Object
      <3>. QED
        BY <3>6, AppSecretFacts
    <2>. QED
      BY <1>1, <2>1, <2>2
  <1>2. CASE RegistriesStep
    <2>1. o = PullSecret
      BY <1>2, AppliedNew DEF RegistriesStep, RegistriesLoud, RegistriesQuiet, PullSecretApplied,
         PullSecret
    <2>. QED
      BY <2>1 DEF Sound
  <1>3. CASE DatabasesStep
    <2>1. ApplyDatabase
      BY <1>3 DEF DatabasesStep, EnsureBucket, SkipDrifted, StartDatabase, DatabasesApplied, SweepDatabases,
         SweepOrphan, SweepNext, SweepDone, SweptKind, clusterVars
    <2>2. step \in 1..ObjectCount(item)
      BY <2>1 DEF TypeInv, InRange, ApplyDatabase
    <2>3. o = DatabaseObjects(item)[step]
      BY <2>1, AppliedNew DEF ApplyDatabase
    <2>. QED
      BY <2>2, <2>3, DatabaseWrites DEF Sound, AppRoles
  <1>4. CASE ServicesStep
    <2>1. CASE ApplyWorkload
      <3>1. o = Workload(item, hash)
        BY <2>1, AppliedNew DEF ApplyWorkload
      <3>2. /\ o.name = <<"app", item>> /\ o.owner = "services"
            /\ o.kind = IF cfg.services[item].stateful THEN "StatefulSet" ELSE "Deployment"
        BY <3>1 DEF Workload, Object
      <3>3. item \in DOMAIN cfg.services
        BY <2>1 DEF ApplyWorkload, TypeInv, InRange
      <3>. QED
        BY <1>0, <3>2, <3>3 DEF Sound, KindsStable
    <2>2. CASE ApplyKubeService
      <3>1. o = KubeService(item)
        BY <2>2, AppliedNew DEF ApplyKubeService, KubeService
      <3>2. o.name[2] = item
        BY <3>1 DEF KubeService, Object
      <3>. QED
        BY <3>1, <3>2 DEF Sound
    <2>. QED
      BY <1>1, <1>4, <2>1, <2>2 DEF ServicesStep, StartService, PruneServiceSecret, RolloutReady,
         ServicesApplied, SweepServices, SweepOrphan, SweepNext, SweepDone, SweptKind, clusterVars
  <1>5. CASE CronsStep
    <2>1. CASE ApplyCron
      <3>1. o = CronJob(item)
        BY <2>1, AppliedNew DEF ApplyCron
      <3>. QED
        BY <3>1 DEF Sound, CronJob, Object
    <2>. QED
      BY <1>1, <1>5, <2>1 DEF CronsStep, StartCron, PruneCronSecret, CronsApplied, SweepCrons,
         SweepOrphan, SweepNext, SweepDone, SweptKind, clusterVars
  <1>6. CASE EnsureCaddy
    <2>1. o = Object("Deployment", "caddy", NoVal, "caddy")
      BY <1>6, AppliedNew DEF EnsureCaddy
    <2>. QED
      BY <2>1 DEF Sound, AppRoles, Object
  <1>7. objs' # objs
    OBVIOUS
  <1>. QED
    BY <1>2, <1>3, <1>4, <1>5, <1>6, <1>7
       DEF Next, Run, Decide, InfraStep, IngressStep, Edit, Begin, Declined, Abort, PlanFails,
       NoChanges, Proceed, EnsureServer, DeleteServer, ApplyFirewall, TornDown, RouteTo, Unroute,
       AllRouted, AllUnrouted, ReloadCaddy, vars, clusterVars

----------------------------------------------------------------------------
(***************************************************************************)
(* What a step writes.                                                     *)
(***************************************************************************)
\* The step creates, removes or changes o.
Touched(o) == o \in (objs \ objs') \cup (objs' \ objs)

LEMMA AppliedTouches ==
    ASSUME NEW o, objs' = Applied(o), NEW p, Touched(p)
    PROVE  p.kind = o.kind /\ p.name = o.name
  BY DEF Touched, Applied, SameObject

LEMMA SecretTouched ==
    ASSUME TypeInv, NEW n, NEW keys, UpsertSecret(n, keys) \/ PruneSecret(n, keys),
           NEW p, Touched(p)
    PROVE  p.kind = "Secret" /\ p.name = <<"app-secrets", n>>
  <1>. DEFINE S == Get("Secret", "app-secrets", n)
  <1>0. \A o \in S : o.kind = "Secret" /\ o.name = <<"app-secrets", n>>
    BY DEF Get
  <1>1. CASE UpsertSecret(n, keys)
    <2>. DEFINE o == SecretWith("app-secrets", n, "services", keys)
    <2>1. o.kind = "Secret" /\ o.name = <<"app-secrets", n>>
      BY DEF SecretWith, Object
    <2>. HIDE DEF o
    <2>2. CASE objs' = objs \ S
      BY <1>0, <2>2 DEF Touched
    <2>3. CASE objs' = Applied(o)
      BY <2>1, <2>3, AppliedTouches
    <2>. QED
      BY <1>1, <2>2, <2>3 DEF UpsertSecret, o
  <1>2. CASE PruneSecret(n, keys)
    <2>1. ASSUME NEW ks, NEW o \in SetKeys(n, ks)
          PROVE  o.kind = "Secret" /\ o.name = <<"app-secrets", n>>
      <3>1. PICK q \in S : o = [q EXCEPT !.keys = ks]
        BY DEF SetKeys
      <3>2. q \in ObjectSet
        BY DEF Get, TypeInv, TypeOK, ClusterTypeOK
      <3>3. o.kind = q.kind /\ o.name = q.name
        BY <3>1, <3>2 DEF ObjectSet
      <3>. QED
        BY <1>0, <3>3
    <2>2. CASE UNCHANGED objs
      BY <2>2 DEF Touched
    <2>3. CASE \E ks : objs' = (objs \ S) \cup SetKeys(n, ks)
      BY <1>0, <2>1, <2>3 DEF Touched
    <2>. QED
      BY <1>2, <2>2, <2>3 DEF PruneSecret, PruneKey, PruneDone
  <1>. QED
    BY <1>1, <1>2

\* What each step may touch.
LEMMA Touches ==
    ASSUME TypeInv, Shaped, [Next]_vars, NEW o, Touched(o)
    PROVE  \/ RegistriesStep /\ o.name[1] = "registry-auth"
           \/ /\ DatabasesStep \/ EnsureCaddy
              /\ o.name[1] \notin AppRoles \cup {"registry-auth"}
           \/ /\ o.kind = "Secret"
              /\ \/ \E n \in Names : (StartService(n) \/ StartCron(n)) /\ o.name = <<"app-secrets", n>>
                 \/ (PruneServiceSecret \/ PruneCronSecret) /\ o.name = <<"app-secrets", item>>
           \/ ApplyWorkload /\ o.kind = Workload(item, hash).kind /\ o.name = <<"app", item>>
           \/ ApplyKubeService /\ o.kind = "Service" /\ o.name = <<"app", item>>
           \/ ApplyCron /\ o.kind = "CronJob" /\ o.name = <<"app", item>>
           \/ SweepServices /\ o \in Left("services", ServiceSweeps) /\ o \in objs
           \/ SweepCrons /\ o \in Left("crons", CronSweeps) /\ o \in objs
  <1>0. ~ UNCHANGED objs
    BY DEF Touched
  <1>1. \A owner, list : SweepOrphan(owner, list) => o \in Left(owner, list) /\ o \in objs
    BY DEF SweepOrphan, Touched, Left, Orphans
  <1>2. CASE RegistriesStep
    <2>1. PullSecret.name[1] = "registry-auth"
      BY DEF PullSecret, Object
    <2>2. objs' = Applied(PullSecret) \/ objs' = objs \ Get("Secret", "registry-auth", NoVal)
      BY <1>2 DEF RegistriesStep, RegistriesLoud, RegistriesQuiet, PullSecretApplied, PullSecret
    <2>3. CASE objs' = Applied(PullSecret)
      BY <1>2, <2>1, <2>3, AppliedTouches
    <2>4. CASE objs' = objs \ Get("Secret", "registry-auth", NoVal)
      BY <1>2, <2>4 DEF Touched, Get
    <2>. QED
      BY <2>2, <2>3, <2>4
  <1>3. CASE DatabasesStep
    <2>1. CASE ApplyDatabase
      <3>1. step \in 1..ObjectCount(item)
        BY <2>1 DEF TypeInv, InRange, ApplyDatabase
      <3>2. o.name = DatabaseObjects(item)[step].name
        BY <2>1, AppliedTouches DEF ApplyDatabase
      <3>3. DatabaseObjects(item)[step].name[1] \notin {"app", "app-secrets", "registry-auth"}
        BY <3>1, DatabaseWrites
      <3>. QED
        BY <1>3, <3>2, <3>3 DEF AppRoles
    <2>2. CASE SweepOrphan("databases", DatabaseSweeps)
      <3>1. o \in objs /\ o.owner = "databases"
        BY <1>1, <2>2 DEF Left, Orphans
      <3>2. Sound(o)
        BY <3>1 DEF Shaped
      <3>3. PullSecret.owner = "registries"
        BY DEF PullSecret, Object
      <3>4. o.name[1] # "registry-auth"
        BY <3>1, <3>2, <3>3, SoundFacts
      <3>5. o.name[1] \notin AppRoles
        BY <3>1, <3>2, SoundFacts
      <3>. QED
        BY <1>3, <3>4, <3>5
    <2>. QED
      BY <1>0, <1>3, <2>1, <2>2 DEF DatabasesStep, EnsureBucket, SkipDrifted, StartDatabase, DatabasesApplied,
         SweepDatabases, SweepNext, SweepDone, SweptKind, clusterVars
  <1>4. CASE ServicesStep
    <2>1. ASSUME NEW n \in Names, StartService(n)
          PROVE  o.kind = "Secret" /\ o.name = <<"app-secrets", n>>
      BY <2>1, SecretTouched DEF StartService
    <2>2. PruneServiceSecret => o.kind = "Secret" /\ o.name = <<"app-secrets", item>>
      BY SecretTouched DEF PruneServiceSecret
    <2>3. ApplyWorkload => o.kind = Workload(item, hash).kind /\ o.name = <<"app", item>>
      <3>1. Workload(item, hash).name = <<"app", item>>
        BY DEF Workload, Object
      <3>. QED
        BY <3>1, AppliedTouches DEF ApplyWorkload
    <2>4. ApplyKubeService => o.kind = "Service" /\ o.name = <<"app", item>>
      <3>1. KubeService(item).name = <<"app", item>> /\ KubeService(item).kind = "Service"
        BY DEF KubeService, Object
      <3>. QED
        BY <3>1, AppliedTouches DEF ApplyKubeService, KubeService
    <2>5. SweepServices => o \in Left("services", ServiceSweeps) /\ o \in objs
      BY <1>0, <1>1 DEF SweepServices, SweepNext, SweepDone, SweptKind, clusterVars
    <2>6. ~ RolloutReady /\ ~ ServicesApplied
      BY <1>0 DEF RolloutReady, ServicesApplied, clusterVars
    <2>. QED
      BY <1>4, <2>1, <2>2, <2>3, <2>4, <2>5, <2>6 DEF ServicesStep
  <1>5. CASE CronsStep
    <2>1. ASSUME NEW n \in Names, StartCron(n)
          PROVE  o.kind = "Secret" /\ o.name = <<"app-secrets", n>>
      BY <2>1, SecretTouched DEF StartCron
    <2>2. PruneCronSecret => o.kind = "Secret" /\ o.name = <<"app-secrets", item>>
      BY SecretTouched DEF PruneCronSecret
    <2>3. ApplyCron => o.kind = "CronJob" /\ o.name = <<"app", item>>
      <3>1. CronJob(item).name = <<"app", item>> /\ CronJob(item).kind = "CronJob"
        BY DEF CronJob, Object
      <3>. QED
        BY <3>1, AppliedTouches DEF ApplyCron
    <2>4. SweepCrons => o \in Left("crons", CronSweeps) /\ o \in objs
      BY <1>0, <1>1 DEF SweepCrons, SweepNext, SweepDone, SweptKind, clusterVars
    <2>5. ~ CronsApplied
      BY <1>0 DEF CronsApplied, clusterVars
    <2>. QED
      BY <1>5, <2>1, <2>2, <2>3, <2>4, <2>5 DEF CronsStep
  <1>6. CASE EnsureCaddy
    <2>. DEFINE q == Object("Deployment", "caddy", NoVal, "caddy")
    <2>1. q.name[1] = "caddy"
      BY DEF Object
    <2>2. objs' = Applied(q)
      BY <1>6 DEF EnsureCaddy
    <2>. HIDE DEF q
    <2>3. o.name[1] = "caddy"
      BY <2>1, <2>2, AppliedTouches
    <2>. QED
      BY <1>6, <2>3 DEF AppRoles
  <1>. QED
    BY <1>0, <1>2, <1>3, <1>4, <1>5, <1>6
       DEF Next, Run, Decide, InfraStep, IngressStep, Edit, Begin, Declined, Abort, PlanFails,
       NoChanges, Proceed, EnsureServer, DeleteServer, ApplyFirewall, TornDown, RouteTo, Unroute,
       AllRouted, AllUnrouted, ReloadCaddy, vars, clusterVars

\* A name stays used once.
LEMMA DistinctLess ==
    ASSUME Distinct, objs' \subseteq objs
    PROVE  Distinct'
  BY DEF Distinct, Apps, SameObject

LEMMA DistinctApplied ==
    ASSUME Distinct, NEW o, objs' = Applied(o)
    PROVE  Distinct'
  <1>1. \A p \in objs' : p \in objs \/ p = o
    BY DEF Applied
  <1>2. CASE objs' = objs
    BY <1>2, DistinctLess
  <1>3. CASE objs' = {p \in objs : ~ SameObject(o, p)} \cup {o}
    <2>1. \A p \in objs' : p = o \/ ~ SameObject(o, p)
      BY <1>3
    <2>2. \A p, q \in objs' : SameObject(p, q) /\ p # o => q # o
      BY <2>1 DEF SameObject
    <2>. QED
      BY <1>1, <2>1, <2>2 DEF Distinct, Apps
  <1>. QED
    BY <1>2, <1>3 DEF Applied

LEMMA DistinctSecret ==
    ASSUME TypeInv, Distinct, NEW n, NEW keys, UpsertSecret(n, keys) \/ PruneSecret(n, keys)
    PROVE  Distinct'
  <1>. DEFINE S == Get("Secret", "app-secrets", n)
  <1>1. CASE UpsertSecret(n, keys)
    BY <1>1, DistinctLess, DistinctApplied DEF UpsertSecret
  <1>2. CASE PruneSecret(n, keys)
    <2>1. CASE UNCHANGED objs
      BY <2>1, DistinctLess
    <2>2. CASE PruneKey(n, keys)
      <3>1. PICK ks : objs' = (objs \ S) \cup SetKeys(n, ks)
        BY <2>2 DEF PruneKey
      <3>2. \A p, q \in S : p = q
        BY DEF Distinct, Apps, AppRoles, Get, SameObject
      <3>3. \A p, q \in SetKeys(n, ks) : p = q
        BY <3>2 DEF SetKeys
      <3>4. \A p \in SetKeys(n, ks) : p.kind = "Secret" /\ p.name = <<"app-secrets", n>>
        <4>. SUFFICES ASSUME NEW p \in SetKeys(n, ks)
                      PROVE  p.kind = "Secret" /\ p.name = <<"app-secrets", n>>
          OBVIOUS
        <4>1. PICK q \in S : p = [q EXCEPT !.keys = ks]
          BY DEF SetKeys
        <4>2. q \in ObjectSet /\ q.kind = "Secret" /\ q.name = <<"app-secrets", n>>
          BY DEF Get, TypeInv, TypeOK, ClusterTypeOK
        <4>. QED
          BY <4>1, <4>2 DEF ObjectSet
      <3>5. \A p \in objs \ S : ~ (p.kind = "Secret" /\ p.name = <<"app-secrets", n>>)
        BY DEF Get
      <3>6. ASSUME NEW p \in Apps', NEW q \in Apps', SameObject(p, q)
            PROVE  p = q
        <4>1. CASE p \in objs \ S /\ q \in objs \ S
          BY <3>6, <4>1 DEF Distinct, Apps
        <4>2. CASE p \in SetKeys(n, ks) /\ q \in SetKeys(n, ks)
          BY <3>3, <4>2
        <4>. QED
          BY <3>1, <3>4, <3>5, <3>6, <4>1, <4>2 DEF Apps, SameObject
      <3>. QED
        BY <3>6 DEF Distinct, SameObject
    <2>. QED
      BY <1>2, <2>1, <2>2 DEF PruneSecret, PruneDone
  <1>. QED
    BY <1>1, <1>2

LEMMA StepShaped == TypeInv /\ Shaped /\ [Next]_vars => Shaped'
  <1>. SUFFICES ASSUME TypeInv, Shaped, [Next]_vars
                PROVE  Shaped'
    OBVIOUS
  <1>1. \A o \in objs' : Sound(o)
    BY NewObjects DEF Shaped
  <1>2. Distinct'
    <2>0. Distinct
      BY DEF Shaped
    <2>1. CASE objs' \subseteq objs
      BY <2>0, <2>1, DistinctLess
    <2>2. CASE \E o : objs' = Applied(o)
      BY <2>0, <2>2, DistinctApplied
    <2>3. CASE \E n, keys : UpsertSecret(n, keys) \/ PruneSecret(n, keys)
      BY <2>0, <2>3, DistinctSecret
    <2>4. \A owner, list : SweepOrphan(owner, list) => objs' \subseteq objs
      BY DEF SweepOrphan
    <2>5. CASE RegistriesStep
      BY <1>1, <2>1, <2>2, <2>5 DEF RegistriesStep, RegistriesLoud, RegistriesQuiet, PullSecretApplied
    <2>6. CASE DatabasesStep
      BY <2>1, <2>2, <2>4, <2>6 DEF DatabasesStep, EnsureBucket, SkipDrifted, StartDatabase, ApplyDatabase,
         DatabasesApplied, SweepDatabases, SweepNext, SweepDone, SweptKind, clusterVars
    <2>7. CASE ServicesStep
      BY <2>1, <2>2, <2>3, <2>4, <2>7 DEF ServicesStep, StartService, PruneServiceSecret,
         ApplyWorkload, ApplyKubeService, RolloutReady, ServicesApplied, SweepServices, SweepNext,
         SweepDone, SweptKind, clusterVars
    <2>8. CASE CronsStep
      BY <2>1, <2>2, <2>3, <2>4, <2>8 DEF CronsStep, StartCron, PruneCronSecret, ApplyCron,
         CronsApplied, SweepCrons, SweepNext, SweepDone, SweptKind, clusterVars
    <2>9. CASE EnsureCaddy
      BY <2>2, <2>9 DEF EnsureCaddy
    <2>10. CASE UNCHANGED objs
      BY <2>1, <2>10
    <2>. QED
      BY <2>5, <2>6, <2>7, <2>8, <2>9, <2>10
         DEF Next, Run, Decide, InfraStep, IngressStep, Edit, Begin, Declined, Abort, PlanFails,
         NoChanges, Proceed, EnsureServer, DeleteServer, ApplyFirewall, TornDown, RouteTo, Unroute,
         AllRouted, AllUnrouted, ReloadCaddy, vars, clusterVars
  <1>3. \A o : Sound(o) <=> Sound(o)'
    BY DEF Sound, KubeService, AppSecret, PullSecret, Object
  <1>. QED
    BY <1>1, <1>2, <1>3 DEF Shaped

----------------------------------------------------------------------------
(***************************************************************************)
(* How far a run is.                                                       *)
(***************************************************************************)
PastCrons == {"cronsweep", "teardown", "routes", "unroute", "caddy", "reload"}

PastServices == {"svcsweep", "crons"} \cup PastCrons

FromServices == {"services"} \cup PastServices

\* What steps of the range `after` follow, or step `at` has done the i-th
\* write for n.
Past(after, at, n, i) ==
    \/ pc \in after
    \/ pc = at /\ (n \notin todo \/ (item # NoVal /\ item = n /\ step >= i))

ServiceAt(n, i) == Past(PastServices, "services", n, i)

CronAt(n, i) == Past(PastCrons, "crons", n, i)

\* How a run gets from one place past the databases to the next.
LEMMA Moves ==
    ASSUME TypeInv, [Next]_vars, pc' \in FromServices
    PROVE  /\ UNCHANGED cfg
           /\ \/ pc \notin FromServices /\ pc' = "services" /\ todo' = DOMAIN cfg.services /\ item' = NoVal
              \/ /\ pc \in FromServices /\ UNCHANGED <<hash, sources>>
                 /\ \/ UNCHANGED <<pc, todo, item, step>>
                    \/ pc \in PastCrons /\ pc' \in PastCrons
                    \/ \E n \in Names : StartService(n) /\ Take(n)
                    \/ PruneServiceSecret /\ PruneDone(item, ServiceKeys(item))
                    \/ (ApplyWorkload \/ ApplyKubeService) /\ Continue
                    \/ RolloutReady
                    \/ ServicesApplied
                    \/ pc = "svcsweep" /\ pc' = "crons" /\ todo' = DOMAIN cfg.crons /\ item' = NoVal
                    \/ pc = "svcsweep" /\ pc' = "svcsweep"
                    \/ \E n \in Names : StartCron(n) /\ Take(n)
                    \/ PruneCronSecret /\ PruneDone(item, cfg.crons[item].secrets)
                    \/ ApplyCron
                    \/ CronsApplied
  <1>. USE DEF FromServices, PastServices, PastCrons
  <1>1. CASE ServicesStep
    <2>1. ASSUME NEW n \in Names, StartService(n)
          PROVE  pc = "services" /\ Take(n) /\ UNCHANGED <<cfg, hash, sources>>
      BY <2>1 DEF StartService, Take
    <2>2. CASE PruneServiceSecret
      BY <2>2 DEF PruneServiceSecret, PruneSecret, PruneKey, PruneDone, Continue, runVars
    <2>3. CASE ApplyWorkload \/ ApplyKubeService
      BY <2>3 DEF ApplyWorkload, ApplyKubeService, Continue
    <2>4. CASE RolloutReady
      BY <2>4 DEF RolloutReady, Processed
    <2>5. CASE ServicesApplied
      BY <2>5 DEF ServicesApplied, Enter
    <2>6. CASE SweepServices
      BY <2>6 DEF SweepServices, SweepOrphan, SweepNext, SweepDone, SweptKind, Continue, Enter, runVars
    <2>. QED
      BY <1>1, <2>1, <2>2, <2>3, <2>4, <2>5, <2>6 DEF ServicesStep
  <1>2. CASE CronsStep
    <2>1. ASSUME NEW n \in Names, StartCron(n)
          PROVE  pc = "crons" /\ Take(n) /\ UNCHANGED <<cfg, hash, sources>>
      BY <2>1 DEF StartCron, Take
    <2>2. CASE PruneCronSecret
      BY <2>2 DEF PruneCronSecret, PruneSecret, PruneKey, PruneDone, Continue, runVars
    <2>3. CASE ApplyCron
      BY <2>3 DEF ApplyCron, Processed
    <2>4. CASE CronsApplied
      BY <2>4 DEF CronsApplied, Enter
    <2>5. CASE SweepCrons
      BY <2>5 DEF SweepCrons, AfterCrons, SweepOrphan, SweepNext, SweepDone, SweptKind, Continue, Enter,
         Finish, runVars
    <2>. QED
      BY <1>2, <2>1, <2>2, <2>3, <2>4, <2>5 DEF CronsStep
  <1>3. CASE InfraStep \/ IngressStep
    BY <1>3 DEF InfraStep, IngressStep, EnsureServer, DeleteServer, ApplyFirewall, TornDown, RouteTo,
       Unroute, AllRouted, AllUnrouted, EnsureCaddy, ReloadCaddy, Enter, Finish, Processed, runVars
  <1>4. CASE RegistriesStep
    BY <1>4 DEF RegistriesStep, RegistriesLoud, RegistriesQuiet, Enter, TypeInv, InRange
  <1>5. CASE DatabasesStep
    BY <1>5 DEF DatabasesStep, EnsureBucket, SkipDrifted, StartDatabase, ApplyDatabase, DatabasesApplied,
       SweepDatabases, SweepOrphan, SweepNext, SweepDone, SweptKind, Take, Continue, Enter, Finish,
       Processed, runVars
  <1>6. CASE Proceed
    BY <1>6 DEF Proceed
  <1>7. CASE UNCHANGED vars
    BY <1>7 DEF vars, runVars
  <1>. QED
    BY <1>1, <1>2, <1>3, <1>4, <1>5, <1>6, <1>7, NotUnderway DEF Next, Run, Decide

\* A write for a service counts as done from the step on that makes it.
LEMMA ServiceReach ==
    ASSUME TypeInv, [Next]_vars, NEW n \in DOMAIN cfg.services, NEW i \in 1..4, ServiceAt(n, i)'
    PROVE  /\ UNCHANGED <<cfg, hash, sources>>
           /\ \/ ServiceAt(n, i)
              \/ i = 1 /\ StartService(n)
              \/ i = 2 /\ PruneServiceSecret /\ item = n /\ PruneDone(n, ServiceKeys(n)) /\ ServiceAt(n, 1)
              \/ i = 3 /\ ApplyWorkload /\ item = n /\ ServiceAt(n, 1)
              \/ i = 4 /\ ApplyKubeService /\ item = n /\ ServiceAt(n, 1)
  <1>. USE DEF ServiceAt, Past, FromServices, PastServices, PastCrons
  <1>0. pc' \in FromServices
    OBVIOUS
  <1>1. cfg \in Configs /\ step \in 1..6
    BY DEF TypeInv, TypeOK, ClusterTypeOK, RunTypeOK
  <1>2. CASE pc \notin FromServices
    BY <1>0, <1>2, Moves
  <1>3. CASE UNCHANGED <<pc, todo, item, step>>
    BY <1>0, <1>3, Moves
  <1>4. ASSUME NEW m \in Names, StartService(m), Take(m)
        PROVE  ServiceAt(n, i) \/ (i = 1 /\ StartService(n))
    BY <1>4 DEF StartService, Take
  <1>5. CASE PruneServiceSecret /\ PruneDone(item, ServiceKeys(item))
    <2>1. pc = "services" /\ item # NoVal /\ step = 1 /\ step' = 2 /\ UNCHANGED <<pc, todo, item>>
      BY <1>5 DEF PruneServiceSecret, PruneSecret, PruneDone, Continue
    <2>. QED
      BY <1>0, <1>5, <2>1, Moves
  <1>6. CASE (ApplyWorkload \/ ApplyKubeService) /\ Continue
    <2>1. /\ pc = "services" /\ item # NoVal /\ step' = step + 1 /\ UNCHANGED <<pc, todo, item>>
          /\ (ApplyWorkload /\ step = 2) \/ (ApplyKubeService /\ step = 3)
      BY <1>6 DEF ApplyWorkload, ApplyKubeService, Continue
    <2>. QED
      BY <1>0, <2>1, Moves
  <1>7. CASE RolloutReady
    <2>1. pc = "services" /\ item # NoVal /\ step = 4 /\ pc' = "services" /\ todo' = todo \ {item}
          /\ item' = NoVal
      BY <1>7 DEF RolloutReady, Processed
    <2>. QED
      BY <1>0, <2>1, Moves
  <1>8. CASE ServicesApplied
    BY <1>0, <1>8, Moves DEF ServicesApplied
  <1>9. CASE pc \in PastServices
    BY <1>0, <1>9, Moves
  <1>10. \A m : StartCron(m) => pc \in PastServices
    BY DEF StartCron
  <1>11. PruneCronSecret \/ ApplyCron \/ CronsApplied => pc \in PastServices
    BY DEF PruneCronSecret, ApplyCron, CronsApplied
  <1>12. UNCHANGED <<cfg, hash, sources>>
    BY <1>0, <1>2, Moves
  <1>. QED
    BY <1>0, <1>2, <1>3, <1>4, <1>5, <1>6, <1>7, <1>8, <1>9, <1>10, <1>11, <1>12, Moves

\* The same for a cron.
LEMMA CronReach ==
    ASSUME TypeInv, [Next]_vars, NEW n \in DOMAIN cfg.crons, NEW i \in 1..3, CronAt(n, i)'
    PROVE  /\ UNCHANGED <<cfg, hash, sources>>
           /\ \/ CronAt(n, i)
              \/ i = 1 /\ StartCron(n)
              \/ /\ i = 2 /\ PruneCronSecret /\ item = n /\ PruneDone(n, cfg.crons[n].secrets)
                 /\ CronAt(n, 1)
              \/ i = 3 /\ ApplyCron /\ item = n /\ CronAt(n, 1)
  <1>. USE DEF CronAt, Past, FromServices, PastServices, PastCrons
  <1>0. pc' \in FromServices
    OBVIOUS
  <1>1. step \in 1..6
    BY DEF TypeInv, TypeOK, RunTypeOK
  <1>2. CASE pc \notin FromServices
    BY <1>0, <1>2, Moves
  <1>3. CASE UNCHANGED <<pc, todo, item, step>>
    BY <1>0, <1>3, Moves
  <1>4. ASSUME NEW m \in Names, StartCron(m), Take(m)
        PROVE  CronAt(n, i) \/ (i = 1 /\ StartCron(n))
    BY <1>4 DEF StartCron, Take
  <1>5. CASE PruneCronSecret /\ PruneDone(item, cfg.crons[item].secrets)
    <2>1. pc = "crons" /\ item # NoVal /\ step = 1 /\ step' = 2 /\ UNCHANGED <<pc, todo, item>>
      BY <1>5 DEF PruneCronSecret, PruneSecret, PruneDone, Continue
    <2>. QED
      BY <1>0, <1>5, <2>1, Moves
  <1>6. CASE ApplyCron
    <2>1. pc = "crons" /\ item # NoVal /\ step = 2 /\ pc' = "crons" /\ todo' = todo \ {item}
          /\ item' = NoVal
      BY <1>6 DEF ApplyCron, Processed
    <2>. QED
      BY <1>0, <1>6, <2>1, Moves
  <1>7. CASE CronsApplied
    BY <1>0, <1>7, Moves DEF CronsApplied
  <1>8. CASE pc \in PastCrons
    BY <1>0, <1>8, Moves
  <1>9. \A m : StartService(m) /\ Take(m) => pc' = "services"
    BY DEF StartService, Take
  <1>10. ~ PruneServiceSecret \/ pc' = "services"
    BY <1>0, Moves DEF PruneServiceSecret, PruneSecret, PruneKey, PruneDone, Continue, runVars
  <1>11. ((ApplyWorkload \/ ApplyKubeService) /\ Continue) \/ RolloutReady => pc' = "services"
    BY DEF ApplyWorkload, ApplyKubeService, RolloutReady, Continue, Processed
  <1>12. ServicesApplied => pc' = "svcsweep"
    BY DEF ServicesApplied, Enter
  <1>13. UNCHANGED <<cfg, hash, sources>>
    BY <1>0, <1>2, Moves
  <1>. QED
    BY <1>0, <1>2, <1>3, <1>4, <1>5, <1>6, <1>7, <1>8, <1>9, <1>10, <1>11, <1>12, <1>13, Moves

----------------------------------------------------------------------------
(***************************************************************************)
(* The Secret of a service or cron.                                        *)
(***************************************************************************)
\* No deletion that is only warned about fails.
Thorough == "sweep" \notin Disturbances

SecretOf(n) == Get("Secret", "app-secrets", n)

HasKeys(n, keys) == keys \subseteq SecretKeys(n) /\ (keys = {} => SecretOf(n) = {})

OnlyKeys(n, keys) == HasKeys(n, keys) /\ (Thorough => SecretKeys(n) \subseteq keys)

\* The sweeps, kind by kind.
LEMMA SweptServices ==
    ASSUME TypeInv, pc = "svcsweep", NEW o \in Left("services", ServiceSweeps)
    PROVE  /\ o.owner = "services" /\ o.kind \in {"Deployment", "StatefulSet", "Service", "Secret"}
           /\ o.kind = "Secret" => o.name \notin Named("app-secrets", DOMAIN cfg.services)
           /\ o.kind # "Secret" => o.name \notin Named("app", DOMAIN cfg.services)
  <1>. DEFINE names == Named("app", DOMAIN cfg.services)
              secrets == Named("app-secrets", DOMAIN cfg.services)
  <1>1. step \in 1..4
    BY DEF TypeInv, InRange
  <1>2. /\ ServiceSweeps[1] = Swept("Deployment", names)
        /\ ServiceSweeps[2] = Swept("StatefulSet", names)
        /\ ServiceSweeps[3] = Swept("Service", names)
        /\ ServiceSweeps[4] = Swept("Secret", secrets)
    BY DEF ServiceSweeps
  <1>3. \A kind, desired : Swept(kind, desired).kind = kind /\ Swept(kind, desired).desired = desired
    BY DEF Swept
  <1>4. /\ o.owner = "services" /\ o.kind = ServiceSweeps[step].kind
        /\ o.name \notin ServiceSweeps[step].desired
    BY DEF Left, Orphans
  <1>. HIDE DEF names, secrets
  <1>5. /\ o.kind \in {"Deployment", "StatefulSet", "Service", "Secret"}
        /\ o.kind = "Secret" => o.name \notin secrets
        /\ o.kind # "Secret" => o.name \notin names
    BY <1>1, <1>2, <1>3, <1>4
  <1>. QED
    BY <1>4, <1>5 DEF names, secrets

LEMMA SweptCrons ==
    ASSUME TypeInv, Shaped, pc = "cronsweep", NEW o \in Left("crons", CronSweeps)
    PROVE  o.owner = "crons" /\ o.kind = "CronJob" /\ o.name \notin Named("app", DOMAIN cfg.crons)
  <1>. DEFINE names == Named("app", DOMAIN cfg.crons)
              secrets == Named("app-secrets", DOMAIN cfg.crons)
  <1>1. step \in 1..2
    BY DEF TypeInv, InRange
  <1>2. CronSweeps[1] = Swept("CronJob", names) /\ CronSweeps[2] = Swept("Secret", secrets)
    BY DEF CronSweeps
  <1>3. \A kind, desired : Swept(kind, desired).kind = kind /\ Swept(kind, desired).desired = desired
    BY DEF Swept
  <1>4. /\ o.owner = "crons" /\ o.kind = CronSweeps[step].kind
        /\ o.name \notin CronSweeps[step].desired /\ o \in objs
    BY DEF Left, Orphans
  <1>5. o.kind = "CronJob"
    BY <1>4, SoundFacts DEF Shaped
  <1>. HIDE DEF names, secrets
  <1>6. CronSweeps[step].kind = "CronJob" => CronSweeps[step].desired = names
    BY <1>1, <1>2, <1>3
  <1>7. o.name \notin names
    BY <1>4, <1>5, <1>6
  <1>. QED
    BY <1>4, <1>5, <1>7 DEF names

\* Who writes the Secret of n.
LEMMA SecretWriters ==
    ASSUME TypeInv, Shaped, [Next]_vars, NEW n
    PROVE  \/ SecretOf(n)' = SecretOf(n) /\ SecretKeys(n)' = SecretKeys(n)
           \/ StartService(n) \/ StartCron(n)
           \/ item = n /\ (PruneServiceSecret \/ PruneCronSecret)
           \/ SweepServices /\ n \notin DOMAIN cfg.services
  <1>1. CASE SecretOf(n)' = SecretOf(n)
    BY <1>1 DEF SecretOf, SecretKeys
  <1>2. CASE SecretOf(n)' # SecretOf(n)
    <2>1. PICK o : Touched(o) /\ o.kind = "Secret" /\ o.name = <<"app-secrets", n>>
      BY <1>2 DEF SecretOf, Get, Touched
    <2>2. o.name[1] = "app-secrets" /\ o.name[2] = n
      BY <2>1
    <2>3. Workload(item, hash).kind # "Secret"
      BY DEF Workload, Object
    <2>4. CASE SweepServices /\ o \in Left("services", ServiceSweeps)
      <3>1. o.name \notin Named("app-secrets", DOMAIN cfg.services)
        BY <2>1, <2>4, SweptServices DEF SweepServices
      <3>. QED
        BY <2>1, <2>4, <3>1 DEF Named
    <2>5. CASE SweepCrons /\ o \in Left("crons", CronSweeps)
      BY <2>1, <2>5, SweptCrons DEF SweepCrons
    <2>6. \A m : o.name = <<"app-secrets", m>> => m = n
      BY <2>1
    <2>. QED
      BY <2>1, <2>2, <2>3, <2>4, <2>5, <2>6, Touches DEF AppRoles
  <1>. QED
    BY <1>1, <1>2

LEMMA UpsertHas ==
    ASSUME NEW n, NEW keys, UpsertSecret(n, keys)
    PROVE  HasKeys(n, keys)'
  <1>1. keys = {} => SecretOf(n)' = {}
    BY DEF UpsertSecret, SecretOf, Get
  <1>. QED
    BY <1>1, UpsertStores DEF HasKeys

LEMMA PruneHas ==
    ASSUME TypeInv, NEW n, NEW keys, PruneSecret(n, keys), HasKeys(n, keys)
    PROVE  /\ HasKeys(n, keys)'
           /\ OnlyKeys(n, keys) => OnlyKeys(n, keys)'
           /\ PruneDone(n, keys) => OnlyKeys(n, keys)'
  <1>1. CASE UNCHANGED objs
    <2>1. SecretOf(n)' = SecretOf(n) /\ SecretKeys(n)' = SecretKeys(n)
      BY <1>1 DEF SecretOf, SecretKeys, Get
    <2>2. PruneDone(n, keys) /\ Thorough => SecretKeys(n) \subseteq keys
      BY DEF PruneDone, Thorough
    <2>. QED
      BY <2>1, <2>2 DEF HasKeys, OnlyKeys
  <1>2. CASE PruneKey(n, keys)
    <2>1. PICK k \in SecretKeys(n) \ keys :
             objs' = (objs \ SecretOf(n)) \cup SetKeys(n, SecretKeys(n) \ {k})
      BY <1>2 DEF PruneKey, SecretOf
    <2>2. keys # {}
      BY <2>1 DEF HasKeys, SecretOf, SecretKeys
    <2>3. keys \subseteq SecretKeys(n)'
      BY PruneStores DEF HasKeys
    <2>4. \A ks : \A o \in SetKeys(n, ks) : o.keys = ks
      <3>. SUFFICES ASSUME NEW ks, NEW o \in SetKeys(n, ks) PROVE o.keys = ks
        OBVIOUS
      <3>1. PICK q \in SecretOf(n) : o = [q EXCEPT !.keys = ks]
        BY DEF SetKeys, SecretOf
      <3>2. q \in ObjectSet
        BY DEF SecretOf, Get, TypeInv, TypeOK, ClusterTypeOK
      <3>. QED
        BY <3>1, <3>2 DEF ObjectSet
    <2>5. \A o \in SecretOf(n)' : o.keys = SecretKeys(n) \ {k}
      BY <2>1, <2>4 DEF SecretOf, Get
    <2>6. SecretKeys(n)' \subseteq SecretKeys(n)
      BY <2>5 DEF SecretKeys, SecretOf
    <2>7. ~ PruneDone(n, keys)
      <3>1. SecretKeys(n)' = SecretKeys(n) \/ objs' # objs
        BY DEF SecretKeys, Get
      <3>2. k \notin SecretKeys(n)'
        BY <2>5 DEF SecretKeys, SecretOf
      <3>. QED
        BY <3>1, <3>2 DEF PruneDone
    <2>. QED
      BY <2>2, <2>3, <2>6, <2>7 DEF HasKeys, OnlyKeys
  <1>. QED
    BY <1>1, <1>2 DEF PruneSecret, PruneDone

----------------------------------------------------------------------------
(***************************************************************************)
(* What a run has done for each service and cron stays done.               *)
(***************************************************************************)
ServiceDone(n) ==
    /\ ServiceAt(n, 1) => HasKeys(n, ServiceKeys(n))
    /\ ServiceAt(n, 2) => OnlyKeys(n, ServiceKeys(n))
    /\ ServiceAt(n, 3) => Workload(n, hash) \in objs
    /\ ServiceAt(n, 4) => KubeService(n) \in objs

CronDone(n) ==
    /\ CronAt(n, 1) => HasKeys(n, cfg.crons[n].secrets)
    /\ CronAt(n, 2) => OnlyKeys(n, cfg.crons[n].secrets)
    /\ CronAt(n, 3) => CronJob(n) \in objs

AppsDone ==
    /\ \A n \in DOMAIN cfg.services : ServiceDone(n)
    /\ \A n \in DOMAIN cfg.crons : CronDone(n)

\* Later steps keep the Secret of a service,
LEMMA ServiceSecretKept ==
    ASSUME NamesApart, TypeInv, Shaped, [Next]_vars, UNCHANGED <<cfg, hash, sources>>,
           NEW n \in DOMAIN cfg.services, ServiceAt(n, 1), HasKeys(n, ServiceKeys(n))
    PROVE  /\ HasKeys(n, ServiceKeys(n))'
           /\ OnlyKeys(n, ServiceKeys(n)) => OnlyKeys(n, ServiceKeys(n))'
           /\ PruneServiceSecret /\ item = n /\ PruneDone(n, ServiceKeys(n)) => OnlyKeys(n, ServiceKeys(n))'
  <1>0. ServiceKeys(n)' = ServiceKeys(n)
    BY DEF ServiceKeys
  <1>1. n \notin DOMAIN cfg.crons
    BY DEF NamesApart, TypeInv, TypeOK, ClusterTypeOK
  <1>2. CASE PruneServiceSecret /\ item = n
    <2>1. PruneSecret(n, ServiceKeys(n))
      BY <1>2 DEF PruneServiceSecret
    <2>. DEFINE keys == ServiceKeys(n)
    <2>2. /\ HasKeys(n, keys)' <=> (keys \subseteq SecretKeys(n)' /\ (keys = {} => SecretOf(n)' = {}))
          /\ OnlyKeys(n, keys)' <=> (HasKeys(n, keys)' /\ (Thorough => SecretKeys(n)' \subseteq keys))
      BY <1>0 DEF HasKeys, OnlyKeys
    <2>. QED
      BY <1>0, <2>1, <2>2, PruneHas DEF HasKeys, OnlyKeys
  <1>3. ~ StartService(n)
    BY DEF StartService, ServiceAt, Past, PastServices, PastCrons
  <1>4. ~ StartCron(n)
    BY <1>1 DEF StartCron, TypeInv, InRange
  <1>5. ~ (PruneCronSecret /\ item = n)
    BY <1>1 DEF PruneCronSecret, TypeInv, InRange
  <1>6. CASE /\ ~ (PruneServiceSecret /\ item = n)
             /\ SecretOf(n)' = SecretOf(n) /\ SecretKeys(n)' = SecretKeys(n)
    BY <1>0, <1>6 DEF HasKeys, OnlyKeys
  <1>. QED
    BY <1>2, <1>3, <1>4, <1>5, <1>6, SecretWriters

\* its workload and its Kubernetes Service,
LEMMA ServiceObjectsKept ==
    ASSUME TypeInv, Shaped, [Next]_vars, UNCHANGED <<cfg, hash, sources>>,
           NEW n \in DOMAIN cfg.services
    PROVE  /\ Workload(n, hash) \in objs => Workload(n, hash)' \in objs'
           /\ KubeService(n) \in objs => KubeService(n) \in objs'
           /\ ApplyWorkload /\ item = n => Workload(n, hash)' \in objs'
           /\ ApplyKubeService /\ item = n => KubeService(n) \in objs'
  <1>0. Workload(n, hash)' = Workload(n, hash)
    BY DEF Workload, ResolveImage, ServiceKeys
  <1>1. /\ Workload(n, hash).name = <<"app", n>> /\ Workload(n, hash).owner = "services"
        /\ Workload(n, hash).kind \in {"Deployment", "StatefulSet"}
    BY DEF Workload, Object
  <1>2. /\ KubeService(n).name = <<"app", n>> /\ KubeService(n).owner = "services"
        /\ KubeService(n).kind = "Service"
    BY DEF KubeService, Object
  <1>3. ApplyWorkload /\ item = n => Workload(n, hash) \in objs'
    BY <1>1 DEF ApplyWorkload, Applied
  <1>4. ApplyKubeService /\ item = n => KubeService(n) \in objs'
    BY <1>2 DEF ApplyKubeService, Applied, KubeService
  <1>5. ASSUME NEW o \in objs, o \notin objs', o \in {Workload(n, hash), KubeService(n)}
        PROVE  FALSE
    <2>1. /\ o.name = <<"app", n>> /\ o.owner = "services" /\ Touched(o)
          /\ o.kind \in {"Deployment", "StatefulSet", "Service"}
      BY <1>1, <1>2, <1>5 DEF Touched
    <2>2. o.name[1] = "app"
      BY <2>1
    <2>3. o.name \in Named("app", DOMAIN cfg.services)
      BY <2>1 DEF Named
    <2>4. ~ (SweepServices /\ o \in Left("services", ServiceSweeps))
      BY <2>1, <2>3, SweptServices DEF SweepServices
    <2>5. ~ (SweepCrons /\ o \in Left("crons", CronSweeps))
      BY <2>1, SweptCrons DEF SweepCrons
    <2>6. ASSUME ApplyWorkload, o.kind = Workload(item, hash).kind, o.name = <<"app", item>>
          PROVE  FALSE
      <3>1. item = n
        BY <2>1, <2>6
      <3>2. o = Workload(n, hash)
        BY <1>1, <1>2, <1>5, <2>6, <3>1
      <3>. QED
        BY <1>3, <1>5, <2>6, <3>1, <3>2
    <2>7. ASSUME ApplyKubeService, o.kind = "Service", o.name = <<"app", item>>
          PROVE  FALSE
      <3>1. item = n
        BY <2>1, <2>7
      <3>2. o = KubeService(n)
        BY <1>1, <1>5, <2>7
      <3>. QED
        BY <1>4, <1>5, <2>7, <3>1, <3>2
    <2>. QED
      BY <2>1, <2>2, <2>4, <2>5, <2>6, <2>7, Touches DEF AppRoles
  <1>. QED
    BY <1>0, <1>3, <1>4, <1>5

LEMMA StepServiceDone ==
    ASSUME NamesApart, TypeInv, Shaped, [Next]_vars, NEW n \in DOMAIN cfg.services, ServiceDone(n)
    PROVE  ServiceDone(n)'
  <1>1. ASSUME ServiceAt(n, 1)'
        PROVE  HasKeys(n, ServiceKeys(n))'
    <2>1. UNCHANGED <<cfg, hash, sources>> /\ (ServiceAt(n, 1) \/ StartService(n))
      BY <1>1, ServiceReach
    <2>2. ServiceKeys(n)' = ServiceKeys(n)
      BY <2>1 DEF ServiceKeys
    <2>3. CASE StartService(n)
      <3>1. UpsertSecret(n, ServiceKeys(n))
        BY <2>3 DEF StartService
      <3>. QED
        BY <2>2, <3>1, UpsertHas DEF HasKeys
    <2>4. CASE ServiceAt(n, 1)
      BY <2>1, <2>4, ServiceSecretKept DEF ServiceDone
    <2>. QED
      BY <2>1, <2>3, <2>4
  <1>2. ASSUME ServiceAt(n, 2)'
        PROVE  OnlyKeys(n, ServiceKeys(n))'
    <2>1. /\ UNCHANGED <<cfg, hash, sources>>
          /\ \/ ServiceAt(n, 2)
             \/ PruneServiceSecret /\ item = n /\ PruneDone(n, ServiceKeys(n)) /\ ServiceAt(n, 1)
      BY <1>2, ServiceReach
    <2>2. ServiceAt(n, 2) => ServiceAt(n, 1)
      BY DEF ServiceAt, Past, TypeInv, TypeOK, RunTypeOK
    <2>. QED
      BY <2>1, <2>2, ServiceSecretKept DEF ServiceDone
  <1>3. ASSUME ServiceAt(n, 3)'
        PROVE  Workload(n, hash)' \in objs'
    <2>1. /\ UNCHANGED <<cfg, hash, sources>>
          /\ ServiceAt(n, 3) \/ (ApplyWorkload /\ item = n)
      BY <1>3, ServiceReach
    <2>. QED
      BY <2>1, ServiceObjectsKept DEF ServiceDone
  <1>4. ASSUME ServiceAt(n, 4)'
        PROVE  KubeService(n) \in objs'
    <2>1. /\ UNCHANGED <<cfg, hash, sources>>
          /\ ServiceAt(n, 4) \/ (ApplyKubeService /\ item = n)
      BY <1>4, ServiceReach
    <2>. QED
      BY <2>1, ServiceObjectsKept DEF ServiceDone
  <1>5. KubeService(n)' = KubeService(n)
    BY DEF KubeService, Object
  <1>. QED
    BY <1>1, <1>2, <1>3, <1>4, <1>5 DEF ServiceDone

\* and what a cron has.
LEMMA StepCronDone ==
    ASSUME NamesApart, TypeInv, Shaped, [Next]_vars, NEW n \in DOMAIN cfg.crons, CronDone(n)
    PROVE  CronDone(n)'
  <1>. DEFINE keys == cfg.crons[n].secrets
  <1>0. n \notin DOMAIN cfg.services
    BY DEF NamesApart, TypeInv, TypeOK, ClusterTypeOK
  <1>1. ASSUME CronAt(n, 1), UNCHANGED <<cfg, hash, sources>>, HasKeys(n, keys)
        PROVE  /\ HasKeys(n, keys)'
               /\ OnlyKeys(n, keys) => OnlyKeys(n, keys)'
               /\ PruneCronSecret /\ item = n /\ PruneDone(n, keys) => OnlyKeys(n, keys)'
    <2>0. keys' = keys
      BY <1>1
    <2>1. CASE PruneCronSecret /\ item = n
      <3>1. PruneSecret(n, keys)
        BY <2>1 DEF PruneCronSecret
      <3>. HIDE DEF keys
      <3>. QED
        BY <1>1, <2>0, <3>1, PruneHas DEF HasKeys, OnlyKeys
    <2>2. ~ StartService(n)
      BY <1>0 DEF StartService, TypeInv, InRange
    <2>3. ~ StartCron(n)
      BY <1>1 DEF StartCron, CronAt, Past, PastCrons
    <2>4. ~ (PruneServiceSecret /\ item = n)
      BY <1>0 DEF PruneServiceSecret, TypeInv, InRange
    <2>5. ~ SweepServices
      BY <1>1 DEF SweepServices, CronAt, Past, PastCrons
    <2>6. CASE /\ ~ (PruneCronSecret /\ item = n)
               /\ SecretOf(n)' = SecretOf(n) /\ SecretKeys(n)' = SecretKeys(n)
      BY <1>1, <2>0, <2>6 DEF HasKeys, OnlyKeys
    <2>. QED
      BY <2>1, <2>2, <2>3, <2>4, <2>5, <2>6, SecretWriters
  <1>2. ASSUME CronAt(n, 1)'
        PROVE  HasKeys(n, keys)'
    <2>1. UNCHANGED <<cfg, hash, sources>> /\ (CronAt(n, 1) \/ StartCron(n))
      BY <1>2, CronReach
    <2>2. CASE StartCron(n)
      <3>1. UpsertSecret(n, keys) /\ keys' = keys
        BY <2>1, <2>2 DEF StartCron
      <3>. HIDE DEF keys
      <3>. QED
        BY <3>1, UpsertHas DEF HasKeys
    <2>3. CASE CronAt(n, 1)
      BY <1>1, <2>1, <2>3 DEF CronDone
    <2>. QED
      BY <2>1, <2>2, <2>3
  <1>3. ASSUME CronAt(n, 2)'
        PROVE  OnlyKeys(n, keys)'
    <2>1. /\ UNCHANGED <<cfg, hash, sources>>
          /\ \/ CronAt(n, 2)
             \/ PruneCronSecret /\ item = n /\ PruneDone(n, keys) /\ CronAt(n, 1)
      BY <1>3, CronReach
    <2>2. CronAt(n, 2) => CronAt(n, 1)
      BY DEF CronAt, Past, TypeInv, TypeOK, RunTypeOK
    <2>. QED
      BY <1>1, <2>1, <2>2 DEF CronDone
  <1>4. ASSUME CronAt(n, 3)'
        PROVE  CronJob(n)' \in objs'
    <2>1. UNCHANGED <<cfg, hash, sources>> /\ (CronAt(n, 3) \/ (ApplyCron /\ item = n))
      BY <1>4, CronReach
    <2>. DEFINE o == CronJob(n)
    <2>2. o' = o
      BY <2>1 DEF CronJob, Object
    <2>3. o.name = <<"app", n>> /\ o.owner = "crons" /\ o.kind = "CronJob"
      BY DEF CronJob, Object
    <2>4. ApplyCron /\ item = n => o \in objs'
      BY <2>3 DEF ApplyCron, Applied
    <2>. HIDE DEF o
    <2>5. ASSUME o \in objs, o \notin objs'
          PROVE  FALSE
      <3>1. Touched(o) /\ o.name[1] = "app"
        BY <2>3, <2>5 DEF Touched
      <3>2. o.name \in Named("app", DOMAIN cfg.crons)
        BY <2>3 DEF Named
      <3>3. ~ (SweepServices /\ o \in Left("services", ServiceSweeps))
        BY <2>3, SweptServices DEF SweepServices
      <3>4. ~ (SweepCrons /\ o \in Left("crons", CronSweeps))
        BY <3>2, SweptCrons DEF SweepCrons
      <3>5. Workload(item, hash).kind # "CronJob"
        BY DEF Workload, Object
      <3>6. ~ (ApplyCron /\ o.name = <<"app", item>>)
        BY <2>3, <2>4, <2>5
      <3>. QED
        BY <2>3, <3>1, <3>3, <3>4, <3>5, <3>6, Touches DEF AppRoles
    <2>6. CASE CronAt(n, 3)
      BY <2>2, <2>5, <2>6 DEF CronDone, o
    <2>. QED
      BY <2>1, <2>2, <2>4, <2>6 DEF o
  <1>. QED
    BY <1>2, <1>3, <1>4 DEF CronDone

\* A run that gets here anew has done nothing yet.
LEMMA StepAppsDone ==
    ASSUME NamesApart, TypeInv, Shaped, AppsDone, [Next]_vars
    PROVE  AppsDone'
  <1>1. CASE UNCHANGED cfg
    BY <1>1, StepServiceDone, StepCronDone DEF AppsDone
  <1>2. CASE ~ UNCHANGED cfg
    <2>1. pc' \notin FromServices
      BY <1>2, Moves
    <2>. QED
      BY <2>1 DEF AppsDone, ServiceDone, CronDone, ServiceAt, CronAt, Past, FromServices, PastServices,
         PastCrons
  <1>. QED
    BY <1>1, <1>2

----------------------------------------------------------------------------
(***************************************************************************)
(* The pull secret, and how a run ends.                                    *)
(***************************************************************************)
AfterRegistries == {"databases", "dbsweep"} \cup FromServices

Pulled == pc \in AfterRegistries => (PullSecret \in objs <=> cfg.registry)

LEMMA AfterRegistriesMoves ==
    ASSUME [Next]_vars, pc' \in AfterRegistries
    PROVE  UNCHANGED cfg /\ (RegistriesStep \/ (pc \in AfterRegistries /\ ~ RegistriesStep))
  <1>. USE DEF AfterRegistries, FromServices, PastServices, PastCrons
  <1>1. ASSUME RegistriesStep \/ DatabasesStep \/ ServicesStep \/ CronsStep
        PROVE  UNCHANGED cfg
    BY <1>1, MiddleSteps
  <1>2. RegistriesStep => pc = "registries"
    BY DEF RegistriesStep, RegistriesLoud, RegistriesQuiet
  <1>3. DatabasesStep => pc \in {"databases", "dbsweep"}
    BY DEF DatabasesStep, EnsureBucket, SkipDrifted, StartDatabase, ApplyDatabase, DatabasesApplied, SweepDatabases
  <1>4. ServicesStep => pc \in {"services", "svcsweep"}
    BY DEF ServicesStep, StartService, PruneServiceSecret, ApplyWorkload, ApplyKubeService,
       RolloutReady, ServicesApplied, SweepServices
  <1>5. CronsStep => pc \in {"crons", "cronsweep"}
    BY DEF CronsStep, StartCron, PruneCronSecret, ApplyCron, CronsApplied, SweepCrons
  <1>6. InfraStep => UNCHANGED cfg /\ (pc = "teardown" \/ pc' \in {"bootstrap", "registries"})
    BY DEF InfraStep, EnsureServer, DeleteServer, ApplyFirewall, TornDown, Enter, runVars, clusterVars
  <1>7. IngressStep => UNCHANGED cfg /\ pc \in {"routes", "unroute", "caddy", "reload"}
    BY DEF IngressStep, RouteTo, Unroute, AllRouted, AllUnrouted, EnsureCaddy, ReloadCaddy
  <1>8. Proceed => pc' \in {"bootstrap", "registries"}
    BY DEF Proceed
  <1>9. UNCHANGED vars => UNCHANGED <<cfg, pc>>
    BY DEF vars, runVars
  <1>. QED
    BY <1>1, <1>2, <1>3, <1>4, <1>5, <1>6, <1>7, <1>8, <1>9, NotUnderway DEF Next, Run, Decide

LEMMA StepPulled ==
    ASSUME TypeInv, Shaped, Pulled, [Next]_vars
    PROVE  Pulled'
  <1>. SUFFICES ASSUME pc' \in AfterRegistries
                PROVE  PullSecret \in objs' <=> cfg'.registry
    BY DEF Pulled, PullSecret, Object
  <1>0. /\ PullSecret.kind = "Secret" /\ PullSecret.name = <<"registry-auth", NoVal>>
        /\ PullSecret.name[1] = "registry-auth" /\ PullSecret.owner = "registries"
    BY DEF PullSecret, Object
  <1>1. UNCHANGED cfg
    BY AfterRegistriesMoves
  <1>2. CASE RegistriesStep
    <2>1. objs' = PullSecretApplied
      BY <1>2 DEF RegistriesStep, RegistriesLoud, RegistriesQuiet
    <2>2. CASE cfg.registry
      BY <1>0, <1>1, <2>1, <2>2 DEF PullSecretApplied, Applied, PullSecret
    <2>3. CASE ~ cfg.registry
      BY <1>0, <1>1, <2>1, <2>3 DEF PullSecretApplied, Get
    <2>. QED
      BY <2>2, <2>3
  <1>3. CASE ~ RegistriesStep
    <2>1. ~ (SweepServices /\ PullSecret \in Left("services", ServiceSweeps))
      BY <1>0, SweptServices DEF SweepServices
    <2>2. ~ (SweepCrons /\ PullSecret \in Left("crons", CronSweeps))
      BY <1>0, SweptCrons DEF SweepCrons
    <2>3. \A n : PullSecret.name \notin {<<"app", n>>, <<"app-secrets", n>>}
      BY <1>0
    <2>4. ~ Touched(PullSecret)
      BY <1>0, <1>3, <2>1, <2>2, <2>3, Touches
    <2>5. PullSecret \in objs' <=> PullSecret \in objs
      BY <2>4 DEF Touched
    <2>. QED
      BY <1>1, <1>3, <2>5, AfterRegistriesMoves DEF Pulled
  <1>. QED
    BY <1>2, <1>3

\* Nothing is said of a run that is under way.
Undecided == pc # "idle" => outcome = "none"

\* The ways a run ends well.
LEMMA Finishes ==
    ASSUME Undecided, [Next]_vars
    PROVE  /\ Undecided'
           /\ outcome' = "done" =>
                 \/ UNCHANGED vars
                 \/ /\ UNCHANGED <<cfg, objs, servers, webOpen, records>>
                    /\ \/ SweepCrons /\ SweepDone("crons", CronSweeps) /\ ~ Loud /\ ~ WebWanted
                       \/ TornDown /\ ~ WebWanted
                       \/ ReloadCaddy
  <1>. USE DEF Undecided
  <1>1. CASE UNCHANGED vars
    BY <1>1 DEF vars, runVars
  <1>2. CASE RegistriesStep
    BY <1>2 DEF RegistriesStep, RegistriesLoud, RegistriesQuiet, Enter
  <1>3. CASE DatabasesStep
    BY <1>3 DEF DatabasesStep, EnsureBucket, SkipDrifted, StartDatabase, ApplyDatabase, DatabasesApplied,
       SweepDatabases, SweepOrphan, SweepNext, SweepDone, SweptKind, Take, Continue, Enter, Finish,
       Processed, runVars
  <1>4. CASE ServicesStep
    BY <1>4 DEF ServicesStep, StartService, PruneServiceSecret, PruneSecret, PruneKey, PruneDone,
       ApplyWorkload, ApplyKubeService, RolloutReady, ServicesApplied, SweepServices, SweepOrphan,
       SweepNext, SweepDone, SweptKind, Take, Continue, Enter, Processed, runVars
  <1>5. CASE CronsStep /\ ~ SweepCrons
    BY <1>5 DEF CronsStep, StartCron, PruneCronSecret, PruneSecret, PruneKey, PruneDone, ApplyCron,
       CronsApplied, Take, Continue, Enter, Processed, runVars
  <1>6. CASE SweepCrons
    <2>1. CASE SweepDone("crons", CronSweeps) /\ AfterCrons
      BY <1>6, <2>1 DEF SweepDone, SweptKind, AfterCrons, SweepCrons, Enter, Finish, clusterVars
    <2>2. CASE SweepOrphan("crons", CronSweeps) \/ SweepNext("crons", CronSweeps)
      BY <1>6, <2>2 DEF SweepCrons, SweepOrphan, SweepNext, Continue, runVars
    <2>. QED
      BY <1>6, <2>1, <2>2 DEF SweepCrons
  <1>7. CASE InfraStep
    BY <1>7 DEF InfraStep, EnsureServer, DeleteServer, ApplyFirewall, TornDown, Enter, Finish, runVars,
       clusterVars
  <1>8. CASE IngressStep
    BY <1>8 DEF IngressStep, RouteTo, Unroute, AllRouted, AllUnrouted, EnsureCaddy, ReloadCaddy, Enter,
       Finish, Processed
  <1>9. CASE Decide \/ Declined \/ Abort \/ \E h \in Hashes : Begin(h)
    BY <1>9 DEF Decide, PlanFails, NoChanges, Proceed, Declined, Abort, Begin, Finish
  <1>10. CASE \E c \in Configs : Edit(c)
    BY <1>10 DEF Edit
  <1>. QED
    BY <1>1, <1>2, <1>3, <1>4, <1>5, <1>6, <1>7, <1>8, <1>9, <1>10 DEF Next, Run

----------------------------------------------------------------------------
(***************************************************************************)
(* Nothing that is declared is missing.                                    *)
(***************************************************************************)
\* The workload nvoi.yaml asks for.
Asked(n) ==
    [kind |-> IF cfg.services[n].stateful THEN "StatefulSet" ELSE "Deployment",
     name |-> <<"app", n>>, owner |-> "services", image |-> cfg.services[n].image, tag |-> NoVal,
     spec |-> cfg.services[n].spec, keys |-> DeclaredKeys(n), node |-> NoVal, pull |-> cfg.registry]

LEMMA ErasedWorkload ==
    ASSUME NEW n, NEW h
    PROVE  /\ [Erased(Workload(n, h)) EXCEPT !.keys = DeclaredKeys(n)] = Asked(n)
           /\ ServiceKeys(n) = DeclaredKeys(n) => Erased(Workload(n, h)) = Asked(n)
  <1>. DEFINE Of(k, i, t, s, ks, d, p) ==
                [kind |-> k, name |-> <<"app", n>>, owner |-> "services", image |-> i, tag |-> t,
                 spec |-> s, keys |-> ks, node |-> d, pull |-> p]
              kind == IF cfg.services[n].stateful THEN "StatefulSet" ELSE "Deployment"
              no == FALSE
              image == ResolveImage(n, h).image
              tag == ResolveImage(n, h).tag
              o0 == Object(kind, "app", n, "services")
              o1 == [o0 EXCEPT !.image = image]
              o2 == [o1 EXCEPT !.tag = tag]
              o3 == [o2 EXCEPT !.spec = cfg.services[n].spec]
              o4 == [o3 EXCEPT !.keys = ServiceKeys(n)]
              o5 == [o4 EXCEPT !.pull = cfg.registry]
              o6 == [o5 EXCEPT !.tag = NoVal]
              o7 == [o6 EXCEPT !.node = NoVal]
  <1>1. Workload(n, h) = o5
    BY Zenon DEF Workload
  <1>2. Erased(o5) = o7
    BY Zenon DEF Erased
  <1>3. \A k, i, t, s, ks, d, p, new :
           LET o == Of(k, i, t, s, ks, d, p)
           IN  /\ [o EXCEPT !.image = new] = Of(k, new, t, s, ks, d, p)
               /\ [o EXCEPT !.tag = new] = Of(k, i, new, s, ks, d, p)
               /\ [o EXCEPT !.spec = new] = Of(k, i, t, new, ks, d, p)
               /\ [o EXCEPT !.keys = new] = Of(k, i, t, s, new, d, p)
               /\ [o EXCEPT !.node = new] = Of(k, i, t, s, ks, new, p)
               /\ [o EXCEPT !.pull = new] = Of(k, i, t, s, ks, d, new)
    OBVIOUS
  <1>4. o0 = Of(kind, NoVal, NoVal, NoVal, {}, NoVal, no)
    BY DEF Object, no
  <1>. HIDE DEF Of, kind, no, image, tag, o0, o1, o2, o3, o4, o5, o6, o7
  <1>5. o7 = Of(kind, image, NoVal, cfg.services[n].spec, ServiceKeys(n), NoVal, cfg.registry)
    <2>1. o1 = Of(kind, image, NoVal, NoVal, {}, NoVal, no)
      BY <1>3, <1>4 DEF o1
    <2>2. o2 = Of(kind, image, tag, NoVal, {}, NoVal, no)
      BY <1>3, <2>1 DEF o2
    <2>3. o3 = Of(kind, image, tag, cfg.services[n].spec, {}, NoVal, no)
      BY <1>3, <2>2 DEF o3
    <2>4. o4 = Of(kind, image, tag, cfg.services[n].spec, ServiceKeys(n), NoVal, no)
      BY <1>3, <2>3 DEF o4
    <2>5. o5 = Of(kind, image, tag, cfg.services[n].spec, ServiceKeys(n), NoVal, cfg.registry)
      BY <1>3, <2>4 DEF o5
    <2>6. o6 = Of(kind, image, NoVal, cfg.services[n].spec, ServiceKeys(n), NoVal, cfg.registry)
      BY <1>3, <2>5 DEF o6
    <2>. QED
      BY <1>3, <2>6 DEF o7
  <1>6. image = cfg.services[n].image
    BY DEF ResolveImage, image
  <1>7. Erased(Workload(n, h)) = Of(kind, cfg.services[n].image, NoVal, cfg.services[n].spec,
                                    ServiceKeys(n), NoVal, cfg.registry)
    BY <1>1, <1>2, <1>5, <1>6
  <1>8. Asked(n) = Of(kind, cfg.services[n].image, NoVal, cfg.services[n].spec, DeclaredKeys(n),
                      NoVal, cfg.registry)
    BY Zenon DEF Asked, Of, kind
  <1>. QED
    BY <1>3, <1>7, <1>8

LEMMA WantedIsAsked ==
    ASSUME NEW n
    PROVE  WantedWorkload(n) = Asked(n)
  BY ErasedWorkload DEF WantedWorkload

\* What is asked for, one by one.
LEMMA WantedOnes ==
    ASSUME NEW o
    PROVE  o \in WantedApps <=>
             \/ \E n \in DOMAIN cfg.services :
                   \/ o = Asked(n) \/ o = KubeService(n)
                   \/ DeclaredKeys(n) # {} /\ o = AppSecret(n, DeclaredKeys(n))
             \/ \E n \in DOMAIN cfg.crons :
                   \/ o = CronJob(n)
                   \/ cfg.crons[n].secrets # {} /\ o = AppSecret(n, cfg.crons[n].secrets)
             \/ cfg.registry /\ o = PullSecret
  <1>1. \A n, keys : o \in WantedSecret(n, keys) <=> keys # {} /\ o = AppSecret(n, keys)
    BY DEF WantedSecret, AppSecret
  <1>2. o \in WantedServices <=>
           \E n \in DOMAIN cfg.services :
              \/ o = Asked(n) \/ o = KubeService(n)
              \/ DeclaredKeys(n) # {} /\ o = AppSecret(n, DeclaredKeys(n))
    BY <1>1, WantedIsAsked DEF WantedServices, KubeService
  <1>3. o \in WantedCrons <=>
           \E n \in DOMAIN cfg.crons :
              \/ o = CronJob(n)
              \/ cfg.crons[n].secrets # {} /\ o = AppSecret(n, cfg.crons[n].secrets)
    BY <1>1 DEF WantedCrons
  <1>4. o \in WantedPullSecret <=> cfg.registry /\ o = PullSecret
    BY DEF WantedPullSecret, PullSecret
  <1>. QED
    BY <1>2, <1>3, <1>4 DEF WantedApps

\* It depends on the configuration alone.
LEMMA WantedStays ==
    ASSUME UNCHANGED cfg
    PROVE  WantedApps' = WantedApps
  <1>1. \A n : Asked(n)' = Asked(n) /\ DeclaredKeys(n)' = DeclaredKeys(n) /\ CronJob(n)' = CronJob(n)
    BY DEF Asked, DeclaredKeys, CronJob, Object
  <1>2. \A n, keys : KubeService(n)' = KubeService(n) /\ AppSecret(n, keys)' = AppSecret(n, keys)
                     /\ PullSecret' = PullSecret
    BY DEF KubeService, AppSecret, PullSecret, Object
  <1>3. \A n : AppSecret(n, DeclaredKeys(n))' = AppSecret(n, DeclaredKeys(n))
    BY <1>1 DEF AppSecret, Object
  <1>4. \A n : AppSecret(n, cfg.crons[n].secrets)' = AppSecret(n, cfg.crons[n].secrets)
    BY DEF AppSecret, Object
  <1>. SUFFICES ASSUME NEW o PROVE (o \in WantedApps)' <=> o \in WantedApps
    OBVIOUS
  <1>5. (o \in WantedApps)' <=>
             \/ \E n \in DOMAIN cfg.services :
                   \/ o = Asked(n) \/ o = KubeService(n)
                   \/ DeclaredKeys(n) # {} /\ o = AppSecret(n, DeclaredKeys(n))
             \/ \E n \in DOMAIN cfg.crons :
                   \/ o = CronJob(n)
                   \/ cfg.crons[n].secrets # {} /\ o = AppSecret(n, cfg.crons[n].secrets)
             \/ cfg.registry /\ o = PullSecret
    <2>1. (o \in WantedApps <=>
             \/ \E n \in DOMAIN cfg.services :
                   \/ o = Asked(n) \/ o = KubeService(n)
                   \/ DeclaredKeys(n) # {} /\ o = AppSecret(n, DeclaredKeys(n))
             \/ \E n \in DOMAIN cfg.crons :
                   \/ o = CronJob(n)
                   \/ cfg.crons[n].secrets # {} /\ o = AppSecret(n, cfg.crons[n].secrets)
             \/ cfg.registry /\ o = PullSecret)'
      BY WantedOnes, PTL
    <2>. QED
      BY <1>1, <1>2, <1>3, <1>4, <2>1
  <1>. QED
    BY <1>5, WantedOnes

\* Something live does for o what is asked of it; URLs of databases aside.
Present(o) ==
    \/ o.kind = "Secret" /\ o.keys \subseteq Databases
    \/ \E p \in objs : /\ SameObject(o, p)
                       /\ o.image = p.image /\ o.spec = p.spec
                       /\ o.keys \ Databases \subseteq p.keys

\* There is one Secret, so what it is asked to have it has.
LEMMA SecretPresent ==
    ASSUME Shaped, NEW n, NEW keys, HasKeys(n, keys), NEW all, all \ Databases \subseteq keys
    PROVE  Present(AppSecret(n, all))
  <1>. DEFINE o == AppSecret(n, all)
  <1>1. /\ o.kind = "Secret" /\ o.name = <<"app-secrets", n>> /\ o.keys = all
        /\ o.image = NoVal /\ o.spec = NoVal
    BY DEF AppSecret, Object
  <1>. HIDE DEF o
  <1>2. CASE all \subseteq Databases
    BY <1>1, <1>2 DEF Present, o
  <1>3. CASE ~ (all \subseteq Databases)
    <2>1. keys \subseteq SecretKeys(n) /\ keys # {}
      BY <1>3 DEF HasKeys
    <2>2. PICK p \in SecretOf(n) : TRUE
      BY <2>1 DEF SecretKeys, SecretOf
    <2>3. /\ p \in objs /\ p.kind = "Secret" /\ p.name = <<"app-secrets", n>> /\ Sound(p)
          /\ p.name[1] = "app-secrets"
      BY <2>2 DEF SecretOf, Get, Shaped
    <2>4. p = AppSecret(p.name[2], p.keys)
      BY <2>3, SoundFacts
    <2>5. p.image = NoVal /\ p.spec = NoVal
      BY <2>4 DEF AppSecret, Object
    <2>6. \A q \in SecretOf(n) : q = p
      BY <2>3 DEF SecretOf, Get, Shaped, Distinct, Apps, AppRoles, SameObject
    <2>7. SecretKeys(n) \subseteq p.keys
      BY <2>6 DEF SecretKeys, SecretOf
    <2>8. o.keys \ Databases \subseteq p.keys
      BY <1>1, <2>1, <2>7
    <2>9. SameObject(o, p) /\ o.image = p.image /\ o.spec = p.spec
      BY <1>1, <2>3, <2>5 DEF SameObject
    <2>. QED
      BY <2>3, <2>8, <2>9 DEF Present, o
  <1>. QED
    BY <1>2, <1>3

\* Past the crons all that is declared is there.
LEMMA AllPresent ==
    ASSUME TypeInv, Shaped, AppsDone, Pulled, pc \in PastCrons, NEW o \in WantedApps
    PROVE  Present(o)
  <1>1. /\ \A n, i : ServiceAt(n, i) /\ CronAt(n, i)
        /\ pc \in AfterRegistries
    BY DEF ServiceAt, CronAt, Past, AfterRegistries, FromServices, PastServices
  <1>2. ASSUME NEW p \in objs, o = p
        PROVE  Present(o)
    BY <1>2 DEF Present, SameObject
  <1>3. ASSUME NEW n \in DOMAIN cfg.services, o = Asked(n)
        PROVE  Present(o)
    <2>. DEFINE w == Workload(n, hash)
    <2>1. w \in objs
      BY <1>1 DEF AppsDone, ServiceDone
    <2>2. /\ w.name = <<"app", n>> /\ w.image = cfg.services[n].image
          /\ w.kind = IF cfg.services[n].stateful THEN "StatefulSet" ELSE "Deployment"
          /\ w.spec = cfg.services[n].spec /\ w.keys = ServiceKeys(n)
      BY DEF Workload, Object, ResolveImage
    <2>. HIDE DEF w
    <2>3. DeclaredKeys(n) \ Databases \subseteq ServiceKeys(n)
      <3>1. cfg.services[n].dbs \subseteq Databases
        BY ServiceTypes DEF TypeInv, TypeOK, ClusterTypeOK, ServiceDef
      <3>. QED
        BY <3>1 DEF DeclaredKeys, ServiceKeys
    <2>4. /\ o.name = <<"app", n>> /\ o.image = cfg.services[n].image
          /\ o.kind = IF cfg.services[n].stateful THEN "StatefulSet" ELSE "Deployment"
          /\ o.spec = cfg.services[n].spec /\ o.keys = DeclaredKeys(n)
      BY <1>3 DEF Asked
    <2>5. o.keys \ Databases \subseteq w.keys
      BY <2>2, <2>3, <2>4
    <2>6. SameObject(o, w) /\ o.image = w.image /\ o.spec = w.spec
      BY <2>2, <2>4 DEF SameObject
    <2>. QED
      BY <2>1, <2>5, <2>6 DEF Present
  <1>4. ASSUME NEW n \in DOMAIN cfg.services, o = AppSecret(n, DeclaredKeys(n))
        PROVE  Present(o)
    <2>1. HasKeys(n, ServiceKeys(n))
      BY <1>1 DEF AppsDone, ServiceDone
    <2>2. DeclaredKeys(n) \ Databases \subseteq ServiceKeys(n)
      <3>1. cfg.services[n].dbs \subseteq Databases
        BY ServiceTypes DEF TypeInv, TypeOK, ClusterTypeOK, ServiceDef
      <3>. QED
        BY <3>1 DEF DeclaredKeys, ServiceKeys
    <2>. QED
      BY <1>4, <2>1, <2>2, SecretPresent
  <1>5. ASSUME NEW n \in DOMAIN cfg.crons, o = AppSecret(n, cfg.crons[n].secrets)
        PROVE  Present(o)
    <2>1. HasKeys(n, cfg.crons[n].secrets)
      BY <1>1 DEF AppsDone, CronDone
    <2>. QED
      BY <1>5, <2>1, SecretPresent
  <1>6. \A n \in DOMAIN cfg.services : KubeService(n) \in objs
    BY <1>1 DEF AppsDone, ServiceDone
  <1>7. \A n \in DOMAIN cfg.crons : CronJob(n) \in objs
    BY <1>1 DEF AppsDone, CronDone
  <1>8. cfg.registry => PullSecret \in objs
    BY <1>1 DEF Pulled
  <1>. QED
    BY <1>2, <1>3, <1>4, <1>5, <1>6, <1>7, <1>8, WantedOnes

\* The steps that may end a run well come after the crons.
LEMMA FinishesLate ==
    ASSUME SweepCrons \/ TornDown \/ ReloadCaddy
    PROVE  pc \in PastCrons
  BY DEF SweepCrons, TornDown, ReloadCaddy, PastCrons

\* Caddy has been reloaded if there is a domain.
LEMMA IngressConverges ==
    ASSUME Web, UNCHANGED <<cfg, records>>, ReloadCaddy \/ ~ WebWanted
    PROVE  IngressConverged'
  <1>1. CASE ~ WebWanted
    BY <1>1 DEF IngressConverged, WebWanted
  <1>2. CASE ReloadCaddy
    BY <1>2 DEF IngressConverged, WebWanted, Web, ReloadCaddy
  <1>. QED
    BY <1>1, <1>2

(***************************************************************************)
(* After a deploy that ran to its end each workload, Secret and CronJob    *)
(* nvoi.yaml declares is there with its image, its spec and the keys it    *)
(* refers to, and each domain has a record and is served, whatever sweep,  *)
(* read or removal failed on the way and wherever earlier runs stopped:    *)
(* nothing that a step has written is swept, pruned or overwritten by a    *)
(* later one.  URLs of databases are left out, as a quiet run passes over  *)
(* the one it cannot read; no name is service and cron at once.            *)
(***************************************************************************)
THEOREM AlwaysNothingMissing ==
    ASSUME NamesApart
    PROVE  Spec => []NothingDeclaredMissing
  <1>. DEFINE Inv == TypeInv /\ Web /\ Shaped /\ AppsDone /\ Pulled /\ Undecided
  <1>1. Init => Inv /\ NothingDeclaredMissing
    BY InitTypes DEF Init, ClusterInit, Web, Underway, LoudOnly, Shaped, Distinct, Apps, AppsDone,
       ServiceDone, CronDone, ServiceAt, CronAt, Past, PastServices, PastCrons, Pulled,
       AfterRegistries, FromServices, Undecided, NothingDeclaredMissing
  <1>2. Inv /\ [Next]_vars => Inv'
    BY StepTypes, StepWeb, StepShaped, StepAppsDone, StepPulled, Finishes
  <1>3. Inv /\ NothingDeclaredMissing /\ [Next]_vars => NothingDeclaredMissing'
    <2>. SUFFICES ASSUME Inv, NothingDeclaredMissing, [Next]_vars, outcome' = "done"
                  PROVE  /\ \A o \in WantedApps' : Present(o)'
                         /\ IngressConverged'
      BY DEF NothingDeclaredMissing, Present
    <2>1. CASE UNCHANGED vars
      <3>1. UNCHANGED <<cfg, objs, records, routes, outcome>>
        BY <2>1 DEF vars, clusterVars, runVars
      <3>2. WantedApps' = WantedApps
        BY <3>1, WantedStays
      <3>3. IngressConverged' <=> IngressConverged
        BY <3>1 DEF IngressConverged, WebWanted
      <3>4. \A o : Present(o)' <=> Present(o)
        BY <3>1 DEF Present
      <3>5. (\A o \in WantedApps : Present(o)) /\ IngressConverged
        BY <3>1 DEF NothingDeclaredMissing, Present
      <3>. QED
        BY <3>2, <3>3, <3>4, <3>5
    <2>2. CASE /\ UNCHANGED <<cfg, objs, servers, webOpen, records>>
               /\ \/ SweepCrons /\ SweepDone("crons", CronSweeps) /\ ~ Loud /\ ~ WebWanted
                  \/ TornDown /\ ~ WebWanted
                  \/ ReloadCaddy
      <3>1. ASSUME NEW o \in WantedApps
            PROVE  Present(o)'
        BY <2>2, AllPresent, FinishesLate DEF Present
      <3>2. WantedApps' = WantedApps
        BY <2>2, WantedStays
      <3>3. IngressConverged'
        BY <2>2, IngressConverges
      <3>. QED
        BY <3>1, <3>2, <3>3
    <2>. QED
      BY <2>1, <2>2, Finishes
  <1>. QED
    BY <1>1, <1>2, <1>3, PTL DEF Spec

----------------------------------------------------------------------------
(***************************************************************************)
(* What the sweeps have cleared, where none of their deletions fails.      *)
(***************************************************************************)
Ending == PastCrons \ {"cronsweep"}

\* The sweep of the crons has been through the CronJobs.
CronJobsSwept == pc \in Ending \/ (pc = "cronsweep" /\ step > 1)

Cleared ==
    /\ pc = "svcsweep" =>
          \A o \in objs : \A i \in 1..(step - 1) :
              o.owner = "services" /\ o.kind = ServiceSweeps[i].kind => o.name[2] \in DOMAIN cfg.services
    /\ pc \in {"crons"} \cup PastCrons =>
          \A o \in objs : o.owner = "services" =>
              \/ o.name[2] \in DOMAIN cfg.services
              \/ o.kind = "Secret" /\ o.name[2] \in DOMAIN cfg.crons
    /\ CronJobsSwept => \A o \in objs : o.owner = "crons" => o.name[2] \in DOMAIN cfg.crons

LEMMA SweepMoves ==
    ASSUME TypeInv, [Next]_vars
    PROVE  /\ pc' \in {"svcsweep", "crons"} \cup PastCrons => UNCHANGED cfg
           /\ pc' = "svcsweep" =>
                 \/ step' = 1
                 \/ pc = "svcsweep" /\ step' = step /\ objs' \subseteq objs
                 \/ /\ pc = "svcsweep" /\ step' = step + 1 /\ UNCHANGED objs
                    /\ SweptKind("services", ServiceSweeps)
           /\ pc' \in {"crons"} \cup PastCrons =>
                 \/ pc \in {"crons"} \cup PastCrons
                 \/ /\ pc = "svcsweep" /\ step = 4 /\ UNCHANGED objs
                    /\ SweptKind("services", ServiceSweeps)
           /\ CronJobsSwept' =>
                 \/ CronJobsSwept
                 \/ /\ pc = "cronsweep" /\ step = 1 /\ UNCHANGED objs
                    /\ SweptKind("crons", CronSweeps)
  <1>. USE DEF PastCrons, Ending, CronJobsSwept
  <1>0. Len(ServiceSweeps) = 4 /\ Len(CronSweeps) = 2
    BY DEF ServiceSweeps, CronSweeps
  <1>1. CASE ServicesStep
    <2>1. CASE SweepServices
      BY <1>0, <2>1 DEF SweepServices, SweepOrphan, SweepNext, SweepDone, SweptKind, Continue, Enter,
         runVars, clusterVars
    <2>2. CASE ~ SweepServices
      BY <1>1, <2>2 DEF ServicesStep, StartService, PruneServiceSecret, PruneSecret, PruneKey, PruneDone,
         ApplyWorkload, ApplyKubeService, RolloutReady, ServicesApplied, Take, Continue, Enter,
         Processed, runVars
    <2>. QED
      BY <2>1, <2>2
  <1>2. CASE CronsStep
    <2>1. CASE SweepCrons
      <3>1. step \in 1..2
        BY <2>1 DEF SweepCrons, TypeInv, InRange
      <3>2. CASE SweepOrphan("crons", CronSweeps)
        BY <2>1, <3>2 DEF SweepCrons, SweepOrphan, runVars
      <3>3. CASE SweepNext("crons", CronSweeps)
        BY <1>0, <2>1, <3>1, <3>3 DEF SweepCrons, SweepNext, SweptKind, Continue, clusterVars
      <3>4. CASE SweepDone("crons", CronSweeps) /\ AfterCrons
        BY <1>0, <2>1, <3>4 DEF SweepCrons, SweepDone, SweptKind, AfterCrons, Enter, Finish, clusterVars
      <3>. QED
        BY <2>1, <3>2, <3>3, <3>4 DEF SweepCrons
    <2>2. CASE ~ SweepCrons
      BY <1>2, <2>2 DEF CronsStep, StartCron, PruneCronSecret, PruneSecret, PruneKey, PruneDone,
         ApplyCron, CronsApplied, Take, Continue, Enter, Processed, runVars
    <2>. QED
      BY <2>1, <2>2
  <1>3. CASE InfraStep \/ IngressStep
    BY <1>3 DEF InfraStep, IngressStep, EnsureServer, DeleteServer, ApplyFirewall, TornDown, RouteTo,
       Unroute, AllRouted, AllUnrouted, EnsureCaddy, ReloadCaddy, Enter, Finish, Processed, runVars,
       clusterVars
  <1>4. CASE RegistriesStep
    BY <1>4 DEF RegistriesStep, RegistriesLoud, RegistriesQuiet, Enter
  <1>5. CASE DatabasesStep
    BY <1>5 DEF DatabasesStep, EnsureBucket, SkipDrifted, StartDatabase, ApplyDatabase, DatabasesApplied,
       SweepDatabases, SweepOrphan, SweepNext, SweepDone, SweptKind, Take, Continue, Enter, Finish,
       Processed, runVars
  <1>6. CASE Proceed
    BY <1>6 DEF Proceed
  <1>7. CASE UNCHANGED vars
    BY <1>7 DEF vars, runVars, clusterVars
  <1>. QED
    BY <1>1, <1>2, <1>3, <1>4, <1>5, <1>6, <1>7, NotUnderway DEF Next, Run, Decide

\* A kind the sweep leaves behind has no orphan.
LEMMA KindSwept ==
    ASSUME Thorough, TypeInv, Shaped, NEW o \in objs
    PROVE  /\ (/\ pc = "svcsweep" /\ SweptKind("services", ServiceSweeps)
               /\ o.owner = "services" /\ o.kind = ServiceSweeps[step].kind)
                 => o.name[2] \in DOMAIN cfg.services
           /\ (pc = "cronsweep" /\ step = 1 /\ SweptKind("crons", CronSweeps) /\ o.owner = "crons")
                 => o.name[2] \in DOMAIN cfg.crons
  <1>. DEFINE names == Named("app", DOMAIN cfg.services)
              secrets == Named("app-secrets", DOMAIN cfg.services)
              crons == Named("app", DOMAIN cfg.crons)
  <1>1. \A role, S : \A m \in Named(role, S) : m[2] \in S
    BY DEF Named
  <1>2. \A kind, desired : Swept(kind, desired).kind = kind /\ Swept(kind, desired).desired = desired
    BY DEF Swept
  <1>3. ASSUME pc = "svcsweep", SweptKind("services", ServiceSweeps),
               o.owner = "services", o.kind = ServiceSweeps[step].kind
        PROVE  o.name[2] \in DOMAIN cfg.services
    <2>1. step \in 1..4
      BY <1>3 DEF TypeInv, InRange
    <2>2. /\ ServiceSweeps[1] = Swept("Deployment", names)
          /\ ServiceSweeps[2] = Swept("StatefulSet", names)
          /\ ServiceSweeps[3] = Swept("Service", names)
          /\ ServiceSweeps[4] = Swept("Secret", secrets)
      BY DEF ServiceSweeps
    <2>3. Left("services", ServiceSweeps) = {}
      BY <1>3 DEF SweptKind, Thorough
    <2>4. o.name \in ServiceSweeps[step].desired
      BY <1>3, <2>3 DEF Left, Orphans
    <2>. HIDE DEF names, secrets
    <2>5. o.name \in names \/ o.name \in secrets
      BY <1>2, <2>1, <2>2, <2>4
    <2>. QED
      BY <1>1, <2>5 DEF names, secrets
  <1>4. ASSUME pc = "cronsweep", step = 1, SweptKind("crons", CronSweeps), o.owner = "crons"
        PROVE  o.name[2] \in DOMAIN cfg.crons
    <2>1. CronSweeps[1] = Swept("CronJob", crons)
      BY DEF CronSweeps
    <2>2. Left("crons", CronSweeps) = {}
      BY <1>4 DEF SweptKind, Thorough
    <2>3. o.kind = "CronJob"
      BY <1>4, SoundFacts DEF Shaped
    <2>. HIDE DEF crons
    <2>4. CronSweeps[step].kind = "CronJob" /\ CronSweeps[step].desired = crons
      BY <1>2, <1>4, <2>1
    <2>5. o.name \in crons
      BY <1>4, <2>2, <2>3, <2>4 DEF Left, Orphans
    <2>. QED
      BY <1>1, <2>5 DEF crons
  <1>. QED
    BY <1>3, <1>4

\* What a step past the sweep of the services adds for a service or cron.
LEMMA NewPastSweep ==
    ASSUME TypeInv, Shaped, Shaped', [Next]_vars, pc \in {"crons"} \cup PastCrons, NEW o \in objs' \ objs
    PROVE  /\ o.owner = "services" => o.kind = "Secret" /\ o.name[2] \in DOMAIN cfg.crons
           /\ o.owner = "crons" => o.name[2] \in DOMAIN cfg.crons
  <1>1. Touched(o) /\ Sound(o)
    BY DEF Touched, Shaped
  <1>2. ~ RegistriesStep /\ ~ DatabasesStep
    BY DEF PastCrons, RegistriesStep, RegistriesLoud, RegistriesQuiet, DatabasesStep, EnsureBucket, SkipDrifted,
       StartDatabase, ApplyDatabase, DatabasesApplied, SweepDatabases
  <1>3. /\ \A n : ~ StartService(n)
        /\ ~ PruneServiceSecret /\ ~ ApplyWorkload /\ ~ ApplyKubeService
    BY DEF PastCrons, StartService, PruneServiceSecret, ApplyWorkload, ApplyKubeService
  <1>4. \A n : StartCron(n) => n \in DOMAIN cfg.crons
    BY DEF StartCron, TypeInv, InRange
  <1>5. PruneCronSecret \/ ApplyCron => item \in DOMAIN cfg.crons
    BY DEF PruneCronSecret, ApplyCron, TypeInv, InRange
  <1>6. \A n : o.name = <<"app", n>> \/ o.name = <<"app-secrets", n>> => o.name[2] = n
    OBVIOUS
  <1>7. o.owner = "services" => o.kind # "CronJob"
    BY <1>1, SoundFacts
  <1>8. o.name[1] \notin AppRoles => o.owner \notin {"services", "crons"}
    BY <1>1, SoundFacts
  <1>9. o.owner = "crons" => o.kind = "CronJob"
    BY <1>1, SoundFacts
  <1>. QED
    BY <1>1, <1>2, <1>3, <1>4, <1>5, <1>6, <1>7, <1>8, <1>9, Touches

LEMMA StepCleared ==
    ASSUME Thorough, TypeInv, Shaped, Shaped', Cleared, [Next]_vars
    PROVE  Cleared'
  <1>0. pc' \in {"svcsweep", "crons"} \cup PastCrons => UNCHANGED cfg
    BY SweepMoves
  <1>1. ASSUME pc' = "svcsweep", NEW o \in objs', NEW i \in 1..(step' - 1),
               o.owner = "services", o.kind = ServiceSweeps[i]'.kind
        PROVE  o.name[2] \in DOMAIN cfg'.services
    <2>0. UNCHANGED cfg /\ ServiceSweeps' = ServiceSweeps /\ step \in 1..6
      BY <1>0, <1>1 DEF ServiceSweeps, TypeInv, TypeOK, RunTypeOK
    <2>1. CASE step' = 1
      BY <1>1, <2>1
    <2>2. CASE pc = "svcsweep" /\ step' = step /\ objs' \subseteq objs
      BY <1>1, <2>0, <2>2 DEF Cleared
    <2>3. CASE /\ pc = "svcsweep" /\ step' = step + 1 /\ UNCHANGED objs
               /\ SweptKind("services", ServiceSweeps)
      <3>1. i \in 1..(step - 1) \/ i = step
        BY <1>1, <2>0, <2>3
      <3>. QED
        BY <1>1, <2>0, <2>3, <3>1, KindSwept DEF Cleared
    <2>. QED
      BY <1>1, <2>1, <2>2, <2>3, SweepMoves
  <1>2. ASSUME pc' \in {"crons"} \cup PastCrons, NEW o \in objs', o.owner = "services"
        PROVE  \/ o.name[2] \in DOMAIN cfg'.services
               \/ o.kind = "Secret" /\ o.name[2] \in DOMAIN cfg'.crons
    <2>0. UNCHANGED cfg
      BY <1>0, <1>2
    <2>1. CASE pc \in {"crons"} \cup PastCrons
      BY <1>2, <2>0, <2>1, NewPastSweep DEF Cleared
    <2>2. CASE /\ pc = "svcsweep" /\ step = 4 /\ UNCHANGED objs
               /\ SweptKind("services", ServiceSweeps)
      <3>1. o.kind \in {"Deployment", "StatefulSet", "Service", "Secret"}
        <4>1. Sound(o)
          BY DEF Shaped
        <4>2. /\ \A n : KubeService(n).kind = "Service"
              /\ \A n, keys : AppSecret(n, keys).kind = "Secret"
              /\ PullSecret.owner = "registries"
          BY DEF KubeService, AppSecret, PullSecret, Object
        <4>. QED
          BY <1>2, <4>1, <4>2 DEF Sound
      <3>2. \E i \in 1..4 : o.kind = ServiceSweeps[i].kind
        <4>1. /\ ServiceSweeps[1].kind = "Deployment" /\ ServiceSweeps[2].kind = "StatefulSet"
              /\ ServiceSweeps[3].kind = "Service" /\ ServiceSweeps[4].kind = "Secret"
          BY DEF ServiceSweeps, Swept
        <4>. QED
          BY <3>1, <4>1
      <3>3. PICK i \in 1..4 : o.kind = ServiceSweeps[i].kind
        BY <3>2
      <3>4. i \in 1..(step - 1) \/ i = step
        BY <2>2
      <3>. QED
        BY <1>2, <2>0, <2>2, <3>3, <3>4, KindSwept DEF Cleared
    <2>. QED
      BY <1>2, <2>1, <2>2, SweepMoves
  <1>3. ASSUME CronJobsSwept', NEW o \in objs', o.owner = "crons"
        PROVE  o.name[2] \in DOMAIN cfg'.crons
    <2>0. UNCHANGED cfg
      BY <1>0, <1>3 DEF CronJobsSwept, Ending, PastCrons
    <2>1. CASE CronJobsSwept
      BY <1>3, <2>0, <2>1, NewPastSweep DEF Cleared, CronJobsSwept, Ending, PastCrons
    <2>2. CASE pc = "cronsweep" /\ step = 1 /\ UNCHANGED objs /\ SweptKind("crons", CronSweeps)
      BY <1>3, <2>0, <2>2, KindSwept
    <2>. QED
      BY <1>3, <2>1, <2>2, SweepMoves
  <1>. QED
    BY <1>1, <1>2, <1>3 DEF Cleared

----------------------------------------------------------------------------
(***************************************************************************)
(* The servers, and the URLs a run has collected.                          *)
(***************************************************************************)
Placed ==
    /\ Underway /\ pc # "bootstrap" => cfg.servers \subseteq servers
    /\ Underway /\ ~ Loud => servers \subseteq cfg.servers
    /\ pc \in {"routes", "unroute", "caddy", "reload"} => servers \subseteq cfg.servers

\* A plan without infrastructure changes finds servers and databases too.
LEMMA QuietFinds ==
    ASSUME TypeInv, NEW unread, ~ HasInfraChanges(ComputePlan(hash, unread))
    PROVE  /\ servers = cfg.servers /\ DOMAIN cfg.databases \subseteq WithCredentials
           /\ DesiredBuckets \subseteq buckets
  <1>. DEFINE seen == ComputePlan(hash, unread)
  <1>1. \A res, desired, now, n :
           /\ n \in desired \ now => Entry("add", res, n) \in Diff(res, desired, now)
           /\ n \in now \ desired => Entry("delete", res, n) \in Diff(res, desired, now)
    BY DEF Diff
  <1>2. \A change, res, n : Entry(change, res, n).res = res
    BY DEF Entry
  <1>3. /\ Diff("server", cfg.servers, servers) \subseteq seen
        /\ Diff("database", DOMAIN cfg.databases, LiveDatabases) \subseteq seen
        /\ PlanStorage \subseteq seen
    BY DEF ComputePlan, PlanInfra, PlanDatabases
  <1>4. \A e \in seen : e.res \notin {"server", "database", "bucket"}
    BY DEF HasInfraChanges, InfraResources
  <1>. HIDE DEF seen
  <1>5. servers = cfg.servers
    <2>1. ASSUME NEW s \in servers \ cfg.servers
          PROVE  FALSE
      <3>1. Entry("delete", "server", s) \in seen
        BY <1>1, <1>3
      <3>. QED
        BY <1>2, <1>4, <3>1
    <2>2. ASSUME NEW s \in cfg.servers \ servers
          PROVE  FALSE
      <3>1. Entry("add", "server", s) \in seen
        BY <1>1, <1>3
      <3>. QED
        BY <1>2, <1>4, <3>1
    <2>. QED
      BY <2>1, <2>2
  <1>6. ASSUME NEW d \in DOMAIN cfg.databases \ LiveDatabases
        PROVE  FALSE
    <2>1. Entry("add", "database", d) \in seen
      BY <1>1, <1>3
    <2>. QED
      BY <1>2, <1>4, <2>1
  <1>7. ASSUME NEW d \in LiveDatabases
        PROVE  Get("Secret", "db-credentials", d) # {}
    <2>1. PICK o \in objs : o.kind = "Secret" /\ o.name[1] = "db-credentials" /\ o.name[2] = d
      BY <1>7 DEF LiveDatabases, ListOwned
    <2>2. o \in ObjectSet
      BY <1>7 DEF TypeInv, TypeOK, ClusterTypeOK
    <2>3. o.name = <<"db-credentials", d>>
      BY <2>1, <2>2 DEF ObjectSet
    <2>. QED
      BY <2>1, <2>3 DEF Get
  <1>8. ASSUME NEW b \in DesiredBuckets \ buckets
        PROVE  FALSE
    <2>1. Entry("add", "bucket", b) \in seen
      BY <1>3, <1>8 DEF PlanStorage
    <2>. QED
      BY <1>2, <1>4, <2>1
  <1>. QED
    BY <1>5, <1>6, <1>7, <1>8 DEF WithCredentials

LEMMA StepPlaced == TypeInv /\ Web /\ Placed /\ [Next]_vars => Placed'
  <1>. SUFFICES ASSUME TypeInv, Web, Placed, [Next]_vars
                PROVE  Placed'
    OBVIOUS
  <1>. USE DEF Placed, Underway, Loud
  <1>1. CASE pc' \in {"idle", "plan"}
    BY <1>1
  <1>2. CASE Proceed
    <2>1. /\ pc' \in {"bootstrap", "registries"}
          /\ pc' = "registries" => \E unread : ~ HasInfraChanges(ComputePlan(hash, unread))
          /\ pc' = "bootstrap" => HasInfraChanges(plan')
          /\ UNCHANGED <<cfg, servers>>
      BY <1>2 DEF Proceed, clusterVars
    <2>. QED
      BY <2>1, QuietFinds
  <1>3. ASSUME NEW s \in Servers, EnsureServer(s)
        PROVE  Placed'
    BY <1>3 DEF EnsureServer, runVars, Web, LoudOnly
  <1>4. ASSUME NEW s \in Servers, DeleteServer(s)
        PROVE  Placed'
    BY <1>4 DEF DeleteServer, runVars, Web, LoudOnly
  <1>5. CASE ApplyFirewall
    BY <1>5 DEF ApplyFirewall, Enter, Web, LoudOnly
  <1>6. CASE TornDown
    BY <1>6 DEF TornDown, Enter, Finish, clusterVars
  <1>7. CASE RegistriesStep \/ DatabasesStep \/ ServicesStep \/ CronsStep
    BY <1>7, MiddleSteps
  <1>8. CASE IngressStep /\ ~ ReloadCaddy
    BY <1>8 DEF IngressStep, RouteTo, Unroute, AllRouted, AllUnrouted, EnsureCaddy, Enter, Processed,
       clusterVars
  <1>9. CASE UNCHANGED vars
    BY <1>9 DEF vars, clusterVars, runVars
  <1>. QED
    BY <1>1, <1>2, <1>3, <1>4, <1>5, <1>6, <1>7, <1>8, <1>9, NotUnderway
       DEF Next, Run, Decide, InfraStep

\* No credentials are passed over.
Readable == "read" \notin Disturbances

Collected ==
    /\ pc = "registries" /\ ~ Loud => DOMAIN cfg.databases \subseteq WithCredentials
    /\ pc = "databases" => DOMAIN cfg.databases \ todo \subseteq sources
    /\ pc \in {"dbsweep"} \cup FromServices => DOMAIN cfg.databases \subseteq sources

LEMMA StepCollected ==
    ASSUME Readable, TypeInv, Web, Collected, [Next]_vars
    PROVE  Collected'
  <1>. USE DEF Collected, FromServices, PastServices, PastCrons
  <1>1. CASE pc' \in {"idle", "plan", "bootstrap"}
    BY <1>1
  <1>2. CASE Proceed
    <2>1. /\ pc' \in {"bootstrap", "registries"}
          /\ pc' = "registries" => \E unread : ~ HasInfraChanges(ComputePlan(hash, unread))
          /\ UNCHANGED <<cfg, objs>>
      BY <1>2 DEF Proceed, clusterVars
    <2>2. WithCredentials' = WithCredentials
      BY <2>1 DEF WithCredentials, Get
    <2>. QED
      BY <2>1, <2>2, QuietFinds
  <1>3. CASE InfraStep
    <2>1. CASE ApplyFirewall
      BY <2>1 DEF ApplyFirewall, Enter, Web, LoudOnly, Loud
    <2>2. CASE TornDown
      BY <2>2 DEF TornDown, Enter, Finish
    <2>3. ASSUME NEW s, EnsureServer(s) \/ DeleteServer(s)
          PROVE  Collected'
      BY <2>3 DEF EnsureServer, DeleteServer, runVars
    <2>. QED
      BY <1>3, <2>1, <2>2, <2>3 DEF InfraStep
  <1>4. CASE RegistriesStep
    <2>1. CASE RegistriesLoud
      BY <2>1 DEF RegistriesLoud, Enter
    <2>2. ASSUME NEW u \in SUBSET Databases, RegistriesQuiet(u)
          PROVE  Collected'
      <3>1. u = {} /\ DOMAIN cfg.databases \subseteq WithCredentials /\ sources' = WithCredentials \ u
            /\ pc' = "services" /\ UNCHANGED cfg
        BY <2>2 DEF RegistriesQuiet, Readable
      <3>. QED
        BY <3>1
    <2>. QED
      BY <1>4, <2>1, <2>2 DEF RegistriesStep
  <1>5. CASE DatabasesStep
    <2>1. ASSUME NEW d \in Databases, SkipDrifted(d)
          PROVE  Collected'
      BY <2>1 DEF SkipDrifted, Processed, Finish
    <2>2. ASSUME NEW d \in Databases, StartDatabase(d)
          PROVE  Collected'
      BY <2>2 DEF StartDatabase, Take
    <2>3. CASE ApplyDatabase
      BY <2>3 DEF ApplyDatabase, Processed, Continue
    <2>4. CASE DatabasesApplied
      BY <2>4 DEF DatabasesApplied, Enter
    <2>5. CASE SweepDatabases
      BY <2>5 DEF SweepDatabases, SweepOrphan, SweepNext, SweepDone, SweptKind, Continue, Enter, runVars
    <2>6. ASSUME NEW b \in Buckets, EnsureBucket(b)
          PROVE  Collected'
      BY <2>6 DEF EnsureBucket, runVars
    <2>. QED
      BY <1>5, <2>1, <2>2, <2>3, <2>4, <2>5, <2>6 DEF DatabasesStep
  <1>6. CASE ServicesStep
    BY <1>6 DEF ServicesStep, StartService, PruneServiceSecret, PruneSecret, PruneKey, PruneDone,
       ApplyWorkload, ApplyKubeService, RolloutReady, ServicesApplied, SweepServices, SweepOrphan,
       SweepNext, SweepDone, SweptKind, Take, Continue, Enter, Processed, runVars
  <1>7. CASE CronsStep
    BY <1>7 DEF CronsStep, StartCron, PruneCronSecret, PruneSecret, PruneKey, PruneDone, ApplyCron,
       CronsApplied, SweepCrons, AfterCrons, SweepOrphan, SweepNext, SweepDone, SweptKind, Take,
       Continue, Enter, Finish, Processed, runVars
  <1>8. CASE IngressStep /\ ~ ReloadCaddy
    BY <1>8 DEF IngressStep, RouteTo, Unroute, AllRouted, AllUnrouted, EnsureCaddy, Enter, Processed
  <1>9. CASE UNCHANGED vars
    <2>1. UNCHANGED <<cfg, objs, pc, plan, todo, sources>>
      BY <1>9 DEF vars, clusterVars, runVars
    <2>2. WithCredentials' = WithCredentials
      BY <2>1 DEF WithCredentials, Get
    <2>. QED
      BY <2>1, <2>2 DEF Loud
  <1>. QED
    BY <1>1, <1>2, <1>3, <1>4, <1>5, <1>6, <1>7, <1>8, <1>9, NotUnderway DEF Next, Run, Decide

\* Then a service refers to all the keys it declares.
LEMMA AllKeys ==
    ASSUME TypeInv, DOMAIN cfg.databases \subseteq sources, NEW n \in DOMAIN cfg.services
    PROVE  ServiceKeys(n) = DeclaredKeys(n)
  <1>1. cfg.services[n].dbs \subseteq DOMAIN cfg.databases
    BY ConfigsAssumption DEF TypeInv, TypeOK, ClusterTypeOK, ValidateConfig
  <1>. QED
    BY <1>1 DEF ServiceKeys, DeclaredKeys

----------------------------------------------------------------------------
(***************************************************************************)
(* What is live is what is wanted.                                         *)
(***************************************************************************)
LEMMA ErasedSame ==
    ASSUME NEW o \in ObjectSet, o.tag = NoVal, o.node = NoVal
    PROVE  Erased(o) = o
  <1>1. [o EXCEPT !.tag = NoVal] = o
    BY DEF ObjectSet
  <1>2. [o EXCEPT !.node = NoVal] = o
    BY DEF ObjectSet
  <1>. DEFINE p == [o EXCEPT !.tag = NoVal]
  <1>3. Erased(o) = [p EXCEPT !.node = NoVal]
    BY Zenon DEF Erased
  <1>. QED
    BY <1>1, <1>2, <1>3

\* The Secret of n is the one with just its keys, and there is none without.
LEMMA SecretExact ==
    ASSUME Thorough, TypeInv, Shaped, NEW n, NEW keys, OnlyKeys(n, keys), NEW o
    PROVE  o \in SecretOf(n) <=> keys # {} /\ o = AppSecret(n, keys)
  <1>1. \A p \in SecretOf(n) :
           p \in Apps /\ p.kind = "Secret" /\ p.name = <<"app-secrets", n>> /\ p = AppSecret(n, p.keys)
    <2>. SUFFICES ASSUME NEW p \in SecretOf(n)
                  PROVE  /\ p \in Apps /\ p.kind = "Secret" /\ p.name = <<"app-secrets", n>>
                         /\ p = AppSecret(n, p.keys)
      OBVIOUS
    <2>1. p \in objs /\ p.kind = "Secret" /\ p.name = <<"app-secrets", n>>
      BY DEF SecretOf, Get
    <2>2. p.name[1] = "app-secrets" /\ p.name[2] = n /\ Sound(p)
      BY <2>1 DEF Shaped
    <2>. QED
      BY <2>1, <2>2, SoundFacts DEF Apps, AppRoles
  <1>2. \A p, q \in SecretOf(n) : p = q
    BY <1>1 DEF Shaped, Distinct, SameObject
  <1>3. ASSUME NEW p \in SecretOf(n)
        PROVE  keys # {} /\ p = AppSecret(n, keys)
    <2>1. SecretKeys(n) = p.keys
      BY <1>2 DEF SecretKeys, SecretOf
    <2>2. keys = p.keys /\ keys # {}
      BY <2>1 DEF OnlyKeys, HasKeys
    <2>. QED
      BY <1>1, <2>2
  <1>4. ASSUME keys # {}
        PROVE  SecretOf(n) # {}
    BY <1>4 DEF OnlyKeys, HasKeys, SecretKeys, SecretOf
  <1>. QED
    BY <1>3, <1>4

\* What LiveIsWanted needs of a run that has swept what it sweeps.
AtEnd ==
    /\ pc \in PastCrons /\ CronJobsSwept
    /\ DOMAIN cfg.databases \subseteq sources

LEMMA EndFacts ==
    ASSUME Thorough, TypeInv, Shaped, AppsDone, Pulled, AtEnd
    PROVE  /\ \A n \in DOMAIN cfg.services :
                 /\ Workload(n, hash) \in objs /\ Erased(Workload(n, hash)) = Asked(n)
                 /\ Workload(n, hash).owner = "services" /\ Workload(n, hash).name = <<"app", n>>
                 /\ Workload(n, hash).kind =
                       IF cfg.services[n].stateful THEN "StatefulSet" ELSE "Deployment"
                 /\ KubeService(n) \in objs /\ Erased(KubeService(n)) = KubeService(n)
                 /\ \A o : o \in SecretOf(n) <=>
                       DeclaredKeys(n) # {} /\ o = AppSecret(n, DeclaredKeys(n))
           /\ \A n \in DOMAIN cfg.crons :
                 /\ CronJob(n) \in objs /\ Erased(CronJob(n)) = CronJob(n)
                 /\ CronJob(n).owner = "crons" /\ CronJob(n).name = <<"app", n>>
                 /\ CronJob(n).kind = "CronJob"
                 /\ \A o : o \in SecretOf(n) <=>
                       cfg.crons[n].secrets # {} /\ o = AppSecret(n, cfg.crons[n].secrets)
           /\ PullSecret \in objs <=> cfg.registry
           /\ PullSecret \in objs => Erased(PullSecret) = PullSecret
           /\ \A n, keys : AppSecret(n, keys) \in objs =>
                 Erased(AppSecret(n, keys)) = AppSecret(n, keys)
           /\ \A n : KubeService(n) \in objs => Erased(KubeService(n)) = KubeService(n)
  <1>0. objs \subseteq ObjectSet
    BY DEF TypeInv, TypeOK, ClusterTypeOK
  <1>1. /\ \A n, i : ServiceAt(n, i) /\ CronAt(n, i)
        /\ pc \in AfterRegistries
    BY DEF AtEnd, ServiceAt, CronAt, Past, AfterRegistries, FromServices, PastServices
  <1>2. /\ \A n : KubeService(n).tag = NoVal /\ KubeService(n).node = NoVal
        /\ \A n, keys : AppSecret(n, keys).tag = NoVal /\ AppSecret(n, keys).node = NoVal
        /\ PullSecret.tag = NoVal /\ PullSecret.node = NoVal
    BY DEF KubeService, AppSecret, PullSecret, Object
  <1>3. ASSUME NEW n \in DOMAIN cfg.services
        PROVE  /\ Workload(n, hash) \in objs /\ Erased(Workload(n, hash)) = Asked(n)
               /\ Workload(n, hash).owner = "services" /\ Workload(n, hash).name = <<"app", n>>
               /\ Workload(n, hash).kind =
                     IF cfg.services[n].stateful THEN "StatefulSet" ELSE "Deployment"
               /\ KubeService(n) \in objs /\ Erased(KubeService(n)) = KubeService(n)
               /\ \A o : o \in SecretOf(n) <=>
                     DeclaredKeys(n) # {} /\ o = AppSecret(n, DeclaredKeys(n))
    <2>1. ServiceDone(n) /\ ServiceKeys(n) = DeclaredKeys(n)
      BY AllKeys DEF AppsDone, AtEnd
    <2>2. /\ Workload(n, hash) \in objs /\ KubeService(n) \in objs
          /\ OnlyKeys(n, DeclaredKeys(n))
      BY <1>1, <2>1 DEF ServiceDone
    <2>3. /\ Workload(n, hash).owner = "services" /\ Workload(n, hash).name = <<"app", n>>
          /\ Workload(n, hash).kind =
                IF cfg.services[n].stateful THEN "StatefulSet" ELSE "Deployment"
      BY DEF Workload, Object, ResolveImage
    <2>4. Erased(Workload(n, hash)) = Asked(n)
      BY <2>1, ErasedWorkload
    <2>5. Erased(KubeService(n)) = KubeService(n)
      BY <1>0, <1>2, <2>2, ErasedSame
    <2>. QED
      BY <2>2, <2>3, <2>4, <2>5, SecretExact
  <1>4. ASSUME NEW n \in DOMAIN cfg.crons
        PROVE  /\ CronJob(n) \in objs /\ Erased(CronJob(n)) = CronJob(n)
               /\ CronJob(n).owner = "crons" /\ CronJob(n).name = <<"app", n>>
               /\ CronJob(n).kind = "CronJob"
               /\ \A o : o \in SecretOf(n) <=>
                     cfg.crons[n].secrets # {} /\ o = AppSecret(n, cfg.crons[n].secrets)
    <2>1. CronJob(n) \in objs /\ OnlyKeys(n, cfg.crons[n].secrets)
      BY <1>1 DEF AppsDone, CronDone
    <2>2. /\ CronJob(n).owner = "crons" /\ CronJob(n).name = <<"app", n>>
          /\ CronJob(n).kind = "CronJob" /\ CronJob(n).tag = NoVal /\ CronJob(n).node = NoVal
      BY DEF CronJob, Object
    <2>3. Erased(CronJob(n)) = CronJob(n)
      BY <1>0, <2>1, <2>2, ErasedSame
    <2>. QED
      BY <2>1, <2>2, <2>3, SecretExact
  <1>5. PullSecret \in objs <=> cfg.registry
    BY <1>1 DEF Pulled
  <1>6. PullSecret \in objs => Erased(PullSecret) = PullSecret
    BY <1>0, <1>2, ErasedSame
  <1>7. \A n, keys : AppSecret(n, keys) \in objs => Erased(AppSecret(n, keys)) = AppSecret(n, keys)
    BY <1>0, <1>2, ErasedSame
  <1>8. \A n : KubeService(n) \in objs => Erased(KubeService(n)) = KubeService(n)
    BY <1>0, <1>2, ErasedSame
  <1>. QED
    BY <1>3, <1>4, <1>5, <1>6, <1>7, <1>8

LEMMA LiveIsWanted ==
    ASSUME KindsStable, Thorough, TypeInv, Shaped, AppsDone, Pulled, Cleared, AtEnd
    PROVE  LiveOf({"services", "crons", "registries"}) = WantedApps
  <1>. DEFINE owners == {"services", "crons", "registries"}
  <1>0. cfg \in Configs /\ objs \subseteq ObjectSet
    BY DEF TypeInv, TypeOK, ClusterTypeOK
  <1>1. ASSUME NEW o \in WantedApps
        PROVE  \E p \in objs : p.owner \in owners /\ o = Erased(p)
    <2>1. ASSUME NEW n \in DOMAIN cfg.services, o = Asked(n)
          PROVE  \E p \in objs : p.owner \in owners /\ o = Erased(p)
      BY <2>1, EndFacts
    <2>2. ASSUME NEW n \in DOMAIN cfg.services, o = KubeService(n)
          PROVE  \E p \in objs : p.owner \in owners /\ o = Erased(p)
      <3>1. KubeService(n).owner = "services"
        BY DEF KubeService, Object
      <3>. QED
        BY <2>2, <3>1, EndFacts
    <2>3. ASSUME NEW n, NEW keys, o = AppSecret(n, keys), o \in SecretOf(n)
          PROVE  \E p \in objs : p.owner \in owners /\ o = Erased(p)
      <3>1. o \in objs /\ o.owner = "services"
        BY <2>3 DEF SecretOf, Get, AppSecret, Object
      <3>. QED
        BY <2>3, <3>1, EndFacts
    <2>4. ASSUME NEW n \in DOMAIN cfg.crons, o = CronJob(n)
          PROVE  \E p \in objs : p.owner \in owners /\ o = Erased(p)
      BY <2>4, EndFacts
    <2>5. CASE cfg.registry /\ o = PullSecret
      <3>1. PullSecret.owner = "registries"
        BY DEF PullSecret, Object
      <3>. QED
        BY <2>5, <3>1, EndFacts
    <2>. HIDE DEF owners
    <2>. QED
      BY <2>1, <2>2, <2>3, <2>4, <2>5, WantedOnes, EndFacts
  <1>2. ASSUME NEW p \in objs, p.owner \in owners
        PROVE  Erased(p) \in WantedApps
    <2>. DEFINE n == p.name[2]
    <2>0. Sound(p) /\ p \in ObjectSet
      BY <1>0 DEF Shaped
    <2>1. p.name = <<p.name[1], n>>
      BY <2>0 DEF ObjectSet
    <2>. HIDE DEF n
    <2>2. CASE /\ p.name[1] = "app" /\ p.owner = "services"
               /\ p.kind \in {"Deployment", "StatefulSet"}
      <3>1. n \in DOMAIN cfg.services
        BY <2>2 DEF Cleared, AtEnd, n
      <3>2. p.kind = IF cfg.services[n].stateful THEN "StatefulSet" ELSE "Deployment"
        <4>1. /\ PullSecret.kind = "Secret"
              /\ \A m : KubeService(m).kind = "Service"
              /\ \A m, keys : AppSecret(m, keys).kind = "Secret"
          BY DEF PullSecret, KubeService, AppSecret, Object
        <4>2. p.kind = "StatefulSet" <=> cfg.services[n].stateful
          BY <1>0, <2>0, <2>2, <3>1, <4>1 DEF Sound, n, AppRoles
        <4>. QED
          BY <2>2, <4>2
      <3>3. SameObject(p, Workload(n, hash))
        BY <2>1, <2>2, <3>1, <3>2, EndFacts DEF SameObject
      <3>4. p = Workload(n, hash)
        <4>1. Workload(n, hash) \in Apps /\ p \in Apps
          BY <2>2, <3>1, <3>3, EndFacts DEF Apps, AppRoles, SameObject
        <4>. QED
          BY <3>3, <4>1 DEF Shaped, Distinct
      <3>. QED
        BY <3>1, <3>4, EndFacts, WantedOnes
    <2>3. CASE p = KubeService(n)
      <3>1. p.owner = "services" /\ p.kind = "Service"
        BY <2>3 DEF KubeService, Object
      <3>2. n \in DOMAIN cfg.services
        BY <3>1 DEF Cleared, AtEnd, n
      <3>. QED
        BY <2>3, <3>2, EndFacts, WantedOnes
    <2>4. CASE p = AppSecret(n, p.keys)
      <3>1. p.owner = "services" /\ p.kind = "Secret" /\ p.name = <<"app-secrets", n>>
        BY <2>4, AppSecretFacts
      <3>2. p \in SecretOf(n)
        BY <3>1 DEF SecretOf, Get
      <3>3. n \in DOMAIN cfg.services \/ n \in DOMAIN cfg.crons
        BY <3>1 DEF Cleared, AtEnd, n
      <3>4. Erased(p) = p
        BY <2>4, EndFacts
      <3>. QED
        BY <3>2, <3>3, <3>4, EndFacts, WantedOnes
    <2>5. CASE p.name[1] = "app" /\ p.owner = "crons" /\ p.kind = "CronJob"
      <3>1. n \in DOMAIN cfg.crons
        BY <2>5 DEF Cleared, AtEnd, n
      <3>2. SameObject(p, CronJob(n))
        BY <2>1, <2>5, <3>1, EndFacts DEF SameObject
      <3>3. p = CronJob(n)
        <4>1. CronJob(n) \in Apps /\ p \in Apps
          BY <2>5, <3>1, <3>2, EndFacts DEF Apps, AppRoles, SameObject
        <4>. QED
          BY <3>2, <4>1 DEF Shaped, Distinct
      <3>. QED
        BY <3>1, <3>3, EndFacts, WantedOnes
    <2>6. CASE p = PullSecret
      BY <2>6, EndFacts, WantedOnes
    <2>. QED
      BY <1>2, <2>0, <2>2, <2>3, <2>4, <2>5, <2>6 DEF Sound, n
  <1>3. \A o : o \in LiveOf(owners) <=> \E p \in objs : p.owner \in owners /\ o = Erased(p)
    BY DEF LiveOf
  <1>. HIDE DEF owners
  <1>4. LiveOf(owners) = WantedApps
    BY <1>1, <1>2, <1>3
  <1>. QED
    BY <1>4 DEF owners

\* Where a run ends well, all steps behind it have done their work.
LEMMA EndsThere ==
    ASSUME Collected,
           \/ SweepCrons /\ SweepDone("crons", CronSweeps)
           \/ TornDown
           \/ ReloadCaddy
    PROVE  AtEnd
  <1>1. Len(CronSweeps) = 2
    BY DEF CronSweeps
  <1>2. pc \in PastCrons /\ CronJobsSwept
    BY <1>1 DEF PastCrons, Ending, CronJobsSwept, SweepCrons, SweepDone, TornDown, ReloadCaddy
  <1>3. DOMAIN cfg.databases \subseteq sources
    BY <1>2 DEF Collected, FromServices, PastServices
  <1>. QED
    BY <1>2, <1>3 DEF AtEnd

LEMMA ServersAtEnd ==
    ASSUME Web, Placed,
           \/ SweepCrons /\ ~ Loud
           \/ TornDown
           \/ ReloadCaddy
    PROVE  servers = cfg.servers /\ webOpen = WebWanted
  <1>1. Underway /\ pc \in {"cronsweep", "teardown", "reload"}
    BY DEF Underway, SweepCrons, TornDown, ReloadCaddy
  <1>2. cfg.servers \subseteq servers /\ webOpen = WebWanted
    BY <1>1 DEF Web, Placed
  <1>3. servers \subseteq cfg.servers
    BY <1>1 DEF Placed, TornDown, SweepCrons, ReloadCaddy
  <1>. QED
    BY <1>2, <1>3

\* Buckets are never taken away.
LEMMA BucketsGrow == [Next]_vars => buckets \subseteq buckets'
  <1>1. ASSUME RegistriesStep \/ ServicesStep \/ CronsStep
        PROVE  UNCHANGED buckets
    BY <1>1 DEF RegistriesStep, RegistriesLoud, RegistriesQuiet, ServicesStep, StartService,
       PruneServiceSecret, PruneSecret, ApplyWorkload, ApplyKubeService, RolloutReady,
       ServicesApplied, SweepServices, CronsStep, StartCron, PruneCronSecret, ApplyCron, CronsApplied,
       SweepCrons, SweepOrphan, SweepNext, SweepDone, SweptKind, clusterVars
  <1>2. ASSUME DatabasesStep
        PROVE  buckets \subseteq buckets'
    BY <1>2 DEF DatabasesStep, EnsureBucket, SkipDrifted, StartDatabase, ApplyDatabase, DatabasesApplied,
       SweepDatabases, SweepOrphan, SweepNext, SweepDone, SweptKind, clusterVars
  <1>. QED
    BY <1>1, <1>2 DEF Next, Run, Decide, InfraStep, IngressStep, Edit, Begin, Declined, Abort,
       PlanFails, NoChanges, Proceed, EnsureServer, DeleteServer, ApplyFirewall, TornDown, RouteTo,
       Unroute, AllRouted, AllUnrouted, EnsureCaddy, ReloadCaddy, vars, clusterVars

\* The buckets of storage: are there once Databases begins.
Filled ==
    /\ pc = "registries" /\ ~ Loud => BucketsEnsured
    /\ pc \in {"dbsweep"} \cup FromServices => BucketsEnsured

LEMMA StepFilled ==
    ASSUME TypeInv, Web, Filled, [Next]_vars
    PROVE  Filled'
  <1>. USE DEF Filled, FromServices, PastServices, PastCrons
  <1>0. UNCHANGED cfg /\ BucketsEnsured => BucketsEnsured'
    BY BucketsGrow DEF BucketsEnsured
  <1>1. CASE pc' \in {"idle", "plan", "bootstrap", "databases"}
    BY <1>1
  <1>2. CASE Proceed
    <2>1. /\ pc' \in {"bootstrap", "registries"}
          /\ pc' = "registries" => \E unread : ~ HasInfraChanges(ComputePlan(hash, unread))
          /\ UNCHANGED <<cfg, buckets>>
      BY <1>2 DEF Proceed, clusterVars
    <2>. QED
      BY <1>0, <2>1, QuietFinds DEF DesiredBuckets, BucketsEnsured
  <1>3. CASE InfraStep
    <2>1. CASE ApplyFirewall
      BY <2>1 DEF ApplyFirewall, Enter, Web, LoudOnly, Loud
    <2>2. CASE TornDown
      BY <1>0, <2>2 DEF TornDown, Enter, Finish
    <2>3. ASSUME NEW s, EnsureServer(s) \/ DeleteServer(s)
          PROVE  Filled'
      BY <1>0, <2>3 DEF EnsureServer, DeleteServer, runVars
    <2>. QED
      BY <1>3, <2>1, <2>2, <2>3 DEF InfraStep
  <1>4. CASE RegistriesStep
    <2>1. CASE RegistriesLoud
      BY <2>1 DEF RegistriesLoud, Enter
    <2>2. ASSUME NEW u, RegistriesQuiet(u)
          PROVE  Filled'
      BY <1>0, <2>2 DEF RegistriesQuiet
    <2>. QED
      BY <1>4, <2>1, <2>2 DEF RegistriesStep
  <1>5. CASE DatabasesStep
    <2>1. UNCHANGED cfg
      BY <1>5, MiddleSteps
    <2>2. CASE DatabasesApplied
      BY <1>0, <2>1, <2>2 DEF DatabasesApplied, Enter
    <2>3. CASE SweepDatabases
      BY <1>0, <2>1, <2>3 DEF SweepDatabases, SweepOrphan, SweepNext, SweepDone, SweptKind, Continue,
         Enter, runVars
    <2>4. CASE ~ DatabasesApplied /\ ~ SweepDatabases
      <3>1. pc' \in {"databases", "idle"}
        BY <1>5, <2>4 DEF DatabasesStep, EnsureBucket, SkipDrifted, StartDatabase, ApplyDatabase, Take,
           Continue, Processed, Finish, runVars
      <3>. QED
        BY <1>1, <3>1
    <2>. QED
      BY <2>2, <2>3, <2>4
  <1>6. CASE ServicesStep
    <2>1. UNCHANGED cfg /\ pc \in FromServices
      BY <1>6, MiddleSteps DEF ServicesStep, StartService, PruneServiceSecret, ApplyWorkload,
         ApplyKubeService, RolloutReady, ServicesApplied, SweepServices
    <2>. QED
      BY <1>0, <2>1
  <1>7. CASE CronsStep
    <2>1. UNCHANGED cfg /\ pc \in FromServices
      BY <1>7, MiddleSteps DEF CronsStep, StartCron, PruneCronSecret, ApplyCron, CronsApplied, SweepCrons
    <2>. QED
      BY <1>0, <2>1
  <1>8. CASE IngressStep /\ ~ ReloadCaddy
    BY <1>0, <1>8 DEF IngressStep, RouteTo, Unroute, AllRouted, AllUnrouted, EnsureCaddy, Enter, Processed
  <1>9. CASE UNCHANGED vars
    BY <1>0, <1>9 DEF vars, clusterVars, runVars, Loud
  <1>. QED
    BY <1>1, <1>2, <1>3, <1>4, <1>5, <1>6, <1>7, <1>8, <1>9, NotUnderway DEF Next, Run, Decide

\* What follows a run for AppsConverge, and the assumptions it needs.
AppsInv ==
    /\ TypeInv /\ Web /\ Shaped /\ AppsDone /\ Pulled /\ Undecided
    /\ Cleared /\ Placed /\ Collected /\ Filled

AppsSettle == NamesApart /\ KindsStable /\ Thorough /\ Readable

LEMMA InitApps == Init => AppsInv
  <1>1. Init => TypeInv /\ Web /\ Shaped /\ AppsDone /\ Pulled /\ Undecided
    BY InitTypes DEF Init, ClusterInit, Web, Underway, LoudOnly, Shaped, Distinct, Apps, AppsDone,
       ServiceDone, CronDone, ServiceAt, CronAt, Past, PastServices, PastCrons, Pulled,
       AfterRegistries, FromServices, Undecided
  <1>2. Init => Cleared /\ Placed /\ Collected /\ Filled
    BY DEF Init, Cleared, CronJobsSwept, Ending, PastCrons, Placed, Underway, Collected, Filled,
       FromServices, PastServices
  <1>. QED
    BY <1>1, <1>2 DEF AppsInv

LEMMA StepApps ==
    ASSUME AppsSettle, AppsInv, [Next]_vars
    PROVE  AppsInv'
  BY StepTypes, StepWeb, StepShaped, StepAppsDone, StepPulled, Finishes, StepCleared, StepPlaced,
     StepCollected, StepFilled DEF AppsInv, AppsSettle

LEMMA StepConverges ==
    ASSUME AppsSettle, AppsInv, AppsConvergedWhenDone, [Next]_vars
    PROVE  AppsConvergedWhenDone'
  <1>. SUFFICES ASSUME outcome' = "done"
                PROVE  AppsConverged'
    BY DEF AppsConvergedWhenDone
  <1>. USE DEF AppsInv, AppsSettle
  <1>. DEFINE owners == {"services", "crons", "registries"}
  <1>1. UNCHANGED objs => LiveOf(owners)' = LiveOf(owners)
    BY DEF LiveOf, Erased
  <1>. HIDE DEF owners
  <1>2. CASE UNCHANGED vars
    <2>1. UNCHANGED <<cfg, objs, servers, webOpen, records, routes, outcome>>
      BY <1>2 DEF vars, clusterVars, runVars
    <2>2. WantedApps' = WantedApps
      BY <2>1, WantedStays
    <2>3. (IngressConverged' <=> IngressConverged) /\ WebWanted' = WebWanted
      BY <2>1 DEF IngressConverged, WebWanted
    <2>4. AppsConverged
      BY <2>1 DEF AppsConvergedWhenDone
    <2>5. BucketsEnsured => BucketsEnsured'
      BY <2>1, BucketsGrow DEF BucketsEnsured
    <2>. QED
      BY <1>1, <2>1, <2>2, <2>3, <2>4, <2>5 DEF AppsConverged, owners
  <1>3. CASE /\ UNCHANGED <<cfg, objs, servers, webOpen, records>>
             /\ \/ SweepCrons /\ SweepDone("crons", CronSweeps) /\ ~ Loud /\ ~ WebWanted
                \/ TornDown /\ ~ WebWanted
                \/ ReloadCaddy
    <2>1. LiveOf(owners) = WantedApps
      BY <1>3, EndsThere, LiveIsWanted DEF owners
    <2>2. servers = cfg.servers /\ webOpen = WebWanted
      BY <1>3, ServersAtEnd
    <2>3. WantedApps' = WantedApps /\ WebWanted' = WebWanted
      BY <1>3, WantedStays DEF WebWanted
    <2>4. IngressConverged'
      BY <1>3, IngressConverges
    <2>5. BucketsEnsured'
      <3>1. pc \in FromServices
        BY <1>3 DEF FromServices, PastServices, PastCrons, SweepCrons, TornDown, ReloadCaddy
      <3>2. BucketsEnsured
        BY <3>1 DEF Filled
      <3>. QED
        BY <1>3, <3>2, BucketsGrow DEF BucketsEnsured
    <2>. QED
      BY <1>1, <1>3, <2>1, <2>2, <2>3, <2>4, <2>5 DEF AppsConverged, owners
  <1>. QED
    BY <1>2, <1>3, Finishes

(***************************************************************************)
(* After a deploy that ran to its end the cluster holds exactly the        *)
(* workloads, CronJobs, Secrets, servers and routes nvoi.yaml asks for,    *)
(* from whatever state stopped runs and earlier configurations left.       *)
(* That needs every orphan's deletion and every read of credentials to     *)
(* succeed (the code goes on after a warning), no name that is a service   *)
(* and a cron at once (their one Secret is pruned by both), and no service *)
(* that changes between Deployment and StatefulSet (the sweep keeps either *)
(* kind of a declared name).                                               *)
(***************************************************************************)
THEOREM AppsConverge ==
    ASSUME NamesApart, KindsStable, Thorough, Readable
    PROVE  Spec => []AppsConvergedWhenDone
  <1>1. AppsSettle
    BY DEF AppsSettle
  <1>2. Init => AppsInv /\ AppsConvergedWhenDone
    BY InitApps DEF Init, AppsConvergedWhenDone
  <1>3. AppsInv /\ AppsConvergedWhenDone /\ [Next]_vars => AppsInv' /\ AppsConvergedWhenDone'
    BY <1>1, StepApps, StepConverges
  <1>. QED
    BY <1>2, <1>3, PTL DEF Spec

----------------------------------------------------------------------------

(***************************************************************************)
(* An orphan a failed sweep has left is in every later plan as a deletion, *)
(* as the planners look for what carries nvoi's labels (ListOwned), not    *)
(* for what an earlier configuration declared.                             *)
(***************************************************************************)
THEOREM AlwaysLeftoversPlanned == Spec => []LeftoversPlanned
  <1>1. ASSUME NEW o \in objs, NEW h, NEW unread
        PROVE  /\ o.owner = "services" /\ o.kind \in {"Deployment", "StatefulSet"}
                  /\ o.name[2] \notin DOMAIN cfg.services
                     => Entry("delete", "workload", o.name[2]) \in ComputePlan(h, unread)
               /\ o.kind = "CronJob" /\ o.owner = "crons"
                  /\ o.name[2] \notin DOMAIN cfg.crons
                     => Entry("delete", "cronjob", o.name[2]) \in ComputePlan(h, unread)
    <2>1. \A owner, kind : o.owner = owner /\ o.kind = kind => o.name \in ListOwned(owner, kind)
      BY DEF ListOwned
    <2>2. ASSUME o.owner = "services", o.kind \in {"Deployment", "StatefulSet"}
          PROVE  o.name[2] \in LiveServices
      BY <2>1, <2>2 DEF LiveServices
    <2>3. ASSUME o.kind = "CronJob", o.owner = "crons"
          PROVE  o.name[2] \in LiveCrons
      BY <2>1, <2>3 DEF LiveCrons
    <2>4. \A res, desired, live : \A n \in live \ desired :
             Entry("delete", res, n) \in Diff(res, desired, live)
      BY DEF Diff
    <2>5. /\ Diff("workload", DOMAIN cfg.services, LiveServices) \subseteq ComputePlan(h, unread)
          /\ Diff("cronjob", DOMAIN cfg.crons, LiveCrons) \subseteq ComputePlan(h, unread)
      BY DEF ComputePlan, PlanServices, PlanCrons
    <2>. QED
      BY <2>2, <2>3, <2>4, <2>5
  <1>2. LeftoversPlanned
    BY <1>1 DEF LeftoversPlanned
  <1>. QED
    BY <1>2, PTL

----------------------------------------------------------------------------
(***************************************************************************)
(* Buckets of databases.                                                   *)
(***************************************************************************)
\* No database changes its server and turns its backups on or off: one that
\* is not where it is declared is passed over, its bucket with it.
MovesKeepBackups ==
    \A b, c \in Configs : \A d \in DOMAIN b.databases \cap DOMAIN c.databases :
        b.databases[d].server # c.databases[d].server
            => b.databases[d].backup = c.databases[d].backup

\* A StatefulSet stands where some configuration had its database, with the
\* bucket that one asked for.
Hosted ==
    \A o \in objs : o.kind = "StatefulSet" /\ o.name[1] = "db" =>
        \E b \in Configs :
            /\ o.name[2] \in DOMAIN b.databases
            /\ b.databases[o.name[2]].server = o.node
            /\ b.databases[o.name[2]].backup => o.name[2] \in buckets

Bucketed ==
    /\ pc = "registries" /\ ~ Loud => BackupBuckets \subseteq buckets
    /\ pc = "databases" => BackupBuckets \ todo \subseteq buckets
    /\ pc = "databases" /\ item # NoVal => BackupBuckets \cap {item} \subseteq buckets
    /\ pc \in {"dbsweep"} \cup FromServices => BackupBuckets \subseteq buckets

LEMMA StepHosted ==
    ASSUME TypeInv, Shaped, Hosted, Bucketed, [Next]_vars
    PROVE  Hosted'
  <1>. SUFFICES ASSUME NEW o \in objs', o.kind = "StatefulSet", o.name[1] = "db"
                PROVE  \E b \in Configs :
                          /\ o.name[2] \in DOMAIN b.databases
                          /\ b.databases[o.name[2]].server = o.node
                          /\ b.databases[o.name[2]].backup => o.name[2] \in buckets'
    BY DEF Hosted
  <1>0. buckets \subseteq buckets' /\ cfg \in Configs
    BY BucketsGrow DEF TypeInv, TypeOK, ClusterTypeOK
  <1>1. CASE o \in objs
    BY <1>0, <1>1 DEF Hosted
  <1>2. CASE ApplyDatabase /\ o \notin objs
    <2>1. /\ step \in 1..ObjectCount(item) /\ item \in DOMAIN cfg.databases
          /\ o = DatabaseObjects(item)[step]
      BY <1>2, AppliedNew DEF ApplyDatabase, TypeInv, InRange
    <2>2. o.name[2] = item /\ o.node = cfg.databases[item].server
      BY <2>1, DatabaseObjectFacts
    <2>3. cfg.databases[item].backup => item \in buckets
      BY <1>2, <2>1 DEF Bucketed, ApplyDatabase, BackupBuckets
    <2>. QED
      BY <1>0, <2>1, <2>2, <2>3
  <1>3. CASE EnsureCaddy /\ o \notin objs
    <2>1. o = Object("Deployment", "caddy", NoVal, "caddy")
      BY <1>3, AppliedNew DEF EnsureCaddy
    <2>. QED
      BY <2>1 DEF Object
  <1>4. CASE DatabasesStep /\ ~ ApplyDatabase /\ o \notin objs
    BY <1>4 DEF DatabasesStep, EnsureBucket, SkipDrifted, StartDatabase, DatabasesApplied, SweepDatabases,
       SweepOrphan, SweepNext, SweepDone, SweptKind, clusterVars
  <1>5. o \notin objs => DatabasesStep \/ EnsureCaddy
    <2>1. CronJob(item).kind = "CronJob"
      BY DEF CronJob, Object
    <2>2. \A n : <<"app", n>>[1] = "app"
      OBVIOUS
    <2>. QED
      BY <2>2, Touches DEF Touched
  <1>. QED
    BY <1>1, <1>2, <1>3, <1>4, <1>5

LEMMA StepBucketed ==
    ASSUME MovesKeepBackups, TypeInv, Web, Hosted, Bucketed, [Next]_vars
    PROVE  Bucketed'
  <1>. USE DEF Bucketed, FromServices, PastServices, PastCrons
  <1>0. buckets \subseteq buckets' /\ cfg \in Configs
    BY BucketsGrow DEF TypeInv, TypeOK, ClusterTypeOK
  <1>1. UNCHANGED cfg => BackupBuckets' = BackupBuckets
    BY DEF BackupBuckets
  <1>2. CASE pc' \in {"idle", "plan", "bootstrap"}
    BY <1>2
  <1>3. CASE Proceed
    <2>1. /\ pc' \in {"bootstrap", "registries"}
          /\ pc' = "registries" => \E unread : ~ HasInfraChanges(ComputePlan(hash, unread))
          /\ UNCHANGED <<cfg, buckets>>
      BY <1>3 DEF Proceed, clusterVars
    <2>. QED
      BY <1>1, <2>1, QuietFinds DEF DesiredBuckets
  <1>4. CASE InfraStep
    <2>1. CASE ApplyFirewall
      BY <2>1 DEF ApplyFirewall, Enter, Web, LoudOnly, Loud
    <2>2. CASE TornDown
      <3>1. pc' \in {"routes", "idle"} /\ UNCHANGED <<cfg, buckets>>
        BY <2>2 DEF TornDown, Enter, Finish, clusterVars
      <3>2. pc \in FromServices
        BY <2>2 DEF TornDown
      <3>. QED
        BY <1>1, <3>1, <3>2
    <2>3. ASSUME NEW s, EnsureServer(s) \/ DeleteServer(s)
          PROVE  Bucketed'
      <3>1. UNCHANGED <<cfg, buckets, pc, todo, item>> /\ pc \in {"bootstrap", "teardown"}
        BY <2>3 DEF EnsureServer, DeleteServer, runVars
      <3>. QED
        BY <1>1, <3>1
    <2>. QED
      BY <1>4, <2>1, <2>2, <2>3 DEF InfraStep
  <1>5. CASE RegistriesStep
    <2>1. UNCHANGED <<cfg, buckets>>
      BY <1>5 DEF RegistriesStep, RegistriesLoud, RegistriesQuiet
    <2>2. CASE RegistriesLoud
      BY <1>1, <2>1, <2>2 DEF RegistriesLoud, Enter, BackupBuckets
    <2>3. ASSUME NEW u, RegistriesQuiet(u)
          PROVE  Bucketed'
      BY <1>1, <2>1, <2>3 DEF RegistriesQuiet
    <2>. QED
      BY <1>5, <2>2, <2>3 DEF RegistriesStep
  <1>6. CASE DatabasesStep
    <2>0. UNCHANGED cfg /\ BackupBuckets' = BackupBuckets
      BY <1>1, <1>6, MiddleSteps
    <2>1. ASSUME NEW d \in Databases, SkipDrifted(d)
          PROVE  Bucketed'
      <3>1. PICK o \in objs : /\ o.kind = "StatefulSet" /\ o.name = <<"db", d>>
                              /\ o.node # cfg.databases[d].server
        BY <2>1 DEF SkipDrifted, Drifted, Get
      <3>2. o.name[1] = "db" /\ o.name[2] = d
        BY <3>1
      <3>3. PICK b \in Configs : /\ d \in DOMAIN b.databases /\ b.databases[d].server = o.node
                                 /\ b.databases[d].backup => d \in buckets
        BY <3>1, <3>2 DEF Hosted
      <3>4. d \in DOMAIN cfg.databases
        BY <2>1 DEF SkipDrifted, TypeInv, InRange
      <3>5. b.databases[d].backup = cfg.databases[d].backup
        BY <1>0, <3>1, <3>3, <3>4 DEF MovesKeepBackups
      <3>6. d \in BackupBuckets => d \in buckets
        BY <3>3, <3>5 DEF BackupBuckets
      <3>. QED
        BY <1>0, <2>0, <2>1, <3>6 DEF SkipDrifted, Processed, Finish
    <2>2. ASSUME NEW d \in Databases, StartDatabase(d)
          PROVE  Bucketed'
      <3>1. BackupBuckets \cap {d} \subseteq buckets'
        BY <2>2 DEF StartDatabase, BackupBuckets
      <3>. QED
        BY <1>0, <2>0, <2>2, <3>1 DEF StartDatabase, Take
    <2>3. CASE ApplyDatabase
      BY <2>0, <2>3 DEF ApplyDatabase, Processed, Continue
    <2>4. CASE DatabasesApplied
      BY <2>0, <2>4 DEF DatabasesApplied, Enter, clusterVars
    <2>5. CASE SweepDatabases
      BY <1>0, <2>0, <2>5 DEF SweepDatabases, SweepOrphan, SweepNext, SweepDone, SweptKind, Continue, Enter,
         runVars
    <2>6. ASSUME NEW b \in Buckets, EnsureBucket(b)
          PROVE  Bucketed'
      BY <1>0, <2>0, <2>6 DEF EnsureBucket, runVars
    <2>. QED
      BY <1>6, <2>1, <2>2, <2>3, <2>4, <2>5, <2>6 DEF DatabasesStep
  <1>7. CASE ServicesStep
    <2>1. UNCHANGED cfg /\ pc \in FromServices
      BY <1>7, MiddleSteps DEF ServicesStep, StartService, PruneServiceSecret, ApplyWorkload,
         ApplyKubeService, RolloutReady, ServicesApplied, SweepServices
    <2>2. pc' \notin {"registries", "databases"}
      BY <1>7 DEF ServicesStep, StartService, PruneServiceSecret, PruneSecret, PruneKey, PruneDone,
       ApplyWorkload, ApplyKubeService, RolloutReady, ServicesApplied, SweepServices, SweepOrphan,
       SweepNext, SweepDone, SweptKind, Take, Continue, Enter, Processed, runVars
    <2>. QED
      BY <1>0, <1>1, <2>1, <2>2
  <1>8. CASE CronsStep
    <2>1. UNCHANGED cfg /\ pc \in FromServices
      BY <1>8, MiddleSteps DEF CronsStep, StartCron, PruneCronSecret, ApplyCron, CronsApplied, SweepCrons
    <2>2. pc' \notin {"registries", "databases"}
      BY <1>8 DEF CronsStep, StartCron, PruneCronSecret, PruneSecret, PruneKey, PruneDone, ApplyCron,
         CronsApplied, SweepCrons, AfterCrons, SweepOrphan, SweepNext, SweepDone, SweptKind, Take,
         Continue, Enter, Finish, Processed, runVars
    <2>. QED
      BY <1>0, <1>1, <2>1, <2>2
  <1>9. CASE IngressStep /\ ~ ReloadCaddy
    BY <1>0, <1>1, <1>9 DEF IngressStep, RouteTo, Unroute, AllRouted, AllUnrouted, EnsureCaddy, Enter,
       Processed, clusterVars
  <1>10. CASE UNCHANGED vars
    BY <1>1, <1>10 DEF vars, clusterVars, runVars, Loud
  <1>. QED
    BY <1>2, <1>3, <1>4, <1>5, <1>6, <1>7, <1>8, <1>9, <1>10, NotUnderway DEF Next, Run, Decide

----------------------------------------------------------------------------
(***************************************************************************)
(* Databases the planner takes for live, and Caddy.                        *)
(***************************************************************************)
Known == \A d : HasCredentials(d) => d \in DOMAIN cfg.databases

KnownAt ==
    \/ pc = "registries" /\ ~ Loud
    \/ pc = "dbsweep" /\ step > 4
    \/ pc \in FromServices

LEMMA LiveHasCredentials ==
    ASSUME TypeInv, VitalOwned, NEW d
    PROVE  d \in LiveDatabases <=> HasCredentials(d)
  <1>1. d \in LiveDatabases <=>
           \E o \in objs : /\ o.owner = "databases" /\ o.kind = "Secret"
                           /\ o.name[1] = "db-credentials" /\ o.name[2] = d
    BY DEF LiveDatabases, ListOwned
  <1>2. \A o \in objs : o.name = <<o.name[1], o.name[2]>>
    BY DEF TypeInv, TypeOK, ClusterTypeOK, ObjectSet
  <1>3. \A o \in objs : o.name[1] = "db-credentials" => o.owner = "databases"
    BY DEF VitalOwned, Vital
  <1>4. HasCredentials(d) <=> \E o \in objs : o.kind = "Secret" /\ o.name = <<"db-credentials", d>>
    BY DEF HasCredentials, Get
  <1>. QED
    BY <1>1, <1>2, <1>3, <1>4

LEMMA KnownMoves ==
    ASSUME TypeInv, Web, [Next]_vars, KnownAt'
    PROVE  /\ UNCHANGED cfg
           /\ \/ KnownAt /\ ~ ApplyDatabase
              \/ /\ pc = "dbsweep" /\ step = 4 /\ UNCHANGED objs
                 /\ SweptKind("databases", DatabaseSweeps)
              \/ UNCHANGED objs /\ \E unread : ~ HasInfraChanges(ComputePlan(hash, unread))
  <1>. USE DEF KnownAt, FromServices, PastServices, PastCrons
  <1>0. Len(DatabaseSweeps) = 5 /\ step \in 1..6
    BY DEF DatabaseSweeps, TypeInv, TypeOK, RunTypeOK
  <1>1. CASE Proceed
    BY <1>1 DEF Proceed, clusterVars, Loud
  <1>2. CASE InfraStep
    BY <1>2 DEF InfraStep, EnsureServer, DeleteServer, ApplyFirewall, TornDown, Enter, Finish, runVars,
       Web, LoudOnly, Loud, ApplyDatabase
  <1>3. CASE RegistriesStep
    BY <1>3 DEF RegistriesStep, RegistriesLoud, RegistriesQuiet, Enter, ApplyDatabase, Loud
  <1>4. CASE DatabasesStep
    <2>1. UNCHANGED cfg
      BY <1>4, MiddleSteps
    <2>2. CASE SweepDatabases
      BY <1>0, <2>1, <2>2 DEF SweepDatabases, SweepOrphan, SweepNext, SweepDone, SweptKind, Continue, Enter,
         runVars, clusterVars, ApplyDatabase
    <2>3. CASE ~ SweepDatabases
      BY <1>4, <2>3 DEF DatabasesStep, EnsureBucket, SkipDrifted, StartDatabase, ApplyDatabase, DatabasesApplied,
         Take, Continue, Enter, Finish, Processed, runVars
    <2>. QED
      BY <2>2, <2>3
  <1>5. CASE ServicesStep \/ CronsStep
    <2>1. UNCHANGED cfg /\ pc \in FromServices
      BY <1>5, MiddleSteps DEF ServicesStep, StartService, PruneServiceSecret, ApplyWorkload,
         ApplyKubeService, RolloutReady, ServicesApplied, SweepServices, CronsStep, StartCron,
         PruneCronSecret, ApplyCron, CronsApplied, SweepCrons
    <2>. QED
      BY <2>1 DEF ApplyDatabase
  <1>6. CASE IngressStep
    BY <1>6 DEF IngressStep, RouteTo, Unroute, AllRouted, AllUnrouted, EnsureCaddy, ReloadCaddy,
       ApplyDatabase
  <1>7. CASE UNCHANGED vars
    BY <1>7 DEF vars, clusterVars, runVars, Loud, ApplyDatabase, Applied, Continue, Processed
  <1>. QED
    BY <1>1, <1>2, <1>3, <1>4, <1>5, <1>6, <1>7, NotUnderway DEF Next, Run, Decide

LEMMA StepKnown ==
    ASSUME Thorough, TypeInv, Web, VitalOwned, KnownAt => Known, [Next]_vars
    PROVE  KnownAt' => Known'
  <1>. SUFFICES ASSUME KnownAt', NEW d, HasCredentials(d)'
                PROVE  d \in DOMAIN cfg.databases
    BY KnownMoves DEF Known
  <1>1. UNCHANGED objs => HasCredentials(d)
    BY DEF HasCredentials, Get
  <1>2. CASE KnownAt /\ ~ ApplyDatabase
    <2>1. Vital' = Vital => HasCredentials(d)
      BY VitalDecides
    <2>2. ASSUME pc = "dbsweep", SweepOrphan("databases", DatabaseSweeps)
          PROVE  HasCredentials(d)
      <3>1. objs' \subseteq objs
        BY <2>2 DEF SweepOrphan
      <3>. QED
        BY <3>1 DEF HasCredentials, Get
    <2>3. HasCredentials(d)
      BY <1>2, <2>1, <2>2, VitalWriters
    <2>. QED
      BY <1>2, <2>3 DEF Known
  <1>3. CASE /\ pc = "dbsweep" /\ step = 4 /\ UNCHANGED objs
             /\ SweptKind("databases", DatabaseSweeps)
    <2>. DEFINE dbs == DOMAIN cfg.databases
                desired == Named("db-credentials", dbs) \cup Named("db-backup-creds", BackupBuckets)
    <2>1. DatabaseSweeps[4] = Swept("Secret", desired)
      BY DEF DatabaseSweeps
    <2>. HIDE DEF desired
    <2>2. Left("databases", DatabaseSweeps) = Orphans("databases", "Secret", desired)
      BY <1>3, <2>1 DEF Left, Swept
    <2>3. Orphans("databases", "Secret", desired) = {}
      BY <1>3, <2>2 DEF SweptKind, Thorough
    <2>4. PICK o \in objs : o.kind = "Secret" /\ o.name = <<"db-credentials", d>>
      BY <1>1, <1>3 DEF HasCredentials, Get
    <2>5. o.owner = "databases"
      BY <2>4 DEF VitalOwned, Vital
    <2>6. o.name \in desired
      BY <2>3, <2>4, <2>5 DEF Orphans
    <2>. QED
      BY <2>4, <2>6 DEF desired, Named
  <1>4. CASE UNCHANGED objs /\ \E unread : ~ HasInfraChanges(ComputePlan(hash, unread))
    <2>0. PICK unread : ~ HasInfraChanges(ComputePlan(hash, unread))
      BY <1>4
    <2>1. d \in LiveDatabases
      BY <1>1, <1>4, LiveHasCredentials
    <2>2. ASSUME d \notin DOMAIN cfg.databases
          PROVE  FALSE
      <3>1. Entry("delete", "database", d) \in ComputePlan(hash, unread)
        BY <2>1, <2>2 DEF ComputePlan, PlanDatabases, Diff
      <3>2. Entry("delete", "database", d).res = "database"
        BY DEF Entry
      <3>. QED
        BY <2>0, <3>1, <3>2 DEF HasInfraChanges, InfraResources
    <2>. QED
      BY <2>2
  <1>. QED
    BY <1>2, <1>3, <1>4, KnownMoves

CaddyUp == pc = "reload" => ListOwned("caddy", "Deployment") # {}

LEMMA StepCaddyUp ==
    ASSUME CaddyUp, [Next]_vars
    PROVE  CaddyUp'
  <1>. SUFFICES ASSUME pc' = "reload"
                PROVE  ListOwned("caddy", "Deployment")' # {}
    BY DEF CaddyUp
  <1>1. CASE EnsureCaddy
    <2>. DEFINE o == Object("Deployment", "caddy", NoVal, "caddy")
    <2>1. o.owner = "caddy" /\ o.kind = "Deployment"
      BY DEF Object
    <2>. HIDE DEF o
    <2>2. objs' = Applied(o)
      BY <1>1 DEF EnsureCaddy, o
    <2>3. o \in objs'
      BY <2>1, <2>2 DEF Applied
    <2>. QED
      BY <2>1, <2>3 DEF ListOwned
  <1>2. CASE UNCHANGED <<pc, objs>>
    BY <1>2 DEF CaddyUp, ListOwned
  <1>3. RegistriesStep \/ DatabasesStep \/ ServicesStep \/ CronsStep => pc' # "reload"
    BY MiddleSteps
  <1>4. IngressStep /\ ~ EnsureCaddy => pc' # "reload"
    BY DEF IngressStep, RouteTo, Unroute, AllRouted, AllUnrouted, ReloadCaddy, Enter, Finish, Processed
  <1>5. InfraStep \/ Proceed => pc' # "reload"
    BY DEF InfraStep, EnsureServer, DeleteServer, ApplyFirewall, TornDown, Enter, Finish, runVars, Proceed
  <1>6. UNCHANGED vars => UNCHANGED <<pc, objs>>
    BY DEF vars, clusterVars, runVars
  <1>. QED
    BY <1>1, <1>2, <1>3, <1>4, <1>5, <1>6, NotUnderway DEF Next, Run, Decide

----------------------------------------------------------------------------
(***************************************************************************)
(* What the planners find at the end of a deploy.                          *)
(***************************************************************************)
Tidy ==
    /\ AppsConverged
    /\ BackupBuckets \subseteq buckets
    /\ \A d : HasCredentials(d) <=> d \in DOMAIN cfg.databases
    /\ WebWanted => ListOwned("caddy", "Deployment") # {}

TidyWhenDone == outcome = "done" => Tidy

LEMMA StepTidy ==
    ASSUME AppsSettle, AppsInv, AppsConvergedWhenDone, Bucketed, KnownAt => Known, Sourced, CaddyUp,
           TidyWhenDone, [Next]_vars
    PROVE  TidyWhenDone'
  <1>. SUFFICES ASSUME outcome' = "done"
                PROVE  Tidy'
    BY DEF TidyWhenDone
  <1>1. AppsConverged'
    BY StepConverges DEF AppsConvergedWhenDone
  <1>2. UNCHANGED <<cfg, objs>> =>
           /\ \A d : HasCredentials(d)' <=> HasCredentials(d)
           /\ ListOwned("caddy", "Deployment")' = ListOwned("caddy", "Deployment")
           /\ BackupBuckets' = BackupBuckets /\ WebWanted' = WebWanted
    BY DEF HasCredentials, Get, ListOwned, BackupBuckets, WebWanted
  <1>3. buckets \subseteq buckets'
    BY BucketsGrow
  <1>4. CASE UNCHANGED vars
    <2>1. UNCHANGED <<cfg, objs, outcome>>
      BY <1>4 DEF vars, clusterVars, runVars
    <2>2. Tidy
      BY <2>1 DEF TidyWhenDone
    <2>. QED
      BY <1>1, <1>2, <1>3, <2>1, <2>2 DEF Tidy
  <1>5. CASE /\ UNCHANGED <<cfg, objs, servers, webOpen, records>>
             /\ \/ SweepCrons /\ SweepDone("crons", CronSweeps) /\ ~ Loud /\ ~ WebWanted
                \/ TornDown /\ ~ WebWanted
                \/ ReloadCaddy
    <2>1. AtEnd
      BY <1>5, EndsThere DEF AppsInv
    <2>2. pc \in FromServices
      BY <2>1 DEF AtEnd, FromServices, PastServices
    <2>3. \A d : HasCredentials(d) <=> d \in DOMAIN cfg.databases
      BY <2>1, <2>2 DEF KnownAt, Known, AtEnd, Sourced
    <2>4. BackupBuckets \subseteq buckets
      BY <2>2 DEF Bucketed
    <2>5. WebWanted => ListOwned("caddy", "Deployment") # {}
      BY <1>5 DEF ReloadCaddy, CaddyUp
    <2>. QED
      BY <1>1, <1>2, <1>3, <1>5, <2>3, <2>4, <2>5 DEF Tidy
  <1>. QED
    BY <1>4, <1>5, Finishes DEF AppsInv

----------------------------------------------------------------------------
(***************************************************************************)
(* A converged cluster, read back by the planners.                         *)
(***************************************************************************)
LEMMA ErasedFields ==
    ASSUME NEW o \in ObjectSet
    PROVE  /\ Erased(o).kind = o.kind /\ Erased(o).name = o.name /\ Erased(o).owner = o.owner
           /\ Erased(o).image = o.image /\ Erased(o).spec = o.spec /\ Erased(o).keys = o.keys
           /\ Erased(o).pull = o.pull
  <1>. DEFINE p == [o EXCEPT !.tag = NoVal]
  <1>1. Erased(o) = [p EXCEPT !.node = NoVal]
    BY Zenon DEF Erased
  <1>2. /\ DOMAIN p = DOMAIN o
        /\ p.kind = o.kind /\ p.name = o.name /\ p.owner = o.owner
        /\ p.image = o.image /\ p.spec = o.spec /\ p.keys = o.keys
        /\ p.pull = o.pull
    BY DEF ObjectSet
  <1>3. DOMAIN o = {"kind", "name", "owner", "image", "tag", "spec", "keys", "node", "pull"}
    BY DEF ObjectSet
  <1>. HIDE DEF p
  <1>. QED
    BY <1>1, <1>2, <1>3

\* The same of any configuration: the workload, the keys and the CronJob c
\* asks for, and all it asks for of services, crons and registries.
KeysOf(c, n) == c.services[n].secrets \cup c.services[n].dbs

AskedOf(c, n) ==
    [kind |-> IF c.services[n].stateful THEN "StatefulSet" ELSE "Deployment",
     name |-> <<"app", n>>, owner |-> "services", image |-> c.services[n].image, tag |-> NoVal,
     spec |-> c.services[n].spec, keys |-> KeysOf(c, n), node |-> NoVal, pull |-> c.registry]

CronOf(c, n) ==
    [Object("CronJob", "app", n, "crons")
       EXCEPT !.image = c.crons[n].image, !.spec = c.crons[n].schedule,
              !.keys = c.crons[n].secrets, !.pull = c.registry]

Asks(c, o) ==
    \/ \E n \in DOMAIN c.services :
          \/ o = AskedOf(c, n) \/ o = KubeService(n)
          \/ KeysOf(c, n) # {} /\ o = AppSecret(n, KeysOf(c, n))
    \/ \E n \in DOMAIN c.crons :
          \/ o = CronOf(c, n)
          \/ c.crons[n].secrets # {} /\ o = AppSecret(n, c.crons[n].secrets)
    \/ c.registry /\ o = PullSecret

\* What is live is what c asks for.
LiveAs(c) == \A o : o \in LiveOf({"services", "crons", "registries"}) <=> Asks(c, o)

ConvergedApps == LiveOf({"services", "crons", "registries"}) = WantedApps

LEMMA ConvergedIsLive == ConvergedApps <=> LiveAs(cfg)
  <1>1. \A n : Asked(n) = AskedOf(cfg, n) /\ DeclaredKeys(n) = KeysOf(cfg, n)
               /\ CronJob(n) = CronOf(cfg, n)
    BY DEF Asked, AskedOf, DeclaredKeys, KeysOf, CronJob, CronOf
  <1>2. \A o : o \in WantedApps <=> Asks(cfg, o)
    BY <1>1, WantedOnes DEF Asks
  <1>. QED
    BY <1>2 DEF ConvergedApps, LiveAs

\* What is wanted, told by its kind and name.
LEMMA WantedByKind ==
    ASSUME NEW c, NEW o, Asks(c, o)
    PROVE  /\ o.kind \in {"Deployment", "StatefulSet"} =>
                 \E n \in DOMAIN c.services : o = AskedOf(c, n) /\ o.name = <<"app", n>>
           /\ o.kind = "CronJob" =>
                 \E n \in DOMAIN c.crons : o = CronOf(c, n) /\ o.name = <<"app", n>>
           /\ o.kind = "Secret" =>
                 \/ \E n \in DOMAIN c.services :
                       o.name = <<"app-secrets", n>> /\ o.keys = KeysOf(c, n)
                 \/ \E n \in DOMAIN c.crons :
                       o.name = <<"app-secrets", n>> /\ o.keys = c.crons[n].secrets
                 \/ c.registry /\ o = PullSecret
  <1>1. \A n : /\ AskedOf(c, n).kind \in {"Deployment", "StatefulSet"} /\ AskedOf(c, n).name = <<"app", n>>
               /\ KubeService(n).kind = "Service"
               /\ CronOf(c, n).kind = "CronJob" /\ CronOf(c, n).name = <<"app", n>>
    BY DEF AskedOf, KubeService, CronOf, Object
  <1>2. PullSecret.kind = "Secret"
    BY DEF PullSecret, Object
  <1>3. \A n, keys : /\ AppSecret(n, keys).kind = "Secret" /\ AppSecret(n, keys).keys = keys
                     /\ AppSecret(n, keys).name = <<"app-secrets", n>>
    BY AppSecretFacts
  <1>. QED
    BY <1>1, <1>2, <1>3 DEF Asks

\* Each way: what is live is wanted, and what is wanted is live.
LEMMA BothWays ==
    ASSUME TypeInv, NEW c, LiveAs(c)
    PROVE  /\ \A o \in objs : o.owner \in {"services", "crons", "registries"} =>
                 Asks(c, Erased(o))
           /\ \A w : Asks(c, w) => \E o \in objs :
                 /\ o.owner \in {"services", "crons", "registries"} /\ w = Erased(o)
                 /\ w.kind = o.kind /\ w.name = o.name /\ w.owner = o.owner /\ w.keys = o.keys
  <1>1. objs \subseteq ObjectSet
    BY DEF TypeInv, TypeOK, ClusterTypeOK
  <1>. DEFINE owners == {"services", "crons", "registries"}
  <1>2. \A w : w \in LiveOf(owners) <=> \E o \in objs : o.owner \in owners /\ w = Erased(o)
    BY DEF LiveOf
  <1>3. \A o \in objs : /\ Erased(o).kind = o.kind /\ Erased(o).name = o.name
                        /\ Erased(o).owner = o.owner /\ Erased(o).keys = o.keys
    BY <1>1, ErasedFields
  <1>. HIDE DEF owners
  <1>4. \A w : w \in LiveOf(owners) <=> Asks(c, w)
    BY DEF owners, LiveAs
  <1>5. \A o \in objs : o.owner \in owners => Asks(c, Erased(o))
    BY <1>2, <1>4
  <1>6. \A w : Asks(c, w) => \E o \in objs :
           /\ o.owner \in owners /\ w = Erased(o)
           /\ w.kind = o.kind /\ w.name = o.name /\ w.owner = o.owner /\ w.keys = o.keys
    BY <1>2, <1>3, <1>4
  <1>. QED
    BY <1>5, <1>6 DEF owners

LEMMA LiveWorkloads ==
    ASSUME TypeInv, Shaped, NEW c, LiveAs(c)
    PROVE  /\ LiveServices = DOMAIN c.services
           /\ \A n \in DOMAIN c.services : \A unread : \A i \in LiveImage(n, unread) :
                 i.image = c.services[n].image
           /\ LiveCrons = DOMAIN c.crons
           /\ \A n \in DOMAIN c.crons : \A unread :
                 /\ LiveSchedules(n, unread) \subseteq {c.crons[n].schedule}
                 /\ \A i \in LiveCronImage(n, unread) : i.image = c.crons[n].image
  <1>. DEFINE workloads == {"Deployment", "StatefulSet"}
  <1>0. objs \subseteq ObjectSet
    BY DEF TypeInv, TypeOK, ClusterTypeOK
  <1>1. ASSUME NEW o \in objs, o.owner = "services", o.kind \in workloads
        PROVE  \E n \in DOMAIN c.services : o.name = <<"app", n>> /\ o.image = c.services[n].image
    <2>1. Asks(c, Erased(o))
      BY <1>1, BothWays
    <2>2. PICK n \in DOMAIN c.services : Erased(o) = AskedOf(c, n) /\ Erased(o).name = <<"app", n>>
      BY <1>0, <1>1, <2>1, ErasedFields, WantedByKind
    <2>3. AskedOf(c, n).image = c.services[n].image
      BY DEF AskedOf
    <2>. QED
      BY <1>0, <2>2, <2>3, ErasedFields
  <1>2. ASSUME NEW o \in objs, o.owner = "crons"
        PROVE  \E n \in DOMAIN c.crons :
                  /\ o.name = <<"app", n>> /\ o.image = c.crons[n].image
                  /\ o.spec = c.crons[n].schedule
    <2>1. Asks(c, Erased(o)) /\ o.kind = "CronJob"
      BY <1>2, BothWays, SoundFacts DEF Shaped
    <2>2. PICK n \in DOMAIN c.crons : Erased(o) = CronOf(c, n) /\ Erased(o).name = <<"app", n>>
      BY <1>0, <2>1, ErasedFields, WantedByKind
    <2>3. CronOf(c, n).image = c.crons[n].image /\ CronOf(c, n).spec = c.crons[n].schedule
      BY DEF CronOf, Object
    <2>. QED
      BY <1>0, <2>2, <2>3, ErasedFields
  <1>3. ASSUME NEW n \in DOMAIN c.services
        PROVE  \E o \in objs : o.owner = "services" /\ o.kind \in workloads /\ o.name = <<"app", n>>
    <2>1. Asks(c, AskedOf(c, n))
      BY DEF Asks
    <2>2. /\ AskedOf(c, n).owner = "services" /\ AskedOf(c, n).kind \in workloads
          /\ AskedOf(c, n).name = <<"app", n>>
      BY DEF AskedOf
    <2>. HIDE DEF workloads
    <2>. QED
      BY <2>1, <2>2, BothWays
  <1>4. ASSUME NEW n \in DOMAIN c.crons
        PROVE  \E o \in objs : o.owner = "crons" /\ o.kind = "CronJob" /\ o.name = <<"app", n>>
    <2>1. Asks(c, CronOf(c, n))
      BY DEF Asks
    <2>2. /\ CronOf(c, n).owner = "crons" /\ CronOf(c, n).kind = "CronJob"
          /\ CronOf(c, n).name = <<"app", n>>
      BY DEF CronOf, Object
    <2>. QED
      BY <2>1, <2>2, BothWays
  <1>5. LiveServices = DOMAIN c.services
    <2>1. \A n : n \in LiveServices <=>
             \E o \in objs : o.owner = "services" /\ o.kind \in workloads /\ o.name[2] = n
      BY DEF LiveServices, ListOwned
    <2>. HIDE DEF workloads
    <2>2. ASSUME NEW n \in DOMAIN c.services
          PROVE  n \in LiveServices
      <3>1. PICK o \in objs : o.owner = "services" /\ o.kind \in workloads /\ o.name = <<"app", n>>
        BY <1>3
      <3>2. o.name[2] = n
        BY <3>1
      <3>. QED
        BY <2>1, <3>1, <3>2
    <2>3. ASSUME NEW n \in LiveServices
          PROVE  n \in DOMAIN c.services
      <3>1. PICK o \in objs : o.owner = "services" /\ o.kind \in workloads /\ o.name[2] = n
        BY <2>1
      <3>2. PICK m \in DOMAIN c.services : o.name = <<"app", m>>
        BY <1>1, <3>1
      <3>. QED
        BY <3>1, <3>2
    <2>. QED
      BY <2>2, <2>3
  <1>6. LiveCrons = DOMAIN c.crons
    <2>1. \A n : n \in LiveCrons <=>
             \E o \in objs : o.owner = "crons" /\ o.kind = "CronJob" /\ o.name[2] = n
      BY DEF LiveCrons, ListOwned
    <2>2. ASSUME NEW n \in DOMAIN c.crons
          PROVE  n \in LiveCrons
      <3>1. PICK o \in objs : o.owner = "crons" /\ o.kind = "CronJob" /\ o.name = <<"app", n>>
        BY <1>4
      <3>2. o.name[2] = n
        BY <3>1
      <3>. QED
        BY <2>1, <3>1, <3>2
    <2>3. ASSUME NEW n \in LiveCrons
          PROVE  n \in DOMAIN c.crons
      <3>1. PICK o \in objs : o.owner = "crons" /\ o.kind = "CronJob" /\ o.name[2] = n
        BY <2>1
      <3>2. PICK m \in DOMAIN c.crons : o.name = <<"app", m>>
        BY <1>2, <3>1
      <3>. QED
        BY <3>1, <3>2
    <2>. QED
      BY <2>2, <2>3
  <1>7. \A o \in objs : o.name[1] = "app" =>
           /\ o.kind \in workloads => o.owner = "services"
           /\ o.kind = "CronJob" => o.owner = "crons"
    <2>. SUFFICES ASSUME NEW o \in objs, o.name[1] = "app"
                  PROVE  /\ o.kind \in workloads => o.owner = "services"
                         /\ o.kind = "CronJob" => o.owner = "crons"
      OBVIOUS
    <2>1. o.owner \in {"services", "crons"}
      BY SoundFacts DEF Shaped, AppRoles
    <2>. QED
      BY <2>1, SoundFacts DEF Shaped
  <1>8. ASSUME NEW n \in DOMAIN c.services, NEW unread, NEW i \in LiveImage(n, unread)
        PROVE  i.image = c.services[n].image
    <2>1. PICK o \in objs : /\ o.kind \in workloads /\ o.name = <<"app", n>>
                            /\ i = [image |-> o.image, tag |-> o.tag]
      BY DEF LiveImage, Read, Get
    <2>2. o.name[1] = "app" /\ o.name[2] = n
      BY <2>1
    <2>. HIDE DEF workloads
    <2>3. o.owner = "services"
      BY <1>7, <2>1, <2>2
    <2>4. o.image = c.services[n].image
      BY <1>1, <2>1, <2>2, <2>3
    <2>. QED
      BY <2>1, <2>4
  <1>9. ASSUME NEW n \in DOMAIN c.crons, NEW o \in Get("CronJob", "app", n)
        PROVE  o.spec = c.crons[n].schedule /\ o.image = c.crons[n].image
    <2>1. o \in objs /\ o.kind = "CronJob" /\ o.name = <<"app", n>>
      BY DEF Get
    <2>2. o.name[1] = "app" /\ o.name[2] = n
      BY <2>1
    <2>. QED
      BY <1>2, <1>7, <2>1, <2>2
  <1>10. \A n \in DOMAIN c.crons : \A unread :
            /\ LiveSchedules(n, unread) \subseteq {c.crons[n].schedule}
            /\ \A i \in LiveCronImage(n, unread) : i.image = c.crons[n].image
    BY <1>9 DEF LiveSchedules, LiveCronImage, Read
  <1>. QED
    BY <1>5, <1>6, <1>8, <1>10

LEMMA LiveKeys ==
    ASSUME TypeInv, Shaped, NEW c, LiveAs(c), DOMAIN c.services \cap DOMAIN c.crons = {}
    PROVE  /\ \A n \in DOMAIN c.services : SecretKeys(n) = KeysOf(c, n)
           /\ \A n \in DOMAIN c.crons : SecretKeys(n) = c.crons[n].secrets
  <1>0. objs \subseteq ObjectSet /\ DOMAIN c.services \cap DOMAIN c.crons = {}
    BY DEF TypeInv, TypeOK, ClusterTypeOK, NamesApart
  <1>1. ASSUME NEW n, NEW o \in SecretOf(n)
        PROVE  \/ n \in DOMAIN c.services /\ o.keys = KeysOf(c, n)
               \/ n \in DOMAIN c.crons /\ o.keys = c.crons[n].secrets
    <2>1. o \in objs /\ o.kind = "Secret" /\ o.name = <<"app-secrets", n>>
      BY DEF SecretOf, Get
    <2>2. o.name[1] = "app-secrets"
      BY <2>1
    <2>3. o.owner \in {"services", "crons"}
      BY <2>1, <2>2, SoundFacts DEF Shaped, AppRoles
    <2>4. Asks(c, Erased(o))
      BY <2>1, <2>3, BothWays
    <2>5. /\ Erased(o).kind = "Secret" /\ Erased(o).name = <<"app-secrets", n>>
          /\ Erased(o).keys = o.keys
      BY <1>0, <2>1, ErasedFields
    <2>6. PullSecret.name[1] = "registry-auth"
      BY DEF PullSecret, Object
    <2>7. Erased(o) # PullSecret
      BY <2>5, <2>6
    <2>. QED
      BY <2>4, <2>5, <2>7, WantedByKind
  <1>2. ASSUME NEW n, NEW keys, Asks(c, AppSecret(n, keys))
        PROVE  \E o \in SecretOf(n) : o.keys = keys
    <2>1. /\ AppSecret(n, keys).kind = "Secret" /\ AppSecret(n, keys).keys = keys
          /\ AppSecret(n, keys).name = <<"app-secrets", n>>
      BY AppSecretFacts
    <2>. QED
      BY <1>2, <2>1, BothWays DEF SecretOf, Get
  <1>3. \A n : SecretKeys(n) = UNION {o.keys : o \in SecretOf(n)}
    BY DEF SecretKeys, SecretOf
  <1>4. ASSUME NEW n \in DOMAIN c.services
        PROVE  SecretKeys(n) = KeysOf(c, n)
    <2>1. \A o \in SecretOf(n) : o.keys = KeysOf(c, n)
      BY <1>0, <1>1
    <2>2. KeysOf(c, n) # {} => \E o \in SecretOf(n) : o.keys = KeysOf(c, n)
      BY <1>2 DEF Asks
    <2>. QED
      BY <1>3, <2>1, <2>2
  <1>5. ASSUME NEW n \in DOMAIN c.crons
        PROVE  SecretKeys(n) = c.crons[n].secrets
    <2>1. \A o \in SecretOf(n) : o.keys = c.crons[n].secrets
      BY <1>0, <1>1
    <2>2. c.crons[n].secrets # {} => \E o \in SecretOf(n) : o.keys = c.crons[n].secrets
      BY <1>2 DEF Asks
    <2>. QED
      BY <1>3, <2>1, <2>2
  <1>. QED
    BY <1>4, <1>5

LEMMA PullSecretLive ==
    ASSUME TypeInv, Shaped, NEW c, LiveAs(c)
    PROVE  {n[2] : n \in ListOwned("registries", "Secret")} = {n \in {NoVal} : c.registry}
  <1>0. objs \subseteq ObjectSet
    BY DEF TypeInv, TypeOK, ClusterTypeOK
  <1>1. /\ PullSecret.owner = "registries" /\ PullSecret.kind = "Secret"
        /\ PullSecret.name = <<"registry-auth", NoVal>>
    BY DEF PullSecret, Object
  <1>2. \A n : n \in {m[2] : m \in ListOwned("registries", "Secret")} <=>
           \E o \in objs : o.owner = "registries" /\ o.kind = "Secret" /\ o.name[2] = n
    BY DEF ListOwned
  <1>3. ASSUME NEW o \in objs, o.owner = "registries"
        PROVE  c.registry /\ o.name[2] = NoVal
    <2>1. o = PullSecret
      BY <1>3, SoundFacts DEF Shaped
    <2>2. Asks(c, Erased(o))
      BY <1>3, BothWays
    <2>3. Erased(o).kind = "Secret" /\ Erased(o).name = <<"registry-auth", NoVal>>
      BY <1>0, <1>1, <2>1, ErasedFields
    <2>4. \A n : <<"app-secrets", n>> # <<"registry-auth", NoVal>>
      OBVIOUS
    <2>. QED
      BY <1>1, <2>1, <2>2, <2>3, <2>4, WantedByKind
  <1>4. ASSUME c.registry
        PROVE  \E o \in objs : o.owner = "registries" /\ o.kind = "Secret" /\ o.name[2] = NoVal
    <2>1. Asks(c, PullSecret)
      BY <1>4 DEF Asks
    <2>2. PICK o \in objs : /\ PullSecret.kind = o.kind /\ PullSecret.name = o.name
                            /\ PullSecret.owner = o.owner
      BY <2>1, BothWays
    <2>. QED
      BY <1>1, <2>2
  <1>. QED
    BY <1>2, <1>3, <1>4

----------------------------------------------------------------------------
(***************************************************************************)
(* Each planner has nothing to ask.                                        *)
(***************************************************************************)
LEMMA NoDiff ==
    ASSUME NEW res, NEW now
    PROVE  Diff(res, now, now) = {}
  BY DEF Diff

\* A workload whose image reference is the live one is at most rebuilt.
LEMMA ImagesQuiet ==
    ASSUME NEW res, NEW n, NEW desired, NEW live, \A i \in live : i.image = desired.image
    PROVE  \A e \in PlanImage(res, n, desired, live) : e.reason = "image-tag"
  <1>1. ImageRebuilt(res, n).reason = "image-tag"
    BY DEF ImageRebuilt, Entry
  <1>. QED
    BY <1>1 DEF PlanImage

LEMMA WorkloadsQuiet ==
    ASSUME NamesApart, TypeInv, Shaped, ConvergedApps, NEW h, NEW unread
    PROVE  \A e \in PlanServices(h, unread) \cup PlanCrons(unread) : e.reason = "image-tag"
  <1>0. LiveAs(cfg) /\ DOMAIN cfg.services \cap DOMAIN cfg.crons = {}
    BY ConvergedIsLive DEF NamesApart, TypeInv, TypeOK, ClusterTypeOK
  <1>1. \A by, n, keys : SecretKeys(n) = keys => KeyChanges(by, n, keys, unread) = {}
    BY NoDiff DEF SecretKeyDiff, KeyChanges
  <1>2. ASSUME NEW n \in DOMAIN cfg.services, NEW e \in ServiceChanges(n, h, unread)
        PROVE  e.reason = "image-tag"
    <2>1. KeyChanges("service keys", n, cfg.services[n].secrets \cup cfg.services[n].dbs, unread) = {}
      BY <1>0, <1>1, LiveKeys DEF KeysOf
    <2>2. ResolveImage(n, h).image = cfg.services[n].image
      BY DEF ResolveImage
    <2>3. \A i \in LiveImage(n, unread) : i.image = ResolveImage(n, h).image
      BY <1>0, <2>2, LiveWorkloads
    <2>4. e \in PlanImage("workload", n, ResolveImage(n, h), LiveImage(n, unread))
      BY <2>1 DEF ServiceChanges
    <2>. QED
      BY <2>3, <2>4, ImagesQuiet
  <1>3. ASSUME NEW n \in DOMAIN cfg.crons, NEW e \in CronChanges(n, unread)
        PROVE  e.reason = "image-tag"
    <2>1. KeyChanges("cron keys", n, cfg.crons[n].secrets, unread) = {}
      BY <1>0, <1>1, LiveKeys
    <2>2. CronImage(n).image = cfg.crons[n].image
      BY DEF CronImage
    <2>3. \A i \in LiveCronImage(n, unread) : i.image = CronImage(n).image
      BY <1>0, <2>2, LiveWorkloads
    <2>4. LiveSchedules(n, unread) \ {cfg.crons[n].schedule} = {}
      BY <1>0, LiveWorkloads
    <2>5. e \in PlanImage("cronjob", n, CronImage(n), LiveCronImage(n, unread))
      BY <2>1, <2>4 DEF CronChanges
    <2>. QED
      BY <2>3, <2>5, ImagesQuiet
  <1>4. Diff("workload", DOMAIN cfg.services, LiveServices) = {}
    BY <1>0, LiveWorkloads, NoDiff
  <1>5. Diff("cronjob", DOMAIN cfg.crons, LiveCrons) = {}
    BY <1>0, LiveWorkloads, NoDiff
  <1>6. \A e \in PlanServices(h, unread) : \E n \in DOMAIN cfg.services : e \in ServiceChanges(n, h, unread)
    BY <1>4 DEF PlanServices
  <1>7. \A e \in PlanCrons(unread) : \E n \in DOMAIN cfg.crons : e \in CronChanges(n, unread)
    BY <1>5 DEF PlanCrons
  <1>. QED
    BY <1>2, <1>3, <1>6, <1>7

\* What is asked at every deploy: buckets with names of their own.
AsksAgain == {Entry("add", "bucket", b) : b \in cfg.storage \cap Custom}

LEMMA OthersQuiet ==
    ASSUME TypeInv, Shaped, VitalOwned, Tidy
    PROVE  /\ PlanInfra = {} /\ PlanDatabases = {} /\ PlanRegistries = {}
           /\ PlanStorage = AsksAgain
           /\ WebWanted => PlanRouteDomains({}) = {} /\ PlanIngress({}) = {}
  <1>1. /\ ConvergedApps /\ servers = cfg.servers /\ webOpen = WebWanted
        /\ IngressConverged
    BY DEF Tidy, AppsConverged, ConvergedApps
  <1>2. PlanInfra = {}
    <2>1. Diff("server", cfg.servers, servers) = {}
      BY <1>1, NoDiff
    <2>2. {p \in {NoVal} : WebWanted} = {p \in {NoVal} : webOpen}
      BY <1>1
    <2>. QED
      BY <2>1, <2>2, NoDiff DEF PlanInfra
  <1>3. PlanStorage = AsksAgain
    <2>1. DesiredBuckets \ (buckets \ Custom) = cfg.storage \cap Custom
      <3>1. BackupBuckets \cap Custom = {}
        BY BucketsAssumption, ConfigDomains DEF BackupBuckets, TypeInv, TypeOK, ClusterTypeOK
      <3>. QED
        BY <3>1 DEF Tidy, AppsConverged, BucketsEnsured, DesiredBuckets
    <2>. QED
      BY <2>1 DEF PlanStorage, AsksAgain
  <1>4. PlanDatabases = {}
    <2>1. LiveDatabases = DOMAIN cfg.databases
      BY LiveHasCredentials DEF Tidy
    <2>. QED
      BY <2>1, NoDiff DEF PlanDatabases
  <1>5. PlanRegistries = {}
    BY <1>1, ConvergedIsLive, PullSecretLive, NoDiff DEF PlanRegistries
  <1>6. ASSUME WebWanted
        PROVE  PlanRouteDomains({}) = {} /\ PlanIngress({}) = {}
    <2>1. DOMAIN routes = DOMAIN cfg.domains /\ DOMAIN cfg.domains \subseteq records
      BY <1>1, <1>6 DEF IngressConverged
    <2>0. \A by : ServedDomains(by, {}) = DOMAIN routes
      BY DEF ServedDomains
    <2>2. records \cap (DOMAIN cfg.domains \cup ServedDomains("dns", {})) = DOMAIN cfg.domains
      BY <2>0, <2>1
    <2>3. PlanRouteDomains({}) = {}
      BY <2>2, NoDiff DEF PlanRouteDomains
    <2>4. Diff("caddy-route", DOMAIN cfg.domains, ServedDomains("caddy", {})) = {}
      BY <2>0, <2>1, NoDiff
    <2>5. ListOwned("caddy", "Deployment") # {}
      BY <1>6 DEF Tidy
    <2>6. {y \in {NoVal} : ListOwned("caddy", "Deployment") = {}} = {}
      BY <2>5
    <2>. QED
      BY <2>3, <2>4, <2>6 DEF PlanIngress
  <1>. QED
    BY <1>2, <1>3, <1>4, <1>5, <1>6

LEMMA TidyIsQuiet ==
    ASSUME NamesApart, TypeInv, Shaped, VitalOwned, Tidy, NEW h
    PROVE  Promptable(ComputePlan(h, {})) = AsksAgain
  <1>1. ConvergedApps
    BY DEF Tidy, AppsConverged, ConvergedApps
  <1>2. ComputePlan(h, {}) = AsksAgain \cup PlanServices(h, {}) \cup PlanCrons({})
    BY OthersQuiet DEF ComputePlan
  <1>3. \A e \in AsksAgain : e.reason = "none"
    BY DEF AsksAgain, Entry
  <1>. QED
    BY <1>1, <1>2, <1>3, WorkloadsQuiet DEF Promptable

\* What follows a run for SecondDeployAsksNothing.
TidyInv ==
    /\ AppsInv /\ VitalOwned /\ Written /\ Sourced /\ Hosted /\ Bucketed
    /\ KnownAt => Known
    /\ CaddyUp /\ AppsConvergedWhenDone /\ TidyWhenDone

LEMMA InitTidy == Init => TidyInv
  <1>1. Init => VitalOwned /\ Written /\ Sourced /\ Hosted
    BY DEF Init, ClusterInit, VitalOwned, Vital, Written, Sourced, Hosted
  <1>2. Init => Bucketed /\ ~ KnownAt /\ CaddyUp
    BY DEF Init, Bucketed, KnownAt, CaddyUp, FromServices, PastServices, PastCrons
  <1>. QED
    BY <1>1, <1>2, InitApps DEF Init, AppsConvergedWhenDone, TidyWhenDone, TidyInv

LEMMA StepTidyInv ==
    ASSUME AppsSettle, MovesKeepBackups, TidyInv, [Next]_vars
    PROVE  TidyInv'
  <1>0. /\ TypeInv /\ Web /\ Shaped /\ AppsInv /\ VitalOwned /\ Written /\ Sourced /\ Hosted
        /\ Bucketed /\ (KnownAt => Known) /\ CaddyUp /\ AppsConvergedWhenDone /\ TidyWhenDone
        /\ Thorough
    BY DEF AppsInv, TidyInv, AppsSettle
  <1>1. VitalOwned'
    BY <1>0, VitalWriters, VitalDecides, DatabaseApplied, DatabaseSwept
  <1>2. Written' /\ Sourced'
    BY <1>0, StepWritten, StepSourced
  <1>3. Hosted' /\ Bucketed'
    BY <1>0, StepHosted, StepBucketed
  <1>4. KnownAt' => Known'
    BY <1>0, StepKnown
  <1>5. AppsInv' /\ AppsConvergedWhenDone' /\ CaddyUp'
    BY <1>0, StepApps, StepConverges, StepCaddyUp
  <1>6. TidyWhenDone'
    BY <1>0, StepTidy
  <1>. QED
    BY <1>1, <1>2, <1>3, <1>4, <1>5, <1>6 DEF TidyInv

(***************************************************************************)
(* After a deploy that ran to its end the next plan, when its reads are    *)
(* answered, asks for nothing but the buckets with names of their own:     *)
(* what the planners read back (owner labels, credentials, Secret keys,    *)
(* image references, routes) is all that the steps write.  Rebuilt images  *)
(* only carry a new hash.  planStorage looks for live buckets by the       *)
(* prefix of generated names (plan.go:694-699), so that it adds a bucket   *)
(* of storage: with a name: in every plan.  Beyond what AppsConverge       *)
(* needs, a database that waits for its migration must not turn its        *)
(* backups on meanwhile: it is passed over, and its bucket stays missing.  *)
(***************************************************************************)
THEOREM SecondDeployAsksNothing ==
    ASSUME NamesApart, KindsStable, Thorough, Readable, MovesKeepBackups
    PROVE  Spec => []NothingLeftToAsk
  <1>1. AppsSettle
    BY DEF AppsSettle
  <1>2. TidyInv /\ [Next]_vars => TidyInv'
    BY <1>1, StepTidyInv
  <1>3. TidyInv => NothingLeftToAsk
    BY TidyIsQuiet DEF TidyInv, AppsInv, TidyWhenDone, NothingLeftToAsk, AsksAgain
  <1>. QED
    BY <1>2, <1>3, InitTidy, PTL DEF Spec


----------------------------------------------------------------------------
(***************************************************************************)
(* Where no run stops, databases converge too, and "No changes." is said   *)
(* of a converged cluster only.  A stopped run may leave a database of     *)
(* which the planner sees nothing amiss, or workloads without the keys     *)
(* that have been pruned under them.                                       *)
(***************************************************************************)

\* No run stops between two steps.
Unstopped == "abort" \notin Disturbances

\* Backups of a database are neither turned on nor off: the plan does not
\* look at them.
BackupsStable ==
    \A b, c \in Configs : \A d \in DOMAIN b.databases \cap DOMAIN c.databases :
        b.databases[d].backup = c.databases[d].backup

----------------------------------------------------------------------------
(***************************************************************************)
(* The objects of a database.                                              *)
(***************************************************************************)
DbRoles(backup) ==
    {<<"Secret", "db-credentials">>, <<"Service", "db">>, <<"PVC", "db-data">>,
     <<"StatefulSet", "db">>}
        \cup {r \in {<<"Secret", "db-backup-creds">>, <<"CronJob", "db-backup">>} : backup}

DbNames == {"db", "db-data", "db-credentials", "db-backup-creds", "db-backup"}

DbKinds == {"Secret", "Service", "PVC", "StatefulSet", "CronJob"}

Part(r, d) == Object(r[1], r[2], d, "databases")

\* An object of a database is one that some configuration asks for.
PartOf(o, c) ==
    /\ o.name[2] \in DOMAIN c.databases
    /\ \E r \in DbRoles(c.databases[o.name[2]].backup) : Erased(o) = Part(r, o.name[2])

DbObjects == {o \in objs : o.owner = "databases"}

DbShaped == \A o \in DbObjects : \E c \in Configs : PartOf(o, c)

LEMMA RoleFacts ==
    ASSUME NEW backup, NEW r \in DbRoles(backup), NEW d
    PROVE  /\ r = <<r[1], r[2]>> /\ r[2] \in DbNames
           /\ r[1] \in DbKinds
           /\ Part(r, d).kind = r[1] /\ Part(r, d).name = <<r[2], d>>
           /\ Part(r, d).owner = "databases"
  <1>1. /\ r = <<r[1], r[2]>> /\ r[2] \in DbNames
        /\ r[1] \in DbKinds
    BY DEF DbRoles, DbNames, DbKinds
  <1>2. /\ Part(r, d).kind = r[1] /\ Part(r, d).name = <<r[2], d>>
        /\ Part(r, d).owner = "databases"
    BY DEF Part, Object
  <1>. QED
    BY <1>1, <1>2

\* The list of ReconcileOneDatabase is just these.
LEMMA DatabaseParts ==
    ASSUME NEW d
    PROVE  /\ \A i \in 1..ObjectCount(d) :
                 \E r \in DbRoles(cfg.databases[d].backup) : Erased(DatabaseObjects(d)[i]) = Part(r, d)
           /\ \A r \in DbRoles(cfg.databases[d].backup) :
                 \E i \in 1..ObjectCount(d) : Erased(DatabaseObjects(d)[i]) = Part(r, d)
           /\ \A i \in 1..ObjectCount(d) :
                 /\ Erased(DatabaseObjects(d)[i]).kind = DatabaseObjects(d)[i].kind
                 /\ Erased(DatabaseObjects(d)[i]).name = DatabaseObjects(d)[i].name
  <1>. DEFINE of(kind, role) == Object(kind, role, d, "databases")
              pinned == [of("StatefulSet", "db") EXCEPT !.node = cfg.databases[d].server]
              Is(o, kind, role) == /\ Erased(o) = of(kind, role)
                                   /\ Erased(o).kind = o.kind /\ Erased(o).name = o.name
  <1>. DEFINE full(kind, name, owner, image, tag, spec, keys, node, pull) ==
                [kind |-> kind, name |-> name, owner |-> owner, image |-> image, tag |-> tag,
                 spec |-> spec, keys |-> keys, node |-> node, pull |-> pull]
              no == FALSE
              As(kind, role, node) ==
                full(kind, <<role, d>>, "databases", NoVal, NoVal, NoVal, {}, node, no)
  <1>0. \A k, n, w, i, t, s, ks, p, l, new :
           LET o == full(k, n, w, i, t, s, ks, p, l)
           IN  /\ [o EXCEPT !.tag = new] = full(k, n, w, i, new, s, ks, p, l)
               /\ [o EXCEPT !.node = new] = full(k, n, w, i, t, s, ks, new, l)
               /\ o.kind = k /\ o.name = n
    OBVIOUS
  <1>b. \A kind, role : of(kind, role) = As(kind, role, NoVal)
    BY DEF Object
  <1>. HIDE DEF full, no
  <1>a. ASSUME NEW kind, NEW role, NEW node, NEW new
        PROVE  /\ [As(kind, role, node) EXCEPT !.tag = NoVal] = As(kind, role, node)
               /\ [As(kind, role, node) EXCEPT !.node = new] = As(kind, role, new)
               /\ As(kind, role, node).kind = kind /\ As(kind, role, node).name = <<role, d>>
    <2>1. [As(kind, role, node) EXCEPT !.tag = NoVal] = As(kind, role, node)
      BY <1>0
    <2>2. [As(kind, role, node) EXCEPT !.node = new] = As(kind, role, new)
      BY <1>0
    <2>3. As(kind, role, node).kind = kind
      BY <1>0
    <2>4. As(kind, role, node).name = <<role, d>>
      BY <1>0
    <2>. QED
      BY <2>1, <2>2, <2>3, <2>4
  <1>. HIDE DEF As
  <1>c. ASSUME NEW kind, NEW role, NEW node
        PROVE  Erased(As(kind, role, node)) = As(kind, role, NoVal)
    <2>. DEFINE o == As(kind, role, node)
                q == [o EXCEPT !.tag = NoVal]
    <2>1. Erased(o) = [q EXCEPT !.node = NoVal]
      BY Zenon DEF Erased
    <2>2. q = o
      BY <1>a
    <2>. HIDE DEF q
    <2>. QED
      BY <1>a, <2>1, <2>2
  <1>1. ASSUME NEW kind, NEW role
        PROVE  Is(of(kind, role), kind, role)
    BY <1>b, <1>c
  <1>2. Is(pinned, "StatefulSet", "db")
    <2>. DEFINE o == of("StatefulSet", "db")
                server == cfg.databases[d].server
    <2>1. pinned = [o EXCEPT !.node = server]
      BY Zenon
    <2>. HIDE DEF server, pinned
    <2>2. o = As("StatefulSet", "db", NoVal)
      BY <1>b
    <2>. HIDE DEF o
    <2>3. pinned = As("StatefulSet", "db", server)
      BY <1>a, <2>1, <2>2
    <2>4. Erased(pinned) = As("StatefulSet", "db", NoVal)
      BY <1>c, <2>3
    <2>5. Erased(pinned).kind = pinned.kind /\ Erased(pinned).name = pinned.name
      BY <1>a, <2>3, <2>4
    <2>. QED
      BY <2>2, <2>4, <2>5 DEF o
  <1>3. DatabaseObjects(d) =
          IF cfg.databases[d].backup
          THEN <<of("Secret", "db-backup-creds"), of("Secret", "db-credentials"),
                 of("Service", "db"), of("PVC", "db-data"), pinned,
                 of("CronJob", "db-backup")>>
          ELSE <<of("Secret", "db-credentials"),
                 of("Service", "db"), of("PVC", "db-data"), pinned>>
    BY DEF DatabaseObjects
  <1>4. \A r : Part(r, d) = of(r[1], r[2])
    BY DEF Part
  <1>. HIDE DEF of, pinned, Is
  <1>5. CASE cfg.databases[d].backup
    <2>1. /\ Is(DatabaseObjects(d)[1], "Secret", "db-backup-creds")
          /\ Is(DatabaseObjects(d)[2], "Secret", "db-credentials")
          /\ Is(DatabaseObjects(d)[3], "Service", "db")
          /\ Is(DatabaseObjects(d)[4], "PVC", "db-data")
          /\ Is(DatabaseObjects(d)[5], "StatefulSet", "db")
          /\ Is(DatabaseObjects(d)[6], "CronJob", "db-backup")
      BY <1>1, <1>2, <1>3, <1>5
    <2>2. 1..ObjectCount(d) = {1, 2, 3, 4, 5, 6}
      BY <1>5 DEF ObjectCount
    <2>3. DbRoles(cfg.databases[d].backup) =
             {<<"Secret", "db-credentials">>, <<"Service", "db">>, <<"PVC", "db-data">>,
              <<"StatefulSet", "db">>, <<"Secret", "db-backup-creds">>, <<"CronJob", "db-backup">>}
      BY <1>5 DEF DbRoles
    <2>4. /\ Part(<<"Secret", "db-credentials">>, d) = of("Secret", "db-credentials")
          /\ Part(<<"Service", "db">>, d) = of("Service", "db")
          /\ Part(<<"PVC", "db-data">>, d) = of("PVC", "db-data")
          /\ Part(<<"StatefulSet", "db">>, d) = of("StatefulSet", "db")
          /\ Part(<<"Secret", "db-backup-creds">>, d) = of("Secret", "db-backup-creds")
          /\ Part(<<"CronJob", "db-backup">>, d) = of("CronJob", "db-backup")
      BY <1>4
    <2>. QED
      BY <2>1, <2>2, <2>3, <2>4 DEF Is
  <1>6. CASE ~ cfg.databases[d].backup
    <2>1. /\ Is(DatabaseObjects(d)[1], "Secret", "db-credentials")
          /\ Is(DatabaseObjects(d)[2], "Service", "db")
          /\ Is(DatabaseObjects(d)[3], "PVC", "db-data")
          /\ Is(DatabaseObjects(d)[4], "StatefulSet", "db")
      BY <1>1, <1>2, <1>3, <1>6
    <2>2. 1..ObjectCount(d) = {1, 2, 3, 4}
      BY <1>6 DEF ObjectCount
    <2>3. DbRoles(cfg.databases[d].backup) =
             {<<"Secret", "db-credentials">>, <<"Service", "db">>, <<"PVC", "db-data">>,
              <<"StatefulSet", "db">>}
      BY <1>6 DEF DbRoles
    <2>4. /\ Part(<<"Secret", "db-credentials">>, d) = of("Secret", "db-credentials")
          /\ Part(<<"Service", "db">>, d) = of("Service", "db")
          /\ Part(<<"PVC", "db-data">>, d) = of("PVC", "db-data")
          /\ Part(<<"StatefulSet", "db">>, d) = of("StatefulSet", "db")
      BY <1>4
    <2>. QED
      BY <2>1, <2>2, <2>3, <2>4 DEF Is
  <1>. QED
    BY <1>5, <1>6

\* What DbShaped says of one object.
LEMMA PartFacts ==
    ASSUME TypeInv, DbShaped, NEW o \in DbObjects
    PROVE  /\ o.name[1] \in DbNames /\ o.kind \in DbKinds /\ o.name = <<o.name[1], o.name[2]>>
           /\ \E c \in Configs :
                 /\ o.name[2] \in DOMAIN c.databases
                 /\ <<o.kind, o.name[1]>> \in DbRoles(c.databases[o.name[2]].backup)
                 /\ Erased(o) = Part(<<o.kind, o.name[1]>>, o.name[2])
  <1>0. o \in ObjectSet
    BY DEF TypeInv, TypeOK, ClusterTypeOK, DbObjects
  <1>1. PICK c \in Configs : PartOf(o, c)
    BY DEF DbShaped
  <1>2. PICK r \in DbRoles(c.databases[o.name[2]].backup) : Erased(o) = Part(r, o.name[2])
    BY <1>1 DEF PartOf
  <1>3. o.kind = r[1] /\ o.name = <<r[2], o.name[2]>>
    BY <1>0, <1>2, ErasedFields, RoleFacts
  <1>4. o.name[1] = r[2]
    BY <1>3
  <1>5. r = <<o.kind, o.name[1]>> /\ r[1] \in DbKinds /\ r[2] \in DbNames
    BY <1>3, <1>4, RoleFacts
  <1>. QED
    BY <1>1, <1>2, <1>3, <1>4, <1>5 DEF PartOf

----------------------------------------------------------------------------
(***************************************************************************)
(* Who writes them.                                                        *)
(***************************************************************************)
LEMMA DbWriters ==
    ASSUME TypeInv, Shaped, DbShaped, [Next]_vars
    PROVE  \/ UNCHANGED DbObjects
           \/ ApplyDatabase
           \/ pc = "dbsweep" /\ SweepOrphan("databases", DatabaseSweeps)
  <1>1. CASE ~ DatabasesStep /\ ~ EnsureCaddy
    <2>1. ASSUME NEW o, Touched(o), o.owner = "databases", Sound(o)
          PROVE  FALSE
      <3>1. o.name[1] \notin AppRoles \cup {"registry-auth"}
        BY <2>1, SoundFacts DEF PullSecret, Object
      <3>. QED
        BY <1>1, <2>1, <3>1, Touches DEF AppRoles, Left, Orphans
    <2>2. \A o \in objs \cup objs' : Sound(o)
      BY StepShaped DEF Shaped, Sound
    <2>. QED
      BY <2>1, <2>2 DEF DbObjects, Touched
  <1>2. CASE EnsureCaddy
    <2>. DEFINE q == Object("Deployment", "caddy", NoVal, "caddy")
    <2>1. q.name[1] = "caddy" /\ q.owner = "caddy"
      BY DEF Object
    <2>2. objs' = Applied(q)
      BY <1>2 DEF EnsureCaddy
    <2>. HIDE DEF q
    <2>3. \A o \in DbObjects : o.name[1] # "caddy"
      BY PartFacts DEF DbNames
    <2>. QED
      BY <2>1, <2>2, <2>3 DEF DbObjects, Applied, SameObject
  <1>3. CASE DatabasesStep
    <2>1. CASE SweepDatabases
      BY <2>1 DEF SweepDatabases, SweepNext, SweepDone, SweptKind, DbObjects, clusterVars
    <2>. QED
      BY <1>3, <2>1 DEF DatabasesStep, EnsureBucket, SkipDrifted, StartDatabase, DatabasesApplied, DbObjects, clusterVars
  <1>. QED
    BY <1>1, <1>2, <1>3

\* The next object of a database takes the place of the one of its name.
LEMMA DatabaseGains ==
    ASSUME TypeInv, VitalOwned, ApplyDatabase
    PROVE  LET o == DatabaseObjects(item)[step]
           IN  /\ step \in 1..ObjectCount(item)
               /\ o.owner = "databases" /\ o.name[2] = item
               /\ \A q \in DbObjects' : q \in DbObjects \/ q = o
               /\ \A p \in DbObjects : \E q \in DbObjects' : SameObject(p, q)
               /\ \E q \in DbObjects' : SameObject(o, q)
               /\ \A p \in DbObjects : p.name[2] # item => p \in DbObjects'
  <1>. DEFINE o == DatabaseObjects(item)[step]
  <1>0. step \in 1..ObjectCount(item) /\ objs' = Applied(o)
    BY DEF TypeInv, InRange, ApplyDatabase
  <1>1. /\ o.owner = "databases" /\ o.name[2] = item
        /\ step = CredentialsAt(item) => o.kind = "Secret" /\ o.name = <<"db-credentials", item>>
        /\ step = CredentialsAt(item) + 2 => o.kind = "PVC" /\ o.name = <<"db-data", item>>
        /\ step \notin {CredentialsAt(item), CredentialsAt(item) + 2} =>
              o.name[1] \notin {"db-data", "db-credentials"}
    BY <1>0, DatabaseWrites
  <1>k. o.kind = "PVC" => o.name[1] = "db-data"
    <2>1. PICK r \in DbRoles(cfg.databases[item].backup) : Erased(o) = Part(r, item)
      BY <1>0, DatabaseParts
    <2>2. o.kind = r[1] /\ o.name = <<r[2], item>>
      BY <1>0, <2>1, DatabaseParts, RoleFacts
    <2>. HIDE DEF o
    <2>3. r[1] = "PVC" => r[2] = "db-data"
      BY DEF DbRoles
    <2>. QED
      BY <2>2, <2>3
  <1>. HIDE DEF o
  <1>2. CASE objs' = {p \in objs : ~ SameObject(o, p)} \cup {o}
    <2>1. DbObjects' = {p \in DbObjects : ~ SameObject(o, p)} \cup {o}
      BY <1>1, <1>2 DEF DbObjects
    <2>2. \A p \in DbObjects : SameObject(o, p) => SameObject(p, o) /\ p.name[2] = item
      BY <1>1 DEF SameObject
    <2>3. \A p : SameObject(p, p)
      BY DEF SameObject
    <2>. QED
      BY <1>0, <1>1, <2>1, <2>2, <2>3 DEF o
  <1>3. CASE o.kind = "PVC" /\ UNCHANGED objs /\ \E p \in objs : SameObject(o, p)
    <2>1. PICK p \in objs : SameObject(o, p)
      BY <1>3
    <2>2. p \in DbObjects
      BY <1>3, <1>k, <2>1 DEF SameObject, VitalOwned, Vital, DbObjects
    <2>3. DbObjects' = DbObjects
      BY <1>3 DEF DbObjects
    <2>4. \A q : SameObject(q, q)
      BY DEF SameObject
    <2>. QED
      BY <1>0, <1>1, <2>1, <2>2, <2>3, <2>4 DEF o
  <1>. QED
    BY <1>0, <1>2, <1>3 DEF Applied

LEMMA StepDbShaped ==
    ASSUME TypeInv, Shaped, VitalOwned, DbShaped, [Next]_vars
    PROVE  DbShaped'
  <1>1. CASE DbObjects' \subseteq DbObjects
    BY <1>1 DEF DbShaped, PartOf, Erased
  <1>2. CASE ApplyDatabase
    <2>. DEFINE o == DatabaseObjects(item)[step]
    <2>1. /\ step \in 1..ObjectCount(item) /\ o.name[2] = item
          /\ \A q \in DbObjects' : q \in DbObjects \/ q = o
      BY <1>2, DatabaseGains
    <2>2. \E r \in DbRoles(cfg.databases[item].backup) : Erased(o) = Part(r, item)
      BY <2>1, DatabaseParts
    <2>3. cfg \in Configs /\ item \in DOMAIN cfg.databases
      BY <1>2 DEF TypeInv, TypeOK, ClusterTypeOK, InRange, ApplyDatabase
    <2>. HIDE DEF o
    <2>4. PartOf(o, cfg)
      BY <2>1, <2>2, <2>3 DEF PartOf
    <2>5. \A q, c : PartOf(q, c)' <=> PartOf(q, c)
      BY DEF PartOf
    <2>. QED
      BY <2>1, <2>3, <2>4, <2>5 DEF DbShaped
  <1>3. CASE SweepOrphan("databases", DatabaseSweeps)
    BY <1>1, <1>3 DEF SweepOrphan, DbObjects
  <1>. QED
    BY <1>1, <1>2, <1>3, DbWriters

----------------------------------------------------------------------------
(***************************************************************************)
(* A database has all its objects or none, but for the one being written   *)
(* and those being swept.                                                  *)
(***************************************************************************)
There(r, d) == \E o \in DbObjects : o.kind = r[1] /\ o.name = <<r[2], d>>

Whole(d) ==
    \A c \in Configs : d \in DOMAIN c.databases =>
        \A r \in DbRoles(c.databases[d].backup) : There(r, d)

Intact(d) == \A o \in DbObjects : o.name[2] = d => Whole(d)

\* The objects of the current database up to place i are there.
WrittenTo(i) ==
    \A j \in 1..i : \E o \in DbObjects : SameObject(DatabaseObjects(item)[j], o)

DatabasesWhole ==
    /\ pc \notin {"databases", "dbsweep"} => \A d : Intact(d)
    /\ pc = "databases" =>
          /\ \A d : (item # NoVal /\ d = item) \/ Intact(d)
          /\ \A d \in DOMAIN cfg.databases \ todo : Whole(d)
          /\ item # NoVal => WrittenTo(step - 1)
    /\ pc = "dbsweep" =>
          /\ \A d \in DOMAIN cfg.databases : Whole(d)
          /\ \A i \in 1..(step - 1) : \A o \in DbObjects :
                o.kind = DatabaseSweeps[i].kind => o.name[2] \in DOMAIN cfg.databases

LEMMA SameIntact ==
    ASSUME UNCHANGED DbObjects
    PROVE  \A d : (Whole(d)' <=> Whole(d)) /\ (Intact(d)' <=> Intact(d))
  <1>1. \A r, d : There(r, d)' <=> There(r, d)
    BY DEF There
  <1>2. \A d : Whole(d)' <=> Whole(d)
    BY <1>1 DEF Whole
  <1>. QED
    BY <1>2 DEF Intact

\* What a database's own write leaves.
LEMMA ApplyIntact ==
    ASSUME TypeInv, VitalOwned, ApplyDatabase
    PROVE  /\ \A d : Whole(d) => Whole(d)'
           /\ \A d : d # item /\ Intact(d) => Intact(d)'
           /\ WrittenTo(step - 1) =>
                 \A j \in 1..step : \E o \in DbObjects' : SameObject(DatabaseObjects(item)[j], o)
  <1>. DEFINE o == DatabaseObjects(item)[step]
  <1>0. /\ step \in 1..ObjectCount(item)
        /\ o.name[2] = item
        /\ \A q \in DbObjects' : q \in DbObjects \/ q = o
        /\ \A p \in DbObjects : \E q \in DbObjects' : SameObject(p, q)
        /\ \E q \in DbObjects' : SameObject(o, q)
    BY DatabaseGains
  <1>1. \A r, d : There(r, d) => There(r, d)'
    BY <1>0 DEF There, SameObject
  <1>2. \A d : Whole(d) => Whole(d)'
    BY <1>1 DEF Whole
  <1>3. \A d : d # item /\ Intact(d) => Intact(d)'
    <2>. HIDE DEF o
    <2>. QED
      BY <1>0, <1>2 DEF Intact
  <1>4. ASSUME WrittenTo(step - 1), NEW j \in 1..step
        PROVE  \E q \in DbObjects' : SameObject(DatabaseObjects(item)[j], q)
    <2>1. CASE j = step
      BY <1>0, <2>1
    <2>2. CASE j # step
      <3>1. step \in Int
        BY DEF TypeInv, TypeOK, RunTypeOK
      <3>2. j \in 1..(step - 1)
        BY <2>2, <3>1
      <3>. QED
        BY <1>0, <1>4, <3>2 DEF WrittenTo, SameObject
    <2>. QED
      BY <2>1, <2>2
  <1>. QED
    BY <1>2, <1>3, <1>4

----------------------------------------------------------------------------
(***************************************************************************)
(* The sweep.                                                              *)
(***************************************************************************)
LEMMA SweepLists ==
    ASSUME NEW i \in 1..5
    PROVE  /\ \A d \in DOMAIN cfg.databases : \A r \in DbRoles(cfg.databases[d].backup) :
                 DatabaseSweeps[i].kind = r[1] => <<r[2], d>> \in DatabaseSweeps[i].desired
           /\ \A n \in DatabaseSweeps[i].desired : n[2] \in DOMAIN cfg.databases
           /\ DbKinds = {DatabaseSweeps[j].kind : j \in 1..5}
  <1>. DEFINE dbs == DOMAIN cfg.databases
              list == DatabaseSweeps
  <1>1. /\ list[1] = Swept("StatefulSet", Named("db", dbs))
        /\ list[2] = Swept("Service", Named("db", dbs))
        /\ list[3] = Swept("PVC", Named("db-data", dbs))
        /\ list[4] = Swept("Secret", Named("db-credentials", dbs)
                                        \cup Named("db-backup-creds", BackupBuckets))
        /\ list[5] = Swept("CronJob", Named("db-backup", BackupBuckets))
    BY DEF DatabaseSweeps
  <1>. HIDE DEF list
  <1>2. \A k, n : Swept(k, n).kind = k /\ Swept(k, n).desired = n
    BY DEF Swept
  <1>3. \A role, bases : /\ \A d \in bases : <<role, d>> \in Named(role, bases)
                         /\ \A n \in Named(role, bases) : n[2] \in bases
    BY DEF Named
  <1>4. BackupBuckets \subseteq dbs
    BY DEF BackupBuckets
  <1>5. i = 1 \/ i = 2 \/ i = 3 \/ i = 4 \/ i = 5
    OBVIOUS
  <1>6. ASSUME NEW d \in dbs, NEW r \in DbRoles(cfg.databases[d].backup), list[i].kind = r[1]
        PROVE  <<r[2], d>> \in list[i].desired
    <2>1. \/ r[1] = "Secret" /\ r[2] = "db-credentials"
          \/ r[1] = "Service" /\ r[2] = "db"
          \/ r[1] = "PVC" /\ r[2] = "db-data"
          \/ r[1] = "StatefulSet" /\ r[2] = "db"
          \/ r[1] = "Secret" /\ r[2] = "db-backup-creds" /\ d \in BackupBuckets
          \/ r[1] = "CronJob" /\ r[2] = "db-backup" /\ d \in BackupBuckets
      BY DEF DbRoles, BackupBuckets
    <2>. QED
      BY <1>1, <1>2, <1>3, <1>5, <1>6, <2>1
  <1>7. ASSUME NEW n \in list[i].desired
        PROVE  n[2] \in dbs
    BY <1>1, <1>2, <1>3, <1>4, <1>5, <1>7
  <1>8. {list[j].kind : j \in 1..5} = DbKinds
    <2>1. 1..5 = {1, 2, 3, 4, 5}
      OBVIOUS
    <2>. QED
      BY <1>1, <1>2, <2>1 DEF DbKinds
  <1>. QED
    BY <1>6, <1>7, <1>8 DEF list

\* It takes the objects of databases that are not declared,
LEMMA SweptIsUndeclared ==
    ASSUME BackupsStable, TypeInv, DbShaped, pc = "dbsweep",
           NEW o \in DbObjects, o \in Left("databases", DatabaseSweeps)
    PROVE  o.name[2] \notin DOMAIN cfg.databases
  <1>. SUFFICES ASSUME o.name[2] \in DOMAIN cfg.databases
                PROVE  FALSE
    OBVIOUS
  <1>1. cfg \in Configs /\ step \in 1..5
    BY DEF TypeInv, TypeOK, ClusterTypeOK, InRange
  <1>2. o.kind = DatabaseSweeps[step].kind /\ o.name \notin DatabaseSweeps[step].desired
    BY DEF Left, Orphans
  <1>3. PICK c \in Configs :
           /\ o.name[2] \in DOMAIN c.databases
           /\ <<o.kind, o.name[1]>> \in DbRoles(c.databases[o.name[2]].backup)
    BY PartFacts
  <1>4. <<o.kind, o.name[1]>> \in DbRoles(cfg.databases[o.name[2]].backup)
    BY <1>1, <1>3 DEF BackupsStable
  <1>5. o.name = <<o.name[1], o.name[2]>>
    BY PartFacts
  <1>. QED
    BY <1>1, <1>2, <1>4, <1>5, SweepLists

\* and of one kind all, before it goes on to the next.
LEMMA KindLeft ==
    ASSUME Thorough, TypeInv, pc = "dbsweep", SweptKind("databases", DatabaseSweeps),
           NEW o \in DbObjects, o.kind = DatabaseSweeps[step].kind
    PROVE  o.name[2] \in DOMAIN cfg.databases
  <1>1. step \in 1..5
    BY DEF TypeInv, InRange
  <1>2. Left("databases", DatabaseSweeps) = {}
    BY DEF SweptKind, Thorough
  <1>3. o.name \in DatabaseSweeps[step].desired
    BY <1>2 DEF Left, Orphans, DbObjects
  <1>. QED
    BY <1>1, <1>3, SweepLists

----------------------------------------------------------------------------
LEMMA AwayFromDatabases ==
    ASSUME Unstopped, [Next]_vars, ~ DatabasesStep, ~ RegistriesStep, ~ UNCHANGED vars
    PROVE  {pc, pc'} \cap {"databases", "dbsweep"} = {}
  <1>. USE DEF Enter, Finish, Take, Continue, Processed, runVars
  <1>1. CASE ServicesStep
    BY <1>1 DEF ServicesStep, StartService, PruneServiceSecret, PruneSecret, PruneKey, PruneDone,
       ApplyWorkload, ApplyKubeService, RolloutReady, ServicesApplied, SweepServices, SweepOrphan,
       SweepNext, SweepDone, SweptKind
  <1>2. CASE CronsStep
    BY <1>2 DEF CronsStep, StartCron, PruneCronSecret, PruneSecret, PruneKey, PruneDone, ApplyCron,
       CronsApplied, SweepCrons, AfterCrons, SweepOrphan, SweepNext, SweepDone, SweptKind
  <1>3. CASE InfraStep \/ IngressStep
    BY <1>3 DEF InfraStep, IngressStep, EnsureServer, DeleteServer, ApplyFirewall, TornDown,
       RouteTo, Unroute, AllRouted, AllUnrouted, EnsureCaddy, ReloadCaddy
  <1>4. CASE Decide \/ Declined \/ (\E c \in Configs : Edit(c)) \/ (\E h \in Hashes : Begin(h))
    BY <1>4 DEF Decide, PlanFails, NoChanges, Proceed, Declined, Edit, Begin
  <1>5. ~ Abort
    BY DEF Abort, Unstopped
  <1>. QED
    BY <1>1, <1>2, <1>3, <1>4, <1>5 DEF Next, Run

LEMMA WholeStays ==
    ASSUME DatabasesWhole, UNCHANGED <<cfg, objs, pc, todo, item, step>>
    PROVE  DatabasesWhole'
  <1>1. UNCHANGED DbObjects
    BY DEF DbObjects
  <1>2. \A i : WrittenTo(i)' <=> WrittenTo(i)
    BY <1>1 DEF WrittenTo, DatabaseObjects
  <1>3. DatabaseSweeps' = DatabaseSweeps
    BY DEF DatabaseSweeps, BackupBuckets
  <1>. QED
    BY <1>1, <1>2, <1>3, SameIntact DEF DatabasesWhole

LEMMA ApplyWhole ==
    ASSUME BackupsStable, TypeInv, TypeInv', VitalOwned, DatabasesWhole, ApplyDatabase
    PROVE  DatabasesWhole'
  <1>0. /\ pc = "databases" /\ item # NoVal /\ pc' = "databases" /\ UNCHANGED cfg
        /\ Len(DatabaseObjects(item)) = ObjectCount(item)
        /\ step \in 1..ObjectCount(item) /\ item \in DOMAIN cfg.databases
        /\ step \in Int /\ ObjectCount(item) \in Int
    BY DatabaseObjectsLength DEF ApplyDatabase, Continue, Processed, TypeInv, InRange, ObjectCount
  <1>1. /\ \A d : Whole(d) => Whole(d)'
        /\ \A d : d # item /\ Intact(d) => Intact(d)'
        /\ \A j \in 1..step : \E o \in DbObjects' : SameObject(DatabaseObjects(item)[j], o)
    BY <1>0, ApplyIntact DEF DatabasesWhole
  <1>2. \A d : d # item => Intact(d)'
    BY <1>0, <1>1 DEF DatabasesWhole
  <1>4. CASE Continue
    <2>1. UNCHANGED <<todo, item>> /\ step' = step + 1
      BY <1>4 DEF Continue
    <2>2. WrittenTo(step - 1)'
      <3>1. step' - 1 = step
        BY <1>0, <2>1
      <3>2. DatabaseObjects(item)' = DatabaseObjects(item)
        BY <1>0, <2>1 DEF DatabaseObjects
      <3>. QED
        BY <1>1, <3>1, <3>2 DEF WrittenTo
    <2>3. \A d \in DOMAIN cfg.databases \ todo : Whole(d)'
      BY <1>0, <1>1 DEF DatabasesWhole
    <2>. QED
      BY <1>0, <1>2, <2>1, <2>2, <2>3 DEF DatabasesWhole
  <1>5. CASE Processed(item, {item}) /\ step >= ObjectCount(item)
    <2>1. todo' = todo \ {item} /\ item' = NoVal
      BY <1>5 DEF Processed
    <2>2. step = ObjectCount(item)
      BY <1>0, <1>5
    <2>3. ASSUME NEW d, d = item
          PROVE  Whole(d)'
      <3>. SUFFICES ASSUME NEW c \in Configs, d \in DOMAIN c.databases,
                           NEW r \in DbRoles(c.databases[d].backup)
                    PROVE  There(r, d)'
        BY DEF Whole
      <3>1. cfg \in Configs
        BY DEF TypeInv, TypeOK, ClusterTypeOK
      <3>2. r \in DbRoles(cfg.databases[item].backup)
        BY <1>0, <2>3, <3>1 DEF BackupsStable
      <3>3. PICK i \in 1..ObjectCount(item) : Erased(DatabaseObjects(item)[i]) = Part(r, item)
        BY <3>2, DatabaseParts
      <3>4. DatabaseObjects(item)[i].kind = r[1] /\ DatabaseObjects(item)[i].name = <<r[2], item>>
        BY <3>2, <3>3, DatabaseParts, RoleFacts
      <3>5. PICK o \in DbObjects' : SameObject(DatabaseObjects(item)[i], o)
        BY <1>1, <2>2
      <3>. QED
        BY <2>3, <3>4, <3>5 DEF There, SameObject
    <2>4. \A d : Intact(d)'
      BY <1>2, <2>3 DEF Intact
    <2>5. \A d \in DOMAIN cfg.databases \ (todo \ {item}) : Whole(d)'
      BY <1>0, <1>1, <2>3 DEF DatabasesWhole
    <2>. QED
      BY <1>0, <2>1, <2>4, <2>5 DEF DatabasesWhole
  <1>. QED
    BY <1>0, <1>4, <1>5 DEF ApplyDatabase

LEMMA SweepWhole ==
    ASSUME Thorough, BackupsStable, TypeInv, DbShaped, DatabasesWhole, SweepDatabases
    PROVE  DatabasesWhole'
  <1>. DEFINE dbs == DOMAIN cfg.databases
  <1>0. /\ pc = "dbsweep" /\ step \in 1..5 /\ UNCHANGED cfg
        /\ Len(DatabaseSweeps) = 5
    BY DEF SweepDatabases, SweepOrphan, SweepNext, SweepDone, SweptKind, TypeInv, InRange,
       DatabaseSweeps
  <1>1. DatabaseSweeps' = DatabaseSweeps
    BY <1>0 DEF DatabaseSweeps, BackupBuckets
  <1>2. CASE SweepOrphan("databases", DatabaseSweeps)
    <2>1. PICK q \in Left("databases", DatabaseSweeps) : objs' = objs \ {q}
      BY <1>2 DEF SweepOrphan
    <2>2. UNCHANGED <<pc, step>>
      BY <1>2 DEF SweepOrphan, runVars
    <2>3. q \in DbObjects
      BY <2>1 DEF Left, Orphans, DbObjects
    <2>4. q.name[2] \notin dbs
      BY <1>0, <2>1, <2>3, SweptIsUndeclared
    <2>5. DbObjects' = DbObjects \ {q}
      BY <2>1 DEF DbObjects
    <2>6. ASSUME NEW d \in dbs
          PROVE  Whole(d)'
      <3>1. Whole(d)
        BY <1>0 DEF DatabasesWhole
      <3>2. \A r : There(r, d) => There(r, d)'
        BY <2>4, <2>5 DEF There
      <3>. QED
        BY <3>1, <3>2 DEF Whole
    <2>. QED
      BY <1>0, <1>1, <2>2, <2>5, <2>6 DEF DatabasesWhole
  <1>3. CASE SweptKind("databases", DatabaseSweeps)
    <2>1. UNCHANGED DbObjects
      BY <1>3 DEF SweptKind, clusterVars, DbObjects
    <2>2. ASSUME NEW i \in 1..step, NEW o \in DbObjects, o.kind = DatabaseSweeps[i].kind
          PROVE  o.name[2] \in dbs
      <3>1. CASE i = step
        BY <1>0, <1>3, <2>2, <3>1, KindLeft
      <3>2. CASE i # step
        <4>1. i \in 1..(step - 1)
          BY <1>0, <3>2
        <4>. QED
          BY <1>0, <2>2, <4>1 DEF DatabasesWhole
      <3>. QED
        BY <3>1, <3>2
    <2>3. CASE Continue
      <3>1. pc' = "dbsweep" /\ step' - 1 = step
        BY <1>0, <2>3 DEF Continue
      <3>2. \A d \in dbs : Whole(d)'
        BY <1>0, <2>1, SameIntact DEF DatabasesWhole
      <3>. QED
        BY <1>0, <1>1, <2>1, <2>2, <3>1, <3>2 DEF DatabasesWhole
    <2>4. CASE Enter("services", DOMAIN cfg.services) /\ step = 5
      <3>1. \A o \in DbObjects : o.name[2] \in dbs
        <4>. SUFFICES ASSUME NEW o \in DbObjects
                      PROVE  o.name[2] \in dbs
          OBVIOUS
        <4>1. o.kind \in DbKinds
          BY PartFacts
        <4>2. DbKinds = {DatabaseSweeps[j].kind : j \in 1..5}
          BY <1>0, SweepLists
        <4>. QED
          BY <2>2, <2>4, <4>1, <4>2
      <3>2. \A d : Intact(d)'
        BY <1>0, <2>1, <3>1, SameIntact DEF DatabasesWhole, Intact
      <3>3. pc' = "services"
        BY <2>4 DEF Enter
      <3>. QED
        BY <3>2, <3>3 DEF DatabasesWhole
    <2>. QED
      BY <1>0, <1>2, <2>3, <2>4 DEF SweepDatabases, SweepNext, SweepDone
  <1>. QED
    BY <1>2, <1>3 DEF SweepDatabases, SweepNext, SweepDone

LEMMA StepWhole ==
    ASSUME Unstopped, BackupsStable, Thorough, TypeInv, Shaped, VitalOwned, DbShaped,
           DatabasesWhole, [Next]_vars
    PROVE  DatabasesWhole'
  <1>1. UNCHANGED objs => UNCHANGED DbObjects
    BY DEF DbObjects
  <1>2. CASE UNCHANGED vars
    BY <1>2, WholeStays DEF vars, clusterVars, runVars
  <1>3. CASE ApplyDatabase
    BY <1>3, StepTypes, ApplyWhole
  <1>4. CASE SweepDatabases
    BY <1>4, SweepWhole
  <1>5. CASE DatabasesApplied
    <2>1. \A d \in DOMAIN cfg.databases : Whole(d)'
      BY <1>1, <1>5, SameIntact DEF DatabasesApplied, clusterVars, DatabasesWhole
    <2>. QED
      BY <1>5, <2>1 DEF DatabasesApplied, Enter, DatabasesWhole
  <1>6. CASE \E d \in Databases : StartDatabase(d)
    <2>1. /\ \A d : Intact(d)'
          /\ \A d \in DOMAIN cfg.databases \ todo : Whole(d)'
      BY <1>1, <1>6, SameIntact DEF StartDatabase, DatabasesWhole
    <2>2. UNCHANGED <<cfg, pc, todo>> /\ pc = "databases" /\ step' = 1
      BY <1>6 DEF StartDatabase, Take
    <2>3. WrittenTo(step - 1)'
      BY <2>2 DEF WrittenTo
    <2>. QED
      BY <2>1, <2>2, <2>3 DEF DatabasesWhole
  <1>7. CASE \E d \in Databases : SkipDrifted(d)
    <2>1. PICK d \in Databases : SkipDrifted(d)
      BY <1>7
    <2>2. pc = "databases" /\ item = NoVal /\ UNCHANGED <<cfg, objs>>
      BY <2>1 DEF SkipDrifted, clusterVars
    <2>3. /\ \A e : Intact(e)'
          /\ \A e \in DOMAIN cfg.databases \ todo : Whole(e)'
      BY <1>1, <2>2, SameIntact DEF DatabasesWhole
    <2>4. CASE Finish("failed")
      BY <2>3, <2>4 DEF Finish, DatabasesWhole
    <2>5. CASE d \in WithCredentials /\ Processed(d, {d})
      <3>1. PICK o \in objs : o.name = <<"db-credentials", d>>
        BY <2>5 DEF WithCredentials, Get
      <3>2. o \in DbObjects
        BY <3>1 DEF VitalOwned, Vital, DbObjects
      <3>3. Whole(d)'
        BY <1>1, <2>2, <3>1, <3>2, SameIntact DEF DatabasesWhole, Intact
      <3>4. todo' = todo \ {d} /\ item' = NoVal /\ pc' = pc
        BY <2>5 DEF Processed
      <3>. QED
        BY <2>2, <2>3, <3>3, <3>4 DEF DatabasesWhole
    <2>. QED
      BY <2>1, <2>4, <2>5 DEF SkipDrifted
  <1>8. CASE RegistriesStep
    <2>1. pc = "registries" /\ UNCHANGED DbObjects
      <3>1. pc = "registries"
        BY <1>8 DEF RegistriesStep, RegistriesLoud, RegistriesQuiet
      <3>. QED
        BY <3>1, DbWriters DEF ApplyDatabase
    <2>2. \A d : Intact(d)'
      BY <2>1, SameIntact DEF DatabasesWhole
    <2>3. \/ pc' = "services"
          \/ pc' = "databases" /\ item' = NoVal /\ todo' = DOMAIN cfg.databases /\ UNCHANGED cfg
      BY <1>8 DEF RegistriesStep, RegistriesLoud, RegistriesQuiet, Enter
    <2>. QED
      BY <2>2, <2>3 DEF DatabasesWhole
  <1>9. CASE ~ DatabasesStep /\ ~ RegistriesStep /\ ~ UNCHANGED vars
    <2>1. {pc, pc'} \cap {"databases", "dbsweep"} = {}
      BY <1>9, AwayFromDatabases
    <2>2. UNCHANGED DbObjects
      BY <2>1, DbWriters DEF ApplyDatabase
    <2>. QED
      BY <2>1, <2>2, SameIntact DEF DatabasesWhole
  <1>10. CASE \E b \in Buckets : EnsureBucket(b)
    BY <1>10, WholeStays DEF EnsureBucket, runVars
  <1>. QED
    BY <1>2, <1>3, <1>4, <1>5, <1>6, <1>7, <1>8, <1>9, <1>10 DEF DatabasesStep

----------------------------------------------------------------------------
(***************************************************************************)
(* Databases at the end of a deploy.                                       *)
(***************************************************************************)
LEMMA DatabasesAsDeclared ==
    ASSUME BackupsStable, TypeInv, VitalOwned, DbShaped, \A d : Intact(d),
           \A d : HasCredentials(d) <=> d \in DOMAIN cfg.databases
    PROVE  LiveOf({"databases"}) = WantedDatabases
  <1>0. cfg \in Configs
    BY DEF TypeInv, TypeOK, ClusterTypeOK
  <1>1. ASSUME NEW o \in DbObjects
        PROVE  LET d == o.name[2] IN
               /\ d \in DOMAIN cfg.databases
               /\ <<o.kind, o.name[1]>> \in DbRoles(cfg.databases[d].backup)
               /\ Erased(o) = Part(<<o.kind, o.name[1]>>, d)
    <2>. DEFINE d == o.name[2]
    <2>1. PICK c \in Configs :
             /\ d \in DOMAIN c.databases
             /\ <<o.kind, o.name[1]>> \in DbRoles(c.databases[d].backup)
             /\ Erased(o) = Part(<<o.kind, o.name[1]>>, d)
      BY PartFacts
    <2>2. <<"Secret", "db-credentials">> \in DbRoles(c.databases[d].backup)
      BY DEF DbRoles
    <2>3. There(<<"Secret", "db-credentials">>, d)
      BY <2>1, <2>2 DEF Intact, Whole
    <2>4. HasCredentials(d)
      BY <2>3 DEF There, HasCredentials, Get, DbObjects
    <2>. QED
      BY <1>0, <2>1, <2>4 DEF BackupsStable
  <1>2. ASSUME NEW x \in LiveOf({"databases"})
        PROVE  x \in WantedDatabases
    <2>1. PICK o \in DbObjects : x = Erased(o)
      BY DEF LiveOf, DbObjects
    <2>. DEFINE d == o.name[2]
    <2>2. d \in DOMAIN cfg.databases /\ \E r \in DbRoles(cfg.databases[d].backup) : x = Part(r, d)
      BY <1>1, <2>1
    <2>. HIDE DEF d
    <2>3. PICK i \in 1..ObjectCount(d) : Erased(DatabaseObjects(d)[i]) = x
      BY <2>2, DatabaseParts
    <2>4. i \in DOMAIN DatabaseObjects(d)
      BY DatabaseObjectsLength
    <2>. QED
      BY <2>2, <2>3, <2>4 DEF WantedDatabases
  <1>3. ASSUME NEW x \in WantedDatabases
        PROVE  x \in LiveOf({"databases"})
    <2>1. PICK d \in DOMAIN cfg.databases :
             \E i \in DOMAIN DatabaseObjects(d) : x = Erased(DatabaseObjects(d)[i])
      BY DEF WantedDatabases
    <2>2. PICK i \in 1..ObjectCount(d) : x = Erased(DatabaseObjects(d)[i])
      BY <2>1, DatabaseObjectsLength
    <2>3. PICK r \in DbRoles(cfg.databases[d].backup) : x = Part(r, d)
      BY <2>2, DatabaseParts
    <2>4. PICK p \in objs : p.name = <<"db-credentials", d>>
      BY DEF HasCredentials, Get
    <2>5. p \in DbObjects /\ p.name[2] = d
      BY <2>4 DEF VitalOwned, Vital, DbObjects
    <2>6. PICK o \in DbObjects : o.kind = r[1] /\ o.name = <<r[2], d>>
      BY <1>0, <2>5 DEF Intact, Whole, There
    <2>7. o.name[1] = r[2] /\ o.name[2] = d /\ r = <<r[1], r[2]>>
      BY <2>6, RoleFacts
    <2>8. Erased(o) = Part(r, d)
      BY <1>1, <2>6, <2>7
    <2>. QED
      BY <2>3, <2>8 DEF LiveOf, DbObjects
  <1>. QED
    BY <1>2, <1>3

\* What follows a run for DatabasesConverge, and the assumptions it needs.
WholeInv == TidyInv /\ DbShaped /\ DatabasesWhole

LEMMA InitWhole == Init => WholeInv
  <1>1. Init => DbShaped /\ DatabasesWhole
    BY DEF Init, ClusterInit, DbShaped, DatabasesWhole, DbObjects, Intact
  <1>. QED
    BY <1>1, InitTidy DEF WholeInv

LEMMA StepWholeInv ==
    ASSUME AppsSettle, BackupsStable, Unstopped, WholeInv, [Next]_vars
    PROVE  WholeInv'
  <1>1. MovesKeepBackups /\ Thorough
    BY DEF BackupsStable, MovesKeepBackups, AppsSettle
  <1>2. TypeInv /\ Shaped /\ VitalOwned /\ DbShaped /\ DatabasesWhole /\ TidyInv
    BY DEF WholeInv, TidyInv, AppsInv
  <1>3. TidyInv'
    BY <1>1, <1>2, StepTidyInv
  <1>4. DbShaped' /\ DatabasesWhole'
    BY <1>1, <1>2, StepDbShaped, StepWhole
  <1>. QED
    BY <1>3, <1>4 DEF WholeInv

LEMMA WholeConverges ==
    ASSUME BackupsStable, WholeInv
    PROVE  ConvergedWhenDone
  <1>. SUFFICES ASSUME outcome = "done"
                PROVE  Converged
    BY DEF ConvergedWhenDone
  <1>1. TypeInv /\ VitalOwned /\ DbShaped /\ DatabasesWhole /\ Undecided /\ Tidy
    BY DEF WholeInv, TidyInv, AppsInv, TidyWhenDone
  <1>2. \A d : Intact(d)
    BY <1>1 DEF Undecided, DatabasesWhole
  <1>3. LiveOf({"databases"}) = WantedDatabases
    BY <1>1, <1>2, DatabasesAsDeclared DEF Tidy
  <1>. QED
    BY <1>1, <1>3 DEF Tidy, Converged, DatabasesConverged

(***************************************************************************)
(* Where moreover no run stops between two of its steps, and no database's *)
(* backups are turned on or off, a deploy that ran to its end leaves the   *)
(* databases as declared too: the planner sees of a database only whether  *)
(* its credentials are there, and these are written before the rest.       *)
(***************************************************************************)
THEOREM DatabasesConverge ==
    ASSUME NamesApart, KindsStable, Thorough, Readable, BackupsStable, Unstopped
    PROVE  Spec => []ConvergedWhenDone
  <1>1. AppsSettle
    BY DEF AppsSettle
  <1>2. WholeInv /\ [Next]_vars => WholeInv'
    BY <1>1, StepWholeInv
  <1>3. WholeInv => ConvergedWhenDone
    BY WholeConverges
  <1>. QED
    BY <1>2, <1>3, InitWhole, PTL DEF Spec

----------------------------------------------------------------------------
(***************************************************************************)
(* What an empty plan says of the cluster.                                 *)
(***************************************************************************)
\* A service keeps what the plan does not compare, and a domain its service.
SpecsStable ==
    \A b, c \in Configs : \A n \in DOMAIN b.services \cap DOMAIN c.services :
        b.services[n].spec = c.services[n].spec

DomainsStable ==
    \A b, c \in Configs : \A w \in DOMAIN b.domains \cap DOMAIN c.domains :
        b.domains[w] = c.domains[w]

\* What a cluster without workloads holds.
NoApps == [services |-> <<>>, crons |-> <<>>, registry |-> FALSE]

LEMMA DiffEmpty ==
    ASSUME NEW res, NEW desired, NEW live, Diff(res, desired, live) = {}
    PROVE  desired = live
  BY DEF Diff

\* Of the reads of a planner only those of Caddy's routes fail.
OnlyRoutes(unread) == unread \subseteq {"dns", "caddy", "unroute"} \X {NoVal}

OnlyRoutesUnread == OnlyRoutes(Unread)

LEMMA WorkloadsAreRead ==
    ASSUME NEW unread, OnlyRoutes(unread), NEW n
    PROVE  /\ \A kind \in {"Deployment", "StatefulSet", "CronJob"} :
                 Read(kind, n, unread) = Get(kind, "app", n)
           /\ \A by \in {"service keys", "cron keys"} : \A keys :
                 KeyChanges(by, n, keys, unread) = SecretKeyDiff(n, keys)
  <1>1. \A by \in {"Deployment", "StatefulSet", "CronJob", "service keys", "cron keys"} :
           <<by, n>> \notin unread
    BY DEF OnlyRoutes
  <1>. QED
    BY <1>1 DEF Read, KeyChanges

\* Of every service and cron there is a workload.
LEMMA LiveOnes ==
    ASSUME TypeInv, Shaped, NEW c, LiveAs(c), NEW unread, OnlyRoutes(unread)
    PROVE  /\ \A n \in DOMAIN c.services : LiveImage(n, unread) # {}
           /\ \A n \in DOMAIN c.crons : Get("CronJob", "app", n) # {}
  <1>1. ASSUME NEW n \in DOMAIN c.services
        PROVE  LiveImage(n, unread) # {}
    <2>1. Asks(c, AskedOf(c, n))
      BY DEF Asks
    <2>2. /\ AskedOf(c, n).kind \in {"Deployment", "StatefulSet"}
          /\ AskedOf(c, n).name = <<"app", n>>
      BY DEF AskedOf
    <2>3. PICK o \in objs : o.kind \in {"Deployment", "StatefulSet"} /\ o.name = <<"app", n>>
      BY <2>1, <2>2, BothWays
    <2>4. Get("Deployment", "app", n) # {} \/ Get("StatefulSet", "app", n) # {}
      BY <2>3 DEF Get
    <2>. QED
      BY <2>4, WorkloadsAreRead DEF LiveImage
  <1>2. ASSUME NEW n \in DOMAIN c.crons
        PROVE  Get("CronJob", "app", n) # {}
    <2>1. Asks(c, CronOf(c, n))
      BY DEF Asks
    <2>2. CronOf(c, n).kind = "CronJob" /\ CronOf(c, n).name = <<"app", n>>
      BY DEF CronOf, Object
    <2>3. PICK o \in objs : o.kind = "CronJob" /\ o.name = <<"app", n>>
      BY <2>1, <2>2, BothWays
    <2>. QED
      BY <2>3 DEF Get
  <1>. QED
    BY <1>1, <1>2

\* A plan without changes of services and crons reads back what it was asked.
LEMMA QuietWorkloads ==
    ASSUME TypeInv, Shaped, NEW c, LiveAs(c), DOMAIN c.services \cap DOMAIN c.crons = {},
           NEW h, NEW unread, OnlyRoutes(unread), PlanServices(h, unread) = {}, PlanCrons(unread) = {}
    PROVE  /\ DOMAIN c.services = DOMAIN cfg.services
           /\ \A n \in DOMAIN cfg.services :
                 /\ c.services[n].image = cfg.services[n].image
                 /\ KeysOf(c, n) = KeysOf(cfg, n)
           /\ DOMAIN c.crons = DOMAIN cfg.crons
           /\ \A n \in DOMAIN cfg.crons :
                 /\ c.crons[n].image = cfg.crons[n].image
                 /\ c.crons[n].schedule = cfg.crons[n].schedule
                 /\ c.crons[n].secrets = cfg.crons[n].secrets
  <1>1. DOMAIN c.services = DOMAIN cfg.services
    <2>1. Diff("workload", DOMAIN cfg.services, LiveServices) = {}
      BY DEF PlanServices
    <2>. QED
      BY <2>1, DiffEmpty, LiveWorkloads
  <1>2. DOMAIN c.crons = DOMAIN cfg.crons
    <2>1. Diff("cronjob", DOMAIN cfg.crons, LiveCrons) = {}
      BY DEF PlanCrons
    <2>. QED
      BY <2>1, DiffEmpty, LiveWorkloads
  <1>3. ASSUME NEW n, NEW keys, SecretKeyDiff(n, keys) = {}
        PROVE  SecretKeys(n) = keys
    <2>1. {<<n, k>> : k \in keys} = {<<n, k>> : k \in SecretKeys(n)}
      BY <1>3, DiffEmpty DEF SecretKeyDiff
    <2>2. \A k : k \in keys <=> <<n, k>> \in {<<n, j>> : j \in keys}
      OBVIOUS
    <2>3. \A k : k \in SecretKeys(n) <=> <<n, k>> \in {<<n, j>> : j \in SecretKeys(n)}
      OBVIOUS
    <2>4. \A k : k \in keys <=> k \in SecretKeys(n)
      BY <2>1, <2>2, <2>3
    <2>. QED
      BY <2>4
  <1>4. ASSUME NEW res, NEW n, NEW desired, NEW live, PlanImage(res, n, desired, live) = {},
               NEW i \in live
        PROVE  i.image = desired.image
    BY <1>4 DEF PlanImage
  <1>5. ASSUME NEW n \in DOMAIN cfg.services
        PROVE  c.services[n].image = cfg.services[n].image /\ KeysOf(c, n) = KeysOf(cfg, n)
    <2>1. n \in DOMAIN cfg.services \cap LiveServices
      BY <1>1, LiveWorkloads
    <2>2. ServiceChanges(n, h, unread) = {}
      BY <2>1 DEF PlanServices
    <2>3. /\ PlanImage("workload", n, ResolveImage(n, h), LiveImage(n, unread)) = {}
          /\ SecretKeyDiff(n, KeysOf(cfg, n)) = {}
      <3>1. KeyChanges("service keys", n, KeysOf(cfg, n), unread) = SecretKeyDiff(n, KeysOf(cfg, n))
        BY WorkloadsAreRead
      <3>. QED
        BY <2>2, <3>1 DEF ServiceChanges, KeysOf
    <2>4. PICK i \in LiveImage(n, unread) : TRUE
      BY <1>1, LiveOnes
    <2>5. i.image = c.services[n].image
      BY <1>1, LiveWorkloads
    <2>6. ResolveImage(n, h).image = cfg.services[n].image
      BY DEF ResolveImage
    <2>7. c.services[n].image = cfg.services[n].image
      BY <1>4, <2>3, <2>5, <2>6
    <2>8. SecretKeys(n) = KeysOf(cfg, n)
      BY <1>3, <2>3
    <2>9. SecretKeys(n) = KeysOf(c, n)
      BY <1>1, LiveKeys
    <2>. QED
      BY <2>7, <2>8, <2>9
  <1>6. ASSUME NEW n \in DOMAIN cfg.crons
        PROVE  /\ c.crons[n].image = cfg.crons[n].image
               /\ c.crons[n].schedule = cfg.crons[n].schedule
               /\ c.crons[n].secrets = cfg.crons[n].secrets
    <2>1. n \in DOMAIN cfg.crons \cap LiveCrons
      BY <1>2, LiveWorkloads
    <2>2. CronChanges(n, unread) = {}
      BY <2>1 DEF PlanCrons
    <2>3. /\ \A s \in LiveSchedules(n, unread) : s = cfg.crons[n].schedule
          /\ PlanImage("cronjob", n, CronImage(n), LiveCronImage(n, unread)) = {}
          /\ SecretKeyDiff(n, cfg.crons[n].secrets) = {}
      BY <2>2, WorkloadsAreRead DEF CronChanges
    <2>4. PICK o \in Get("CronJob", "app", n) : TRUE
      BY <1>2, LiveOnes
    <2>5. /\ o.spec \in LiveSchedules(n, unread)
          /\ [image |-> o.image, tag |-> o.tag] \in LiveCronImage(n, unread)
      BY WorkloadsAreRead DEF LiveSchedules, LiveCronImage
    <2>6. o.spec = c.crons[n].schedule /\ o.image = c.crons[n].image
      BY <1>2, <2>5, LiveWorkloads
    <2>7. CronImage(n).image = cfg.crons[n].image
      BY DEF CronImage
    <2>8. o.image = cfg.crons[n].image
      BY <1>4, <2>3, <2>5, <2>7
    <2>9. SecretKeys(n) = cfg.crons[n].secrets
      BY <1>3, <2>3
    <2>10. SecretKeys(n) = c.crons[n].secrets
      BY <1>2, LiveKeys
    <2>. QED
      BY <2>3, <2>5, <2>6, <2>8, <2>9, <2>10
  <1>. QED
    BY <1>1, <1>2, <1>5, <1>6

LEMMA SameAsked ==
    ASSUME KindsStable, SpecsStable, TypeInv, Shaped, NEW c \in Configs \cup {NoApps}, LiveAs(c),
           DOMAIN c.services \cap DOMAIN c.crons = {},
           NEW h, NEW unread, OnlyRoutes(unread),
           PlanServices(h, unread) = {}, PlanCrons(unread) = {}, PlanRegistries = {}
    PROVE  ConvergedApps
  <1>0. cfg \in Configs
    BY DEF TypeInv, TypeOK, ClusterTypeOK
  <1>1. c.registry = cfg.registry
    <2>1. {n \in {NoVal} : cfg.registry} = {n \in {NoVal} : c.registry}
      BY DiffEmpty, PullSecretLive DEF PlanRegistries
    <2>2. \A b \in Configs : b.registry \in BOOLEAN
      BY ConfigsAssumption DEF IsConfig
    <2>3. NoApps.registry \in BOOLEAN
      BY DEF NoApps
    <2>4. cfg.registry \in BOOLEAN /\ c.registry \in BOOLEAN
      BY <1>0, <2>2, <2>3
    <2>. QED
      BY <2>1, <2>4
  <1>2. /\ DOMAIN c.services = DOMAIN cfg.services
        /\ \A n \in DOMAIN cfg.services :
              c.services[n].image = cfg.services[n].image /\ KeysOf(c, n) = KeysOf(cfg, n)
        /\ DOMAIN c.crons = DOMAIN cfg.crons
        /\ \A n \in DOMAIN cfg.crons :
              /\ c.crons[n].image = cfg.crons[n].image
              /\ c.crons[n].schedule = cfg.crons[n].schedule
              /\ c.crons[n].secrets = cfg.crons[n].secrets
    BY QuietWorkloads
  <1>3. ASSUME NEW n \in DOMAIN cfg.services
        PROVE  AskedOf(c, n) = AskedOf(cfg, n)
    <2>1. DOMAIN NoApps.services = {}
      BY DEF NoApps
    <2>2. c \in Configs
      BY <1>2, <2>1
    <2>3. /\ c.services[n].spec = cfg.services[n].spec
          /\ c.services[n].stateful = cfg.services[n].stateful
      BY <1>0, <1>2, <2>2 DEF SpecsStable, KindsStable
    <2>. QED
      BY <1>1, <1>2, <2>3 DEF AskedOf
  <1>4. ASSUME NEW n \in DOMAIN cfg.crons
        PROVE  CronOf(c, n) = CronOf(cfg, n)
    BY <1>1, <1>2 DEF CronOf
  <1>5. \A o : Asks(c, o) <=> Asks(cfg, o)
    BY <1>1, <1>2, <1>3, <1>4 DEF Asks
  <1>6. LiveAs(cfg)
    BY <1>5 DEF LiveAs
  <1>. QED
    BY <1>6, ConvergedIsLive

----------------------------------------------------------------------------
(***************************************************************************)
(* Between runs the cluster is as some configuration wants it.             *)
(***************************************************************************)
RoutesKnown ==
    \A w \in DOMAIN routes : \A c \in Configs :
        w \in DOMAIN c.domains => routes[w] = c.domains[w]

LiveAtRest == pc \in {"idle", "plan"} => \E c \in Configs \cup {NoApps} : LiveAs(c)

LEMMA StepRoutesKnown ==
    ASSUME DomainsStable, TypeInv, RoutesKnown, [Next]_vars
    PROVE  RoutesKnown'
  <1>1. CASE ReloadCaddy
    BY <1>1 DEF ReloadCaddy, RoutesKnown, DomainsStable, TypeInv, TypeOK, ClusterTypeOK
  <1>2. UNCHANGED routes => RoutesKnown'
    BY DEF RoutesKnown
  <1>3. RegistriesStep \/ DatabasesStep \/ ServicesStep \/ CronsStep => UNCHANGED routes
    BY MiddleSteps
  <1>. QED
    BY <1>1, <1>2, <1>3 DEF Next, Run, Decide, InfraStep, IngressStep, Edit, Begin, Declined, Abort,
       PlanFails, NoChanges, Proceed, EnsureServer, DeleteServer, ApplyFirewall, TornDown, RouteTo,
       Unroute, AllRouted, AllUnrouted, EnsureCaddy, vars, clusterVars

\* No run finds a database elsewhere and its credentials gone.
LEMMA DriftedIsWhole ==
    ASSUME TypeInv, DataOwned, DbShaped, DatabasesWhole, NEW d \in Databases, SkipDrifted(d)
    PROVE  d \in WithCredentials
  <1>1. /\ pc = "databases" /\ item = NoVal /\ d \in DOMAIN cfg.databases
        /\ cfg \in Configs
    BY DEF SkipDrifted, TypeInv, InRange, TypeOK, ClusterTypeOK
  <1>2. PICK o \in objs : o.kind = "StatefulSet" /\ o.name = <<"db", d>>
    BY DEF SkipDrifted, Drifted, Get
  <1>3. o \in DbObjects
    BY <1>2 DEF DataOwned, DataOf, DbObjects
  <1>4. Whole(d)
    BY <1>1, <1>2, <1>3 DEF DatabasesWhole, Intact
  <1>5. <<"Secret", "db-credentials">> \in DbRoles(cfg.databases[d].backup)
    BY DEF DbRoles
  <1>6. There(<<"Secret", "db-credentials">>, d)
    BY <1>1, <1>4, <1>5 DEF Whole
  <1>. QED
    BY <1>1, <1>6 DEF There, WithCredentials, Get, DbObjects

LEMMA ComesToRest ==
    ASSUME Unstopped, TypeInv, DataOwned, DbShaped, DatabasesWhole, [Next]_vars,
           pc' \in {"idle", "plan"}
    PROVE  (pc \in {"idle", "plan"} /\ UNCHANGED objs) \/ outcome' = "done"
  <1>. USE DEF Enter, Take, Continue, Processed, runVars, clusterVars
  <1>1. CASE DatabasesStep
    <2>1. ASSUME NEW d \in Databases, SkipDrifted(d)
          PROVE  pc' = "databases"
      BY <2>1, DriftedIsWhole DEF SkipDrifted
    <2>. QED
      BY <1>1, <2>1 DEF DatabasesStep, EnsureBucket, StartDatabase, ApplyDatabase, DatabasesApplied,
         SweepDatabases, SweepOrphan, SweepNext, SweepDone, SweptKind
  <1>2. CASE RegistriesStep \/ ServicesStep
    BY <1>2 DEF RegistriesStep, RegistriesLoud, RegistriesQuiet, ServicesStep, StartService,
       PruneServiceSecret, PruneSecret, PruneKey, PruneDone, ApplyWorkload, ApplyKubeService,
       RolloutReady, ServicesApplied, SweepServices, SweepOrphan, SweepNext, SweepDone, SweptKind
  <1>3. CASE CronsStep
    BY <1>3 DEF CronsStep, StartCron, PruneCronSecret, PruneSecret, PruneKey, PruneDone, ApplyCron,
       CronsApplied, SweepCrons, AfterCrons, SweepOrphan, SweepNext, SweepDone, SweptKind, Finish
  <1>4. CASE InfraStep \/ IngressStep
    BY <1>4 DEF InfraStep, IngressStep, EnsureServer, DeleteServer, ApplyFirewall, TornDown,
       RouteTo, Unroute, AllRouted, AllUnrouted, EnsureCaddy, ReloadCaddy, Finish
  <1>5. CASE Decide \/ Declined \/ (\E c \in Configs : Edit(c)) \/ (\E h \in Hashes : Begin(h))
    BY <1>5 DEF Decide, PlanFails, NoChanges, Proceed, Declined, Edit, Begin
  <1>6. ~ Abort
    BY DEF Abort, Unstopped
  <1>7. CASE UNCHANGED vars
    BY <1>7 DEF vars
  <1>. QED
    BY <1>1, <1>2, <1>3, <1>4, <1>5, <1>6, <1>7 DEF Next, Run

LEMMA StepLiveAtRest ==
    ASSUME Unstopped, TypeInv, DataOwned, DbShaped, DatabasesWhole, LiveAtRest,
           AppsConvergedWhenDone', [Next]_vars
    PROVE  LiveAtRest'
  <1>. SUFFICES ASSUME pc' \in {"idle", "plan"}
                PROVE  \E c \in Configs \cup {NoApps} : LiveAs(c)'
    BY DEF LiveAtRest
  <1>1. CASE pc \in {"idle", "plan"} /\ UNCHANGED objs
    <2>1. \A c : LiveAs(c)' <=> LiveAs(c)
      BY <1>1 DEF LiveAs, LiveOf, Erased, Asks
    <2>. QED
      BY <1>1, <2>1 DEF LiveAtRest
  <1>2. CASE outcome' = "done"
    <2>1. ConvergedApps'
      BY <1>2 DEF AppsConvergedWhenDone, AppsConverged, ConvergedApps
    <2>2. (ConvergedApps <=> LiveAs(cfg))'
      BY ConvergedIsLive, PTL
    <2>3. PICK c \in Configs : c = cfg'
      BY StepTypes DEF TypeInv, TypeOK, ClusterTypeOK
    <2>4. LiveAs(cfg)' => LiveAs(c)'
      BY <2>3 DEF LiveAs, Asks
    <2>. QED
      BY <2>1, <2>2, <2>3, <2>4
  <1>. QED
    BY <1>1, <1>2, ComesToRest

----------------------------------------------------------------------------
(***************************************************************************)
(* "No changes." is said of a converged cluster.                           *)
(***************************************************************************)
LEMMA NothingToDo ==
    ASSUME AppsSettle, BackupsStable, SpecsStable, WholeInv, RoutesKnown, LiveAtRest,
           pc = "plan", NEW h, NEW unread, OnlyRoutes(unread), ComputePlan(h, unread) = {}
    PROVE  Converged
  <1>0. /\ TypeInv /\ Shaped /\ VitalOwned /\ DbShaped /\ DatabasesWhole
        /\ cfg \in Configs /\ webOpen \in BOOLEAN /\ IsPartial(routes, Domains, Names)
    BY DEF WholeInv, TidyInv, AppsInv, TypeInv, TypeOK, ClusterTypeOK
  <1>1. /\ PlanInfra = {} /\ PlanStorage = {} /\ PlanDatabases = {} /\ PlanRegistries = {}
        /\ PlanServices(h, unread) = {} /\ PlanCrons(unread) = {}
        /\ WebWanted => PlanRouteDomains(unread) = {} /\ PlanIngress(unread) = {}
    BY DEF ComputePlan
  <1>2. servers = cfg.servers /\ webOpen = WebWanted
    <2>1. /\ Diff("server", cfg.servers, servers) = {}
          /\ Diff("firewall-rule", {p \in {NoVal} : WebWanted}, {p \in {NoVal} : webOpen}) = {}
      BY <1>1 DEF PlanInfra
    <2>2. {p \in {NoVal} : WebWanted} = {p \in {NoVal} : webOpen}
      BY <2>1, DiffEmpty
    <2>3. WebWanted \in BOOLEAN
      BY DEF WebWanted
    <2>4. WebWanted <=> webOpen
      BY <2>2
    <2>. QED
      BY <1>0, <2>1, <2>3, <2>4, DiffEmpty
  <1>3. ConvergedApps
    <2>1. PICK c \in Configs \cup {NoApps} : LiveAs(c)
      BY DEF LiveAtRest
    <2>2. DOMAIN NoApps.services = {}
      BY DEF NoApps
    <2>3. DOMAIN c.services \cap DOMAIN c.crons = {}
      BY <2>2 DEF AppsSettle, NamesApart
    <2>. QED
      BY <1>0, <1>1, <2>1, <2>3, SameAsked DEF AppsSettle
  <1>4. ASSUME WebWanted
        PROVE  routes = cfg.domains /\ DOMAIN cfg.domains \subseteq records
    <2>1. /\ Diff("dns", DOMAIN cfg.domains,
                  records \cap (DOMAIN cfg.domains \cup ServedDomains("dns", unread))) = {}
          /\ Diff("caddy-route", DOMAIN cfg.domains, ServedDomains("caddy", unread)) = {}
      BY <1>1, <1>4 DEF PlanRouteDomains, PlanIngress
    <2>2. DOMAIN routes = DOMAIN cfg.domains
      <3>1. ServedDomains("caddy", unread) = DOMAIN cfg.domains
        BY <2>1, DiffEmpty
      <3>2. ServedDomains("caddy", unread) # {}
        BY <1>4, <3>1 DEF WebWanted
      <3>3. ServedDomains("caddy", unread) = DOMAIN routes
        BY <3>2 DEF ServedDomains
      <3>. QED
        BY <3>1, <3>3
    <2>3. DOMAIN cfg.domains \subseteq records
      BY <2>1, DiffEmpty
    <2>4. \A w \in DOMAIN cfg.domains : routes[w] = cfg.domains[w]
      BY <1>0, <2>2 DEF RoutesKnown
    <2>5. /\ routes \in [DOMAIN routes -> Names]
          /\ cfg.domains \in [DOMAIN cfg.domains -> Names]
      BY <1>0, ConfigsAssumption DEF IsConfig, IsPartial
    <2>. QED
      BY <2>2, <2>3, <2>4, <2>5
  <1>5. BackupBuckets \subseteq buckets /\ BucketsEnsured
    BY <1>1 DEF PlanStorage, DesiredBuckets, BucketsEnsured
  <1>6. LiveOf({"databases"}) = WantedDatabases
    <2>1. LiveDatabases = DOMAIN cfg.databases
      BY <1>1, DiffEmpty DEF PlanDatabases
    <2>2. \A d : HasCredentials(d) <=> d \in DOMAIN cfg.databases
      BY <1>0, <2>1, LiveHasCredentials
    <2>3. \A d : Intact(d)
      BY <1>0 DEF DatabasesWhole
    <2>. QED
      BY <1>0, <2>2, <2>3, DatabasesAsDeclared
  <1>. QED
    BY <1>2, <1>3, <1>4, <1>5, <1>6
       DEF Converged, AppsConverged, ConvergedApps, IngressConverged, DatabasesConverged

LEMMA ConvergedStays ==
    ASSUME Converged, UNCHANGED <<cfg, clusterVars>>
    PROVE  Converged'
  <1>1. UNCHANGED <<cfg, objs, servers, webOpen, buckets, records, routes>>
    BY DEF clusterVars
  <1>2. \A owners : LiveOf(owners)' = LiveOf(owners)
    BY <1>1 DEF LiveOf, Erased
  <1>3. WantedApps' = WantedApps
    BY <1>1, WantedStays
  <1>4. WantedDatabases' = WantedDatabases
    BY <1>1 DEF WantedDatabases, DatabaseObjects, Erased
  <1>5. BackupBuckets' = BackupBuckets /\ WebWanted' = WebWanted
    BY <1>1 DEF BackupBuckets, WebWanted
  <1>. QED
    BY <1>1, <1>2, <1>3, <1>4, <1>5
       DEF Converged, AppsConverged, IngressConverged, DatabasesConverged, BucketsEnsured

\* It is said at one place.
LEMMA SaysNoChanges ==
    ASSUME Undecided, [Next]_vars, outcome' = "nochange"
    PROVE  NoChanges \/ UNCHANGED vars
  <1>. USE DEF Undecided, Enter, Finish, Take, Continue, Processed, runVars
  <1>1. CASE RegistriesStep \/ DatabasesStep
    BY <1>1 DEF RegistriesStep, RegistriesLoud, RegistriesQuiet, DatabasesStep, EnsureBucket, SkipDrifted,
       StartDatabase, ApplyDatabase, DatabasesApplied, SweepDatabases, SweepOrphan, SweepNext,
       SweepDone, SweptKind
  <1>2. CASE ServicesStep
    BY <1>2 DEF ServicesStep, StartService, PruneServiceSecret, PruneSecret, PruneKey, PruneDone,
       ApplyWorkload, ApplyKubeService, RolloutReady, ServicesApplied, SweepServices, SweepOrphan,
       SweepNext, SweepDone, SweptKind
  <1>3. CASE CronsStep
    BY <1>3 DEF CronsStep, StartCron, PruneCronSecret, PruneSecret, PruneKey, PruneDone, ApplyCron,
       CronsApplied, SweepCrons, AfterCrons, SweepOrphan, SweepNext, SweepDone, SweptKind
  <1>4. CASE InfraStep \/ IngressStep
    BY <1>4 DEF InfraStep, IngressStep, EnsureServer, DeleteServer, ApplyFirewall, TornDown,
       RouteTo, Unroute, AllRouted, AllUnrouted, EnsureCaddy, ReloadCaddy
  <1>5. CASE Decide \/ Declined \/ Abort
    BY <1>5 DEF Decide, PlanFails, NoChanges, Proceed, Declined, Abort
  <1>6. CASE (\E c \in Configs : Edit(c)) \/ (\E h \in Hashes : Begin(h))
    BY <1>6 DEF Edit, Begin
  <1>. QED
    BY <1>1, <1>2, <1>3, <1>4, <1>5, <1>6 DEF Next, Run

QuietInv == WholeInv /\ IInv /\ RoutesKnown /\ LiveAtRest /\ NoChangesIsTrue

LEMMA InitQuiet == Init => QuietInv
  <1>. SUFFICES ASSUME Init
                PROVE  QuietInv
    OBVIOUS
  <1>1. objs = {} /\ routes = <<>> /\ pc = "idle" /\ outcome = "none"
    BY DEF Init, ClusterInit
  <1>2. DataOwned /\ Settled /\ RoutesKnown /\ NoChangesIsTrue
    BY <1>1 DEF DataOwned, Settled, RoutesKnown, NoChangesIsTrue
  <1>3. LiveAs(NoApps)
    <2>1. NoApps.services = <<>> /\ NoApps.crons = <<>> /\ ~ NoApps.registry
      BY DEF NoApps
    <2>2. DOMAIN NoApps.services = {} /\ DOMAIN NoApps.crons = {}
      BY <2>1
    <2>. QED
      BY <1>1, <2>1, <2>2 DEF LiveAs, LiveOf, Asks
  <1>4. LiveAtRest
    BY <1>3 DEF LiveAtRest
  <1>. QED
    BY <1>2, <1>4, InitTypes, InitWhole DEF QuietInv, IInv

LEMMA StepQuiet ==
    ASSUME AppsSettle, BackupsStable, SpecsStable, DomainsStable, Unstopped, OnlyRoutesUnread,
           QuietInv, [Next]_vars
    PROVE  QuietInv'
  <1>0. /\ WholeInv /\ IInv /\ RoutesKnown /\ LiveAtRest /\ NoChangesIsTrue
        /\ TypeInv /\ DataOwned /\ DbShaped /\ DatabasesWhole /\ Undecided
    BY DEF QuietInv, IInv, WholeInv, TidyInv, AppsInv
  <1>1. WholeInv' /\ IInv'
    BY <1>0, StepWholeInv, InvariantInductive
  <1>2. AppsConvergedWhenDone'
    BY <1>1 DEF WholeInv, TidyInv
  <1>3. RoutesKnown' /\ LiveAtRest'
    BY <1>0, <1>2, StepRoutesKnown, StepLiveAtRest
  <1>4. NoChangesIsTrue'
    <2>. SUFFICES ASSUME outcome' = "nochange"
                  PROVE  Converged'
      BY DEF NoChangesIsTrue
    <2>1. Converged /\ UNCHANGED <<cfg, clusterVars>>
      <3>1. CASE NoChanges
        <4>1. PICK unread \in SUBSET Unread : ComputePlan(hash, unread) = {}
          BY <3>1 DEF NoChanges
        <4>2. OnlyRoutes(unread)
          BY DEF OnlyRoutesUnread, OnlyRoutes
        <4>. QED
          BY <1>0, <3>1, <4>1, <4>2, NothingToDo DEF NoChanges
      <3>2. CASE UNCHANGED vars
        BY <1>0, <3>2 DEF vars, runVars, NoChangesIsTrue
      <3>. QED
        BY <1>0, <3>1, <3>2, SaysNoChanges
    <2>. QED
      BY <2>1, ConvergedStays
  <1>. QED
    BY <1>1, <1>3, <1>4 DEF QuietInv

(***************************************************************************)
(* Where no run stops, no deletion and no read fails but those of Caddy's  *)
(* routes, and configurations differ only in what plans compare, "No       *)
(* changes." means that the cluster is as nvoi.yaml wants it, whatever was *)
(* deployed before: the planners, which read names, keys, images and       *)
(* schedules and of a database only the credentials, have missed nothing.  *)
(* An unanswered read of a workload or of its Secret takes its changes out *)
(* of the plan, and TLC refutes the property (plan.go:597).                *)
(***************************************************************************)
THEOREM NoChangesMeansConverged ==
    ASSUME NamesApart, KindsStable, Thorough, Readable, BackupsStable, SpecsStable, DomainsStable,
           Unstopped, OnlyRoutesUnread
    PROVE  Spec => []NoChangesIsTrue
  <1>1. AppsSettle
    BY DEF AppsSettle
  <1>2. QuietInv /\ [Next]_vars => QuietInv'
    BY <1>1, StepQuiet
  <1>3. QuietInv => NoChangesIsTrue
    BY DEF QuietInv
  <1>. QED
    BY <1>2, <1>3, InitQuiet, PTL DEF Spec
=============================================================================
