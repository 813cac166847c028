---------------------------- MODULE DeployProof ----------------------------
(***************************************************************************)
(* Type correctness of Deploy, for every value of its constants.  TypeOK   *)
(* is made inductive by InRange: what a step has left to do, the item it   *)
(* is at and how far it is with it always fit the configuration, so that   *)
(* no step reads a list past its end or a workload that is not declared.   *)
(* Then that a deploy never removes or moves the data of a declared        *)
(* database, with every disturbance, and what it may rely on of its plan.  *)
(***************************************************************************)
EXTENDS DeployProperties, TLAPS

\* How many objects ReconcileOneDatabase writes.
ObjectCount(d) == IF cfg.databases[d].backup THEN 6 ELSE 4

InRange ==
    /\ pc \in {"idle", "plan", "bootstrap", "registries"} => item = NoVal
    /\ pc = "databases" =>
          /\ todo \subseteq DOMAIN cfg.databases
          /\ item # NoVal => /\ item \in DOMAIN cfg.databases
                             /\ step \in 1..ObjectCount(item)
    /\ pc = "services" =>
          /\ todo \subseteq DOMAIN cfg.services
          /\ item # NoVal => item \in DOMAIN cfg.services /\ step \in 1..4
    /\ pc = "crons" =>
          /\ todo \subseteq DOMAIN cfg.crons
          /\ item # NoVal => item \in DOMAIN cfg.crons /\ step \in 1..2
    /\ pc = "dbsweep" => step \in 1..5
    /\ pc = "svcsweep" => step \in 1..4
    /\ pc = "cronsweep" => step \in 1..2
    /\ pc = "routes" => todo \subseteq DOMAIN cfg.domains

TypeInv == TypeOK /\ InRange

----------------------------------------------------------------------------
(* Types of the configuration and of objects.                              *)

LEMMA ConfigTypes ==
    ASSUME NEW c \in Configs
    PROVE  IsConfig(c) /\ ValidateConfig(c)
BY ConfigsAssumption

LEMMA ServiceTypes ==
    ASSUME cfg \in Configs, NEW n \in DOMAIN cfg.services
    PROVE  n \in Names /\ cfg.services[n] \in ServiceDef
BY ConfigTypes DEF IsConfig, IsPartial

LEMMA CronTypes ==
    ASSUME cfg \in Configs, NEW n \in DOMAIN cfg.crons
    PROVE  n \in Names /\ cfg.crons[n] \in CronDef
BY ConfigTypes DEF IsConfig, IsPartial

LEMMA DatabaseTypes ==
    ASSUME cfg \in Configs, NEW d \in DOMAIN cfg.databases
    PROVE  d \in Databases /\ cfg.databases[d] \in DatabaseDef
BY ConfigTypes DEF IsConfig, IsPartial

LEMMA ConfigDomains ==
    ASSUME cfg \in Configs
    PROVE  /\ DOMAIN cfg.services \subseteq Names
           /\ DOMAIN cfg.crons \subseteq Names
           /\ DOMAIN cfg.databases \subseteq Databases
           /\ DOMAIN cfg.domains \subseteq Domains
           /\ cfg.servers \subseteq Servers
           /\ cfg.registry \in BOOLEAN
           /\ IsPartial(cfg.domains, Domains, Names)
BY ConfigTypes DEF IsConfig, IsPartial

LEMMA ObjectType ==
    ASSUME NEW kind \in Kinds, NEW role \in Roles,
           NEW base \in Names \cup Databases \cup {NoVal}, NEW owner \in Owners
    PROVE  Object(kind, role, base, owner) \in ObjectSet
BY DEF Object, ObjectSet

LEMMA AppliedType ==
    ASSUME objs \subseteq ObjectSet, NEW o \in ObjectSet
    PROVE  Applied(o) \subseteq ObjectSet
BY DEF Applied

LEMMA WorkloadType ==
    ASSUME TypeOK, NEW n \in DOMAIN cfg.services
    PROVE  Workload(n, hash) \in ObjectSet
<1> DEFINE kind == IF cfg.services[n].stateful THEN "StatefulSet" ELSE "Deployment"
           o == Object(kind, "app", n, "services")
<1>1. n \in Names /\ cfg.services[n] \in ServiceDef
  BY ServiceTypes DEF TypeOK, ClusterTypeOK
<1>2. o \in ObjectSet
  <2>1. kind \in Kinds
    BY DEF Kinds
  <2> QED
    BY <1>1, <2>1, ObjectType DEF Roles, Owners
<1>3. cfg.registry \in BOOLEAN
  BY ConfigDomains DEF TypeOK, ClusterTypeOK
<1>4. ServiceKeys(n) \in SUBSET EnvKeys
  BY <1>1 DEF ServiceKeys, ServiceDef, EnvKeys, TypeOK, RunTypeOK
<1>5. /\ ResolveImage(n, hash).image \in Images \cup {NoVal}
      /\ ResolveImage(n, hash).tag \in Hashes \cup {NoVal}
  BY <1>1 DEF ResolveImage, ServiceDef, TypeOK, RunTypeOK
<1>6. cfg.services[n].spec \in Specs \cup {NoVal}
  BY <1>1 DEF ServiceDef
<1> HIDE DEF o
<1>7. [o EXCEPT !.image = ResolveImage(n, hash).image,
                !.tag = ResolveImage(n, hash).tag,
                !.spec = cfg.services[n].spec, !.keys = ServiceKeys(n),
                !.pull = cfg.registry] \in ObjectSet
  BY <1>2, <1>3, <1>4, <1>5, <1>6 DEF ObjectSet
<1> QED
  BY <1>7 DEF Workload, o

LEMMA CronJobType ==
    ASSUME TypeOK, NEW n \in DOMAIN cfg.crons
    PROVE  CronJob(n) \in ObjectSet
<1> DEFINE o == Object("CronJob", "app", n, "crons")
<1>1. n \in Names /\ cfg.crons[n] \in CronDef
  BY CronTypes DEF TypeOK, ClusterTypeOK
<1>2. o \in ObjectSet
  BY <1>1, ObjectType DEF Kinds, Roles, Owners
<1>3. cfg.registry \in BOOLEAN
  BY ConfigDomains DEF TypeOK, ClusterTypeOK
<1> HIDE DEF o
<1>4. [o EXCEPT !.image = cfg.crons[n].image, !.spec = cfg.crons[n].schedule,
                !.keys = cfg.crons[n].secrets, !.pull = cfg.registry] \in ObjectSet
  BY <1>1, <1>2, <1>3 DEF ObjectSet, CronDef, EnvKeys
<1> QED
  BY <1>4 DEF CronJob, o

LEMMA DatabaseObjectType ==
    ASSUME cfg \in Configs, NEW d \in DOMAIN cfg.databases,
           NEW i \in DOMAIN DatabaseObjects(d)
    PROVE  DatabaseObjects(d)[i] \in ObjectSet
<1> DEFINE of(kind, role) == Object(kind, role, d, "databases")
           pinned == [of("StatefulSet", "db") EXCEPT !.node = cfg.databases[d].server]
<1>1. d \in Databases /\ cfg.databases[d] \in DatabaseDef
  BY DatabaseTypes
<1>2. \A kind \in Kinds, role \in Roles : of(kind, role) \in ObjectSet
  BY <1>1, ObjectType DEF Owners
<1>3. pinned \in ObjectSet
  <2>1. of("StatefulSet", "db") \in ObjectSet
    BY <1>2 DEF Kinds, Roles
  <2>2. cfg.databases[d].server \in Servers \cup {NoVal}
    BY <1>1 DEF DatabaseDef
  <2> QED
    BY <2>1, <2>2 DEF ObjectSet
<1>4. /\ of("Secret", "db-backup-creds") \in ObjectSet
      /\ of("Secret", "db-credentials") \in ObjectSet
      /\ of("Service", "db") \in ObjectSet
      /\ of("PVC", "db-data") \in ObjectSet
      /\ of("CronJob", "db-backup") \in ObjectSet
  BY <1>2 DEF Kinds, Roles
<1> HIDE DEF of, pinned
<1>5. DatabaseObjects(d) =
        IF cfg.databases[d].backup
        THEN <<of("Secret", "db-backup-creds"), of("Secret", "db-credentials"),
               of("Service", "db"), of("PVC", "db-data"), pinned,
               of("CronJob", "db-backup")>>
        ELSE <<of("Secret", "db-credentials"),
               of("Service", "db"), of("PVC", "db-data"), pinned>>
  BY DEF DatabaseObjects, of, pinned
<1>6. CASE cfg.databases[d].backup
  BY <1>3, <1>4, <1>5, <1>6
<1>7. CASE ~ cfg.databases[d].backup
  BY <1>3, <1>4, <1>5, <1>7
<1> QED
  BY <1>6, <1>7

\* The length of the list decides where Databases stops.
LEMMA DatabaseObjectsLength ==
    ASSUME NEW d
    PROVE  /\ DOMAIN DatabaseObjects(d) = 1..ObjectCount(d)
           /\ Len(DatabaseObjects(d)) = ObjectCount(d)
<1>1. \A o1, o2, o3, o4 :
         /\ DOMAIN <<o1, o2, o3, o4>> = 1..4
         /\ Len(<<o1, o2, o3, o4>>) = 4
  OBVIOUS
<1>2. \A o1, o2, o3, o4, o5, o6 :
         /\ DOMAIN <<o1, o2, o3, o4, o5, o6>> = 1..6
         /\ Len(<<o1, o2, o3, o4, o5, o6>>) = 6
  OBVIOUS
<1>3. CASE cfg.databases[d].backup
  <2>1. \E o1, o2, o3, o4, o5, o6 :
           DatabaseObjects(d) = <<o1, o2, o3, o4, o5, o6>>
    BY <1>3, Zenon DEF DatabaseObjects
  <2> QED
    BY <1>2, <1>3, <2>1 DEF ObjectCount
<1>4. CASE ~ cfg.databases[d].backup
  <2>1. \E o1, o2, o3, o4 : DatabaseObjects(d) = <<o1, o2, o3, o4>>
    BY <1>4, Zenon DEF DatabaseObjects
  <2> QED
    BY <1>1, <1>4, <2>1 DEF ObjectCount
<1> QED
  BY <1>3, <1>4

LEMMA SecretType ==
    ASSUME objs \subseteq ObjectSet, NEW n \in Names,
           NEW keys \in SUBSET EnvKeys
    PROVE  SecretWith("app-secrets", n, "services", keys) \in ObjectSet
<1> DEFINE o == Object("Secret", "app-secrets", n, "services")
           live == UNION {p.keys : p \in Get("Secret", "app-secrets", n)}
<1>1. o \in ObjectSet
  BY ObjectType DEF Kinds, Roles, Owners
<1>2. live \in SUBSET EnvKeys
  BY DEF Get, ObjectSet
<1> HIDE DEF o, live
<1>3. [o EXCEPT !.keys = keys \cup live] \in ObjectSet
  BY <1>1, <1>2 DEF ObjectSet
<1> QED
  BY <1>3 DEF SecretWith, o, live

LEMMA PlanType ==
    \A unread : \A e \in ComputePlan(hash, unread) :
        e.change \in Changes /\ e.res \in Resources
<1> SUFFICES ASSUME NEW unread, NEW e \in ComputePlan(hash, unread)
             PROVE  e.change \in Changes /\ e.res \in Resources
  OBVIOUS
<1> DEFINE Typed(S) == \A x \in S : x.change \in Changes /\ x.res \in Resources
<1>1. \A res \in Resources : \A n :
        /\ \A change \in Changes : /\ Entry(change, res, n).change \in Changes
                                 /\ Entry(change, res, n).res \in Resources
        /\ ImageRebuilt(res, n).change \in Changes
        /\ ImageRebuilt(res, n).res \in Resources
  BY DEF Entry, ImageRebuilt, Changes
<1>2. \A res \in Resources : \A desired, live : Typed(Diff(res, desired, live))
  BY <1>1 DEF Diff, Changes
<1>3. \A res \in Resources : \A n, desired, live : Typed(PlanImage(res, n, desired, live))
  BY <1>1 DEF PlanImage, Changes
<1>4. \A by, n, desired : Typed(KeyChanges(by, n, desired, unread))
  <2>1. \A n, desired : Typed(SecretKeyDiff(n, desired))
    BY <1>2 DEF SecretKeyDiff, Resources
  <2> QED
    BY <2>1 DEF KeyChanges
<1>5. Typed(PlanInfra) /\ Typed(PlanDatabases) /\ Typed(PlanRegistries)
  BY <1>2 DEF PlanInfra, PlanDatabases, PlanRegistries, Resources
<1>6. Typed(PlanStorage)
  BY <1>1 DEF PlanStorage, Resources, Changes
<1>7. Typed(PlanServices(hash, unread))
  <2>1. "workload" \in Resources
    BY DEF Resources
  <2>2. Typed(Diff("workload", DOMAIN cfg.services, LiveServices))
    BY <1>2, <2>1
  <2>3. \A n : Typed(PlanImage("workload", n, ResolveImage(n, hash), LiveImage(n, unread)))
    BY <1>3, <2>1
  <2> HIDE DEF Typed
  <2>4. \A A, B : Typed(A) /\ Typed(B) => Typed(A \cup B)
    BY DEF Typed
  <2>5. \A F : (\A S \in F : Typed(S)) => Typed(UNION F)
    BY DEF Typed
  <2>6. \A n : Typed(ServiceChanges(n, hash, unread))
    BY <1>4, <2>3, <2>4 DEF ServiceChanges
  <2> QED
    BY <2>2, <2>4, <2>5, <2>6 DEF PlanServices
<1>8. Typed(PlanCrons(unread))
  <2>1. "cronjob" \in Resources
    BY DEF Resources
  <2>2. Typed(Diff("cronjob", DOMAIN cfg.crons, LiveCrons))
    BY <1>2, <2>1
  <2>3. \A n, S : Typed({Entry("update", "cronjob", n) : x \in S})
    BY <1>1, <2>1 DEF Changes
  <2>4. \A n : Typed(PlanImage("cronjob", n, CronImage(n), LiveCronImage(n, unread)))
    BY <1>3, <2>1
  <2>5. \A n : Typed(KeyChanges("cron keys", n, cfg.crons[n].secrets, unread))
    BY <1>4
  <2> HIDE DEF Typed
  <2>6. \A A, B : Typed(A) /\ Typed(B) => Typed(A \cup B)
    BY DEF Typed
  <2>7. \A F : (\A S \in F : Typed(S)) => Typed(UNION F)
    BY DEF Typed
  <2>8. \A n : Typed(CronChanges(n, unread))
    <3> SUFFICES ASSUME NEW n PROVE Typed(CronChanges(n, unread))
      OBVIOUS
    <3> DEFINE late == {Entry("update", "cronjob", n) :
                           s \in LiveSchedules(n, unread) \ {cfg.crons[n].schedule}}
    <3>1. Typed(late)
      BY <2>3
    <3> HIDE DEF late
    <3>2. CronChanges(n, unread) =
            late \cup PlanImage("cronjob", n, CronImage(n), LiveCronImage(n, unread))
                 \cup KeyChanges("cron keys", n, cfg.crons[n].secrets, unread)
      BY DEF CronChanges, late
    <3> QED
      BY <2>4, <2>5, <2>6, <3>1, <3>2
  <2> QED
    BY <2>2, <2>6, <2>7, <2>8 DEF PlanCrons
<1>9. Typed(PlanRouteDomains(unread))
  BY <1>2 DEF PlanRouteDomains, Resources
<1>10. Typed(PlanIngress(unread))
  BY <1>1, <1>2 DEF PlanIngress, Resources, Changes
<1> QED
  BY <1>5, <1>6, <1>7, <1>8, <1>9, <1>10 DEF ComputePlan

----------------------------------------------------------------------------
(* The ways a run moves on: what each leaves of TypeInv.                   *)

Work == Names \cup Databases \cup Domains

LEMMA EnterTypes ==
    ASSUME TypeInv, UNCHANGED cfg, NEW p \in Steps, NEW work \in SUBSET Work,
           Enter(p, work),
           p = "databases" => work \subseteq DOMAIN cfg.databases,
           p = "services" => work \subseteq DOMAIN cfg.services,
           p = "crons" => work \subseteq DOMAIN cfg.crons,
           p = "routes" => work \subseteq DOMAIN cfg.domains
    PROVE  RunTypeOK' /\ InRange'
BY DEF TypeInv, TypeOK, RunTypeOK, InRange, Enter, Work

LEMMA FinishTypes ==
    ASSUME TypeInv, NEW o \in {"nochange", "aborted", "failed", "done"}, Finish(o)
    PROVE  RunTypeOK' /\ InRange'
BY DEF TypeInv, TypeOK, RunTypeOK, InRange, Finish, Steps

LEMMA TakeTypes ==
    ASSUME TypeInv, UNCHANGED cfg, NEW n \in todo, Take(n),
           pc \in {"databases", "services", "crons"}
    PROVE  RunTypeOK' /\ InRange'
<1>1. cfg \in Configs
  BY DEF TypeInv, TypeOK, ClusterTypeOK
<1>2. /\ pc = "databases" => n \in DOMAIN cfg.databases
      /\ pc = "services" => n \in DOMAIN cfg.services
      /\ pc = "crons" => n \in DOMAIN cfg.crons
  BY DEF TypeInv, InRange
<1>3. n \in Names \cup Databases
  BY <1>1, <1>2, ConfigDomains
<1>4. RunTypeOK'
  BY <1>3 DEF TypeInv, TypeOK, RunTypeOK, Take
<1>5. InRange'
  BY <1>2 DEF TypeInv, InRange, ObjectCount, Take
<1> QED
  BY <1>4, <1>5

LEMMA ProcessedTypes ==
    ASSUME TypeInv, UNCHANGED cfg, NEW n, NEW urls \in SUBSET Databases,
           Processed(n, urls), pc \notin {"dbsweep", "svcsweep", "cronsweep"}
    PROVE  RunTypeOK' /\ InRange'
BY DEF TypeInv, TypeOK, RunTypeOK, InRange, Processed

LEMMA ContinueTypes ==
    ASSUME TypeInv, UNCHANGED cfg, Continue,
           \/ pc = "databases" /\ item # NoVal /\ step < ObjectCount(item)
           \/ pc = "services" /\ step < 4
           \/ pc = "crons" /\ step < 2
           \/ pc = "dbsweep" /\ step < 5
           \/ pc = "svcsweep" /\ step < 4
           \/ pc = "cronsweep" /\ step < 2
    PROVE  RunTypeOK' /\ InRange'
<1>1. step \in 1..5
  BY DEF TypeInv, TypeOK, RunTypeOK, InRange, ObjectCount
<1>2. RunTypeOK'
  BY <1>1 DEF TypeInv, TypeOK, RunTypeOK, Continue
<1>3. InRange'
  BY <1>1 DEF TypeInv, InRange, ObjectCount, Continue
<1> QED
  BY <1>2, <1>3

\* A step of the outside world alone.
LEMMA StandTypes ==
    ASSUME TypeInv, UNCHANGED <<cfg, runVars>>
    PROVE  RunTypeOK' /\ InRange'
BY DEF TypeInv, TypeOK, RunTypeOK, InRange, ObjectCount, runVars

\* A sweep only takes objects away, and goes through its list in order.
LEMMA SweepTypes ==
    ASSUME TypeInv, NEW owner, NEW list, SweepOrphan(owner, list)
    PROVE  TypeInv'
<1>1. RunTypeOK' /\ InRange'
  BY StandTypes DEF SweepOrphan
<1>2. ClusterTypeOK'
  BY DEF TypeInv, TypeOK, ClusterTypeOK, IsPartial, SweepOrphan, runVars
<1> QED
  BY <1>1, <1>2 DEF TypeInv, TypeOK

LEMMA ClusterStands ==
    ASSUME TypeInv, UNCHANGED <<cfg, clusterVars>>
    PROVE  ClusterTypeOK'
BY DEF TypeInv, TypeOK, ClusterTypeOK, IsPartial, clusterVars

\* Only the objects change.
LEMMA ObjectsTypes ==
    ASSUME TypeInv, objs' \subseteq ObjectSet,
           UNCHANGED <<cfg, servers, webOpen, buckets, records, routes>>
    PROVE  ClusterTypeOK'
BY DEF TypeInv, TypeOK, ClusterTypeOK, IsPartial

LEMMA UpsertTypes ==
    ASSUME objs \subseteq ObjectSet, NEW n \in Names, NEW keys \in SUBSET EnvKeys,
           UpsertSecret(n, keys)
    PROVE  objs' \subseteq ObjectSet
BY SecretType, AppliedType DEF UpsertSecret

LEMMA PruneTypes ==
    ASSUME objs \subseteq ObjectSet, NEW n \in Names, NEW keys \in SUBSET EnvKeys,
           PruneKey(n, keys) \/ PruneDone(n, keys)
    PROVE  objs' \subseteq ObjectSet
<1>1. CASE PruneDone(n, keys)
  BY <1>1 DEF PruneDone
<1>2. CASE PruneKey(n, keys)
  <2>1. SecretKeys(n) \in SUBSET EnvKeys
    BY DEF SecretKeys, Get, ObjectSet
  <2>2. \A ks \in SUBSET EnvKeys : SetKeys(n, ks) \subseteq ObjectSet
    <3> SUFFICES ASSUME NEW ks \in SUBSET EnvKeys,
                        NEW o \in Get("Secret", "app-secrets", n)
                 PROVE  [o EXCEPT !.keys = ks] \in ObjectSet
      BY DEF SetKeys
    <3>1. o \in ObjectSet
      BY DEF Get
    <3> QED
      BY <3>1 DEF ObjectSet
  <2>3. PICK k : objs' = (objs \ Get("Secret", "app-secrets", n))
                            \cup SetKeys(n, SecretKeys(n) \ {k})
    BY <1>2 DEF PruneKey
  <2> QED
    BY <2>1, <2>2, <2>3
<1> QED
  BY <1>1, <1>2

----------------------------------------------------------------------------
(* One lemma per group of steps.                                           *)

LEMMA BetweenRunsTypes ==
    ASSUME TypeInv,
           \/ \E c \in Configs : Edit(c)
           \/ \E h \in Hashes : Begin(h)
           \/ Declined \/ Abort \/ Decide
    PROVE  TypeInv'
<1>1. ASSUME NEW c \in Configs, Edit(c) PROVE TypeInv'
  BY <1>1 DEF Edit, TypeInv, TypeOK, ClusterTypeOK, RunTypeOK, InRange,
              IsPartial, clusterVars
<1>2. ASSUME NEW h \in Hashes, Begin(h) PROVE TypeInv'
  <2>1. ClusterTypeOK'
    BY <1>2, ClusterStands DEF Begin
  <2>2. RunTypeOK' /\ InRange'
    BY <1>2 DEF Begin, TypeInv, TypeOK, RunTypeOK, InRange, Steps
  <2> QED
    BY <2>1, <2>2 DEF TypeInv, TypeOK
<1>3. ASSUME NEW o \in {"nochange", "aborted", "failed", "done"}, Finish(o),
             UNCHANGED <<cfg, clusterVars>>
      PROVE  TypeInv'
  BY <1>3, FinishTypes, ClusterStands DEF TypeInv, TypeOK
<1>4. CASE Declined \/ Abort \/ PlanFails \/ NoChanges
  BY <1>3, <1>4 DEF Declined, Abort, PlanFails, NoChanges
<1>5. CASE Proceed
  <2>1. ClusterTypeOK'
    BY <1>5, ClusterStands DEF Proceed
  <2>2. RunTypeOK'
    BY <1>5, PlanType DEF Proceed, TypeInv, TypeOK, RunTypeOK, Steps
  <2>3. InRange'
    BY <1>5 DEF Proceed, TypeInv, InRange
  <2> QED
    BY <2>1, <2>2, <2>3 DEF TypeInv, TypeOK
<1> QED
  BY <1>1, <1>2, <1>4, <1>5 DEF Decide

LEMMA InfraTypes ==
    ASSUME TypeInv, InfraStep
    PROVE  TypeInv'
<1>1. ASSUME NEW s \in Servers, EnsureServer(s) PROVE TypeInv'
  BY <1>1, StandTypes DEF EnsureServer, TypeInv, TypeOK, ClusterTypeOK, IsPartial
<1>2. ASSUME NEW s \in Servers, DeleteServer(s) PROVE TypeInv'
  BY <1>2, StandTypes DEF DeleteServer, TypeInv, TypeOK, ClusterTypeOK, IsPartial
<1>3. CASE ApplyFirewall
  <2>1. RunTypeOK' /\ InRange'
    BY <1>3, EnterTypes DEF ApplyFirewall, Steps, Work
  <2>2. ClusterTypeOK'
    BY <1>3 DEF ApplyFirewall, WebWanted, TypeInv, TypeOK, ClusterTypeOK, IsPartial
  <2> QED
    BY <2>1, <2>2 DEF TypeInv, TypeOK
<1>4. CASE TornDown
  <2>1. ClusterTypeOK'
    BY <1>4, ClusterStands DEF TornDown
  <2>2. DOMAIN cfg.domains \in SUBSET Work
    BY ConfigDomains DEF TypeInv, TypeOK, ClusterTypeOK, Work
  <2>3. CASE WebWanted
    <3>1. Enter("routes", DOMAIN cfg.domains)
      BY <1>4, <2>3 DEF TornDown
    <3> QED
      BY <1>4, <2>1, <2>2, <3>1, EnterTypes DEF TornDown, Steps, TypeInv, TypeOK
  <2>4. CASE ~ WebWanted
    <3>1. Finish("done")
      BY <1>4, <2>4 DEF TornDown
    <3> QED
      BY <2>1, <3>1, FinishTypes DEF TypeInv, TypeOK
  <2> QED
    BY <2>3, <2>4
<1> QED
  BY <1>1, <1>2, <1>3, <1>4 DEF InfraStep

LEMMA PullSecretType ==
    ASSUME TypeInv
    PROVE  PullSecretApplied \subseteq ObjectSet
<1>1. objs \subseteq ObjectSet
  BY DEF TypeInv, TypeOK, ClusterTypeOK
<1>2. Object("Secret", "registry-auth", NoVal, "registries") \in ObjectSet
  BY ObjectType DEF Kinds, Roles, Owners
<1> QED
  BY <1>1, <1>2, AppliedType DEF PullSecretApplied

LEMMA RegistriesTypes ==
    ASSUME TypeInv, RegistriesStep
    PROVE  TypeInv'
<1>1. /\ DOMAIN cfg.databases \in SUBSET Work
      /\ DOMAIN cfg.services \in SUBSET Work
      /\ DOMAIN cfg.databases \subseteq Databases
  BY ConfigDomains DEF TypeInv, TypeOK, ClusterTypeOK, Work
<1>2. CASE RegistriesLoud
  <2>1. ClusterTypeOK'
    BY <1>2, PullSecretType, ObjectsTypes DEF RegistriesLoud
  <2>2. RunTypeOK' /\ InRange'
    BY <1>1, <1>2, EnterTypes DEF RegistriesLoud, Steps
  <2> QED
    BY <2>1, <2>2 DEF TypeInv, TypeOK
<1>3. ASSUME NEW u \in SUBSET Databases, RegistriesQuiet(u) PROVE TypeInv'
  <2>1. ClusterTypeOK'
    BY <1>3, PullSecretType, ObjectsTypes DEF RegistriesQuiet
  <2>2. sources' \subseteq Databases
    BY <1>1, <1>3 DEF RegistriesQuiet, WithCredentials
  <2>3. RunTypeOK'
    BY <1>1, <1>3, <2>2 DEF RegistriesQuiet, TypeInv, TypeOK, RunTypeOK, Steps, Work
  <2>4. InRange'
    <3>1. pc = "registries" /\ pc' = "services" /\ todo' = DOMAIN cfg'.services
      BY <1>3 DEF RegistriesQuiet
    <3>2. item' = NoVal
      BY <1>3 DEF RegistriesQuiet, TypeInv, InRange
    <3> QED
      BY <3>1, <3>2 DEF InRange
  <2> QED
    BY <2>1, <2>3, <2>4 DEF TypeInv, TypeOK
<1> QED
  BY <1>2, <1>3 DEF RegistriesStep

LEMMA DatabasesTypes ==
    ASSUME TypeInv, DatabasesStep
    PROVE  TypeInv'
<1> USE DEF Steps
<1>0. /\ cfg \in Configs /\ objs \subseteq ObjectSet
      /\ DOMAIN cfg.databases \subseteq Databases
      /\ DOMAIN cfg.services \in SUBSET Work
  BY ConfigDomains DEF TypeInv, TypeOK, ClusterTypeOK, Work
<1>1. ASSUME NEW d \in Databases, SkipDrifted(d) PROVE TypeInv'
  <2>1. ClusterTypeOK'
    BY <1>1, ClusterStands DEF SkipDrifted
  <2>2. Processed(d, {d}) \/ Finish("failed")
    BY <1>1 DEF SkipDrifted
  <2>3. RunTypeOK' /\ InRange'
    BY <1>1, <2>2, ProcessedTypes, FinishTypes DEF SkipDrifted
  <2> QED
    BY <2>1, <2>3 DEF TypeInv, TypeOK
<1>2. ASSUME NEW d \in Databases, StartDatabase(d) PROVE TypeInv'
  <2>1. RunTypeOK' /\ InRange'
    BY <1>2, TakeTypes DEF StartDatabase
  <2>2. ClusterTypeOK'
    BY <1>2 DEF StartDatabase, TypeInv, TypeOK, ClusterTypeOK, IsPartial
  <2> QED
    BY <2>1, <2>2 DEF TypeInv, TypeOK
<1>3. CASE ApplyDatabase
  <2>1. /\ item \in DOMAIN cfg.databases /\ item # NoVal
        /\ step \in 1..ObjectCount(item)
    BY <1>3 DEF ApplyDatabase, TypeInv, InRange
  <2>2. DatabaseObjects(item)[step] \in ObjectSet
    BY <1>0, <2>1, DatabaseObjectType, DatabaseObjectsLength
  <2>3. ClusterTypeOK'
    BY <1>0, <1>3, <2>2, AppliedType, ObjectsTypes DEF ApplyDatabase
  <2>4. CASE Continue /\ step < ObjectCount(item)
    <3>1. RunTypeOK' /\ InRange'
      BY <1>3, <2>1, <2>4, ContinueTypes DEF ApplyDatabase
    <3> QED
      BY <2>3, <3>1 DEF TypeInv, TypeOK
  <2>5. CASE Processed(item, {item})
    <3>1. RunTypeOK' /\ InRange'
      BY <1>0, <1>3, <2>1, <2>5, ProcessedTypes DEF ApplyDatabase
    <3> QED
      BY <2>3, <3>1 DEF TypeInv, TypeOK
  <2> QED
    BY <1>3, <2>4, <2>5, DatabaseObjectsLength DEF ApplyDatabase
<1>4. CASE DatabasesApplied
  <2>1. ClusterTypeOK'
    BY <1>4, ClusterStands DEF DatabasesApplied
  <2>2. RunTypeOK' /\ InRange'
    BY <1>4, EnterTypes DEF DatabasesApplied
  <2> QED
    BY <2>1, <2>2 DEF TypeInv, TypeOK
<1>5. CASE SweepDatabases
  <2>0. Len(DatabaseSweeps) = 5
    BY DEF DatabaseSweeps
  <2>1. CASE SweepOrphan("databases", DatabaseSweeps)
    BY <2>1, SweepTypes
  <2>2. CASE SweepNext("databases", DatabaseSweeps)
    <3>1. UNCHANGED <<cfg, clusterVars>> /\ Continue /\ step < 5
      BY <2>0, <2>2 DEF SweepNext, SweptKind
    <3>2. RunTypeOK' /\ InRange'
      BY <1>5, <3>1, ContinueTypes DEF SweepDatabases
    <3> QED
      BY <3>1, <3>2, ClusterStands DEF TypeInv, TypeOK
  <2>3. CASE /\ SweepDone("databases", DatabaseSweeps)
             /\ Enter("services", DOMAIN cfg.services)
    <3>1. UNCHANGED <<cfg, clusterVars>>
      BY <2>3 DEF SweepDone, SweptKind
    <3>2. RunTypeOK' /\ InRange'
      BY <1>0, <2>3, <3>1, EnterTypes
    <3> QED
      BY <3>1, <3>2, ClusterStands DEF TypeInv, TypeOK
  <2> QED
    BY <1>5, <2>1, <2>2, <2>3 DEF SweepDatabases
<1>6. ASSUME NEW b \in Buckets, EnsureBucket(b) PROVE TypeInv'
  BY <1>6, StandTypes DEF EnsureBucket, TypeInv, TypeOK, ClusterTypeOK, IsPartial
<1> QED
  BY <1>1, <1>2, <1>3, <1>4, <1>5, <1>6 DEF DatabasesStep

LEMMA ServiceKeysType ==
    ASSUME TypeInv, NEW n \in DOMAIN cfg.services
    PROVE  n \in Names /\ ServiceKeys(n) \in SUBSET EnvKeys
BY ServiceTypes DEF ServiceKeys, ServiceDef, EnvKeys,
                    TypeInv, TypeOK, ClusterTypeOK, RunTypeOK

LEMMA ServicesTypes ==
    ASSUME TypeInv, ServicesStep
    PROVE  TypeInv'
<1> USE DEF Steps
<1>0. /\ cfg \in Configs /\ objs \subseteq ObjectSet
      /\ DOMAIN cfg.crons \in SUBSET Work
      /\ pc = "services" => todo \subseteq DOMAIN cfg.services
      /\ pc = "services" /\ item # NoVal => item \in DOMAIN cfg.services
  BY ConfigDomains DEF TypeInv, TypeOK, ClusterTypeOK, InRange, Work
<1>1. ASSUME NEW n \in Names, StartService(n) PROVE TypeInv'
  <2>1. n \in DOMAIN cfg.services
    BY <1>0, <1>1 DEF StartService
  <2>2. objs' \subseteq ObjectSet
    BY <1>0, <1>1, <2>1, ServiceKeysType, UpsertTypes DEF StartService
  <2>3. RunTypeOK' /\ InRange'
    BY <1>1, TakeTypes DEF StartService
  <2> QED
    BY <1>1, <2>2, <2>3, ObjectsTypes DEF StartService, TypeInv, TypeOK
<1>2. CASE PruneServiceSecret
  <2>1. /\ PruneKey(item, ServiceKeys(item)) \/ PruneDone(item, ServiceKeys(item))
        /\ item \in DOMAIN cfg.services
        /\ pc = "services" /\ step = 1
        /\ UNCHANGED <<cfg, servers, webOpen, buckets, records, routes>>
    BY <1>0, <1>2 DEF PruneServiceSecret, PruneSecret
  <2>2. ClusterTypeOK'
    BY <1>0, <2>1, ServiceKeysType, PruneTypes, ObjectsTypes
  <2>3. UNCHANGED runVars \/ Continue
    BY <2>1 DEF PruneKey, PruneDone
  <2>4. RunTypeOK' /\ InRange'
    BY <2>1, <2>3, StandTypes, ContinueTypes
  <2> QED
    BY <2>2, <2>4 DEF TypeInv, TypeOK
<1>3. CASE ApplyWorkload
  <2>1. objs' \subseteq ObjectSet
    BY <1>0, <1>3, WorkloadType, AppliedType DEF ApplyWorkload, TypeInv
  <2>2. RunTypeOK' /\ InRange'
    BY <1>3, ContinueTypes DEF ApplyWorkload
  <2> QED
    BY <1>3, <2>1, <2>2, ObjectsTypes DEF ApplyWorkload, TypeInv, TypeOK
<1>4. CASE ApplyKubeService
  <2>1. item \in Names
    BY <1>0, <1>4, ServiceKeysType DEF ApplyKubeService
  <2>2. objs' \subseteq ObjectSet
    BY <1>0, <1>4, <2>1, ObjectType, AppliedType
       DEF ApplyKubeService, Kinds, Roles, Owners
  <2>3. RunTypeOK' /\ InRange'
    BY <1>4, ContinueTypes DEF ApplyKubeService
  <2> QED
    BY <1>4, <2>2, <2>3, ObjectsTypes DEF ApplyKubeService, TypeInv, TypeOK
<1>5. CASE RolloutReady
  <2>1. RunTypeOK' /\ InRange'
    BY <1>5, ProcessedTypes DEF RolloutReady
  <2> QED
    BY <1>5, <2>1, ClusterStands DEF RolloutReady, TypeInv, TypeOK
<1>6. CASE ServicesApplied
  <2>1. RunTypeOK' /\ InRange'
    BY <1>6, EnterTypes DEF ServicesApplied
  <2> QED
    BY <1>6, <2>1, ClusterStands DEF ServicesApplied, TypeInv, TypeOK
<1>7. CASE SweepServices
  <2>0. Len(ServiceSweeps) = 4
    BY DEF ServiceSweeps
  <2>1. CASE SweepOrphan("services", ServiceSweeps)
    BY <2>1, SweepTypes
  <2>2. CASE SweepNext("services", ServiceSweeps)
    <3>1. UNCHANGED <<cfg, clusterVars>> /\ Continue /\ step < 4
      BY <2>0, <2>2 DEF SweepNext, SweptKind
    <3>2. RunTypeOK' /\ InRange'
      BY <1>7, <3>1, ContinueTypes DEF SweepServices
    <3> QED
      BY <3>1, <3>2, ClusterStands DEF TypeInv, TypeOK
  <2>3. CASE /\ SweepDone("services", ServiceSweeps)
             /\ Enter("crons", DOMAIN cfg.crons)
    <3>1. UNCHANGED <<cfg, clusterVars>>
      BY <2>3 DEF SweepDone, SweptKind
    <3>2. RunTypeOK' /\ InRange'
      BY <1>0, <2>3, <3>1, EnterTypes
    <3> QED
      BY <3>1, <3>2, ClusterStands DEF TypeInv, TypeOK
  <2> QED
    BY <1>7, <2>1, <2>2, <2>3 DEF SweepServices
<1> QED
  BY <1>1, <1>2, <1>3, <1>4, <1>5, <1>6, <1>7 DEF ServicesStep

LEMMA CronsTypes ==
    ASSUME TypeInv, CronsStep
    PROVE  TypeInv'
<1> USE DEF Steps
<1>0. /\ cfg \in Configs /\ objs \subseteq ObjectSet
      /\ pc = "crons" => todo \subseteq DOMAIN cfg.crons
      /\ pc = "crons" /\ item # NoVal => item \in DOMAIN cfg.crons
  BY DEF TypeInv, TypeOK, ClusterTypeOK, InRange
<1>1. \A n \in DOMAIN cfg.crons : n \in Names /\ cfg.crons[n].secrets \in SUBSET EnvKeys
  BY <1>0, CronTypes DEF CronDef, EnvKeys
<1>2. ASSUME NEW n \in Names, StartCron(n) PROVE TypeInv'
  <2>1. n \in DOMAIN cfg.crons
    BY <1>0, <1>2 DEF StartCron
  <2>2. objs' \subseteq ObjectSet
    BY <1>0, <1>1, <1>2, <2>1, UpsertTypes DEF StartCron
  <2>3. RunTypeOK' /\ InRange'
    BY <1>2, TakeTypes DEF StartCron
  <2> QED
    BY <1>2, <2>2, <2>3, ObjectsTypes DEF StartCron, TypeInv, TypeOK
<1>3. CASE PruneCronSecret
  <2> DEFINE keys == cfg.crons[item].secrets
  <2>1. /\ PruneKey(item, keys) \/ PruneDone(item, keys)
        /\ item \in DOMAIN cfg.crons
        /\ pc = "crons" /\ step = 1
        /\ UNCHANGED <<cfg, servers, webOpen, buckets, records, routes>>
    BY <1>0, <1>3 DEF PruneCronSecret, PruneSecret
  <2>2. ClusterTypeOK'
    BY <1>0, <1>1, <2>1, PruneTypes, ObjectsTypes
  <2>3. UNCHANGED runVars \/ Continue
    BY <2>1 DEF PruneKey, PruneDone
  <2>4. RunTypeOK' /\ InRange'
    BY <2>1, <2>3, StandTypes, ContinueTypes
  <2> QED
    BY <2>2, <2>4 DEF TypeInv, TypeOK
<1>4. CASE ApplyCron
  <2>1. objs' \subseteq ObjectSet
    BY <1>0, <1>4, CronJobType, AppliedType DEF ApplyCron, TypeInv
  <2>2. RunTypeOK' /\ InRange'
    BY <1>4, ProcessedTypes DEF ApplyCron
  <2> QED
    BY <1>4, <2>1, <2>2, ObjectsTypes DEF ApplyCron, TypeInv, TypeOK
<1>5. CASE CronsApplied
  <2>1. RunTypeOK' /\ InRange'
    BY <1>5, EnterTypes DEF CronsApplied
  <2> QED
    BY <1>5, <2>1, ClusterStands DEF CronsApplied, TypeInv, TypeOK
<1>6. CASE SweepCrons
  <2>0. Len(CronSweeps) = 2
    BY DEF CronSweeps
  <2>1. CASE SweepOrphan("crons", CronSweeps)
    BY <2>1, SweepTypes
  <2>2. CASE SweepNext("crons", CronSweeps)
    <3>1. UNCHANGED <<cfg, clusterVars>> /\ Continue /\ step < 2
      BY <2>0, <2>2 DEF SweepNext, SweptKind
    <3>2. RunTypeOK' /\ InRange'
      BY <1>6, <3>1, ContinueTypes DEF SweepCrons
    <3> QED
      BY <3>1, <3>2, ClusterStands DEF TypeInv, TypeOK
  <2>3. CASE SweepDone("crons", CronSweeps) /\ AfterCrons
    <3>1. UNCHANGED <<cfg, clusterVars>>
      BY <2>3 DEF SweepDone, SweptKind
    <3>2. \/ Enter("teardown", {}) \/ Enter("caddy", {}) \/ Finish("done")
      BY <2>3 DEF AfterCrons
    <3>3. RunTypeOK' /\ InRange'
      BY <3>1, <3>2, EnterTypes, FinishTypes
    <3> QED
      BY <3>1, <3>3, ClusterStands DEF TypeInv, TypeOK
  <2> QED
    BY <1>6, <2>1, <2>2, <2>3 DEF SweepCrons
<1> QED
  BY <1>2, <1>3, <1>4, <1>5, <1>6 DEF CronsStep

LEMMA IngressTypes ==
    ASSUME TypeInv, IngressStep
    PROVE  TypeInv'
<1> USE DEF Steps
<1>0. /\ cfg \in Configs /\ objs \subseteq ObjectSet
      /\ IsPartial(routes, Domains, Names)
  BY DEF TypeInv, TypeOK, ClusterTypeOK
<1>1. ASSUME NEW w \in Domains, RouteTo(w) \/ Unroute(w) PROVE TypeInv'
  <2>1. RunTypeOK' /\ InRange'
    BY <1>1, ProcessedTypes DEF RouteTo, Unroute
  <2>2. ClusterTypeOK'
    BY <1>1 DEF RouteTo, Unroute, TypeInv, TypeOK, ClusterTypeOK, IsPartial
  <2> QED
    BY <2>1, <2>2 DEF TypeInv, TypeOK
<1>2. CASE AllRouted
  <2>1. \A unread : ServedDomains("unroute", unread) \ DOMAIN cfg.domains \in SUBSET Work
    BY <1>0 DEF IsPartial, Work, ServedDomains
  <2>2. RunTypeOK' /\ InRange'
    BY <1>2, <2>1, EnterTypes DEF AllRouted
  <2> QED
    BY <1>2, <2>2, ClusterStands DEF AllRouted, TypeInv, TypeOK
<1>3. CASE AllUnrouted
  <2>1. RunTypeOK' /\ InRange'
    BY <1>3, EnterTypes DEF AllUnrouted
  <2> QED
    BY <1>3, <2>1, ClusterStands DEF AllUnrouted, TypeInv, TypeOK
<1>4. CASE EnsureCaddy
  <2>1. objs' \subseteq ObjectSet
    BY <1>0, <1>4, ObjectType, AppliedType DEF EnsureCaddy, Kinds, Roles, Owners
  <2>2. RunTypeOK' /\ InRange'
    BY <1>4, EnterTypes DEF EnsureCaddy
  <2> QED
    BY <1>4, <2>1, <2>2, ObjectsTypes DEF EnsureCaddy, TypeInv, TypeOK
<1>5. CASE ReloadCaddy
  <2>1. RunTypeOK' /\ InRange'
    BY <1>5, FinishTypes DEF ReloadCaddy
  <2>2. IsPartial(routes, Domains, Names)'
    BY <1>0, <1>5, ConfigDomains DEF ReloadCaddy, IsPartial
  <2>3. ClusterTypeOK'
    BY <1>5, <2>2 DEF ReloadCaddy, TypeInv, TypeOK, ClusterTypeOK
  <2> QED
    BY <2>1, <2>3 DEF TypeInv, TypeOK
<1> QED
  BY <1>1, <1>2, <1>3, <1>4, <1>5 DEF IngressStep

----------------------------------------------------------------------------

\* A run starts with a clean slate.
LEMMA InitTypes == Init => TypeInv
<1> SUFFICES ASSUME Init PROVE TypeInv
  OBVIOUS
<1>1. ClusterTypeOK
  <2>1. IsPartial(<<>>, Domains, Names)
    <3>1. DOMAIN <<>> = {} /\ <<>> = [x \in {} |-> x]
      OBVIOUS
    <3> QED
      BY <3>1 DEF IsPartial
  <2> QED
    BY <2>1, ServersAssumption DEF Init, ClusterInit, ClusterTypeOK
<1>2. RunTypeOK /\ InRange
  BY DEF Init, RunTypeOK, InRange, Steps
<1> QED
  BY <1>1, <1>2 DEF TypeInv, TypeOK

LEMMA StepTypes == TypeInv /\ [Next]_vars => TypeInv'
<1> SUFFICES ASSUME TypeInv, [Next]_vars PROVE TypeInv'
  OBVIOUS
<1>1. CASE UNCHANGED vars
  BY <1>1, StandTypes, ClusterStands DEF vars, TypeInv, TypeOK
<1>2. CASE Next
  BY <1>2, BetweenRunsTypes, InfraTypes, RegistriesTypes, DatabasesTypes,
     ServicesTypes, CronsTypes, IngressTypes DEF Next, Run
<1> QED
  BY <1>1, <1>2

\* Every run of nvoi deploy, however it is disturbed and whatever it finds,
\* keeps its state well formed: no step indexes past its list of writes,
\* works on a workload or database nvoi.yaml does not declare, or writes an
\* object of another shape.
THEOREM TypeCorrect == Spec => []TypeOK
<1>1. TypeInv => TypeOK
  BY DEF TypeInv
<1> QED
  BY <1>1, InitTypes, StepTypes, PTL DEF Spec

----------------------------------------------------------------------------
(***************************************************************************)
(* Data stays where it is.                                                 *)
(*                                                                         *)
(* DatabasePinned is not inductive.  A sweep spares what it should because *)
(* of two facts about the state: the data objects carry the owner label    *)
(* "databases", so no other step's sweep lists them, and the sweep of the  *)
(* databases is always at one of its five kinds.  The apply of a database  *)
(* spares a live StatefulSet because the drift that was ruled out when the *)
(* database was taken up is still ruled out when the StatefulSet is        *)
(* written, four writes later.                                             *)
(***************************************************************************)
DataOwned ==
    \A o \in objs, d \in Databases : DataOf(o, d) => o.owner = "databases"

\* A database that has been taken up is where it is declared to be.
Settled == pc = "databases" /\ item # NoVal => ~ Drifted(item)

IInv == TypeInv /\ DataOwned /\ Settled

\* What DatabasePinned says of a step.
DataKept ==
    \A d \in DOMAIN cfg.databases, o \in objs :
        DataOf(o, d) => \E p \in objs' : SameObject(o, p) /\ p.node = o.node

----------------------------------------------------------------------------
(* Writes of the steps other than Databases.                               *)

\* An applied object that holds no data disturbs none.
LEMMA AppliedElsewhere ==
    ASSUME NEW o, o.kind # "PVC", \A d \in Databases : ~ DataOf(o, d),
           objs' = Applied(o), cfg \in Configs, DataOwned
    PROVE  DataKept /\ DataOwned'
<1>1. objs' = {p \in objs : ~ SameObject(o, p)} \cup {o}
  BY DEF Applied
<1>2. \A p \in objs, d \in Databases : DataOf(p, d) => ~ SameObject(o, p)
  BY DEF DataOf, SameObject
<1>3. DataKept
  BY <1>1, <1>2, ConfigDomains DEF DataKept, SameObject
<1>4. DataOwned'
  BY <1>1 DEF DataOwned, DataOf
<1> QED
  BY <1>3, <1>4

\* Nor does the removal of one.
LEMMA RemovedElsewhere ==
    ASSUME NEW S, \A o \in S : \A d \in Databases : ~ DataOf(o, d),
           objs' = objs \ S, cfg \in Configs, DataOwned
    PROVE  DataKept /\ DataOwned'
BY ConfigDomains DEF DataKept, DataOwned, DataOf, SameObject

\* Nor does a step that writes no object.
LEMMA UnchangedData ==
    ASSUME UNCHANGED objs, DataOwned
    PROVE  DataKept /\ DataOwned'
BY DEF DataKept, DataOwned, DataOf, SameObject

\* The steps other than Databases write Secrets, workloads of services and
\* crons, and Caddy: none of these holds the data of a database.
LEMMA OtherObjects ==
    ASSUME NEW kind \in Kinds \ {"PVC"}, NEW role \in Roles \ {"db"}, NEW base,
           NEW owner, NEW o, o.kind = kind, o.name = <<role, base>>
    PROVE  o.kind # "PVC" /\ \A d \in Databases : ~ DataOf(o, d)
BY DEF DataOf, Kinds, Roles

\* A sweep for another owner.
LEMMA SweptElsewhere ==
    ASSUME NEW owner, NEW list, owner # "databases",
           SweepOrphan(owner, list) \/ UNCHANGED objs,
           cfg \in Configs, DataOwned
    PROVE  DataKept /\ DataOwned'
<1>1. CASE UNCHANGED objs
  BY <1>1, UnchangedData
<1>2. CASE SweepOrphan(owner, list)
  <2>1. PICK o \in Left(owner, list) : objs' = objs \ {o}
    BY <1>2 DEF SweepOrphan
  <2>2. o \in objs /\ o.owner = owner
    BY <2>1 DEF Left, Orphans
  <2>3. \A d \in Databases : ~ DataOf(o, d)
    BY <2>2 DEF DataOwned
  <2> QED
    BY <2>1, <2>3, RemovedElsewhere
<1> QED
  BY <1>1, <1>2

LEMMA PullSecretElsewhere ==
    ASSUME objs' = PullSecretApplied, cfg \in Configs, DataOwned
    PROVE  DataKept /\ DataOwned'
<1>1. CASE cfg.registry
  <2> DEFINE o == Object("Secret", "registry-auth", NoVal, "registries")
  <2>1. o.kind = "Secret" /\ o.name = <<"registry-auth", NoVal>>
    BY DEF Object
  <2>2. objs' = Applied(o)
    BY <1>1 DEF PullSecretApplied
  <2>3. o.kind # "PVC" /\ \A d \in Databases : ~ DataOf(o, d)
    BY <2>1 DEF DataOf
  <2> QED
    BY <2>2, <2>3, AppliedElsewhere
<1>2. CASE ~ cfg.registry
  <2> DEFINE S == Get("Secret", "registry-auth", NoVal)
  <2>1. \A o \in S : \A d \in Databases : ~ DataOf(o, d)
    BY DEF Get, DataOf
  <2>2. objs' = objs \ S
    BY <1>2 DEF PullSecretApplied
  <2> QED
    BY <2>1, <2>2, RemovedElsewhere
<1> QED
  BY <1>1, <1>2

\* upsertServiceSecrets: the write or deletion of the Secret, and the pruning.
LEMMA UpsertElsewhere ==
    ASSUME NEW n, NEW keys, UpsertSecret(n, keys), cfg \in Configs, DataOwned
    PROVE  DataKept /\ DataOwned'
<1>1. CASE keys = {}
  <2> DEFINE S == Get("Secret", "app-secrets", n)
  <2>1. \A o \in S : \A d \in Databases : ~ DataOf(o, d)
    BY DEF Get, DataOf
  <2>2. objs' = objs \ S
    BY <1>1 DEF UpsertSecret
  <2> QED
    BY <2>1, <2>2, RemovedElsewhere
<1>2. CASE keys # {}
  <2> DEFINE o == SecretWith("app-secrets", n, "services", keys)
  <2>1. o.kind = "Secret" /\ o.name = <<"app-secrets", n>>
    BY DEF SecretWith, Object
  <2>2. o.kind # "PVC" /\ \A d \in Databases : ~ DataOf(o, d)
    BY <2>1 DEF DataOf
  <2>3. objs' = Applied(o)
    BY <1>2 DEF UpsertSecret
  <2> QED
    BY <2>2, <2>3, AppliedElsewhere
<1> QED
  BY <1>1, <1>2

LEMMA PruneElsewhere ==
    ASSUME NEW n, NEW keys, PruneSecret(n, keys), TypeOK, DataOwned
    PROVE  DataKept /\ DataOwned'
<1>1. CASE PruneDone(n, keys)
  BY <1>1, UnchangedData DEF PruneDone
<1>2. CASE PruneKey(n, keys)
  <2>1. PICK k : objs' = (objs \ Get("Secret", "app-secrets", n))
                            \cup SetKeys(n, SecretKeys(n) \ {k})
    BY <1>2 DEF PruneKey
  <2>2. \A o \in SetKeys(n, SecretKeys(n) \ {k}) :
            \A d \in Databases : ~ DataOf(o, d)
    <3>1. \A p \in Get("Secret", "app-secrets", n) : \A ks :
             [p EXCEPT !.keys = ks].kind = "Secret"
      BY DEF Get, ObjectSet, TypeOK, ClusterTypeOK
    <3> QED
      BY <3>1 DEF SetKeys, DataOf
  <2>3. \A o \in Get("Secret", "app-secrets", n) :
            \A d \in Databases : ~ DataOf(o, d)
    BY DEF Get, DataOf
  <2> QED
    BY <2>1, <2>2, <2>3, ConfigDomains
       DEF DataKept, DataOwned, SameObject, TypeOK, ClusterTypeOK
<1> QED
  BY <1>1, <1>2 DEF PruneSecret

----------------------------------------------------------------------------
(* Databases.                                                              *)

\* What Databases writes of a database: data objects under its own name,
\* the StatefulSet on the declared server.
LEMMA DatabaseObjectFacts ==
    ASSUME NEW d, NEW i \in 1..ObjectCount(d)
    PROVE  LET o == DatabaseObjects(d)[i]
           IN  /\ o.owner = "databases" /\ o.name[2] = d
               /\ o.kind = "StatefulSet" => o.node = cfg.databases[d].server
<1> DEFINE of(kind, role) == Object(kind, role, d, "databases")
           pinned == [of("StatefulSet", "db") EXCEPT !.node = cfg.databases[d].server]
           Fits(o) == /\ o.owner = "databases" /\ o.name[2] = d
                      /\ o.kind = "StatefulSet" => o.node = cfg.databases[d].server
<1>1. \A kind, role : kind # "StatefulSet" => Fits(of(kind, role))
  BY DEF Object
<1>2. Fits(pinned)
  BY DEF Object
<1>3. /\ Fits(of("Secret", "db-backup-creds")) /\ Fits(of("Secret", "db-credentials"))
      /\ Fits(of("Service", "db")) /\ Fits(of("PVC", "db-data"))
      /\ Fits(of("CronJob", "db-backup"))
  BY <1>1
<1> HIDE DEF of, pinned, Fits
<1>4. DatabaseObjects(d) =
        IF cfg.databases[d].backup
        THEN <<of("Secret", "db-backup-creds"), of("Secret", "db-credentials"),
               of("Service", "db"), of("PVC", "db-data"), pinned,
               of("CronJob", "db-backup")>>
        ELSE <<of("Secret", "db-credentials"),
               of("Service", "db"), of("PVC", "db-data"), pinned>>
  BY DEF DatabaseObjects, of, pinned
<1>5. Fits(DatabaseObjects(d)[i])
  <2>1. CASE cfg.databases[d].backup
    BY <1>2, <1>3, <1>4, <2>1 DEF ObjectCount
  <2>2. CASE ~ cfg.databases[d].backup
    BY <1>2, <1>3, <1>4, <2>2 DEF ObjectCount
  <2> QED
    BY <2>1, <2>2
<1> QED
  BY <1>5 DEF Fits

\* The next write of a database that is settled.
LEMMA ApplyKeepsData ==
    ASSUME IInv, ApplyDatabase
    PROVE  DataKept /\ DataOwned' /\ Settled'
<1> DEFINE o == DatabaseObjects(item)[step]
<1>1. /\ item \in DOMAIN cfg.databases
      /\ step \in 1..ObjectCount(item)
      /\ ~ Drifted(item)
      /\ UNCHANGED cfg
      /\ DOMAIN cfg.databases \subseteq Databases
  BY ConfigDomains DEF IInv, ApplyDatabase, TypeInv, TypeOK, ClusterTypeOK,
                       InRange, Settled
<1>2. /\ o.owner = "databases" /\ o.name[2] = item
      /\ o.kind = "StatefulSet" => o.node = cfg.databases[item].server
  BY <1>1, DatabaseObjectFacts
<1>3. objs' = Applied(o)
  BY DEF ApplyDatabase
<1> HIDE DEF o
<1>4. CASE objs' = objs
  <2>1. DataKept /\ DataOwned'
    BY <1>4, UnchangedData DEF IInv
  <2>2. Settled'
    BY <1>1, <1>4 DEF Settled, Drifted, Get, ApplyDatabase, Continue, Processed
  <2> QED
    BY <2>1, <2>2
<1>5. CASE /\ objs' = {p \in objs : ~ SameObject(o, p)} \cup {o}
           /\ \A p \in objs : SameObject(o, p) => o.kind # "PVC"
  <2>1. ASSUME NEW p \in objs, NEW d \in Databases, DataOf(p, d), SameObject(o, p)
        PROVE  p.node = o.node
    <3>1. o.kind = "StatefulSet" /\ d = item
      BY <1>2, <1>5, <2>1 DEF DataOf, SameObject
    <3>2. p.kind = "StatefulSet" /\ p.name = <<"db", item>>
      BY <2>1, <3>1 DEF DataOf, SameObject
    <3> QED
      BY <1>1, <1>2, <3>1, <3>2 DEF Drifted, Get
  <2>2. DataKept
    BY <1>1, <1>5, <2>1 DEF DataKept, SameObject
  <2>3. DataOwned'
    BY <1>2, <1>5 DEF DataOwned, DataOf, IInv
  <2>4. \A p \in objs' : p.kind = "StatefulSet" /\ p.name = <<"db", item>>
                            => p.node = cfg.databases[item].server
    BY <1>1, <1>2, <1>5 DEF Drifted, Get
  <2>5. Settled'
    BY <1>1, <2>4 DEF Settled, Drifted, Get, ApplyDatabase, Continue, Processed
  <2> QED
    BY <2>2, <2>3, <2>5
<1>6. \/ objs' = objs
      \/ /\ objs' = {p \in objs : ~ SameObject(o, p)} \cup {o}
         /\ \A p \in objs : SameObject(o, p) => o.kind # "PVC"
  BY <1>3 DEF Applied
<1> QED
  BY <1>4, <1>5, <1>6

\* The sweep of the databases keeps what is declared.
LEMMA SweepKeepsData ==
    ASSUME IInv, SweepDatabases
    PROVE  DataKept /\ DataOwned'
<1>1. CASE UNCHANGED objs
  BY <1>1, UnchangedData DEF IInv
<1>2. CASE SweepOrphan("databases", DatabaseSweeps)
  <2> DEFINE dbs == DOMAIN cfg.databases
             list == DatabaseSweeps
  <2>1. PICK o \in Left("databases", list) : objs' = objs \ {o}
    BY <1>2 DEF SweepOrphan
  <2>2. o.kind = list[step].kind /\ o.name \notin list[step].desired
    BY <2>1 DEF Left, Orphans
  <2>3. step = 1 \/ step = 2 \/ step = 3 \/ step = 4 \/ step = 5
    BY DEF IInv, TypeInv, InRange, SweepDatabases
  <2>4. /\ list[1].kind = "StatefulSet" /\ list[1].desired = Named("db", dbs)
        /\ list[2].kind = "Service"
        /\ list[3].kind = "PVC" /\ list[3].desired = Named("db-data", dbs)
        /\ list[4].kind = "Secret"
        /\ list[5].kind = "CronJob"
    BY DEF DatabaseSweeps, Swept
  <2> HIDE DEF list
  <2>5. \A d \in dbs : ~ DataOf(o, d)
    <3> SUFFICES ASSUME NEW d \in dbs, DataOf(o, d) PROVE FALSE
      OBVIOUS
    <3>1. CASE o.kind = "StatefulSet" /\ o.name = <<"db", d>>
      <4>1. step = 1
        BY <2>2, <2>3, <2>4, <3>1
      <4>2. o.name \in Named("db", dbs)
        BY <3>1 DEF Named
      <4> QED
        BY <2>2, <2>4, <4>1, <4>2
    <3>2. CASE o.kind = "PVC" /\ o.name = <<"db-data", d>>
      <4>1. step = 3
        BY <2>2, <2>3, <2>4, <3>2
      <4>2. o.name \in Named("db-data", dbs)
        BY <3>2 DEF Named
      <4> QED
        BY <2>2, <2>4, <4>1, <4>2
    <3> QED
      BY <3>1, <3>2 DEF DataOf
  <2>6. DataKept
    BY <2>1, <2>5 DEF DataKept, SameObject
  <2>7. DataOwned'
    BY <2>1 DEF DataOwned, DataOf, IInv
  <2> QED
    BY <2>6, <2>7
<1> QED
  BY <1>1, <1>2 DEF SweepDatabases, SweepNext, SweepDone, SweptKind, clusterVars

LEMMA DatabasesKeepData ==
    ASSUME IInv, DatabasesStep
    PROVE  DataKept /\ DataOwned' /\ Settled'
<1>1. ASSUME NEW d \in Databases, SkipDrifted(d)
      PROVE  DataKept /\ DataOwned' /\ Settled'
  <2>1. Processed(d, {d}) \/ Finish("failed")
    BY <1>1 DEF SkipDrifted
  <2>2. Settled'
    BY <2>1 DEF Settled, Processed, Finish
  <2> QED
    BY <1>1, <2>2, UnchangedData DEF SkipDrifted, IInv, clusterVars
<1>2. ASSUME NEW d \in Databases, StartDatabase(d)
      PROVE  DataKept /\ DataOwned' /\ Settled'
  <2>1. Settled'
    BY <1>2 DEF StartDatabase, Settled, Take, Drifted, Get
  <2> QED
    BY <1>2, <2>1, UnchangedData DEF StartDatabase, IInv
<1>3. CASE ApplyDatabase
  BY <1>3, ApplyKeepsData
<1>4. CASE DatabasesApplied
  <2>1. Settled'
    BY <1>4 DEF DatabasesApplied, Enter, Settled
  <2> QED
    BY <1>4, <2>1, UnchangedData DEF DatabasesApplied, IInv, clusterVars
<1>5. CASE SweepDatabases
  <2>1. pc' # "databases"
    BY <1>5 DEF SweepDatabases, SweepOrphan, SweepNext, Continue, Enter, runVars
  <2> QED
    BY <1>5, <2>1, SweepKeepsData DEF Settled
<1>6. ASSUME NEW b \in Buckets, EnsureBucket(b)
      PROVE  DataKept /\ DataOwned' /\ Settled'
  <2>1. Settled'
    BY <1>6 DEF EnsureBucket, Settled, Drifted, Get, runVars, IInv
  <2> QED
    BY <1>6, <2>1, UnchangedData DEF EnsureBucket, IInv
<1> QED
  BY <1>1, <1>2, <1>3, <1>4, <1>5, <1>6 DEF DatabasesStep

----------------------------------------------------------------------------
(* The other steps.                                                        *)

LEMMA OtherStepsKeepData ==
    ASSUME IInv,
           \/ \E h \in Hashes : Begin(h)
           \/ Declined \/ Abort \/ Decide \/ InfraStep
    PROVE  UNCHANGED objs
BY DEF Begin, Declined, Abort, Decide, PlanFails, NoChanges, Proceed, InfraStep,
       EnsureServer, DeleteServer, ApplyFirewall, TornDown, clusterVars

LEMMA ServicesKeepData ==
    ASSUME IInv, ServicesStep
    PROVE  DataKept /\ DataOwned'
<1>0. DataOwned /\ TypeOK /\ cfg \in Configs
  BY DEF IInv, TypeInv, TypeOK, ClusterTypeOK
<1>1. ASSUME NEW n \in Names, StartService(n) PROVE DataKept /\ DataOwned'
  BY <1>0, <1>1, UpsertElsewhere DEF StartService
<1>2. CASE PruneServiceSecret
  BY <1>0, <1>2, PruneElsewhere DEF PruneServiceSecret
<1>3. CASE ApplyWorkload
  <2>1. /\ Workload(item, hash).kind \in {"StatefulSet", "Deployment"}
        /\ Workload(item, hash).name = <<"app", item>>
    BY DEF Workload, Object
  <2>2. \A d \in Databases : ~ DataOf(Workload(item, hash), d)
    BY <2>1 DEF DataOf
  <2> QED
    BY <1>0, <1>3, <2>1, <2>2, AppliedElsewhere DEF ApplyWorkload
<1>4. CASE ApplyKubeService
  <2> DEFINE o == Object("Service", "app", item, "services")
  <2>1. o.kind = "Service"
    BY DEF Object
  <2>2. o.kind # "PVC" /\ \A d \in Databases : ~ DataOf(o, d)
    BY <2>1 DEF DataOf
  <2>3. objs' = Applied(o)
    BY <1>4 DEF ApplyKubeService
  <2> QED
    BY <1>0, <2>2, <2>3, AppliedElsewhere
<1>5. CASE RolloutReady \/ ServicesApplied
  BY <1>0, <1>5, UnchangedData DEF RolloutReady, ServicesApplied, clusterVars
<1>6. CASE SweepServices
  BY <1>0, <1>6, SweptElsewhere
     DEF SweepServices, SweepNext, SweepDone, SweptKind, clusterVars
<1> QED
  BY <1>1, <1>2, <1>3, <1>4, <1>5, <1>6 DEF ServicesStep

LEMMA CronsKeepData ==
    ASSUME IInv, CronsStep
    PROVE  DataKept /\ DataOwned'
<1>0. DataOwned /\ TypeOK /\ cfg \in Configs
  BY DEF IInv, TypeInv, TypeOK, ClusterTypeOK
<1>1. ASSUME NEW n \in Names, StartCron(n) PROVE DataKept /\ DataOwned'
  BY <1>0, <1>1, UpsertElsewhere DEF StartCron
<1>2. CASE PruneCronSecret
  BY <1>0, <1>2, PruneElsewhere DEF PruneCronSecret
<1>3. CASE ApplyCron
  <2>1. CronJob(item).kind = "CronJob"
    BY DEF CronJob, Object
  <2>2. /\ CronJob(item).kind # "PVC"
        /\ \A d \in Databases : ~ DataOf(CronJob(item), d)
    BY <2>1 DEF DataOf
  <2> QED
    BY <1>0, <1>3, <2>2, AppliedElsewhere DEF ApplyCron
<1>4. CASE CronsApplied
  BY <1>0, <1>4, UnchangedData DEF CronsApplied, clusterVars
<1>5. CASE SweepCrons
  BY <1>0, <1>5, SweptElsewhere
     DEF SweepCrons, SweepNext, SweepDone, SweptKind, clusterVars
<1> QED
  BY <1>1, <1>2, <1>3, <1>4, <1>5 DEF CronsStep

LEMMA IngressKeepsData ==
    ASSUME IInv, IngressStep
    PROVE  DataKept /\ DataOwned'
<1>0. DataOwned /\ cfg \in Configs
  BY DEF IInv, TypeInv, TypeOK, ClusterTypeOK
<1>1. CASE EnsureCaddy
  <2> DEFINE o == Object("Deployment", "caddy", NoVal, "caddy")
  <2>1. o.kind = "Deployment"
    BY DEF Object
  <2>2. o.kind # "PVC" /\ \A d \in Databases : ~ DataOf(o, d)
    BY <2>1 DEF DataOf
  <2>3. objs' = Applied(o)
    BY <1>1 DEF EnsureCaddy
  <2> QED
    BY <1>0, <2>2, <2>3, AppliedElsewhere
<1>2. CASE UNCHANGED objs
  BY <1>0, <1>2, UnchangedData
<1> QED
  BY <1>1, <1>2 DEF IngressStep, RouteTo, Unroute, AllRouted, AllUnrouted,
                    ReloadCaddy, clusterVars

\* Outside of Databases, a run is at no database.
LEMMA SettledElsewhere ==
    ASSUME \/ \E c \in Configs : Edit(c)
           \/ \E h \in Hashes : Begin(h)
           \/ Declined \/ Abort \/ Decide \/ InfraStep \/ RegistriesStep
           \/ ServicesStep \/ CronsStep \/ IngressStep
    PROVE  Settled'
<1>1. CASE \/ \E c \in Configs : Edit(c)
           \/ \E h \in Hashes : Begin(h)
           \/ Declined \/ Abort \/ Decide \/ InfraStep
  BY <1>1 DEF Edit, Begin, Declined, Abort, Decide, PlanFails, NoChanges, Proceed,
     InfraStep, EnsureServer, DeleteServer, ApplyFirewall, TornDown, Enter, Finish,
     runVars, Settled
<1>2. CASE RegistriesStep
  BY <1>2 DEF RegistriesStep, RegistriesLoud, RegistriesQuiet, Enter, Settled
<1>3. CASE ServicesStep
  BY <1>3 DEF ServicesStep, StartService, PruneServiceSecret, PruneSecret, PruneKey,
     PruneDone, ApplyWorkload, ApplyKubeService, RolloutReady, ServicesApplied,
     SweepServices, SweepOrphan, SweepNext, SweepDone, Take, Continue, Processed,
     Enter, runVars, Settled
<1>4. CASE CronsStep
  BY <1>4 DEF CronsStep, StartCron, PruneCronSecret, PruneSecret, PruneKey,
     PruneDone, ApplyCron, CronsApplied, SweepCrons, AfterCrons, SweepOrphan,
     SweepNext, SweepDone, Take, Continue, Processed, Enter, Finish, runVars, Settled
<1>5. CASE IngressStep
  BY <1>5 DEF IngressStep, RouteTo, Unroute, AllRouted, AllUnrouted, EnsureCaddy,
     ReloadCaddy, Processed, Enter, Finish, Settled
<1> QED
  BY <1>1, <1>2, <1>3, <1>4, <1>5

LEMMA StepKeepsData == IInv /\ Next => DataKept /\ DataOwned' /\ Settled'
<1> SUFFICES ASSUME IInv, Next PROVE DataKept /\ DataOwned' /\ Settled'
  OBVIOUS
<1>0. DataOwned /\ cfg \in Configs
  BY DEF IInv, TypeInv, TypeOK, ClusterTypeOK
<1>1. CASE \E c \in Configs : Edit(c)
  BY <1>0, <1>1, UnchangedData, SettledElsewhere DEF Edit, clusterVars
<1>2. CASE \/ \E h \in Hashes : Begin(h)
           \/ Declined \/ Abort \/ Decide \/ InfraStep
  BY <1>0, <1>2, OtherStepsKeepData, UnchangedData, SettledElsewhere
<1>3. CASE RegistriesStep
  BY <1>0, <1>3, PullSecretElsewhere, SettledElsewhere
     DEF RegistriesStep, RegistriesLoud, RegistriesQuiet
<1>4. CASE DatabasesStep
  BY <1>4, DatabasesKeepData
<1>5. CASE ServicesStep
  BY <1>5, ServicesKeepData, SettledElsewhere
<1>6. CASE CronsStep
  BY <1>6, CronsKeepData, SettledElsewhere
<1>7. CASE IngressStep
  BY <1>7, IngressKeepsData, SettledElsewhere
<1> QED
  BY <1>1, <1>2, <1>3, <1>4, <1>5, <1>6, <1>7 DEF Next, Run

LEMMA InvariantInductive == IInv /\ [Next]_vars => IInv'
<1> SUFFICES ASSUME IInv, [Next]_vars PROVE IInv'
  OBVIOUS
<1>1. TypeInv'
  BY StepTypes DEF IInv
<1>2. CASE Next
  BY <1>1, <1>2, StepKeepsData DEF IInv
<1>3. CASE UNCHANGED vars
  BY <1>1, <1>3 DEF IInv, DataOwned, DataOf, Settled, Drifted, Get, vars,
                    clusterVars, runVars
<1> QED
  BY <1>2, <1>3

\* Whatever an earlier run left behind and wherever a run stops, a deploy
\* removes no StatefulSet and no volume of a database nvoi.yaml declares and
\* moves none to another server.
THEOREM DataPinned == Spec => DatabasePinned
<1>1. Init => IInv
  BY InitTypes DEF Init, ClusterInit, IInv, DataOwned, Settled
<1>2. IInv /\ [Next]_vars => [DataKept]_vars
  BY StepKeepsData
<1>3. Spec => [][DataKept]_vars
  BY <1>1, <1>2, InvariantInductive, PTL DEF Spec
<1> QED
  BY <1>3 DEF DatabasePinned, DataKept

----------------------------------------------------------------------------
(***************************************************************************)
(* What a deploy may rely on of the plan it has computed, wherever earlier *)
(* runs stopped: that a quiet run finds ports and records for what it lets *)
(* Caddy serve, and that a loud one has announced what it deletes.  The    *)
(* plan is computed once, the steps that rely on it come much later: the   *)
(* invariants say of every state between what is left of it.               *)
(***************************************************************************)

Underway == pc \notin {"idle", "plan"}

\* The steps only a loud run takes, those before its firewall is applied,
\* and those past its records.
LoudOnly == {"bootstrap", "databases", "dbsweep", "teardown", "routes", "unroute"}

\* Ports and records, on the way to the reload.
Web ==
    /\ pc \in LoudOnly => Loud
    /\ Underway /\ pc # "bootstrap" => webOpen = WebWanted
    /\ Underway /\ ~ Loud => DOMAIN cfg.domains \subseteq records
    /\ pc = "routes" => DOMAIN cfg.domains \ todo \subseteq records
    /\ pc = "unroute" => todo \subseteq DOMAIN routes \ DOMAIN cfg.domains
    /\ pc \in {"unroute", "caddy", "reload"} =>
          WebWanted /\ DOMAIN cfg.domains \subseteq records
    /\ pc = "routes" => WebWanted

----------------------------------------------------------------------------
(***************************************************************************)
(* Steps by what they write.                                               *)
(***************************************************************************)

\* Registries to crons write objects and buckets, and lead on to the end, to
\* the teardown when loud, to Caddy when quiet.
LEMMA MiddleSteps ==
    ASSUME RegistriesStep \/ DatabasesStep \/ ServicesStep \/ CronsStep
    PROVE  /\ UNCHANGED <<cfg, servers, webOpen, records, routes>>
           /\ Underway /\ pc \notin {"bootstrap", "teardown", "routes", "unroute"}
           /\ \/ pc' = "idle"
              \/ /\ plan' = plan
                 /\ \/ pc' \in {"registries", "services", "svcsweep", "crons", "cronsweep"}
                    \/ pc' \in {"databases", "dbsweep"} /\ (Loud \/ pc \in {"databases", "dbsweep"})
                    \/ pc' = "teardown" /\ Loud
                    \/ pc' = "caddy" /\ ~ Loud /\ WebWanted
  <1>. USE DEF Underway, Enter, Finish, Take, Continue, Processed, runVars, clusterVars
  <1>1. CASE RegistriesStep
    BY <1>1 DEF RegistriesStep, RegistriesLoud, RegistriesQuiet
  <1>2. CASE DatabasesStep
    BY <1>2 DEF DatabasesStep, EnsureBucket, SkipDrifted, StartDatabase, ApplyDatabase, DatabasesApplied,
       SweepDatabases, SweepOrphan, SweepNext, SweepDone, SweptKind
  <1>3. CASE ServicesStep
    BY <1>3 DEF ServicesStep, StartService, PruneServiceSecret, PruneSecret, PruneKey, PruneDone,
       ApplyWorkload, ApplyKubeService, RolloutReady, ServicesApplied, SweepServices, SweepOrphan,
       SweepNext, SweepDone, SweptKind
  <1>4. CASE CronsStep
    BY <1>4 DEF CronsStep, StartCron, PruneCronSecret, PruneSecret, PruneKey, PruneDone, ApplyCron,
       CronsApplied, SweepCrons, AfterCrons, SweepOrphan, SweepNext, SweepDone, SweptKind
  <1>. QED
    BY <1>1, <1>2, <1>3, <1>4

\* Steps after which no run is under way, the end of a reload among them.
LEMMA NotUnderway ==
    ASSUME \/ \E c \in Configs : Edit(c)
           \/ \E h \in Hashes : Begin(h)
           \/ PlanFails \/ NoChanges \/ Declined \/ Abort \/ ReloadCaddy
    PROVE  pc' \in {"idle", "plan"}
  BY DEF Edit, Begin, PlanFails, NoChanges, Declined, Abort, ReloadCaddy, Finish

----------------------------------------------------------------------------
(***************************************************************************)
(* Caddy serves only what DNS and the firewall are ready for.              *)
(***************************************************************************)

\* A plan without infrastructure changes finds ports and records in place.
LEMMA QuietPlan ==
    ASSUME NEW unread, ~ HasInfraChanges(ComputePlan(hash, unread)), webOpen \in BOOLEAN
    PROVE  webOpen = WebWanted /\ (WebWanted => DOMAIN cfg.domains \subseteq records)
  <1>. DEFINE open == Diff("firewall-rule", {p \in {NoVal} : WebWanted}, {p \in {NoVal} : webOpen})
              live == records \cap (DOMAIN cfg.domains \cup ServedDomains("dns", unread))
  <1>1. \A res, desired, now, n :
           /\ n \in desired \ now => Entry("add", res, n) \in Diff(res, desired, now)
           /\ n \in now \ desired => Entry("delete", res, n) \in Diff(res, desired, now)
    BY DEF Diff
  <1>2. \A change, res, n : Entry(change, res, n).res = res
    BY DEF Entry
  <1>3. open \subseteq ComputePlan(hash, unread)
    BY DEF ComputePlan, PlanInfra
  <1>4. WebWanted => Diff("dns", DOMAIN cfg.domains, live) \subseteq ComputePlan(hash, unread)
    BY DEF ComputePlan, PlanRouteDomains
  <1>5. \A e \in ComputePlan(hash, unread) : e.res \notin {"firewall-rule", "dns"}
    BY DEF HasInfraChanges, InfraResources
  <1>. HIDE DEF live
  <1>6. webOpen = WebWanted
    <2>1. CASE webOpen /\ ~ WebWanted
      <3>1. NoVal \in {p \in {NoVal} : webOpen} \ {p \in {NoVal} : WebWanted}
        BY <2>1
      <3>2. Entry("delete", "firewall-rule", NoVal) \in open
        BY <1>1, <3>1
      <3>. QED
        BY <1>2, <1>3, <1>5, <3>2
    <2>2. CASE ~ webOpen /\ WebWanted
      <3>1. NoVal \in {p \in {NoVal} : WebWanted} \ {p \in {NoVal} : webOpen}
        BY <2>2
      <3>2. Entry("add", "firewall-rule", NoVal) \in open
        BY <1>1, <3>1
      <3>. QED
        BY <1>2, <1>3, <1>5, <3>2
    <2>3. WebWanted \in BOOLEAN
      BY DEF WebWanted
    <2>. QED
      BY <2>1, <2>2, <2>3
  <1>7. ASSUME WebWanted, NEW w \in DOMAIN cfg.domains
        PROVE  w \in records
    <2>1. w \in live
      BY <1>1, <1>2, <1>4, <1>5, <1>7
    <2>. QED
      BY <2>1 DEF live
  <1>. QED
    BY <1>6, <1>7

\* Every step keeps Web; the reload is its last user.
LEMMA StepWeb == TypeInv /\ Web /\ [Next]_vars => Web'
  <1>. SUFFICES ASSUME TypeInv, Web, [Next]_vars
                PROVE  Web'
    OBVIOUS
  <1>. USE DEF Web, Underway, Loud, LoudOnly, WebWanted
  <1>1. CASE pc' \in {"idle", "plan"}
    BY <1>1
  <1>2. CASE Proceed
    <2>0. PICK unread \in SUBSET Unread : plan' = ComputePlan(hash, unread)
      BY <1>2 DEF Proceed
    <2>1. /\ pc' \in {"bootstrap", "registries"}
          /\ pc' = "registries" => ~ HasInfraChanges(ComputePlan(hash, unread))
          /\ pc' = "bootstrap" => HasInfraChanges(plan')
          /\ UNCHANGED <<cfg, webOpen, records>>
      BY <1>2, <2>0 DEF Proceed, clusterVars
    <2>2. webOpen \in BOOLEAN
      BY DEF TypeInv, TypeOK, ClusterTypeOK
    <2>. QED
      BY <2>0, <2>1, <2>2, QuietPlan
  <1>3. CASE \E s \in Servers : EnsureServer(s) \/ DeleteServer(s)
    BY <1>3 DEF EnsureServer, DeleteServer, runVars
  <1>4. CASE ApplyFirewall
    BY <1>4 DEF ApplyFirewall, Enter
  <1>5. CASE TornDown
    BY <1>5 DEF TornDown, Enter, Finish, clusterVars
  <1>6. CASE RegistriesStep \/ DatabasesStep \/ ServicesStep \/ CronsStep
    BY <1>6, MiddleSteps
  <1>7. ASSUME NEW w \in Domains, RouteTo(w) PROVE Web'
    BY <1>7 DEF RouteTo, Processed
  <1>8. ASSUME NEW w \in Domains, Unroute(w) PROVE Web'
    BY <1>8 DEF Unroute, Processed
  <1>9. CASE AllRouted \/ AllUnrouted \/ EnsureCaddy
    BY <1>9 DEF AllRouted, AllUnrouted, EnsureCaddy, Enter, clusterVars, ServedDomains
  <1>10. CASE UNCHANGED vars
    BY <1>10 DEF vars, clusterVars, runVars
  <1>. QED
    BY <1>1, <1>2, <1>3, <1>4, <1>5, <1>6, <1>7, <1>8, <1>9, <1>10, NotUnderway
       DEF Next, Run, Decide, InfraStep, IngressStep

\* Routes appear by a reload only.
LEMMA ReloadReady ==
    ASSUME Web, [Next]_vars
    PROVE  \A w \in DOMAIN routes' \ DOMAIN routes : w \in records /\ webOpen
  <1>1. CASE ReloadCaddy
    BY <1>1 DEF ReloadCaddy, Web, Underway
  <1>2. CASE RegistriesStep \/ DatabasesStep \/ ServicesStep \/ CronsStep
    BY <1>2, MiddleSteps
  <1>. QED
    BY <1>1, <1>2 DEF Next, Run, Decide, InfraStep, IngressStep, Edit, Begin, Declined, Abort, PlanFails,
       NoChanges, Proceed, EnsureServer, DeleteServer, ApplyFirewall, TornDown, RouteTo, Unroute,
       AllRouted, AllUnrouted, EnsureCaddy, vars, clusterVars

(***************************************************************************)
(* Caddy starts to serve a domain only when its record exists and the      *)
(* firewall is open: the loud path made both, the quiet path has read both *)
(* in its plan (the gates of Deploy in reconcile.go).                      *)
(***************************************************************************)
THEOREM DnsFirst == Spec => IngressHasDns
  <1>1. Init => Web
    BY DEF Init, Web, Underway, LoudOnly
  <1>2. TypeInv /\ Web /\ [Next]_vars
           => [\A w \in DOMAIN routes' \ DOMAIN routes : w \in records /\ webOpen]_vars
    BY ReloadReady
  <1>. QED
    BY <1>1, <1>2, InitTypes, StepTypes, StepWeb, PTL DEF Spec, IngressHasDns

----------------------------------------------------------------------------
(***************************************************************************)
(* Volumes and credentials of databases.                                   *)
(***************************************************************************)
HasVolume(d) == Get("PVC", "db-data", d) # {}

HasCredentials(d) == Get("Secret", "db-credentials", d) # {}

\* The objects of these two roles, which only Databases writes.
Vital == {o \in objs : o.name[1] \in {"db-data", "db-credentials"}}

VitalOwned == \A o \in Vital : o.owner = "databases"

\* Where in the list of a database its credentials are written; its volume
\* follows two places later.
CredentialsAt(d) == IF cfg.databases[d].backup THEN 2 ELSE 1

\* What is vital decides which databases have credentials and a volume.
LEMMA VitalDecides ==
    ASSUME Vital' = Vital
    PROVE  /\ VitalOwned => VitalOwned'
           /\ \A d : HasVolume(d)' <=> HasVolume(d)
           /\ \A d : HasCredentials(d)' <=> HasCredentials(d)
  <1>1. \A d : /\ Get("PVC", "db-data", d) = {o \in Vital : o.kind = "PVC" /\ o.name = <<"db-data", d>>}
               /\ Get("PVC", "db-data", d)' =
                     {o \in Vital' : o.kind = "PVC" /\ o.name = <<"db-data", d>>}
    BY DEF Get, Vital
  <1>2. \A d : /\ Get("Secret", "db-credentials", d) =
                     {o \in Vital : o.kind = "Secret" /\ o.name = <<"db-credentials", d>>}
               /\ Get("Secret", "db-credentials", d)' =
                     {o \in Vital' : o.kind = "Secret" /\ o.name = <<"db-credentials", d>>}
    BY DEF Get, Vital
  <1>. QED
    BY <1>1, <1>2 DEF VitalOwned, HasVolume, HasCredentials

\* Applying an object of another role leaves what is vital.
LEMMA OtherApplied ==
    ASSUME NEW o, o.name[1] \notin {"db-data", "db-credentials"}, objs' = Applied(o)
    PROVE  Vital' = Vital
  BY DEF Applied, Vital, SameObject

\* The same of a removal,
LEMMA OthersRemoved ==
    ASSUME NEW S, \A o \in S : o.name[1] \notin {"db-data", "db-credentials"}, objs' = objs \ S
    PROVE  Vital' = Vital
  BY DEF Vital

\* of a sweep for another owner,
LEMMA OthersSwept ==
    ASSUME NEW owner, NEW list, owner # "databases", VitalOwned,
           SweepOrphan(owner, list) \/ UNCHANGED objs
    PROVE  Vital' = Vital
  <1>1. CASE UNCHANGED objs
    BY <1>1 DEF Vital
  <1>2. CASE SweepOrphan(owner, list)
    BY <1>2 DEF SweepOrphan, Left, Orphans, Vital, VitalOwned
  <1>. QED
    BY <1>1, <1>2

\* and of the Secret of a service or cron.
LEMMA SecretRewritten ==
    ASSUME TypeInv, NEW n, NEW keys, UpsertSecret(n, keys) \/ PruneSecret(n, keys)
    PROVE  Vital' = Vital
  <1>. DEFINE S == Get("Secret", "app-secrets", n)
  <1>0. \A o \in S : o.name[1] = "app-secrets"
    BY DEF Get
  <1>1. CASE UpsertSecret(n, keys)
    <2>1. SecretWith("app-secrets", n, "services", keys).name[1] = "app-secrets"
      BY DEF SecretWith, Object
    <2>2. CASE keys = {}
      BY <1>0, <1>1, <2>2, OthersRemoved DEF UpsertSecret
    <2>3. CASE keys # {}
      BY <1>1, <2>1, <2>3, OtherApplied DEF UpsertSecret
    <2>. QED
      BY <2>2, <2>3
  <1>2. CASE PruneSecret(n, keys)
    <2>1. \A ks : \A o \in SetKeys(n, ks) : o.name[1] = "app-secrets"
      <3>1. \A o \in S : \A ks : [o EXCEPT !.keys = ks].name = o.name
        BY DEF Get, TypeInv, TypeOK, ClusterTypeOK, ObjectSet
      <3>. SUFFICES ASSUME NEW ks, NEW p \in SetKeys(n, ks) PROVE p.name[1] = "app-secrets"
        OBVIOUS
      <3>2. PICK o \in S : p = [o EXCEPT !.keys = ks]
        BY DEF SetKeys
      <3>. QED
        BY <1>0, <3>1, <3>2
    <2>2. CASE UNCHANGED objs
      BY <2>2 DEF Vital
    <2>3. CASE \E k : objs' = (objs \ S) \cup SetKeys(n, SecretKeys(n) \ {k})
      BY <1>0, <2>1, <2>3 DEF Vital
    <2>. QED
      BY <1>2, <2>2, <2>3 DEF PruneSecret, PruneKey, PruneDone
  <1>. QED
    BY <1>1, <1>2

\* Only a database's own writes and the sweep of the databases touch what is
\* vital.
LEMMA VitalWriters ==
    ASSUME TypeInv, VitalOwned, [Next]_vars
    PROVE  \/ Vital' = Vital
           \/ ApplyDatabase
           \/ pc = "dbsweep" /\ SweepOrphan("databases", DatabaseSweeps)
  <1>1. CASE UNCHANGED objs
    BY <1>1 DEF Vital
  <1>2. CASE RegistriesStep
    <2>1. Object("Secret", "registry-auth", NoVal, "registries").name[1] = "registry-auth"
      BY DEF Object
    <2>2. \A o \in Get("Secret", "registry-auth", NoVal) : o.name[1] = "registry-auth"
      BY DEF Get
    <2>3. objs' = PullSecretApplied
      BY <1>2 DEF RegistriesStep, RegistriesLoud, RegistriesQuiet
    <2>4. CASE cfg.registry
      BY <2>1, <2>3, <2>4, OtherApplied DEF PullSecretApplied
    <2>5. CASE ~ cfg.registry
      BY <2>2, <2>3, <2>5, OthersRemoved DEF PullSecretApplied
    <2>. QED
      BY <2>4, <2>5
  <1>3. CASE DatabasesStep
    BY <1>1, <1>3 DEF DatabasesStep, EnsureBucket, SkipDrifted, StartDatabase, DatabasesApplied, SweepDatabases,
       SweepNext, SweepDone, SweptKind, clusterVars
  <1>4. CASE ServicesStep
    <2>1. ASSUME NEW n \in Names, StartService(n) PROVE Vital' = Vital
      BY <2>1, SecretRewritten DEF StartService
    <2>2. CASE PruneServiceSecret
      BY <2>2, SecretRewritten DEF PruneServiceSecret
    <2>3. CASE ApplyWorkload
      <3>1. Workload(item, hash).name[1] = "app"
        BY DEF Workload, Object
      <3>. QED
        BY <2>3, <3>1, OtherApplied DEF ApplyWorkload
    <2>4. CASE ApplyKubeService
      <3>1. Object("Service", "app", item, "services").name[1] = "app"
        BY DEF Object
      <3>. QED
        BY <2>4, <3>1, OtherApplied DEF ApplyKubeService
    <2>5. CASE SweepServices
      BY <2>5, OthersSwept DEF SweepServices, SweepNext, SweepDone, SweptKind, clusterVars
    <2>. QED
      BY <1>1, <1>4, <2>1, <2>2, <2>3, <2>4, <2>5
         DEF ServicesStep, RolloutReady, ServicesApplied, clusterVars
  <1>5. CASE CronsStep
    <2>1. ASSUME NEW n \in Names, StartCron(n) PROVE Vital' = Vital
      BY <2>1, SecretRewritten DEF StartCron
    <2>2. CASE PruneCronSecret
      BY <2>2, SecretRewritten DEF PruneCronSecret
    <2>3. CASE ApplyCron
      <3>1. CronJob(item).name[1] = "app"
        BY DEF CronJob, Object
      <3>. QED
        BY <2>3, <3>1, OtherApplied DEF ApplyCron
    <2>4. CASE SweepCrons
      BY <2>4, OthersSwept DEF SweepCrons, SweepNext, SweepDone, SweptKind, clusterVars
    <2>. QED
      BY <1>1, <1>5, <2>1, <2>2, <2>3, <2>4 DEF CronsStep, CronsApplied, clusterVars
  <1>6. CASE EnsureCaddy
    <2>1. Object("Deployment", "caddy", NoVal, "caddy").name[1] = "caddy"
      BY DEF Object
    <2>. QED
      BY <1>6, <2>1, OtherApplied DEF EnsureCaddy
  <1>. QED
    BY <1>1, <1>2, <1>3, <1>4, <1>5, <1>6
       DEF Next, Run, Decide, InfraStep, IngressStep, Edit, Begin, Declined, Abort, PlanFails,
       NoChanges, Proceed, EnsureServer, DeleteServer, ApplyFirewall, TornDown, RouteTo, Unroute,
       AllRouted, AllUnrouted, ReloadCaddy, vars, clusterVars

\* The writes of a database: its credentials, two places later its volume,
\* and objects of other roles.
LEMMA DatabaseWrites ==
    ASSUME NEW d, NEW i \in 1..ObjectCount(d)
    PROVE  LET o == DatabaseObjects(d)[i]
           IN  /\ o.owner = "databases" /\ o.keys = {} /\ o.name[2] = d
               /\ i = CredentialsAt(d) => o.kind = "Secret" /\ o.name = <<"db-credentials", d>>
               /\ i = CredentialsAt(d) + 2 => o.kind = "PVC" /\ o.name = <<"db-data", d>>
               /\ i \notin {CredentialsAt(d), CredentialsAt(d) + 2} =>
                     o.name[1] \notin {"db-data", "db-credentials"}
               /\ o.name[1] \notin {"app", "app-secrets", "registry-auth"}
  <1>. DEFINE of(kind, role) == Object(kind, role, d, "databases")
              pinned == [of("StatefulSet", "db") EXCEPT !.node = cfg.databases[d].server]
              Is(o, kind, role) == /\ o.owner = "databases" /\ o.keys = {}
                                   /\ o.kind = kind /\ o.name = <<role, d>>
  <1>1. \A kind, role : Is(of(kind, role), kind, role)
    BY DEF Object
  <1>2. Is(pinned, "StatefulSet", "db")
    BY DEF Object
  <1>3. DatabaseObjects(d) =
          IF cfg.databases[d].backup
          THEN <<of("Secret", "db-backup-creds"), of("Secret", "db-credentials"),
                 of("Service", "db"), of("PVC", "db-data"), pinned,
                 of("CronJob", "db-backup")>>
          ELSE <<of("Secret", "db-credentials"),
                 of("Service", "db"), of("PVC", "db-data"), pinned>>
    BY DEF DatabaseObjects
  <1>. HIDE DEF of, pinned
  <1>4. CASE cfg.databases[d].backup
    <2>1. /\ Is(DatabaseObjects(d)[1], "Secret", "db-backup-creds")
          /\ Is(DatabaseObjects(d)[2], "Secret", "db-credentials")
          /\ Is(DatabaseObjects(d)[3], "Service", "db")
          /\ Is(DatabaseObjects(d)[4], "PVC", "db-data")
          /\ Is(DatabaseObjects(d)[5], "StatefulSet", "db")
          /\ Is(DatabaseObjects(d)[6], "CronJob", "db-backup")
      BY <1>1, <1>2, <1>3, <1>4
    <2>2. i \in 1..6 /\ CredentialsAt(d) = 2
      BY <1>4 DEF ObjectCount, CredentialsAt
    <2>. QED
      BY <2>1, <2>2
  <1>5. CASE ~ cfg.databases[d].backup
    <2>1. /\ Is(DatabaseObjects(d)[1], "Secret", "db-credentials")
          /\ Is(DatabaseObjects(d)[2], "Service", "db")
          /\ Is(DatabaseObjects(d)[3], "PVC", "db-data")
          /\ Is(DatabaseObjects(d)[4], "StatefulSet", "db")
      BY <1>1, <1>2, <1>3, <1>5
    <2>2. i \in 1..4 /\ CredentialsAt(d) = 1
      BY <1>5 DEF ObjectCount, CredentialsAt
    <2>. QED
      BY <2>1, <2>2
  <1>. QED
    BY <1>4, <1>5

\* What the next of these writes leaves.
LEMMA DatabaseApplied ==
    ASSUME TypeInv, VitalOwned, ApplyDatabase
    PROVE  /\ VitalOwned'
           /\ \A d : HasCredentials(d)' <=>
                        HasCredentials(d) \/ (d = item /\ step = CredentialsAt(item))
           /\ \A d : HasVolume(d)' <=>
                        HasVolume(d) \/ (d = item /\ step = CredentialsAt(item) + 2)
  <1>. DEFINE o == DatabaseObjects(item)[step]
  <1>0. step \in 1..ObjectCount(item) /\ objs' = Applied(o)
    BY DEF TypeInv, InRange, ApplyDatabase
  <1>1. /\ o.owner = "databases" /\ o.name[2] = item
        /\ step = CredentialsAt(item) => o.kind = "Secret" /\ o.name = <<"db-credentials", item>>
        /\ step = CredentialsAt(item) + 2 => o.kind = "PVC" /\ o.name = <<"db-data", item>>
        /\ step \notin {CredentialsAt(item), CredentialsAt(item) + 2} =>
              o.name[1] \notin {"db-data", "db-credentials"}
    BY <1>0, DatabaseWrites
  <1>. HIDE DEF o
  <1>2. \A p \in objs' : p \in objs \/ p = o
    BY <1>0 DEF Applied
  <1>3. \A p \in objs : \E q \in objs' : SameObject(p, q)
    BY <1>0 DEF Applied, SameObject
  <1>4. \E q \in objs' : SameObject(o, q)
    BY <1>0 DEF Applied, SameObject
  <1>5. CredentialsAt(item) \in 1..2
    BY DEF CredentialsAt
  <1>6. VitalOwned'
    BY <1>1, <1>2 DEF VitalOwned, Vital
  <1>7. ASSUME NEW kind, NEW role, NEW d
        PROVE  /\ Get(kind, role, d) # {} => Get(kind, role, d)' # {}
               /\ Get(kind, role, d)' # {} => \/ Get(kind, role, d) # {}
                                              \/ o.kind = kind /\ o.name = <<role, d>>
               /\ o.kind = kind /\ o.name = <<role, d>> => Get(kind, role, d)' # {}
    BY <1>2, <1>3, <1>4 DEF Get, SameObject
  <1>8. ASSUME NEW d
        PROVE  HasCredentials(d)' <=>
                  HasCredentials(d) \/ (d = item /\ step = CredentialsAt(item))
    BY <1>1, <1>5, <1>7 DEF HasCredentials
  <1>9. ASSUME NEW d
        PROVE  HasVolume(d)' <=> HasVolume(d) \/ (d = item /\ step = CredentialsAt(item) + 2)
    BY <1>1, <1>5, <1>7 DEF HasVolume
  <1>. QED
    BY <1>6, <1>8, <1>9

\* The sweep takes volumes in its third round and credentials in its fourth,
\* of databases that are not declared.
LEMMA DatabaseSwept ==
    ASSUME TypeInv, VitalOwned, pc = "dbsweep", SweepOrphan("databases", DatabaseSweeps)
    PROVE  /\ VitalOwned'
           /\ \A d : HasVolume(d)' => HasVolume(d)
           /\ \A d : HasVolume(d) /\ ~ HasVolume(d)' => d \notin DOMAIN cfg.databases
           /\ \A d : HasCredentials(d) /\ ~ HasCredentials(d)' =>
                        d \notin DOMAIN cfg.databases /\ step = 4
  <1>. DEFINE list == DatabaseSweeps
              dbs == DOMAIN cfg.databases
  <1>1. PICK o \in Left("databases", list) : objs' = objs \ {o}
    BY DEF SweepOrphan
  <1>2. o.kind = list[step].kind /\ o.name \notin list[step].desired
    BY <1>1 DEF Left, Orphans
  <1>3. step = 1 \/ step = 2 \/ step = 3 \/ step = 4 \/ step = 5
    BY DEF TypeInv, InRange
  <1>4. /\ list[1].kind = "StatefulSet" /\ list[2].kind = "Service" /\ list[5].kind = "CronJob"
        /\ list[3].kind = "PVC" /\ list[3].desired = Named("db-data", dbs)
        /\ list[4].kind = "Secret"
        /\ Named("db-credentials", dbs) \subseteq list[4].desired
    BY DEF DatabaseSweeps, Swept
  <1>. HIDE DEF list
  <1>5. ASSUME NEW d, o.kind = "PVC", o.name = <<"db-data", d>> PROVE d \notin dbs
    <2>1. step = 3
      BY <1>2, <1>3, <1>4, <1>5
    <2>. QED
      BY <1>2, <1>4, <1>5, <2>1 DEF Named
  <1>6. ASSUME NEW d, o.kind = "Secret", o.name = <<"db-credentials", d>>
        PROVE  d \notin dbs /\ step = 4
    <2>1. step = 4
      BY <1>2, <1>3, <1>4, <1>6
    <2>. QED
      BY <1>2, <1>4, <1>6, <2>1 DEF Named
  <1>. QED
    BY <1>1, <1>5, <1>6 DEF VitalOwned, Vital, HasVolume, HasCredentials, Get

----------------------------------------------------------------------------
(***************************************************************************)
(* What a run deletes has been announced.                                  *)
(***************************************************************************)

\* The credentials of a database are the first of its objects that matter.
Written ==
    pc = "databases" /\ item # NoVal /\ step > CredentialsAt(item) => HasCredentials(item)

\* A volume has credentials, by which the planner knows its database; and
\* when the sweep takes credentials the volumes have gone.
Covered ==
    /\ VitalOwned
    /\ \A d \in Databases : HasVolume(d) => HasCredentials(d)
    /\ Written
    /\ pc = "dbsweep" /\ step >= 4 =>
          \A d \in Databases \ DOMAIN cfg.databases : ~ HasVolume(d)

\* What the run may yet delete is in its plan.
Announced ==
    Underway =>
        /\ \A s \in servers \ cfg.servers : Entry("delete", "server", s) \in plan
        /\ WebWanted /\ <<"dns", NoVal>> \notin Unread =>
              \A w \in (records \cap DOMAIN routes) \ DOMAIN cfg.domains :
                  Entry("delete", "dns", w) \in plan
        /\ \A d \in Databases \ DOMAIN cfg.databases :
              HasVolume(d) => Entry("delete", "database", d) \in plan

\* A round of the sweep is left when nothing is left of it.
LEMMA VolumesSwept ==
    ASSUME "sweep" \notin Disturbances, TypeInv, VitalOwned, step = 3,
           SweptKind("databases", DatabaseSweeps)
    PROVE  \A d \in Databases \ DOMAIN cfg.databases : ~ HasVolume(d)
  <1>. SUFFICES ASSUME NEW d \in Databases \ DOMAIN cfg.databases,
                       NEW o \in Get("PVC", "db-data", d)
                PROVE  FALSE
    BY DEF HasVolume
  <1>1. o \in objs /\ o.kind = "PVC" /\ o.name = <<"db-data", d>> /\ o.owner = "databases"
    BY DEF Get, VitalOwned, Vital
  <1>2. /\ DatabaseSweeps[3].kind = "PVC"
        /\ DatabaseSweeps[3].desired = Named("db-data", DOMAIN cfg.databases)
    BY DEF DatabaseSweeps, Swept
  <1>3. Left("databases", DatabaseSweeps) = {}
    BY DEF SweptKind
  <1>4. o.name \in Named("db-data", DOMAIN cfg.databases)
    BY <1>1, <1>2, <1>3 DEF Left, Orphans
  <1>. QED
    BY <1>1, <1>4 DEF Named

\* How a run gets to be at a database, or in the sweep of the databases.
LEMMA DatabaseMoves ==
    ASSUME TypeInv, [Next]_vars, pc' \in {"databases", "dbsweep"}
    PROVE  /\ UNCHANGED cfg
           /\ \/ UNCHANGED <<pc, item, step>>
              \/ item' = NoVal /\ pc' = "databases"
              \/ pc = "databases" /\ pc' = "databases" /\ step' = 1
              \/ ApplyDatabase /\ pc = pc' /\ item' = item /\ step' = step + 1
              \/ pc' = "dbsweep" /\ step' = 1
              \/ /\ pc = "dbsweep" /\ step' = step + 1 /\ UNCHANGED <<objs, pc>>
                 /\ SweptKind("databases", DatabaseSweeps)
  <1>. USE DEF Enter, Finish, Take, Continue, Processed, runVars, clusterVars
  <1>1. CASE DatabasesStep
    BY <1>1 DEF DatabasesStep, EnsureBucket, SkipDrifted, StartDatabase, ApplyDatabase, DatabasesApplied,
       SweepDatabases, SweepOrphan, SweepNext, SweepDone, SweptKind
  <1>2. CASE RegistriesStep
    BY <1>2 DEF RegistriesStep, RegistriesLoud, RegistriesQuiet
  <1>3. CASE UNCHANGED vars
    BY <1>3 DEF vars
  <1>4. ServicesStep \/ CronsStep => pc' \notin {"databases", "dbsweep"}
    BY DEF ServicesStep, StartService, PruneServiceSecret, PruneSecret, PruneKey, PruneDone,
       ApplyWorkload, ApplyKubeService, RolloutReady, ServicesApplied, SweepServices, SweepOrphan,
       SweepNext, SweepDone, SweptKind, CronsStep, StartCron, PruneCronSecret, ApplyCron,
       CronsApplied, SweepCrons, AfterCrons
  <1>5. InfraStep \/ IngressStep \/ Proceed => pc' \notin {"databases", "dbsweep"}
    BY DEF InfraStep, IngressStep, Proceed, EnsureServer, DeleteServer, ApplyFirewall, TornDown,
       RouteTo, Unroute, AllRouted, AllUnrouted, EnsureCaddy, ReloadCaddy
  <1>. QED
    BY <1>1, <1>2, <1>3, <1>4, <1>5, NotUnderway DEF Next, Run, Decide

\* They are there from the step after theirs on.
LEMMA StepWritten ==
    ASSUME TypeInv, VitalOwned, Written, [Next]_vars
    PROVE  Written'
  <1>. SUFFICES ASSUME NEW d, d = item', pc' = "databases", d # NoVal, step' > CredentialsAt(d)
                PROVE  HasCredentials(d)'
    BY DatabaseMoves DEF Written, CredentialsAt, HasCredentials, Get
  <1>1. CredentialsAt(d) \in 1..2 /\ step \in 1..6
    BY DEF CredentialsAt, TypeInv, TypeOK, RunTypeOK
  <1>2. CASE ApplyDatabase /\ item' = item /\ step' = step + 1
    <2>1. pc = "databases" /\ step >= CredentialsAt(item)
      BY <1>1, <1>2 DEF ApplyDatabase
    <2>. QED
      BY <1>1, <1>2, <2>1, DatabaseApplied DEF Written
  <1>3. CASE UNCHANGED <<pc, item, step>>
    <2>1. HasCredentials(d)
      BY <1>3 DEF Written
    <2>. QED
      BY <1>3, <2>1, VitalWriters, VitalDecides, DatabaseApplied
  <1>4. step' # 1
    BY <1>1
  <1>. QED
    BY <1>2, <1>3, <1>4, DatabaseMoves

\* The sweep is the one place where either goes, volumes before credentials.
LEMMA StepCovered ==
    ASSUME "sweep" \notin Disturbances, TypeInv, Covered, [Next]_vars
    PROVE  Covered'
  <1>. USE DEF Covered
  <1>0. CredentialsAt(item) \in 1..2 /\ step \in 1..6 /\ Written'
    BY StepWritten DEF CredentialsAt, TypeInv, TypeOK, RunTypeOK
  <1>1. CASE Vital' = Vital
    <2>1. /\ VitalOwned' /\ \A d \in Databases : HasVolume(d)' => HasCredentials(d)'
          /\ \A d : HasVolume(d)' <=> HasVolume(d)
      BY <1>1, VitalDecides
    <2>2. pc' = "dbsweep" /\ step' >= 4 =>
             \A d \in Databases \ DOMAIN cfg'.databases : ~ HasVolume(d)'
      <3>. SUFFICES ASSUME pc' = "dbsweep", step' >= 4
                    PROVE  \A d \in Databases \ DOMAIN cfg.databases : ~ HasVolume(d)
        BY <2>1, DatabaseMoves
      <3>1. CASE pc = "dbsweep" /\ step' = step + 1 /\ SweptKind("databases", DatabaseSweeps)
        BY <1>0, <3>1, VolumesSwept
      <3>2. CASE UNCHANGED <<pc, item, step>>
        BY <3>2
      <3>. QED
        BY <3>1, <3>2, DatabaseMoves DEF ApplyDatabase
    <2>. QED
      BY <1>0, <2>1, <2>2
  <1>2. CASE ApplyDatabase
    <2>1. pc = "databases" /\ item # NoVal /\ pc' # "dbsweep"
      BY <1>2 DEF ApplyDatabase, Continue, Processed
    <2>2. \A d \in Databases : HasVolume(d)' => HasCredentials(d)'
      BY <1>0, <1>2, <2>1, DatabaseApplied DEF Written
    <2>. QED
      BY <1>0, <1>2, <2>1, <2>2, DatabaseApplied
  <1>3. CASE pc = "dbsweep" /\ SweepOrphan("databases", DatabaseSweeps)
    <2>1. UNCHANGED <<cfg, pc, item, step>>
      BY <1>3 DEF SweepOrphan, runVars
    <2>2. \A d \in Databases : HasVolume(d)' => HasCredentials(d)'
      BY <1>3, DatabaseSwept
    <2>. QED
      BY <1>0, <1>3, <2>1, <2>2, DatabaseSwept
  <1>. QED
    BY <1>1, <1>2, <1>3, VitalWriters

\* The plan names what is there and no longer wanted.
LEMMA PlanAnnounces ==
    ASSUME Covered, UNCHANGED <<cfg, clusterVars>>,
           NEW unread \in SUBSET Unread, plan' = ComputePlan(hash, unread)
    PROVE  Announced'
  <1>1. \A res, desired, live : \A n \in live \ desired :
           Entry("delete", res, n) \in Diff(res, desired, live)
    BY DEF Diff
  <1>2. \A s \in servers \ cfg.servers : Entry("delete", "server", s) \in plan'
    BY <1>1 DEF ComputePlan, PlanInfra
  <1>3. WebWanted /\ <<"dns", NoVal>> \notin Unread =>
                     \A w \in (records \cap DOMAIN routes) \ DOMAIN cfg.domains :
                        Entry("delete", "dns", w) \in plan'
    <2>1. WebWanted => PlanRouteDomains(unread) \subseteq plan'
      BY DEF ComputePlan
    <2>2. <<"dns", NoVal>> \notin Unread => ServedDomains("dns", unread) = DOMAIN routes
      BY DEF ServedDomains
    <2>. QED
      BY <1>1, <2>1, <2>2 DEF PlanRouteDomains
  <1>4. ASSUME NEW d \in Databases \ DOMAIN cfg.databases, HasVolume(d)
        PROVE  Entry("delete", "database", d) \in plan'
    <2>1. PICK o \in Get("Secret", "db-credentials", d) : TRUE
      BY <1>4 DEF Covered, HasCredentials
    <2>2. /\ o \in objs /\ o.kind = "Secret" /\ o.owner = "databases"
          /\ o.name = <<"db-credentials", d>>
      BY <2>1 DEF Get, Covered, VitalOwned, Vital
    <2>3. <<"db-credentials", d>> \in ListOwned("databases", "Secret")
      BY <2>2 DEF ListOwned
    <2>4. d \in LiveDatabases
      BY <2>3 DEF LiveDatabases
    <2>. QED
      BY <1>1, <2>4 DEF ComputePlan, PlanDatabases
  <1>5. (\A d : HasVolume(d)' <=> HasVolume(d)) /\ (WebWanted' <=> WebWanted)
    BY DEF HasVolume, Get, WebWanted, clusterVars
  <1>. QED
    BY <1>2, <1>3, <1>4, <1>5 DEF Announced, clusterVars

\* What a step adds is declared: nothing to be deleted joins a run.
LEMMA StepAnnounced ==
    ASSUME TypeInv, Web, Covered, Announced, [Next]_vars
    PROVE  Announced'
  <1>. USE DEF Underway
  <1>1. CASE pc' \in {"idle", "plan"}
    BY <1>1 DEF Announced
  <1>2. CASE Proceed
    BY <1>2, PlanAnnounces DEF Proceed
  <1>3. CASE /\ UNCHANGED <<cfg, plan, routes>> /\ Underway
             /\ servers' \subseteq servers \cup cfg.servers
             /\ records' \subseteq records \cup DOMAIN cfg.domains
    <2>1. \A d \in Databases : HasVolume(d)' =>
             HasVolume(d) \/ d \in DOMAIN cfg.databases
      <3>1. ApplyDatabase => item \in DOMAIN cfg.databases
        BY DEF ApplyDatabase, TypeInv, InRange
      <3>. QED
        BY <3>1, VitalWriters, VitalDecides, DatabaseApplied, DatabaseSwept DEF Covered
    <2>2. WebWanted' <=> WebWanted
      BY <1>3 DEF WebWanted
    <2>. QED
      BY <1>3, <2>1, <2>2 DEF Announced
  <1>4. CASE RegistriesStep \/ DatabasesStep \/ ServicesStep \/ CronsStep
    BY <1>1, <1>3, <1>4, MiddleSteps
  <1>5. CASE InfraStep
    <2>1. TornDown => pc' = "idle" \/ UNCHANGED <<cfg, plan, routes, servers, records>>
      BY DEF TornDown, Enter, Finish, clusterVars
    <2>. QED
      BY <1>1, <1>3, <1>5, <2>1 DEF InfraStep, EnsureServer, DeleteServer, ApplyFirewall, TornDown,
         Enter, runVars
  <1>6. CASE (\E w \in Domains : RouteTo(w) \/ Unroute(w)) \/ AllRouted \/ AllUnrouted \/ EnsureCaddy
    <2>1. pc = "routes" => todo \subseteq DOMAIN cfg.domains
      BY DEF TypeInv, InRange
    <2>. QED
      BY <1>3, <1>6, <2>1 DEF RouteTo, Unroute, AllRouted, AllUnrouted, EnsureCaddy, Processed, Enter,
         clusterVars
  <1>7. CASE UNCHANGED vars
    BY <1>7 DEF vars, clusterVars, runVars, Announced, HasVolume, Get, WebWanted
  <1>. QED
    BY <1>1, <1>2, <1>4, <1>5, <1>6, <1>7, NotUnderway DEF Next, Run, Decide, IngressStep

\* What a step deletes is what Announced is about.
LEMMA StepDestroys ==
    ASSUME TypeInv, Web, Covered, Announced, [Next]_vars
    PROVE  /\ \A s \in servers \ servers' : Entry("delete", "server", s) \in plan
           /\ <<"dns", NoVal>> \notin Unread =>
                 \A w \in records \ records' : Entry("delete", "dns", w) \in plan
           /\ \A d \in Databases :
                 HasVolume(d) /\ ~ HasVolume(d)' => Entry("delete", "database", d) \in plan
  <1>1. \A s \in servers \ servers' : pc = "teardown" /\ s \notin cfg.servers
    <2>1. ASSUME NEW s \in Servers, DeleteServer(s)
          PROVE  pc = "teardown" /\ servers \ servers' \subseteq {s} /\ s \notin cfg.servers
      BY <2>1 DEF DeleteServer
    <2>2. \A s \in Servers : EnsureServer(s) => servers \subseteq servers'
      BY DEF EnsureServer
    <2>. QED
      BY <2>1, <2>2, MiddleSteps
         DEF Next, Run, Decide, InfraStep, IngressStep, Edit, Begin, Declined, Abort, PlanFails,
         NoChanges, Proceed, ApplyFirewall, TornDown, RouteTo, Unroute, AllRouted, AllUnrouted,
         EnsureCaddy, ReloadCaddy, vars, clusterVars
  <1>2. \A w \in records \ records' : pc = "unroute" /\ w \in todo
    <2>1. ASSUME NEW w \in Domains, Unroute(w)
          PROVE  pc = "unroute" /\ records \ records' \subseteq {w} /\ w \in todo
      BY <2>1 DEF Unroute
    <2>2. \A w \in Domains : RouteTo(w) => records \subseteq records'
      BY DEF RouteTo
    <2>. QED
      BY <2>1, <2>2, MiddleSteps
         DEF Next, Run, Decide, InfraStep, IngressStep, Edit, Begin, Declined, Abort, PlanFails,
         NoChanges, Proceed, EnsureServer, DeleteServer, ApplyFirewall, TornDown, AllRouted,
         AllUnrouted, EnsureCaddy, ReloadCaddy, vars, clusterVars
  <1>3. \A d : HasVolume(d) /\ ~ HasVolume(d)' => Underway /\ d \notin DOMAIN cfg.databases
    BY VitalWriters, VitalDecides, DatabaseApplied, DatabaseSwept DEF Covered, Underway
  <1>4. \A s \in servers \ servers' : Entry("delete", "server", s) \in plan
    BY <1>1 DEF Announced, Underway
  <1>5. <<"dns", NoVal>> \notin Unread =>
           \A w \in records \ records' : Entry("delete", "dns", w) \in plan
    BY <1>2 DEF Announced, Underway, Web
  <1>6. \A d \in Databases :
           HasVolume(d) /\ ~ HasVolume(d)' => Entry("delete", "database", d) \in plan
    BY <1>3 DEF Announced
  <1>. QED
    BY <1>4, <1>5, <1>6

(***************************************************************************)
(* A server, a record or a volume is deleted only by a run that has shown  *)
(* it to the operator as a deletion (the prompt of cmd/cli/deploy.go), as  *)
(* long as no sweep fails, and for a record as long as planRouteDomains is *)
(* told what Caddy serves: a volume left behind by a sweep that took the   *)
(* credentials, and a record whose route was not read, are in nobody's     *)
(* plan.                                                                   *)
(***************************************************************************)
THEOREM NothingSilentlyDestroyed ==
    ASSUME "sweep" \notin Disturbances
    PROVE  Spec => DestructionAnnounced
  <1>. DEFINE Inv == TypeInv /\ Web /\ Covered /\ Announced
              Shown == /\ \A s \in servers \ servers' : Entry("delete", "server", s) \in plan
                       /\ <<"dns", NoVal>> \notin Unread =>
                             \A w \in records \ records' : Entry("delete", "dns", w) \in plan
                       /\ \A d \in Databases :
                             (Get("PVC", "db-data", d) # {} /\ Get("PVC", "db-data", d)' = {})
                                 => Entry("delete", "database", d) \in plan
  <1>1. Init => Inv
    <2>1. Init => Web /\ Announced
      BY DEF Init, Web, Announced, Underway, LoudOnly
    <2>2. Init => Covered
      BY DEF Init, ClusterInit, Covered, Written, VitalOwned, Vital, HasVolume, Get
    <2>. QED
      BY <2>1, <2>2, InitTypes
  <1>2. Inv /\ [Next]_vars => Inv'
    BY StepTypes, StepWeb, StepCovered, StepAnnounced
  <1>3. Inv /\ [Next]_vars => [Shown]_vars
    BY StepDestroys DEF HasVolume
  <1>. QED
    BY <1>1, <1>2, <1>3, PTL DEF Spec, DestructionAnnounced

----------------------------------------------------------------------------
(***************************************************************************)
(* A workload is written only when all it refers to is there: its keys in  *)
(* its Secret, and the credentials behind its DATABASE_URLs, for every     *)
(* configuration, with every disturbance.                                  *)
(*                                                                         *)
(* The keys of a container come from what the run has collected (sources)  *)
(* many steps before; what they rest on may not go in between.             *)
(***************************************************************************)
\* A URL the run has is of a declared database whose credentials exist.
Sourced ==
    /\ pc \in {"idle", "plan"} => sources = {}
    /\ sources \subseteq DOMAIN cfg.databases
    /\ \A d \in sources : HasCredentials(d)

\* The Secret of the workload at hand has all its container refers to.
Stored ==
    /\ pc = "services" /\ item # NoVal => ServiceKeys(item) \subseteq SecretKeys(item)
    /\ pc = "crons" /\ item # NoVal => cfg.crons[item].secrets \subseteq SecretKeys(item)

----------------------------------------------------------------------------
(***************************************************************************)
(* Credentials stay while their URLs are in use.                           *)
(***************************************************************************)

\* Where URLs come from: read on the quiet path and for a database that has
\* drifted, else from the writes of a database that are over.
LEMMA SourceMoves ==
    ASSUME TypeInv, [Next]_vars
    PROVE  \/ sources' = {}
           \/ UNCHANGED sources /\ pc = "idle"
           \/ UNCHANGED <<cfg, sources>> /\ (pc' \in {"idle", "plan"} => pc \in {"idle", "plan"})
           \/ /\ UNCHANGED cfg /\ pc' \notin {"idle", "plan"}
              /\ \/ UNCHANGED objs /\ sources' \subseteq sources \cup WithCredentials
                 \/ RegistriesStep /\ sources' \subseteq WithCredentials
                 \/ /\ ApplyDatabase /\ item \in DOMAIN cfg.databases /\ step = ObjectCount(item)
                    /\ sources' = sources \cup {item}
  <1>. USE DEF Enter, Finish, Take, Continue, Processed, runVars, clusterVars
  <1>1. CASE RegistriesStep
    BY <1>1 DEF RegistriesStep, RegistriesLoud, RegistriesQuiet
  <1>2. CASE ApplyDatabase
    <2>1. item \in DOMAIN cfg.databases /\ step \in 1..ObjectCount(item)
      BY <1>2 DEF ApplyDatabase, TypeInv, InRange
    <2>2. ObjectCount(item) \in Nat /\ Len(DatabaseObjects(item)) = ObjectCount(item)
      BY DatabaseObjectsLength DEF ObjectCount
    <2>. QED
      BY <1>2, <2>1, <2>2 DEF ApplyDatabase
  <1>3. CASE DatabasesStep /\ ~ ApplyDatabase
    BY <1>3 DEF DatabasesStep, EnsureBucket, SkipDrifted, StartDatabase, DatabasesApplied, SweepDatabases,
       SweepOrphan, SweepNext, SweepDone, SweptKind
  <1>4. CASE ServicesStep
    BY <1>4 DEF ServicesStep, StartService, PruneServiceSecret, PruneSecret, PruneKey, PruneDone,
       ApplyWorkload, ApplyKubeService, RolloutReady, ServicesApplied, SweepServices, SweepOrphan,
       SweepNext, SweepDone, SweptKind
  <1>5. CASE CronsStep
    BY <1>5 DEF CronsStep, StartCron, PruneCronSecret, PruneSecret, PruneKey, PruneDone, ApplyCron,
       CronsApplied, SweepCrons, AfterCrons, SweepOrphan, SweepNext, SweepDone, SweptKind
  <1>6. CASE InfraStep \/ IngressStep
    BY <1>6 DEF InfraStep, IngressStep, EnsureServer, DeleteServer, ApplyFirewall, TornDown, RouteTo,
       Unroute, AllRouted, AllUnrouted, EnsureCaddy, ReloadCaddy
  <1>7. CASE Decide \/ Declined \/ Abort \/ \E h \in Hashes : Begin(h)
    BY <1>7 DEF Decide, PlanFails, NoChanges, Proceed, Declined, Abort, Begin
  <1>8. CASE \E c \in Configs : Edit(c)
    BY <1>8 DEF Edit
  <1>9. CASE UNCHANGED vars
    BY <1>9 DEF vars
  <1>. QED
    BY <1>1, <1>2, <1>3, <1>4, <1>5, <1>6, <1>7, <1>8, <1>9 DEF Next, Run, DatabasesStep

\* Only credentials of undeclared databases are ever taken away.
LEMMA StepSourced ==
    ASSUME TypeInv, VitalOwned, Written, Sourced, [Next]_vars
    PROVE  Sourced'
  <1>. USE DEF Sourced
  <1>1. \A d : HasCredentials(d) /\ ~ HasCredentials(d)' => d \notin DOMAIN cfg.databases
    BY VitalWriters, VitalDecides, DatabaseApplied, DatabaseSwept
  <1>2. \A d \in WithCredentials : HasCredentials(d) /\ d \in DOMAIN cfg.databases
    BY DEF WithCredentials, HasCredentials
  <1>3. CASE sources' = {}
    BY <1>3
  <1>4. CASE UNCHANGED sources /\ pc = "idle"
    BY <1>4
  <1>5. CASE UNCHANGED <<cfg, sources>> /\ (pc' \in {"idle", "plan"} => pc \in {"idle", "plan"})
    BY <1>1, <1>5
  <1>6. CASE /\ UNCHANGED cfg /\ pc' \notin {"idle", "plan"}
             /\ sources' \subseteq sources \cup WithCredentials
    BY <1>1, <1>2, <1>6
  <1>7. CASE /\ UNCHANGED cfg /\ pc' \notin {"idle", "plan"}
             /\ ApplyDatabase /\ item \in DOMAIN cfg.databases /\ step = ObjectCount(item)
             /\ sources' = sources \cup {item}
    <2>1. pc = "databases" /\ item # NoVal /\ step > CredentialsAt(item)
      BY <1>7 DEF ApplyDatabase, ObjectCount, CredentialsAt
    <2>2. HasCredentials(item)
      BY <2>1 DEF Written
    <2>. QED
      BY <1>1, <1>7, <2>2
  <1>. QED
    BY <1>3, <1>4, <1>5, <1>6, <1>7, SourceMoves

----------------------------------------------------------------------------
(***************************************************************************)
(* A workload's Secret is written before it, and pruning takes only keys   *)
(* it does not refer to.                                                   *)
(***************************************************************************)
\* An upsert stores every key it is given.
LEMMA UpsertStores ==
    ASSUME NEW n, NEW keys, UpsertSecret(n, keys)
    PROVE  keys \subseteq SecretKeys(n)'
  <1>. SUFFICES ASSUME keys # {}
                PROVE  keys \subseteq SecretKeys(n)'
    OBVIOUS
  <1>. DEFINE o == SecretWith("app-secrets", n, "services", keys)
  <1>1. o.kind = "Secret" /\ o.name = <<"app-secrets", n>> /\ keys \subseteq o.keys
    BY DEF SecretWith, Object
  <1>2. objs' = Applied(o)
    BY DEF UpsertSecret
  <1>. HIDE DEF o
  <1>3. o \in objs'
    BY <1>1, <1>2 DEF Applied
  <1>. QED
    BY <1>1, <1>3 DEF SecretKeys, Get

\* Pruning spares the keys it is given.
LEMMA PruneStores ==
    ASSUME TypeInv, NEW n, NEW keys, PruneSecret(n, keys), keys \subseteq SecretKeys(n)
    PROVE  keys \subseteq SecretKeys(n)'
  <1>1. CASE UNCHANGED objs
    BY <1>1 DEF SecretKeys, Get
  <1>2. CASE PruneKey(n, keys)
    <2>1. PICK k \in SecretKeys(n) \ keys :
             objs' = (objs \ Get("Secret", "app-secrets", n)) \cup SetKeys(n, SecretKeys(n) \ {k})
      BY <1>2 DEF PruneKey
    <2>2. PICK o \in Get("Secret", "app-secrets", n) : TRUE
      BY <2>1 DEF SecretKeys
    <2>. DEFINE p == [o EXCEPT !.keys = SecretKeys(n) \ {k}]
    <2>3. p.kind = "Secret" /\ p.name = <<"app-secrets", n>> /\ p.keys = SecretKeys(n) \ {k}
      BY <2>2 DEF Get, TypeInv, TypeOK, ClusterTypeOK, ObjectSet
    <2>4. p \in objs'
      BY <2>1, <2>2 DEF SetKeys
    <2>. HIDE DEF p
    <2>5. p \in Get("Secret", "app-secrets", n)'
      BY <2>3, <2>4 DEF Get
    <2>6. SecretKeys(n) \ {k} \subseteq SecretKeys(n)'
      BY <2>3, <2>5 DEF SecretKeys
    <2>. QED
      BY <2>1, <2>6
  <1>. QED
    BY <1>1, <1>2 DEF PruneSecret, PruneDone

\* Applying an object of another kind changes no Secret.
LEMMA SecretsLeft ==
    ASSUME NEW o, o.kind # "Secret", objs' = Applied(o), NEW n
    PROVE  SecretKeys(n)' = SecretKeys(n)
  <1>1. Get("Secret", "app-secrets", n)' = Get("Secret", "app-secrets", n)
    BY DEF Applied, Get, SameObject
  <1>. QED
    BY <1>1 DEF SecretKeys

\* How a run gets to be at a workload.
LEMMA WorkloadMoves ==
    ASSUME TypeInv, [Next]_vars, pc' \in {"services", "crons"}, item' # NoVal
    PROVE  /\ UNCHANGED cfg
           /\ \/ UNCHANGED <<objs, pc, item, sources>>
              \/ \E n \in Names : /\ StartService(n) \/ StartCron(n)
                                 /\ item' = n /\ UNCHANGED <<pc, sources>>
              \/ /\ PruneServiceSecret \/ PruneCronSecret \/ ApplyWorkload \/ ApplyKubeService
                 /\ UNCHANGED <<pc, item, sources>>
  <1>. USE DEF Enter, Finish, Take, Continue, Processed, runVars, clusterVars
  <1>1. CASE ServicesStep
    BY <1>1 DEF ServicesStep, StartService, PruneServiceSecret, PruneSecret, PruneKey, PruneDone,
       ApplyWorkload, ApplyKubeService, RolloutReady, ServicesApplied, SweepServices, SweepOrphan,
       SweepNext, SweepDone, SweptKind
  <1>2. CASE CronsStep
    BY <1>2 DEF CronsStep, StartCron, PruneCronSecret, PruneSecret, PruneKey, PruneDone, ApplyCron,
       CronsApplied, SweepCrons, AfterCrons, SweepOrphan, SweepNext, SweepDone, SweptKind
  <1>3. RegistriesStep => item' = NoVal
    BY DEF RegistriesStep, RegistriesLoud, RegistriesQuiet, TypeInv, InRange
  <1>4. DatabasesStep => pc' \notin {"services", "crons"} \/ item' = NoVal
    BY DEF DatabasesStep, EnsureBucket, SkipDrifted, StartDatabase, ApplyDatabase, DatabasesApplied,
       SweepDatabases, SweepOrphan, SweepNext, SweepDone, SweptKind
  <1>5. InfraStep \/ IngressStep \/ Proceed => pc' \notin {"services", "crons"}
    BY DEF InfraStep, IngressStep, Proceed, EnsureServer, DeleteServer, ApplyFirewall, TornDown,
       RouteTo, Unroute, AllRouted, AllUnrouted, EnsureCaddy, ReloadCaddy
  <1>6. CASE UNCHANGED vars
    BY <1>6 DEF vars
  <1>. QED
    BY <1>1, <1>2, <1>3, <1>4, <1>5, <1>6, NotUnderway DEF Next, Run, Decide

\* So the Secret of the workload at hand is complete until the next one.
LEMMA StepStored ==
    ASSUME TypeInv, Stored, [Next]_vars
    PROVE  Stored'
  <1>. DEFINE Refers(n) == IF pc = "services" THEN ServiceKeys(n) ELSE cfg.crons[n].secrets
  <1>. SUFFICES ASSUME NEW n, n = item', n # NoVal, pc' \in {"services", "crons"}
                PROVE  Refers(n)' \subseteq SecretKeys(n)'
    BY DEF Stored, ServiceKeys, SecretKeys, Get
  <1>1. CASE UNCHANGED <<objs, pc, item, sources>>
    BY <1>1, WorkloadMoves DEF Stored, ServiceKeys, SecretKeys, Get
  <1>2. ASSUME UNCHANGED <<cfg, pc, sources>>
        PROVE  Refers(n)' = Refers(n)
    BY <1>2 DEF ServiceKeys
  <1>3. CASE StartService(n) /\ UNCHANGED <<pc, sources>>
    <2>1. UpsertSecret(n, Refers(n)) /\ UNCHANGED cfg
      BY <1>3 DEF StartService
    <2>. QED
      BY <1>2, <1>3, <2>1, UpsertStores
  <1>4. CASE StartCron(n) /\ UNCHANGED <<pc, sources>>
    <2>1. UpsertSecret(n, Refers(n)) /\ UNCHANGED cfg
      BY <1>4 DEF StartCron
    <2>. QED
      BY <1>2, <1>4, <2>1, UpsertStores
  <1>5. CASE (PruneServiceSecret \/ PruneCronSecret) /\ UNCHANGED <<pc, item, sources>>
    <2>1. PruneSecret(n, Refers(n)) /\ UNCHANGED cfg /\ Refers(n) \subseteq SecretKeys(n)
      BY <1>5 DEF PruneServiceSecret, PruneCronSecret, PruneSecret, Stored
    <2>. QED
      BY <1>2, <1>5, <2>1, PruneStores
  <1>6. CASE (ApplyWorkload \/ ApplyKubeService) /\ UNCHANGED <<pc, item, sources>>
    <2>1. UNCHANGED cfg /\ Refers(n) \subseteq SecretKeys(n)
      BY <1>6 DEF ApplyWorkload, ApplyKubeService, Stored
    <2>2. /\ Workload(item, hash).kind # "Secret"
          /\ Object("Service", "app", item, "services").kind # "Secret"
      BY DEF Workload, Object
    <2>3. SecretKeys(n)' = SecretKeys(n)
      BY <1>6, <2>2, SecretsLeft DEF ApplyWorkload, ApplyKubeService
    <2>. QED
      BY <1>2, <1>6, <2>1, <2>3
  <1>. QED
    BY <1>1, <1>3, <1>4, <1>5, <1>6, WorkloadMoves

----------------------------------------------------------------------------
(***************************************************************************)
(* Who refers to keys.                                                     *)
(***************************************************************************)

\* What Apply adds to the objects.
LEMMA AppliedNew ==
    ASSUME NEW o, objs' = Applied(o)
    PROVE  objs' \ objs \subseteq {o}
  BY DEF Applied

\* Only workloads refer to keys: other objects a step adds are Secrets, or
\* refer to none.
LEMMA NewReferences ==
    ASSUME TypeInv, [Next]_vars, NEW o \in objs' \ objs, o.keys # {}, o.kind # "Secret"
    PROVE  \/ ApplyWorkload /\ o = Workload(item, hash)
           \/ ApplyCron /\ o = CronJob(item)
  <1>1. \A kind, role, base, owner : Object(kind, role, base, owner).keys = {}
    BY DEF Object
  <1>2. ASSUME NEW n, NEW keys, UpsertSecret(n, keys) \/ PruneSecret(n, keys)
        PROVE  FALSE
    <2>1. SecretWith("app-secrets", n, "services", keys).kind = "Secret"
      BY DEF SecretWith, Object
    <2>2. ~ UpsertSecret(n, keys)
      BY <2>1, AppliedNew DEF UpsertSecret
    <2>3. \A ks : \A q \in Get("Secret", "app-secrets", n) : [q EXCEPT !.keys = ks].kind = "Secret"
      BY DEF Get, TypeInv, TypeOK, ClusterTypeOK, ObjectSet
    <2>4. ASSUME NEW ks PROVE o \notin SetKeys(n, ks)
      BY <2>3 DEF SetKeys
    <2>5. ~ PruneSecret(n, keys)
      BY <2>4 DEF PruneSecret, PruneKey, PruneDone
    <2>. QED
      BY <1>2, <2>2, <2>5
  <1>3. ~ RegistriesStep
    BY <1>1, AppliedNew DEF RegistriesStep, RegistriesLoud, RegistriesQuiet, PullSecretApplied
  <1>4. ~ DatabasesStep
    <2>1. ~ ApplyDatabase
      <3>. SUFFICES ASSUME ApplyDatabase PROVE FALSE
        OBVIOUS
      <3>1. step \in 1..ObjectCount(item)
        BY DEF TypeInv, InRange, ApplyDatabase
      <3>2. DatabaseObjects(item)[step].keys = {}
        BY <3>1, DatabaseWrites
      <3>. QED
        BY <3>2, AppliedNew DEF ApplyDatabase
    <2>. QED
      BY <2>1 DEF DatabasesStep, EnsureBucket, SkipDrifted, StartDatabase, DatabasesApplied, SweepDatabases,
         SweepOrphan, SweepNext, SweepDone, SweptKind, clusterVars
  <1>5. CASE ServicesStep
    <2>1. ~ ApplyKubeService
      BY <1>1, AppliedNew DEF ApplyKubeService
    <2>2. CASE ApplyWorkload
      <3>1. objs' = Applied(Workload(item, hash))
        BY <2>2 DEF ApplyWorkload
      <3>2. objs' \ objs \subseteq {Workload(item, hash)}
        BY <3>1, AppliedNew
      <3>. QED
        BY <2>2, <3>2
    <2>. QED
      BY <1>2, <1>5, <2>1, <2>2 DEF ServicesStep, StartService, PruneServiceSecret, RolloutReady,
         ServicesApplied, SweepServices, SweepOrphan, SweepNext, SweepDone, SweptKind, clusterVars
  <1>6. CASE CronsStep
    <2>1. CASE ApplyCron
      BY <2>1, AppliedNew DEF ApplyCron
    <2>. QED
      BY <1>2, <1>6, <2>1 DEF CronsStep, StartCron, PruneCronSecret, CronsApplied, SweepCrons,
         SweepOrphan, SweepNext, SweepDone, SweptKind, clusterVars
  <1>7. ~ EnsureCaddy
    BY <1>1, AppliedNew DEF EnsureCaddy
  <1>8. objs' # objs
    OBVIOUS
  <1>. QED
    BY <1>3, <1>4, <1>5, <1>6, <1>7, <1>8
       DEF Next, Run, Decide, InfraStep, IngressStep, Edit, Begin, Declined, Abort, PlanFails,
       NoChanges, Proceed, EnsureServer, DeleteServer, ApplyFirewall, TornDown, RouteTo, Unroute,
       AllRouted, AllUnrouted, ReloadCaddy, vars, clusterVars

\* All a new workload refers to is there.
LEMMA StepResolves ==
    ASSUME Keys \cap Databases = {}, TypeInv, Sourced, Stored, [Next]_vars,
           NEW o \in objs' \ objs, o.keys # {}, o.kind # "Secret"
    PROVE  /\ o.keys \subseteq SecretKeys(o.name[2])
           /\ \A d \in o.keys \cap Databases : Get("Secret", "db-credentials", d) # {}
  <1>0. cfg \in Configs
    BY DEF TypeInv, TypeOK, ClusterTypeOK
  <1>1. CASE ApplyWorkload /\ o = Workload(item, hash)
    <2>1. pc = "services" /\ item # NoVal /\ item \in DOMAIN cfg.services
      BY <1>1 DEF ApplyWorkload, TypeInv, InRange
    <2>2. o.keys = ServiceKeys(item) /\ o.name[2] = item
      BY <1>1 DEF Workload, Object
    <2>3. cfg.services[item].secrets \subseteq Keys
      BY <1>0, <2>1, ServiceTypes DEF ServiceDef
    <2>4. \A d \in o.keys \cap Databases : HasCredentials(d)
      BY <2>2, <2>3 DEF ServiceKeys, Sourced
    <2>. QED
      BY <2>1, <2>2, <2>4 DEF Stored, HasCredentials
  <1>2. CASE ApplyCron /\ o = CronJob(item)
    <2>1. pc = "crons" /\ item # NoVal /\ item \in DOMAIN cfg.crons
      BY <1>2 DEF ApplyCron, TypeInv, InRange
    <2>2. o.keys = cfg.crons[item].secrets /\ o.name[2] = item
      BY <1>2 DEF CronJob, Object
    <2>3. o.keys \subseteq Keys
      BY <1>0, <2>1, <2>2, CronTypes DEF CronDef
    <2>. QED
      BY <2>1, <2>2, <2>3 DEF Stored
  <1>. QED
    BY <1>1, <1>2, NewReferences

(***************************************************************************)
(* A service or cron is written only when each key it refers to is in its  *)
(* Secret and the databases it receives a URL of have their credentials    *)
(* (upsertServiceSecrets before the workload, Databases before Services),  *)
(* where no declared secret is called like a DATABASE_URL.                 *)
(***************************************************************************)
THEOREM ReferencesResolve ==
    ASSUME Keys \cap Databases = {}
    PROVE  Spec => RefsResolveWhenWritten
  <1>. DEFINE Inv == TypeInv /\ VitalOwned /\ Written /\ Sourced /\ Stored
              Resolved == \A o \in objs' \ objs :
                             o.keys # {} /\ o.kind # "Secret" =>
                                /\ o.keys \subseteq SecretKeys(o.name[2])
                                /\ \A d \in o.keys \cap Databases :
                                      Get("Secret", "db-credentials", d) # {}
  <1>1. Init => Inv
    BY InitTypes DEF Init, ClusterInit, VitalOwned, Vital, Written, Sourced, Stored
  <1>2. Inv /\ [Next]_vars => Inv'
    <2>. SUFFICES ASSUME Inv, [Next]_vars PROVE Inv'
      OBVIOUS
    <2>1. VitalOwned'
      BY VitalWriters, VitalDecides, DatabaseApplied, DatabaseSwept
    <2>. QED
      BY <2>1, StepTypes, StepWritten, StepSourced, StepStored
  <1>3. Inv /\ [Next]_vars => [Resolved]_vars
    BY StepResolves
  <1>. QED
    BY <1>1, <1>2, <1>3, PTL DEF Spec, RefsResolveWhenWritten
================================================================================
