------------------------------- MODULE Deploy -------------------------------
(***************************************************************************)
(* reconcile.Deploy (internal/reconcile/reconcile.go) as a state machine:  *)
(* the operator edits nvoi.yaml and runs `nvoi deploy`; a run computes the *)
(* plan, asks, and walks the reconcile steps in order.  A step of the      *)
(* model writes at most one thing to the outside, so that a run can end    *)
(* between any two writes; nothing is rolled back, and what a later run    *)
(* does is decided by the plan it computes from what it finds.             *)
(***************************************************************************)
EXTENDS Plan

CONSTANT Disturbances
(* What a run of the model may meet:                                       *)
(*   "abort"    a step returns an error, or the process dies               *)
(*   "decline"  the operator answers no to the prompt                      *)
(*   "sweep"    deleting an orphan fails: a warning, and the run goes on   *)
(*   "read"     reading a credentials Secret fails on the quiet path       *)
(*   "unroute"  deleting a DNS record fails: a warning                     *)

ASSUME DisturbancesAssumption ==
    Disturbances \subseteq {"abort", "decline", "sweep", "read", "unroute"}

VARIABLES
    pc,       \* where the run is, "idle" between runs
    hash,     \* the deploy hash of the run
    plan,     \* the changes shown to the operator
    todo,     \* what the current step still has to process
    item,     \* the one it is processing
    step,     \* and how far it is with it
    sources,  \* databases whose DATABASE_URL the run has
    outcome   \* how the last run ended

runVars == <<pc, hash, plan, todo, item, step, sources, outcome>>
vars == <<cfg, clusterVars, runVars>>

Loud == HasInfraChanges(plan)

\* The run goes on with step p, which has the given work to do.
Enter(p, work) ==
    /\ pc' = p
    /\ todo' = work
    /\ item' = NoVal
    /\ step' = 1
    /\ UNCHANGED <<hash, plan, sources, outcome>>

\* The run is over.
Finish(o) ==
    /\ pc' = "idle"
    /\ outcome' = o
    /\ hash' = NoVal
    /\ plan' = {}
    /\ todo' = {}
    /\ item' = NoVal
    /\ step' = 1
    /\ sources' = {}

\* The current step goes on with its current item.
Continue == step' = step + 1 /\ UNCHANGED <<pc, hash, plan, todo, item, sources, outcome>>

\* The current step takes an item of its work.
Take(n) ==
    /\ item' = n
    /\ step' = 1
    /\ UNCHANGED <<pc, hash, plan, todo, sources, outcome>>

\* The current step is done with some of its work.
Processed(n, urls) ==
    /\ todo' = todo \ {n}
    /\ item' = NoVal
    /\ step' = 1
    /\ sources' = sources \cup urls
    /\ UNCHANGED <<pc, hash, plan, outcome>>

----------------------------------------------------------------------------
Init ==
    /\ ClusterInit
    /\ pc = "idle"
    /\ hash = NoVal
    /\ plan = {}
    /\ todo = {}
    /\ item = NoVal
    /\ step = 1
    /\ sources = {}
    /\ outcome = "none"

(* Between runs, and up to the decision to apply.                          *)

Edit(c) ==
    /\ pc = "idle"
    /\ c # cfg
    /\ cfg' = c
    /\ outcome' = "none"
    /\ UNCHANGED <<clusterVars, pc, hash, plan, todo, item, step, sources>>

\* The hash is the current time to the second: no live image carries it.
Begin(h) ==
    /\ pc = "idle"
    /\ \A o \in objs : o.tag # h
    /\ pc' = "plan"
    /\ hash' = h
    /\ outcome' = "none"
    /\ UNCHANGED <<cfg, clusterVars, plan, todo, item, step, sources>>

\* ComputePlan attaches to the cluster first, and there is no master.
PlanFails ==
    /\ pc = "plan"
    /\ Master \notin servers
    /\ Finish("failed")
    /\ UNCHANGED <<cfg, clusterVars>>

NoChanges ==
    /\ pc = "plan"
    /\ Master \in servers
    /\ \E unread \in SUBSET Unread : ComputePlan(hash, unread) = {}
    /\ Finish("nochange")
    /\ UNCHANGED <<cfg, clusterVars>>

Declined ==
    /\ "decline" \in Disturbances
    /\ pc = "plan"
    /\ Master \in servers
    /\ \E unread \in SUBSET Unread : Promptable(ComputePlan(hash, unread)) # {}
    /\ Finish("aborted")
    /\ UNCHANGED <<cfg, clusterVars>>

Proceed ==
    /\ pc = "plan"
    /\ Master \in servers
    /\ \E unread \in SUBSET Unread : plan' = ComputePlan(hash, unread)
    /\ plan' # {}
    /\ pc' = IF HasInfraChanges(plan') THEN "bootstrap" ELSE "registries"
    /\ UNCHANGED <<cfg, clusterVars, hash, todo, item, step, sources, outcome>>

\* Any error a step returns ends the run where it stands.
Abort ==
    /\ "abort" \in Disturbances
    /\ pc # "idle"
    /\ Finish("failed")
    /\ UNCHANGED <<cfg, clusterVars>>

----------------------------------------------------------------------------
(* infra.Bootstrap, on the loud path only.                                 *)

EnsureServer(s) ==
    /\ pc = "bootstrap"
    /\ s \in cfg.servers \ servers
    /\ s = Master \/ Master \in servers
    /\ servers' = servers \cup {s}
    /\ UNCHANGED <<cfg, objs, webOpen, buckets, records, routes, runVars>>

ApplyFirewall ==
    /\ pc = "bootstrap"
    /\ cfg.servers \subseteq servers
    /\ webOpen' = WebWanted
    /\ Enter("registries", {})
    /\ UNCHANGED <<cfg, objs, servers, buckets, records, routes>>

(* Registries, then either Databases or, on the quiet path,                *)
(* readExistingDatabaseURLs: a database whose credentials cannot be read   *)
(* is passed over.                                                         *)

WithCredentials ==
    {d \in DOMAIN cfg.databases : Get("Secret", "db-credentials", d) # {}}

PullSecretApplied ==
    IF cfg.registry
    THEN Applied(Object("Secret", "registry-auth", NoVal, "registries"))
    ELSE objs \ Get("Secret", "registry-auth", NoVal)

RegistriesLoud ==
    /\ pc = "registries"
    /\ Loud
    /\ objs' = PullSecretApplied
    /\ Enter("databases", DOMAIN cfg.databases)
    /\ UNCHANGED <<cfg, servers, webOpen, buckets, records, routes>>

RegistriesQuiet(unread) ==
    /\ pc = "registries"
    /\ ~ Loud
    /\ objs' = PullSecretApplied
    /\ unread \subseteq WithCredentials
    /\ unread = {} \/ "read" \in Disturbances
    /\ sources' = WithCredentials \ unread
    /\ pc' = "services"
    /\ todo' = DOMAIN cfg.services
    /\ UNCHANGED <<cfg, servers, webOpen, buckets, records, routes,
                   hash, plan, item, step, outcome>>

----------------------------------------------------------------------------
(* Orphan sweeps.  A sweep goes through a list of kinds, each with the     *)
(* names to keep; step is the place in the list.                           *)

Swept(kind, desired) == [kind |-> kind, desired |-> desired]

Left(owner, list) == Orphans(owner, list[step].kind, list[step].desired)

SweepOrphan(owner, list) ==
    /\ \E o \in Left(owner, list) : objs' = objs \ {o}
    /\ UNCHANGED <<cfg, servers, webOpen, buckets, records, routes, runVars>>

SweptKind(owner, list) ==
    /\ Left(owner, list) = {} \/ "sweep" \in Disturbances
    /\ UNCHANGED <<cfg, clusterVars>>

SweepNext(owner, list) ==
    /\ step < Len(list)
    /\ SweptKind(owner, list)
    /\ Continue

SweepDone(owner, list) ==
    /\ step = Len(list)
    /\ SweptKind(owner, list)

Named(role, bases) == {<<role, b>> : b \in bases}

----------------------------------------------------------------------------
(* Storage, then Databases: each database in turn, then its sweep.         *)

BucketsEnsured == cfg.storage \subseteq buckets

EnsureBucket(b) ==
    /\ pc = "databases"
    /\ b \in cfg.storage \ buckets
    /\ buckets' = buckets \cup {b}
    /\ UNCHANGED <<cfg, objs, servers, webOpen, records, routes, runVars>>

\* Mutant of Drifted: the migration gate is gone.
NeverDrifted(d) == FALSE

\* detectNodePinDrift: the live StatefulSet is pinned to another server.
Drifted(d) ==
    \E o \in Get("StatefulSet", "db", d) : o.node # cfg.databases[d].server

\* A drifted database is left alone; its URL is read from the credentials.
SkipDrifted(d) ==
    /\ pc = "databases"
    /\ BucketsEnsured
    /\ item = NoVal
    /\ d \in todo
    /\ Drifted(d)
    /\ IF d \in WithCredentials THEN Processed(d, {d}) ELSE Finish("failed")
    /\ UNCHANGED <<cfg, clusterVars>>

\* ensureDatabaseBackupBucket creates the bucket before anything else.
StartDatabase(d) ==
    /\ pc = "databases"
    /\ BucketsEnsured
    /\ item = NoVal
    /\ d \in todo
    /\ ~ Drifted(d)
    /\ buckets' = IF cfg.databases[d].backup THEN buckets \cup {d} ELSE buckets
    /\ Take(d)
    /\ UNCHANGED <<cfg, objs, servers, webOpen, records, routes>>

\* What ReconcileOneDatabase writes, in order.
DatabaseObjects(d) ==
    LET of(kind, role) == Object(kind, role, d, "databases")
        pinned == [of("StatefulSet", "db") EXCEPT !.node = cfg.databases[d].server]
    IN  IF cfg.databases[d].backup
        THEN <<of("Secret", "db-backup-creds"), of("Secret", "db-credentials"),
               of("Service", "db"), of("PVC", "db-data"), pinned,
               of("CronJob", "db-backup")>>
        ELSE <<of("Secret", "db-credentials"),
               of("Service", "db"), of("PVC", "db-data"), pinned>>

ApplyDatabase ==
    /\ pc = "databases"
    /\ item # NoVal
    /\ objs' = Applied(DatabaseObjects(item)[step])
    /\ IF step < Len(DatabaseObjects(item)) THEN Continue
                                            ELSE Processed(item, {item})
    /\ UNCHANGED <<cfg, servers, webOpen, buckets, records, routes>>

DatabasesApplied ==
    /\ pc = "databases"
    /\ BucketsEnsured
    /\ todo = {}
    /\ Enter("dbsweep", {})
    /\ UNCHANGED <<cfg, clusterVars>>

\* Mutant of DatabaseSweeps: the credentials go first.
DatabaseSweepsSecretFirst ==
    LET dbs == DOMAIN cfg.databases
    IN  << Swept("Secret", Named("db-credentials", dbs)
                              \cup Named("db-backup-creds", BackupBuckets)),
           Swept("StatefulSet", Named("db", dbs)),
           Swept("Service", Named("db", dbs)),
           Swept("PVC", Named("db-data", dbs)),
           Swept("CronJob", Named("db-backup", BackupBuckets)) >>

\* Mutant of DatabaseSweeps: volumes are not swept.
DatabaseSweepsNoVolume ==
    LET dbs == DOMAIN cfg.databases
    IN  << Swept("StatefulSet", Named("db", dbs)),
           Swept("Service", Named("db", dbs)),
           Swept("Secret", Named("db-credentials", dbs)
                              \cup Named("db-backup-creds", BackupBuckets)),
           Swept("CronJob", Named("db-backup", BackupBuckets)) >>

DatabaseSweeps ==
    LET dbs == DOMAIN cfg.databases
    IN  << Swept("StatefulSet", Named("db", dbs)),
           Swept("Service", Named("db", dbs)),
           Swept("PVC", Named("db-data", dbs)),
           Swept("Secret", Named("db-credentials", dbs)
                              \cup Named("db-backup-creds", BackupBuckets)),
           Swept("CronJob", Named("db-backup", BackupBuckets)) >>

SweepDatabases ==
    /\ pc = "dbsweep"
    /\ \/ SweepOrphan("databases", DatabaseSweeps)
       \/ SweepNext("databases", DatabaseSweeps)
       \/ /\ SweepDone("databases", DatabaseSweeps)
          /\ Enter("services", DOMAIN cfg.services)

----------------------------------------------------------------------------
(* upsertServiceSecrets, for a service or a cron: the owner label is       *)
(* "services" for both.  Keys that are no longer declared are removed one  *)
(* by one, and a removal that fails is ignored.                            *)

UpsertSecret(n, keys) ==
    objs' = IF keys = {} THEN objs \ Get("Secret", "app-secrets", n)
            ELSE Applied(SecretWith("app-secrets", n, "services", keys))

SetKeys(n, keys) == {[o EXCEPT !.keys = keys] : o \in Get("Secret", "app-secrets", n)}

PruneKey(n, keys) ==
    /\ \E k \in SecretKeys(n) \ keys :
          objs' = (objs \ Get("Secret", "app-secrets", n))
                     \cup SetKeys(n, SecretKeys(n) \ {k})
    /\ UNCHANGED runVars

PruneDone(n, keys) ==
    /\ SecretKeys(n) \subseteq keys \/ "sweep" \in Disturbances
    /\ Continue
    /\ UNCHANGED objs

\* Step 1 of a workload is the pruning of its Secret.
PruneSecret(n, keys) ==
    /\ step = 1
    /\ PruneKey(n, keys) \/ PruneDone(n, keys)
    /\ UNCHANGED <<cfg, servers, webOpen, buckets, records, routes>>

----------------------------------------------------------------------------
(* Services, in dependency order; each is waited for before the next.      *)

\* The keys a service's container refers to.
ServiceKeys(n) ==
    cfg.services[n].secrets \cup (cfg.services[n].dbs \cap sources)

\* Mutant of StartService: the keys of databases are not stored.
StartServiceBare(n) ==
    /\ pc = "services"
    /\ item = NoVal
    /\ n \in todo
    /\ cfg.services[n].deps \cap todo = {}
    /\ UpsertSecret(n, cfg.services[n].secrets)
    /\ Take(n)
    /\ UNCHANGED <<cfg, servers, webOpen, buckets, records, routes>>

StartService(n) ==
    /\ pc = "services"
    /\ item = NoVal
    /\ n \in todo
    /\ cfg.services[n].deps \cap todo = {}
    /\ UpsertSecret(n, ServiceKeys(n))
    /\ Take(n)
    /\ UNCHANGED <<cfg, servers, webOpen, buckets, records, routes>>

PruneServiceSecret ==
    /\ pc = "services"
    /\ item # NoVal
    /\ PruneSecret(item, ServiceKeys(item))

Workload(n, h) ==
    [Object(IF cfg.services[n].stateful THEN "StatefulSet" ELSE "Deployment",
            "app", n, "services")
       EXCEPT !.image = ResolveImage(n, h).image, !.tag = ResolveImage(n, h).tag,
              !.spec = cfg.services[n].spec, !.keys = ServiceKeys(n),
              !.pull = cfg.registry]

\* ServiceSet: the workload, then its Kubernetes Service.
ApplyWorkload ==
    /\ pc = "services"
    /\ item # NoVal
    /\ step = 2
    /\ objs' = Applied(Workload(item, hash))
    /\ Continue
    /\ UNCHANGED <<cfg, servers, webOpen, buckets, records, routes>>

ApplyKubeService ==
    /\ pc = "services"
    /\ item # NoVal
    /\ step = 3
    /\ objs' = Applied(Object("Service", "app", item, "services"))
    /\ Continue
    /\ UNCHANGED <<cfg, servers, webOpen, buckets, records, routes>>

\* WaitRollout returned: the service is ready.
RolloutReady ==
    /\ pc = "services"
    /\ item # NoVal
    /\ step = 4
    /\ Processed(item, {})
    /\ UNCHANGED <<cfg, clusterVars>>

ServicesApplied ==
    /\ pc = "services"
    /\ todo = {}
    /\ Enter("svcsweep", {})
    /\ UNCHANGED <<cfg, clusterVars>>

ServiceSweeps ==
    LET names == Named("app", DOMAIN cfg.services)
    IN  << Swept("Deployment", names), Swept("StatefulSet", names),
           Swept("Service", names),
           Swept("Secret", Named("app-secrets", DOMAIN cfg.services)) >>

SweepServices ==
    /\ pc = "svcsweep"
    /\ \/ SweepOrphan("services", ServiceSweeps)
       \/ SweepNext("services", ServiceSweeps)
       \/ /\ SweepDone("services", ServiceSweeps)
          /\ Enter("crons", DOMAIN cfg.crons)

----------------------------------------------------------------------------
(* Crons.                                                                  *)

StartCron(n) ==
    /\ pc = "crons"
    /\ item = NoVal
    /\ n \in todo
    /\ UpsertSecret(n, cfg.crons[n].secrets)
    /\ Take(n)
    /\ UNCHANGED <<cfg, servers, webOpen, buckets, records, routes>>

PruneCronSecret ==
    /\ pc = "crons"
    /\ item # NoVal
    /\ PruneSecret(item, cfg.crons[item].secrets)

CronJob(n) ==
    [Object("CronJob", "app", n, "crons")
       EXCEPT !.image = cfg.crons[n].image, !.spec = cfg.crons[n].schedule,
              !.keys = cfg.crons[n].secrets, !.pull = cfg.registry]

ApplyCron ==
    /\ pc = "crons"
    /\ item # NoVal
    /\ step = 2
    /\ objs' = Applied(CronJob(item))
    /\ Processed(item, {})
    /\ UNCHANGED <<cfg, servers, webOpen, buckets, records, routes>>

CronsApplied ==
    /\ pc = "crons"
    /\ todo = {}
    /\ Enter("cronsweep", {})
    /\ UNCHANGED <<cfg, clusterVars>>

\* Mutant of CronSweeps: the names of the services are kept.
CronSweepsByService ==
    << Swept("CronJob", Named("app", DOMAIN cfg.services)),
       Swept("Secret", Named("app-secrets", DOMAIN cfg.crons)) >>

CronSweeps ==
    << Swept("CronJob", Named("app", DOMAIN cfg.crons)),
       Swept("Secret", Named("app-secrets", DOMAIN cfg.crons)) >>

\* Mutant of AfterCrons: the quiet path ends here.
AfterCronsQuietEnds == IF Loud THEN Enter("teardown", {}) ELSE Finish("done")

\* After the crons: TeardownOrphans when loud, else the Caddy reload when
\* there are domains, else the end.
AfterCrons ==
    IF Loud THEN Enter("teardown", {})
    ELSE IF WebWanted THEN Enter("caddy", {}) ELSE Finish("done")

SweepCrons ==
    /\ pc = "cronsweep"
    /\ \/ SweepOrphan("crons", CronSweeps)
       \/ SweepNext("crons", CronSweeps)
       \/ SweepDone("crons", CronSweeps) /\ AfterCrons

----------------------------------------------------------------------------
(* infra.TeardownOrphans, on the loud path only.                           *)

DeleteServer(s) ==
    /\ pc = "teardown"
    /\ s \in servers \ cfg.servers
    /\ servers' = servers \ {s}
    /\ UNCHANGED <<cfg, objs, webOpen, buckets, records, routes, runVars>>

TornDown ==
    /\ pc = "teardown"
    /\ servers \subseteq cfg.servers
    /\ IF WebWanted THEN Enter("routes", DOMAIN cfg.domains) ELSE Finish("done")
    /\ UNCHANGED <<cfg, clusterVars>>

(* RouteDomains, on the loud path and only while there are domains: a      *)
(* record for every domain, then the removal of the records of domains     *)
(* Caddy still serves and the configuration no longer has.                 *)

RouteTo(w) ==
    /\ pc = "routes"
    /\ w \in todo
    /\ records' = records \cup {w}
    /\ Processed(w, {})
    /\ UNCHANGED <<cfg, objs, servers, webOpen, buckets, routes>>

AllRouted ==
    /\ pc = "routes"
    /\ todo = {}
    /\ \E unread \in SUBSET Unread :
          Enter("unroute", ServedDomains("unroute", unread) \ DOMAIN cfg.domains)
    /\ UNCHANGED <<cfg, clusterVars>>

Unroute(w) ==
    /\ pc = "unroute"
    /\ w \in todo
    /\ \/ records' = records \ {w}
       \/ "unroute" \in Disturbances /\ UNCHANGED records
    /\ Processed(w, {})
    /\ UNCHANGED <<cfg, objs, servers, webOpen, buckets, routes>>

AllUnrouted ==
    /\ pc = "unroute"
    /\ todo = {}
    /\ Enter("caddy", {})
    /\ UNCHANGED <<cfg, clusterVars>>

(* Ingress, on both paths while there are domains: Caddy itself, then one  *)
(* reload that replaces its whole configuration.                           *)

EnsureCaddy ==
    /\ pc = "caddy"
    /\ objs' = Applied(Object("Deployment", "caddy", NoVal, "caddy"))
    /\ Enter("reload", {})
    /\ UNCHANGED <<cfg, servers, webOpen, buckets, records, routes>>

\* GetServicePort needs the Service of every domain's service to exist.
ReloadCaddy ==
    /\ pc = "reload"
    /\ \A w \in DOMAIN cfg.domains : Get("Service", "app", cfg.domains[w]) # {}
    /\ routes' = cfg.domains
    /\ Finish("done")
    /\ UNCHANGED <<cfg, objs, servers, webOpen, buckets, records>>

----------------------------------------------------------------------------
Decide == PlanFails \/ NoChanges \/ Proceed

InfraStep ==
    \/ \E s \in Servers : EnsureServer(s) \/ DeleteServer(s)
    \/ ApplyFirewall
    \/ TornDown

RegistriesStep == RegistriesLoud \/ \E u \in SUBSET Databases : RegistriesQuiet(u)

DatabasesStep ==
    \/ \E b \in Buckets : EnsureBucket(b)
    \/ \E d \in Databases : SkipDrifted(d) \/ StartDatabase(d)
    \/ ApplyDatabase
    \/ DatabasesApplied
    \/ SweepDatabases

ServicesStep ==
    \/ \E n \in Names : StartService(n)
    \/ PruneServiceSecret
    \/ ApplyWorkload
    \/ ApplyKubeService
    \/ RolloutReady
    \/ ServicesApplied
    \/ SweepServices

CronsStep ==
    \/ \E n \in Names : StartCron(n)
    \/ PruneCronSecret
    \/ ApplyCron
    \/ CronsApplied
    \/ SweepCrons

IngressStep ==
    \/ \E w \in Domains : RouteTo(w) \/ Unroute(w)
    \/ AllRouted
    \/ AllUnrouted
    \/ EnsureCaddy
    \/ ReloadCaddy

\* What the program does once a run is under way.
Run == Decide \/ InfraStep \/ RegistriesStep \/ DatabasesStep
          \/ ServicesStep \/ CronsStep \/ IngressStep

Next ==
    \/ \E c \in Configs : Edit(c)
    \/ \E h \in Hashes : Begin(h)
    \/ Declined
    \/ Abort
    \/ Run

Spec == Init /\ [][Next]_vars

\* The program keeps executing a run it has started, and the operator (or
\* the CI job) keeps deploying.
FairSpec ==
    /\ Spec
    /\ WF_vars(Run)
    /\ WF_vars(\E h \in Hashes : Begin(h))

Steps == {"idle", "plan", "bootstrap", "registries", "databases", "dbsweep",
          "services", "svcsweep", "crons", "cronsweep", "teardown",
          "routes", "unroute", "caddy", "reload"}

RunTypeOK ==
    /\ pc \in Steps
    /\ hash \in Hashes \cup {NoVal}
    /\ \A e \in plan : e.change \in Changes /\ e.res \in Resources
    /\ todo \subseteq Names \cup Databases \cup Domains
    /\ item \in Names \cup Databases \cup {NoVal}
    /\ step \in 1..6
    /\ sources \subseteq Databases
    /\ outcome \in {"none", "nochange", "aborted", "failed", "done"}

TypeOK == ClusterTypeOK /\ RunTypeOK
============================================================================
