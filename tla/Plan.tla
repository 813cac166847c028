-------------------------------- MODULE Plan --------------------------------
(***************************************************************************)
(* ComputePlan of internal/reconcile/plan.go: the difference between the   *)
(* configuration and the live cluster, one planner per reconcile step.     *)
(* Deploy stops at "No changes." when the plan holds no change, asks the   *)
(* operator when a change is promptable, and reconciles servers, DNS,      *)
(* buckets and databases only when a change is about one of those.         *)
(*                                                                         *)
(* Only changes are kept: an entry of kind PlanNoChange is shown to the    *)
(* operator and decides nothing.                                           *)
(***************************************************************************)
EXTENDS Cluster

CONSTANT Unread
(* Reads of a planner that may fail and return no error: it goes on as if  *)
(* there were nothing (a Deployment, StatefulSet or CronJob, what Caddy    *)
(* serves) or, with the keys of a Secret, as if nothing had changed.  Of   *)
(* the three reads of Caddy's routes "unroute" is RouteDomains' own.       *)

SoftReads ==
    ({"Deployment", "StatefulSet", "CronJob", "service keys", "cron keys"} \X Names)
        \cup ({"dns", "caddy", "unroute"} \X {NoVal})

ASSUME UnreadAssumption == Unread \subseteq SoftReads

Changes == {"add", "update", "delete"}

Resources == {"server", "firewall-rule", "bucket", "database", "dns",
              "registry-secret", "workload", "secret-key", "cronjob",
              "caddy-route"}

\* reason: an entry with a reason ("image-tag") is applied without a prompt.
Entry(change, res, name) ==
    [change |-> change, res |-> res, name |-> name, reason |-> "none"]

\* Mutant of Diff: entries that change nothing are kept.
DiffUnfiltered(res, desired, live) ==
    {Entry("add", res, n) : n \in desired \ live}
        \cup {Entry("delete", res, n) : n \in live \ desired}
        \cup {Entry("nochange", res, n) : n \in desired \cap live}

ImageRebuilt(res, name) ==
    [Entry("update", res, name) EXCEPT !.reason = "image-tag"]

\* The adds and deletes that take a set of live names to the desired one.
Diff(res, desired, live) ==
    {Entry("add", res, n) : n \in desired \ live}
        \cup {Entry("delete", res, n) : n \in live \ desired}

----------------------------------------------------------------------------
(* The planners.                                                           *)

\* FirewallAllowList: 80 and 443 are open exactly when there are domains.
WebWanted == DOMAIN cfg.domains # {}

PlanInfra ==
    Diff("server", cfg.servers, servers)
        \cup Diff("firewall-rule", {p \in {NoVal} : WebWanted},
                                   {p \in {NoVal} : webOpen})

BackupBuckets == {d \in DOMAIN cfg.databases : cfg.databases[d].backup}

DesiredBuckets == cfg.storage \cup BackupBuckets

\* Buckets are never deleted by a deploy.  Only live ones that have the
\* cluster's prefix are looked at.
PlanStorage == {Entry("add", "bucket", b) : b \in DesiredBuckets \ (buckets \ Custom)}

\* A database is live when its credentials Secret is.
LiveDatabases ==
    {n[2] : n \in {m \in ListOwned("databases", "Secret") :
                       m[1] = "db-credentials"}}

PlanDatabases == Diff("database", DOMAIN cfg.databases, LiveDatabases)

\* Mutant of PlanRegistries: the removal of the last registry is not planned.
PlanRegistriesAdded ==
    {Entry("add", "registry-secret", n) :
        n \in {r \in {NoVal} : cfg.registry}
                 \ {r[2] : r \in ListOwned("registries", "Secret")}}

PlanRegistries ==
    Diff("registry-secret", {n \in {NoVal} : cfg.registry},
         {n[2] : n \in ListOwned("registries", "Secret")})

\* The image a workload of this deploy runs: a built one carries the hash.
ResolveImage(n, hash) ==
    [image |-> cfg.services[n].image,
     tag   |-> IF cfg.services[n].built THEN hash ELSE NoVal]

Read(kind, n, unread) == {o \in Get(kind, "app", n) : <<kind, n>> \notin unread}

\* getDeploymentOrSTSImage: the Deployment's, else the StatefulSet's.
LiveImage(n, unread) ==
    LET deployments == Read("Deployment", n, unread)
        live == IF deployments # {} THEN deployments
                                    ELSE Read("StatefulSet", n, unread)
    IN  {[image |-> o.image, tag |-> o.tag] : o \in live}

\* combinedWorkloadNames of the services.
LiveServices ==
    {n[2] : n \in ListOwned("services", "Deployment")
                      \cup ListOwned("services", "StatefulSet")}

\* Entries are compared by name alone: a key is <<workload, key>>.
SecretKeyDiff(n, desired) ==
    Diff("secret-key", {<<n, k>> : k \in desired},
                       {<<n, k>> : k \in SecretKeys(n)})

KeyChanges(by, n, desired, unread) ==
    {e \in SecretKeyDiff(n, desired) : <<by, n>> \notin unread}

PlanImage(res, n, desired, live) ==
    {ImageRebuilt(res, n) : i \in {j \in live : j # desired /\ j.image = desired.image}}
        \cup {Entry("update", res, n) : i \in {j \in live : j.image # desired.image}}

\* Mutant of ServiceChanges: the keys of databases are not expected.
ServiceChangesBare(n, hash, unread) ==
    PlanImage("workload", n, ResolveImage(n, hash), LiveImage(n, unread))
        \cup KeyChanges("service keys", n, cfg.services[n].secrets, unread)

\* What has changed of a service whose workload is live.
ServiceChanges(n, hash, unread) ==
    PlanImage("workload", n, ResolveImage(n, hash), LiveImage(n, unread))
        \cup KeyChanges("service keys", n,
                        cfg.services[n].secrets \cup cfg.services[n].dbs, unread)

PlanServices(hash, unread) ==
    Diff("workload", DOMAIN cfg.services, LiveServices)
        \cup UNION {ServiceChanges(n, hash, unread)
                      : n \in DOMAIN cfg.services \cap LiveServices}

LiveCrons == {n[2] : n \in ListOwned("crons", "CronJob")}

CronImage(n) == [image |-> cfg.crons[n].image, tag |-> NoVal]

LiveSchedules(n, unread) == {o.spec : o \in Read("CronJob", n, unread)}

LiveCronImage(n, unread) ==
    {[image |-> o.image, tag |-> o.tag] : o \in Read("CronJob", n, unread)}

CronChanges(n, unread) ==
    {Entry("update", "cronjob", n)
        : s \in LiveSchedules(n, unread) \ {cfg.crons[n].schedule}}
        \cup PlanImage("cronjob", n, CronImage(n), LiveCronImage(n, unread))
        \cup KeyChanges("cron keys", n, cfg.crons[n].secrets, unread)

\* Mutant of PlanCrons: only declared crons are looked at.
PlanCronsDeclared(unread) ==
    {Entry("add", "cronjob", n) : n \in DOMAIN cfg.crons \ LiveCrons}
        \cup UNION {CronChanges(n, unread) : n \in DOMAIN cfg.crons \cap LiveCrons}

PlanCrons(unread) ==
    Diff("cronjob", DOMAIN cfg.crons, LiveCrons)
        \cup UNION {CronChanges(n, unread) : n \in DOMAIN cfg.crons \cap LiveCrons}

\* GetCaddyRoutes: a pod that is not found or does not answer serves nothing.
ServedDomains(by, unread) == {w \in DOMAIN routes : <<by, NoVal>> \notin unread}

\* A record that is not in the configuration is nvoi's when Caddy serves it.
PlanRouteDomains(unread) ==
    Diff("dns", DOMAIN cfg.domains,
         records \cap (DOMAIN cfg.domains \cup ServedDomains("dns", unread)))

PlanIngress(unread) ==
    Diff("caddy-route", DOMAIN cfg.domains, ServedDomains("caddy", unread))
        \cup {Entry("add", "caddy-route", NoVal) :
                x \in {y \in {NoVal} : ListOwned("caddy", "Deployment") = {}}}

----------------------------------------------------------------------------
(* The plan and what Deploy decides on it.                                 *)

ComputePlan(hash, unread) ==
    PlanInfra \cup PlanStorage \cup PlanDatabases \cup PlanRegistries
        \cup PlanServices(hash, unread) \cup PlanCrons(unread)
        \cup (IF WebWanted THEN PlanRouteDomains(unread) \cup PlanIngress(unread) ELSE {})

\* Mutant of InfraResources: a new domain does not make a deploy loud.
InfraResourcesNoDns == {"server", "firewall-rule", "bucket", "database"}

InfraResources == {"server", "firewall-rule", "bucket", "database", "dns"}

HasInfraChanges(plan) == \E e \in plan : e.res \in InfraResources

Promptable(plan) == {e \in plan : e.reason = "none"}
============================================================================
