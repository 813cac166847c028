------------------------------ MODULE Cluster ------------------------------
(***************************************************************************)
(* What `nvoi deploy` reads and writes: the configuration (nvoi.yaml), the *)
(* Kubernetes objects of the application, the servers and firewall at the  *)
(* infrastructure provider, the buckets, the DNS records and the routes    *)
(* loaded into Caddy.  The operators on objects translate the helpers of   *)
(* pkg/kube that every reconcile step goes through.                        *)
(*                                                                         *)
(* A service or cron name is a member of Names: the validator keeps the    *)
(* names of the services distinct and those of the crons distinct, but one *)
(* name may be both.  The environment key a workload receives for database *)
(* d (DATABASE_URL_<D>) is d itself, and so is its backup bucket; the keys *)
(* a storage: entry of a workload expands to are among its secrets.        *)
(***************************************************************************)
EXTENDS Integers, FiniteSets, Sequences

CONSTANTS
    Names,        \* names of services and of crons
    Databases,    \* names of databases
    Domains,      \* public host names
    Servers,      \* names of servers
    Master,       \* the one with role: master
    Images,       \* image references without the deploy hash
    Specs,        \* everything else a workload declares (replicas, env,
                  \* command, port), and the schedules of the crons
    Keys,         \* names of declared secrets
    Buckets,      \* buckets a storage: section may ask for
    Custom,       \* those that a `bucket:' names, without the cluster's prefix
    Hashes,       \* deploy hashes
    NoVal,        \* "no value"
    Configs,      \* the configurations the operator moves between
    Provisioned   \* the server sets an earlier bootstrap may have left

VARIABLES
    cfg,      \* the configuration on disk
    objs,     \* the Kubernetes objects nvoi has written
    servers,  \* servers at the provider
    webOpen,  \* ports 80 and 443 are open in the master firewall
    buckets,  \* buckets of storage: and of database backups that exist
    records,  \* domains with a DNS record
    routes    \* what Caddy serves: domain |-> service

clusterVars == <<objs, servers, webOpen, buckets, records, routes>>

----------------------------------------------------------------------------
(* Configurations.                                                         *)

EnvKeys == Keys \cup Databases

\* f is a function from some of S to T.
IsPartial(f, S, T) == DOMAIN f \subseteq S /\ f \in [DOMAIN f -> T]

ServiceDef ==
    [image : Images, built : BOOLEAN, spec : Specs, stateful : BOOLEAN,
     deps : SUBSET Names, secrets : SUBSET Keys, dbs : SUBSET Databases]

CronDef == [image : Images, schedule : Specs, secrets : SUBSET Keys]

DatabaseDef == [server : Servers, backup : BOOLEAN]

IsConfig(c) ==
    /\ c.servers \subseteq Servers
    /\ IsPartial(c.services, Names, ServiceDef)
    /\ IsPartial(c.crons, Names, CronDef)
    /\ IsPartial(c.databases, Databases, DatabaseDef)
    /\ IsPartial(c.domains, Domains, Names)
    /\ c.storage \subseteq Buckets
    /\ c.registry \in BOOLEAN

\* No service depends on itself through others: every non-empty set of
\* services has one that depends on none of the set.
Acyclic(services) ==
    \A S \in (SUBSET DOMAIN services) \ {{}} :
        \E n \in S : services[n].deps \cap S = {}

\* What the rest of the code relies on of ValidateConfig's checks.
ValidateConfig(c) ==
    /\ Master \in c.servers
    /\ \A n \in DOMAIN c.services :
          /\ c.services[n].deps \subseteq DOMAIN c.services
          /\ c.services[n].dbs \subseteq DOMAIN c.databases
          /\ c.services[n].built => c.registry
    /\ Acyclic(c.services)
    /\ \A d \in DOMAIN c.databases :
          c.databases[d].server \in c.servers \ {Master}
    /\ \A w \in DOMAIN c.domains : c.domains[w] \in DOMAIN c.services

ASSUME ConfigsAssumption ==
    \A c \in Configs : IsConfig(c) /\ ValidateConfig(c)

ASSUME ServersAssumption ==
    Master \in Servers /\ Provisioned \subseteq SUBSET Servers

\* The name of a backup bucket has the prefix.
ASSUME BucketsAssumption == Custom \subseteq Buckets \ Databases

----------------------------------------------------------------------------
(* Kubernetes objects.  One record shape serves every kind; a field a kind *)
(* does not use holds NoVal, {} or FALSE.  A name is <<role, base>>: the   *)
(* code derives it from the base with pkg/utils/naming.go, and a service   *)
(* or cron n shares the Secret name <n>-secrets.                           *)

Kinds == {"Deployment", "StatefulSet", "Service", "Secret", "CronJob", "PVC"}

Owners == {"services", "crons", "databases", "registries", "caddy"}

Roles == {"app", "app-secrets", "db", "db-data", "db-credentials",
          "db-backup-creds", "db-backup", "registry-auth", "caddy"}

ObjectSet ==
    [kind : Kinds, name : Roles \X (Names \cup Databases \cup {NoVal}),
     owner : Owners, image : Images \cup {NoVal}, tag : Hashes \cup {NoVal},
     spec : Specs \cup {NoVal}, keys : SUBSET EnvKeys,
     node : Servers \cup {NoVal}, pull : BOOLEAN]

Object(kind, role, base, owner) ==
    [kind |-> kind, name |-> <<role, base>>, owner |-> owner,
     image |-> NoVal, tag |-> NoVal, spec |-> NoVal, keys |-> {},
     node |-> NoVal, pull |-> FALSE]

Get(kind, role, base) == {o \in objs : o.kind = kind /\ o.name = <<role, base>>}

SameObject(o, p) == o.kind = p.kind /\ o.name = p.name

\* Apply: get, then create or update.  A PVC that exists is left alone.
Applied(o) ==
    IF o.kind = "PVC" /\ \E p \in objs : SameObject(o, p)
    THEN objs
    ELSE {p \in objs : ~ SameObject(o, p)} \cup {o}

\* EnsureSecret: the given keys are merged into those the Secret has, and
\* the owner label becomes the caller's.
SecretWith(role, base, owner, keys) ==
    [Object("Secret", role, base, owner) EXCEPT
        !.keys = keys \cup UNION {p.keys : p \in Get("Secret", role, base)}]

\* ListOwned: the names of one kind carrying an owner label.
ListOwned(owner, kind) ==
    {o.name : o \in {p \in objs : p.owner = owner /\ p.kind = kind}}

\* What SweepOwned deletes of one kind.
Orphans(owner, kind, desired) ==
    {o \in objs : o.owner = owner /\ o.kind = kind /\ o.name \notin desired}

\* ListSecretKeys of <n>-secrets; none when the Secret does not exist.
SecretKeys(n) == UNION {o.keys : o \in Get("Secret", "app-secrets", n)}

----------------------------------------------------------------------------
(* What the cluster holds when nvoi meets it.                              *)

ClusterInit ==
    /\ cfg \in Configs
    /\ objs = {}
    /\ servers \in Provisioned
    /\ webOpen = FALSE
    /\ buckets = {}
    /\ records = {}
    /\ routes = <<>>

ClusterTypeOK ==
    /\ cfg \in Configs
    /\ objs \subseteq ObjectSet
    /\ servers \subseteq Servers
    /\ webOpen \in BOOLEAN
    /\ buckets \subseteq Databases \cup Buckets
    /\ records \subseteq Domains
    /\ IsPartial(routes, Domains, Names)
============================================================================
