-------------------------- MODULE DeployProperties --------------------------
(***************************************************************************)
(* What `nvoi deploy` promises.                                            *)
(***************************************************************************)
EXTENDS Deploy

----------------------------------------------------------------------------
(* The cluster a configuration asks for.  The hash of a built image and    *)
(* the server of a database are left out: the first differs between runs,  *)
(* the second is settled by `nvoi database migrate`.                       *)

Erased(o) == [o EXCEPT !.tag = NoVal, !.node = NoVal]

DeclaredKeys(n) == cfg.services[n].secrets \cup cfg.services[n].dbs

WantedWorkload(n) == [Erased(Workload(n, NoVal)) EXCEPT !.keys = DeclaredKeys(n)]

WantedSecret(n, keys) ==
    {[Object("Secret", "app-secrets", n, "services") EXCEPT !.keys = ks]
        : ks \in {keys} \ {{}}}

WantedServices ==
    UNION {{WantedWorkload(n), Object("Service", "app", n, "services")}
              \cup WantedSecret(n, DeclaredKeys(n)) : n \in DOMAIN cfg.services}

WantedCrons ==
    UNION {{CronJob(n)} \cup WantedSecret(n, cfg.crons[n].secrets)
              : n \in DOMAIN cfg.crons}

WantedDatabases ==
    UNION {{Erased(DatabaseObjects(d)[i]) : i \in DOMAIN DatabaseObjects(d)}
              : d \in DOMAIN cfg.databases}

WantedPullSecret ==
    {Object("Secret", "registry-auth", NoVal, "registries")
        : x \in {y \in {NoVal} : cfg.registry}}

WantedApps == WantedServices \cup WantedCrons \cup WantedPullSecret

LiveOf(owners) == {Erased(o) : o \in {p \in objs : p.owner \in owners}}

\* While there are domains: every one is served, and no other.
IngressConverged ==
    WebWanted => routes = cfg.domains /\ DOMAIN cfg.domains \subseteq records

\* Everything a deploy manages but the databases.
AppsConverged ==
    /\ LiveOf({"services", "crons", "registries"}) = WantedApps
    /\ servers = cfg.servers
    /\ webOpen = WebWanted
    /\ BucketsEnsured
    /\ IngressConverged

DatabasesConverged ==
    /\ LiveOf({"databases"}) = WantedDatabases
    /\ BackupBuckets \subseteq buckets

Converged == AppsConverged /\ DatabasesConverged

----------------------------------------------------------------------------
(* Safety.                                                                 *)

\* The StatefulSet or the volume of database d.
DataOf(o, d) ==
    \/ o.kind = "StatefulSet" /\ o.name = <<"db", d>>
    \/ o.kind = "PVC" /\ o.name = <<"db-data", d>>

\* Databases (databases.go) never removes, recreates or moves to another
\* server the StatefulSet or the volume of a database that is declared,
\* whatever an earlier run left behind and wherever it stopped: moving data
\* is `nvoi database migrate`'s.
DatabasePinned ==
    [][\A d \in DOMAIN cfg.databases, o \in objs :
          DataOf(o, d) => \E p \in objs' : SameObject(o, p) /\ p.node = o.node]_vars

\* Caddy starts to serve a domain only when its DNS record exists and the
\* firewall lets the ACME challenge in, on the quiet path too, which writes
\* neither (the gates of reconcile.go:261-272).
IngressHasDns ==
    [][\A w \in DOMAIN routes' \ DOMAIN routes : w \in records /\ webOpen]_vars

\* What cannot be undone is in the plan the operator accepted: a run that
\* deletes a server, the volume of a database or a DNS record has shown it
\* as a deletion (the prompt of cmd/cli/deploy.go).  For volumes this rests
\* on the credentials Secret being written first and swept after the PVC:
\* planDatabases knows a database by that Secret alone.  For records it
\* takes planRouteDomains an answer from Caddy.
DestructionAnnounced ==
    [][/\ \A s \in servers \ servers' : Entry("delete", "server", s) \in plan
       /\ <<"dns", NoVal>> \notin Unread =>
             \A w \in records \ records' : Entry("delete", "dns", w) \in plan
       /\ \A d \in Databases :
             (Get("PVC", "db-data", d) # {} /\ Get("PVC", "db-data", d)' = {})
                 => Entry("delete", "database", d) \in plan]_vars

\* A deploy that ran to its end has left exactly the servers, firewall,
\* workloads, Secrets, records and routes nvoi.yaml asks for, from any state
\* earlier runs left, stopped ones included.  (Databases need more: see
\* README.md, "What no run promises".)
AppsConvergedWhenDone == outcome = "done" => AppsConverged

\* With no stopped run before it, the databases too.
ConvergedWhenDone == outcome = "done" => Converged

\* After a deploy that ran to its end, the next one, when all its reads are
\* answered, asks for nothing but the buckets with names of their own: only
\* these and rebuilt images remain in its plan.
NothingLeftToAsk ==
    outcome = "done" =>
        \A h \in Hashes : Promptable(ComputePlan(h, {})) =
                           {Entry("add", "bucket", b) : b \in cfg.storage \cap Custom}

\* A workload is written only when every key it refers to is in its Secret,
\* and the credentials behind every DATABASE_URL it receives exist (secrets
\* before workloads, upsertServiceSecrets in services.go and crons.go).
RefsResolveWhenWritten ==
    [][\A o \in objs' \ objs :
          o.keys # {} /\ o.kind # "Secret" =>
             /\ o.keys \subseteq SecretKeys(o.name[2])
             /\ \A d \in o.keys \cap Databases :
                   Get("Secret", "db-credentials", d) # {}]_vars

\* "No changes." is said of a converged cluster (reconcile.go:138-141).
NoChangesIsTrue == outcome = "nochange" => Converged

\* What a failed sweep leaves behind is not forgotten: a deploy that ran to
\* its end with an orphan workload plans its deletion the next time.
LeftoversPlanned ==
    outcome = "done" =>
        \A o \in objs, h \in Hashes, unread \in SUBSET Unread :
            /\ o.owner = "services" /\ o.kind \in {"Deployment", "StatefulSet"}
               /\ o.name[2] \notin DOMAIN cfg.services
                  => Entry("delete", "workload", o.name[2]) \in ComputePlan(h, unread)
            /\ o.kind = "CronJob" /\ o.owner = "crons"
               /\ o.name[2] \notin DOMAIN cfg.crons
                  => Entry("delete", "cronjob", o.name[2]) \in ComputePlan(h, unread)

\* Sweeps, removals of records and reads of credentials may fail: whatever
\* is declared is there at the end of a deploy all the same, DATABASE_URLs
\* excepted, and nothing declared is swept.
NothingDeclaredMissing ==
    outcome = "done" =>
        /\ \A o \in WantedApps :
              \/ o.kind = "Secret" /\ o.keys \subseteq Databases
              \/ \E p \in objs : /\ SameObject(o, p)
                                 /\ o.image = p.image /\ o.spec = p.spec
                                 /\ o.keys \ Databases \subseteq p.keys
        /\ IngressConverged

----------------------------------------------------------------------------
(* Liveness.                                                               *)

\* From some point on the operator changes nothing and no run stops.
Undisturbed == <>[][cfg' = cfg /\ outcome' # "failed" /\ outcome' # "aborted"]_vars

\* Deploys repair what stopped runs left: once undisturbed, the cluster is
\* converged again and again.  Stated for configurations whose services are
\* all built, so that every plan has a change and every run applies.
Reconverges == Undisturbed => []<>Converged

----------------------------------------------------------------------------
(* What the repository says of the program and the program does not do.    *)
(* Each is stated as the text has it and refuted by a run of its own.      *)

\* "run `nvoi deploy` to provision" (cluster.go:228), on an empty account.
FirstDeployBootstraps == <>(outcome = "done")

\* "the old DB pod keeps serving from its current node" while its migration
\* is pending (reconcile.go:276-279).
PendingDatabaseServes ==
    [][\A d \in DOMAIN cfg.databases :
          Drifted(d) => \A o \in Get("StatefulSet", "db", d) :
                           o.node \in servers => o.node \in servers']_vars
============================================================================
