# nvoi in TLA+

nvoi deploys an application described by `nvoi.yaml` to servers of a cloud
provider: it keeps no state file, computes a plan from what it finds, asks, and
reconciles step by step. These modules model that pipeline and what it drives,
check it with TLC and prove what matters most with TLAPS. Paths below are
relative to the repository; line numbers are those of the modelled commit.

## The system

| Component | State | Operations | Interacts with |
|---|---|---|---|
| Deploy pipeline, `internal/reconcile/reconcile.go` | none of its own between runs; during a run the plan, the loud/quiet decision, the sources of secret values | `Deploy`, `RouteDomains`, `readExisting*` | calls every step below in a fixed order |
| Planner, `internal/reconcile/plan.go`, `pkg/provider/plan.go` | none | `ComputePlan` and one planner per step | reads the cluster, the provider, DNS, Caddy; its result decides whether and how the pipeline runs |
| Validation, `internal/reconcile/validate.go` | none | `ValidateConfig` | first thing in every run |
| kube primitives, `pkg/kube/{apply,sweep,secrets}.go` | Kubernetes objects with an owner label | `Apply`, `ApplyOwned`, `SweepOwned`, `ListOwned`, `EnsureSecret`, `DeleteSecretKey` | every writing step; other deploys and controllers write the same objects |
| Services, crons, `services.go`, `crons.go` | Secrets, workloads, Services, CronJobs | upsert Secret, apply, wait, sweep | ordered by `depends_on`; share the Secret helper |
| Storage, `storage.go`, `pkg/core/storage.go` | buckets | create | before the databases, on the loud path only; planned with their backup buckets |
| Databases, `databases.go`, `pkg/provider/postgres` | bucket, credentials Secret, Service, PVC, StatefulSet, backup CronJob | drift gate, reconcile, sweep | hand DATABASE_URLs to the services |
| Registries, `registries.go` | the pull Secret | apply or delete | referred to by every workload |
| Caddy ingress, `ingress.go`, `pkg/kube/caddy*.go`, `pkg/provider/*/dns.go` | DNS records, Caddy objects, the routes in Caddy's memory | RouteDomains, EnsureCaddy, reload, orphan records | needs open ports; swept by a tunnel |
| Tunnel ingress, `ingress.go`, `pkg/provider/{cloudflare,ngrok}` | tunnel or reserved domains at the provider, agents, CNAMEs | EnsureTunnel, push, apply, delete | replaces Caddy, and is replaced by it |
| Infrastructure, `pkg/provider/{hetzner,aws,scaleway}` | servers, firewalls and rules, network, volumes, mounts | Bootstrap, Connect, plan, ProvisionBuilders, TeardownOrphans, Teardown | the first and the last of the loud steps |
| Service order, `topsort.go` | colours, in-degrees, the queue | `findDependencyCycle`, `topoSortServices` | decides what is waited for before what |
| Rollout wait, `pkg/kube/rollout.go` | restart counts of pods seen | WaitRollout, verifyStability | between two services; reads pods that controllers replace |
| Migrate, backup, restore, `cmd/cli/database.go`, `cmd/db` | Jobs, bucket objects | backup-now, restore, migrate | tears down what has drifted; a deploy and a restore bring it back |
| Branching, `pkg/provider/postgres/branching.go` | snapshots, clones | Snapshot, Branch, DeleteBranch | next to the databases' objects |
| Builds, SSH, provider and secret clients, CLI | | | external effects that succeed or fail |

What is hard about it:

* **No memory.** Every run starts from what it finds. A run can stop between any
  two writes (an error of a step, a rollout that does not get ready, Ctrl-C) and
  nothing is rolled back, so each later run must repair a state no test prepared.
* **The plan is a gate.** No change: nothing is applied. No infrastructure
  change: the *quiet path* skips servers, firewall, databases, DNS and orphan
  servers. What a planner does not look at is not repaired.
* **Order.** Secrets before workloads, records before routes, credentials before
  volumes and after them on the way out, servers before the firewalls and the
  network that hold them together.
* **Failures that are only warnings.** Sweeps, removals of DNS records and of
  Secret keys, reads on the quiet path, listings during a destroy.
* **Failures that are not even that.** Planners read single workloads, Secret keys
  and Caddy's routes as far as they get an answer, and go on as if there were
  nothing; the same question asked later in the run may be answered.
* **No lock.** An operator and a CI job deploy at the same time; controllers write
  the status of what a deploy has just read.
* **Names outlive things.** Pods are found by labels that old and new ones share,
  servers and volumes by name, whatever condition a stopped run left them in.
* **Data.** A declared database must not be moved or removed by a deploy, and
  must survive the command that is to move it; a volume goes only when asked for.

## Modules

```
Cluster   configuration, live state, kube primitives
  Plan      ComputePlan
    Deploy    the pipeline as a state machine
      DeployProperties   what it promises
        MCDeploy           configurations and constants for TLC
        DeployProof        proof of type correctness, that data stays where it is, that
                           a run may rely on its plan and workloads refer to what is there
          DeployConvergesProof   proof of what a deploy that ended has left, and of
                                 what the next one then plans; while no run stops, of
                                 what "No changes." means and that databases converge
Migrate   database migrate, backup and restore, with a deploy beside them
  MCMigrate   its symmetry, for TLC
  MigrateProof   proof that backups come before teardowns, that restores bring back
                 what they say, and that no pod writes to a volume about to go
ObjectStore   what the kube primitives promise: calls that are atomic
  KubeWrites    the same calls as Get, Create and Update requests (refines it)
    KubeWritesProof     proof of the refinement
    ConcurrentDeploys   two deploys' services, made of those calls
      MCConcurrentDeploys
      ConcurrentDeploysProof   proof of what two deploys do to each other
Cloud     a provider's resources, nvoi's servers, and the calls that change them
  Hetzner, Aws, Scaleway   which calls each makes of Bootstrap, Teardown, ...
  Infra     deploys and destroys, stopped and refused (instantiates the three)
    InfraProperties   what they promise
      MCInfra
      InfraProof        proofs of its types, that data stays, that a destroy is thorough
ServiceOrder   findDependencyCycle and topoSortServices
  Rollout        the services in that order, their waits and the controllers
    MCRollout
    RolloutProof   proof of the order and of what a deploy that ended has seen
Ingress   Caddy, Cloudflare and ngrok tunnels, switches between them, teardown
  MCIngress
  IngressProof   proof of all its safety properties
```

The pipeline is cut where its parts meet through little state: `Deploy` has one
flag for the ports and one route set, and a wait that ends or does not; `Infra`,
`Rollout` and `Ingress` open what is behind these, and each of them has as much
of the pipeline around it (the plan as a gate, the loud and the quiet path, runs
that stop) as its properties need.

**Cluster.** `cfg` is nvoi.yaml on disk. `objs` is the set of Kubernetes objects
nvoi has written, records with kind, name, owner label and the few fields the
properties tell apart (image, hash tag, spec, Secret keys, node, pull secret).
`servers`, `webOpen`, `buckets`, `records`, `routes` are the provider's servers,
ports 80/443 of the master firewall, buckets, DNS records and what Caddy
serves. `Custom` are the buckets that `storage:` gives a name of its own, without
the prefix of generated ones; a backup bucket is named after its database.
`Applied`, `SecretWith`, `ListOwned`, `Orphans`, `SecretKeys` translate
`Apply`, `EnsureSecret`, `ListOwned`, `SweepOwned`, `ListSecretKeys`. `Applied`
leaves an existing PVC alone, as `applyTyped` does.

**Plan.** One operator per planner. Entries of kind PlanNoChange are dropped
(`Plan.Changes`). `HasInfraChanges` and `Promptable` decide the path and the
prompt. `Unread` are the reads that may fail without an error, and each plan takes
any set `unread` of them to have failed: the Get of a workload (`Read`), the keys of
a Secret (`KeyChanges`), and Caddy's routes (`ServedDomains`), which
planRouteDomains, planIngress and RouteDomains each ask for anew (`"dns"`, `"caddy"`,
`"unroute"`). Reads whose error ends the plan are `PlanFails`. `PlanStorage` subtracts
only live buckets with the prefix, as `planStorage` does (`plan.go:694-699`).

**Deploy.** `pc` is the reconcile step; `todo`, `item` and `step` say what is
left of it, what it works on and how far it is; `sources` holds the databases
whose URL the run knows. `Edit` is the operator changing the file between runs,
`Begin` starts a run and stamps the hash (a time to the second: no live image
carries it). `PlanFails`, `NoChanges`, `Declined`, `Proceed` are the decisions
of `Deploy` after `ComputePlan`. Every other action is one write of the code:

| Code | Actions |
|---|---|
| `infra.Bootstrap` | `EnsureServer` (master first), `ApplyFirewall` |
| `Registries`, `readExistingDatabaseURLs` | `RegistriesLoud`, `RegistriesQuiet` |
| `Storage`, `StorageSet` | `EnsureBucket`, before any database (`BucketsEnsured`) |
| `Databases`, `ReconcileOneDatabase` | `SkipDrifted`, `StartDatabase` (bucket), `ApplyDatabase` (one object at a time), `SweepDatabases` |
| `Services`, `ServiceSet`, `WaitRollout` | `StartService` (Secret), `PruneServiceSecret`, `ApplyWorkload`, `ApplyKubeService`, `RolloutReady`, `SweepServices` |
| `Crons`, `CronSet` | `StartCron`, `PruneCronSecret`, `ApplyCron`, `SweepCrons` |
| `infra.TeardownOrphans` | `DeleteServer`, `TornDown` |
| `RouteDomains` | `RouteTo`, `AllRouted`, `Unroute`, `AllUnrouted` |
| `Ingress` | `EnsureCaddy`, `ReloadCaddy` |

A loop over a Go map (databases) or over a sorted list whose order no property
sees (crons, domains, sweeps) takes any order; services take any order that
respects `depends_on`. `Disturbances` says what may go wrong: `abort` ends a run
at any point, `decline` answers no, `sweep`, `read` and `unroute` are the
failures the code only warns about or ignores.

**DeployProperties.** `Converged` spells out the cluster a configuration asks
for; the hash of a built image and the server of a database are left out, the
first differs between runs and the second is `nvoi database migrate`'s. The
properties and the claims are described there, each with the code it is about.

**Migrate.** One self-hosted Postgres database whose data is the set of writes it
holds. `want` is the `server:` of nvoi.yaml; `sts`, `svc`, `volume`, `pod` are the
StatefulSet's server, the Service, the PVC (server it is bound to, data, pending
deletion) and the pod; `bucket` maps upload times to dumps. The command is `pc`
with what it read (`target`), the Job it waits for (`mine`) and the object it is to
restore (`key`). `deploying` is a deploy between its writes to the same objects.

| Code | Actions |
|---|---|
| `runDatabaseMigrate` | `MigrateBegins` (drift, BackupNow), `BackupAwaited` / `BackupGivenUp` (WaitForJob), `LatestBackupKey`, `DeleteWorkload`, `DeleteService` (DeleteByName), `DeletePVC`, `ApplyPanics` |
| `nvoi database restore` | `RestoreVerb`, `RestoreVerbEnds`, `RestoreGivenUp` |
| `cmd/db` in its Jobs | `Dump`, `Upload`, `BackupFails`, `Replayed`, `ReplayFails` |
| `Databases` of a deploy | `DeployBegins` (drift gate), `DeployApplies` (`ApplyService`, `ApplyVolume`, `ApplyStatefulSet`) |
| the cluster and its clients (external) | `PodStarts`, `PodEnds`, `ClientWrites`, `BackupStarts` |

`ApplyPanics` is where migrate ends in this code: it calls ReconcileOneDatabase
(`database.go:575`), which writes through `dc.Cluster.MasterKube`, and only Deploy sets
that (`reconcile.go:176`). What comes after it, the wait for the new pod, the restore
and the health check, is never reached, and is not in the module. So a database
moves by a migrate that stops with a panic after its deletions, a deploy, which finds
no StatefulSet and thus no drift, and a restore by hand; the module has these three,
in any order and with stops. The credentials and backup Secrets stay as they are
throughout (`database.go:553-557`) and are left out.

Jobs, pods and clients move on when the command has stopped. `outcome` and
`saved` are history: how the last command ended, what the database held when this
one began.

**ObjectStore, KubeWrites.** `store` maps objects (Secrets and workloads alike) to
their entries. In `ObjectStore` a client's call takes effect in one step or not
at all. In `KubeWrites` it is what `pkg/kube` sends:

| Code | Actions |
|---|---|
| `EnsureSecret`, `DeleteSecretKey`, `Apply`, `DeleteByName` | `Start` (a merge, the removal of a key, a replacement, a deletion) |
| the Get each begins with, and returning early when there is nothing to do | `Read` |
| Create, or Update with the `resourceVersion` read | `Write`; `Accepted` is the API server's rule, the answer may be lost |
| AlreadyExists, Conflict; `retry.RetryOnConflict` of Apply alone | `Rejected`, `Retried` |
| an error on the way, controllers (external) | `RequestFails`, `StatusWritten` |

`Atomic == INSTANCE ObjectStore WITH phase <- AbstractPhase` is the refinement: a
request in flight is a call that is pending. The linearisation point is the
accepted write, or the read that finds nothing to write.

**ConcurrentDeploys.** Each client runs `Services` of its own nvoi.yaml through
these calls: `UpsertSecret`, `ListKeys` and `PruneKey` (one by one; a failure is
not reported, `services.go:203`), `ApplyWorkload`, then the two sweeps
(`SweepWorkloads`, `SweepSecrets`, `SweepDeletes`), which list first and delete
what they listed later. `unpruned` is history: keys whose removal lost.

**Cloud, Hetzner, Aws, Scaleway, Infra.** A command is `todo`, the sequence of calls
it has still to make. `Cloud` has one action per call of a provider or on a
server (create, change and delete servers, firewalls, rules, networks, volumes;
reach by SSH, install, join, label, format, mount, write fstab), and `Refused` says
which calls get an error back. Each provider module translates its operations
into sequences of calls, looking at what is live when the operation begins, as
its Go code does by listing or looking up by name first; `Infra` expands them
when their turn comes (`Expand`), so an operation sees what the ones before it
left. Errors run to the closing mark of the block that handles them (`Raise`): a
`collect` block remembers them, a `warn` block forgets them, no block ends the
command.

| Code | Definitions |
|---|---|
| `Deploy`'s use of the provider | `Infra!Deploy` (ProvisionBuilders, Connect, plan), `Apply` (loud or quiet) |
| `EnsureServer`, `EnsureFirewall`, `EnsureNetwork`, `EnsureVolume`, `Delete*`, `reconcile*Firewall` of each provider | operators of the same name in `Hetzner`, `Aws`, `Scaleway` |
| `Bootstrap`, `Connect`, `ProvisionBuilders`, `TeardownOrphans`, `Teardown` of each | the same |
| the infrastructure plan | `Cloud!InfraPlanEmpty` |
| `pkg/infra`: k3s, docker, labels, `MountVolume`, `UnmountVolume` | `Reach`, `Join`, `Label`, `Format`, `Mount`, `WriteFstab`, ... |
| failures | `CallIsRefused`, `CallFails`, `CommandStops`, `ListingFails` (an error read as "already deleted": a server's, a volume's, and at AWS the VPC's, `TakesErrorForAbsence`) |
| around it | `Edit`, `PodWrites`, `OperatorCreatesFirewall` (see below) |

**ServiceOrder, Rollout.** `ServiceOrder` takes the steps of validation (unknown names),
of the depth-first search with colours, and of Kahn's algorithm with its sorted
queue. `Rollout` then applies the services in that order; `phase` and `at` say
where the deploy is, `seen` is `verifyStability`'s map of restart counts.

| Code | Actions |
|---|---|
| `Services` | `Begin`, `Apply`, `AllPassed` |
| `WaitRollout`, `hardFailReason` | `Unreachable`, `PollFails`, `PollWaits`, `PollReady`, `TimesOut` |
| `verifyStability` | `StabilityFails`, `StabilityHolds` |
| Deployment and StatefulSet controllers, kubelet (external) | `CreatePod`, `RemovePod`, `StartPod`, `CrashPod` |

A Deployment surges by one pod and is never short of one; a StatefulSet replaces
its pod in place, under the same name. An image is good, crashes after becoming
ready, or cannot be pulled.

**Ingress.** `cfg` is the mode (Caddy, cloudflare or ngrok) and the domains. `dns` has a
record per domain (none, the master's address, a CNAME to a numbered tunnel);
`caddy` the Deployment and the routes in its memory; `tunnel` and `reserved` the
provider's side; `agents` what each agent was told and what its pod runs; `run` the
step of a deploy or teardown; `last` how the previous one ended.

| Code | Actions |
|---|---|
| plan, path | `NoChanges`, `Begin` (also loud or quiet because of something else), `Infra` |
| `RouteDomains`, `RouteTo` of the three DNS providers | `RouteDomain`; `Unblock` and `Write` are the delete and the write where these are two calls |
| its cleanup of orphans | `ReadOrphans` (asks Caddy), `UnrouteOrphan`, `OrphansUnrouted` |
| `GetCaddyRoutes` of the plan and of the cleanup | `RoutesRead`: the routes, or none when the pod does not answer |
| `Ingress` | `SweepAgents`, `EnsureCaddy`, `ReloadCaddyConfig` |
| `TunnelIngress`, cloudflare and ngrok | `CreateTunnel`, `PushConfig`, `EnsureDomain`, `ApplyToken`, `ApplyAgents`, `SweepCaddy`, `RouteToTunnel` |
| `Teardown` | `TeardownBegins`, `TeardownDns`, `TeardownInfra`, `TeardownTunnel` |
| around it | `Stop`, `EditConfig`, `RestartCaddy` (boots with an empty seed), `RestartAgents` (picks up what it was told) |

`tracked` is history: the domains whose record Caddy's routes can still tell to
be nvoi's, and which no deploy has missed because Caddy did not answer it (`Missed`). A tunnel is numbered when it is created; a CNAME to a deleted one
leads nowhere.

Definitions with a comment that begins with "Mutant" are deliberate mistakes;
with one put in place of the definition it names, TLC finds the property it
belongs to violated. Nothing else refers to them.

## Runs

| Run | Module, disturbances | Shows | Distinct states |
|---|---|---|---|
| `deploy_shop` | `MCDeploy`; abort, decline; `OtherReads` | A shop (built front end depending on a pulled API with a database, a cron, a domain), a version without database, cron and domains, and one whose database asks to move and that names a bucket. `AppsConvergedWhenDone`, `NothingLeftToAsk`, `DatabasePinned`, `IngressHasDns`, `DestructionAnnounced`, `RefsResolveWhenWritten`. | 1.7 million |
| `deploy_plain` | `MCDeploy`; none; `RouteReads` | Nothing built, so plans can be empty, databases have backups, and a bucket has a generated name. `NoChangesIsTrue`, `ConvergedWhenDone`. | 33,328 |
| `deploy_sweeps` | `MCDeploy`; sweep, read, unroute; `WorkloadReads` | `LeftoversPlanned`, `NothingDeclaredMissing`. | 1.5 million |
| `deploy_repairs` | `MCDeploy`; abort, decline; `RouteReads` | Liveness: `Reconverges`. | 33,956 |
| `migrate_stops` | `MCMigrate`; abort, jobfail, linger | `TeardownAfterBackup`, `RestoreBringsBack`, `WritesToWhatStays` for a database moved to and fro. | 755,958 |
| `infra` | `MCInfra`; a call that fails or a stop | `ReadyWhenDeployed`, `DataKept`, `DestroyIsThorough`, and `Settles` (liveness) for the three providers. | 772,880 |
| `concurrent_deploys` | `MCConcurrentDeploys`; a lost request or answer, a stop, a status update | `StoreIsAtomic` (the refinement), `CommonSurvives`, `TwinsConverge`. | 516,755 |
| `rollout` | `MCRollout`; crashes, images that are missing, failed calls, timeouts | `OrderIsComplete`, `DependenciesFirst`, `DependenciesServe`, `MissingImagesStop`, and `GoodDeploysSucceed` (liveness). | 311,587 |
| `ingress` | `MCIngress`; stops, failed sweeps and removals, pods that restart, Caddy not answering | `WiredWhenDone`, `NoChangesIsServed`, `OneIngress`, `OrphansRemoved`, `RedeployKeepsServing`, and `CaddyReconverges` (liveness). | 1.1 million |
| `claim_first_deploy`, `claim_pending_database`, `claim_freshest_is_ours` | as needed | What the repository says and the code does not do, one text each. | |

`TypeOK` is checked once for each specification: in `deploy_shop` for the pipeline, in
each other passing run for its own. The third entry of the `MCDeploy` runs is their
`Unread`: `RouteReads` are the three reads of Caddy's routes, `OtherReads` those but
planRouteDomains' (without it no plan lists every deletion, see *What no run promises*), `WorkloadReads` the Get of a Deployment and of a CronJob, the keys of a Secret
and planIngress' read of Caddy.

**Bounds, and why they are enough.**

* The runs of `MCDeploy` use up to three services/crons, one database, two domains,
  three servers, two images, two specs, one declared secret, two buckets (one with a
  name of its own), two deploy hashes.
  Two hashes suffice because a run only needs one that no live image carries
  (`Begin`) and only one service is built. Each configuration set lists the edits
  a run is about; any number of edits and deploys may follow each other, so the
  state space is closed without a bound on either.
* `migrate_stops` has two servers, two writes, three backups and one backup Job at
  a time: two writes tell an old dump from a new one, three backups are two
  migrates and one older object to restore. A backup that starts while
  another is running (`overlap`) is left to the claim, because with it the promise
  does not hold. Backups stop when the keys are used up; deploys, edits and
  restores go on.
* `infra` has a master, a worker and a builder, one volume and its move from one
  server to the other, three files with two edits or destroys between them
  (`MaxEdits`), and one mishap (`MaxMishaps`): there and back again, with a stop at
  any call of any of the commands. Deploys are not counted. The three files agree on the
  master (the section on proofs says what is found otherwise).
* `concurrent_deploys` has two deploys, two services, three keys in one Secret (one
  common, one pruned by each), two values and one fault; `Steps`, the attempts of
  RetryOnConflict, is 2 instead of 5, which is what the number of other writers
  can use up.
* `rollout` sorts every graph of three services with up to two entries each, those
  with duplicates, self-dependencies, cycles and unknown names included, and rolls
  out one service behind another, Deployments of one or two replicas or a
  StatefulSet, new or replacing a good, crashing or missing image. One crash per
  pod (`MaxRestarts`) is what `verifyStability` has to see.
* `ingress` has two domains, three edits or teardowns (`MaxEdits`: from any mode to
  another and back, or a domain away and back with a switch between), two faults
  (a stop and a failed sweep, or two stops) and four tunnels. Its safety
  properties are proved without any of these bounds.

**Fairness.** `Deploy!FairSpec` has weak fairness of `Run`, the program's own steps: a
process that has started executes its next statement. It also has weak fairness
of starting a deploy, an assumption about the operator or the CI job that runs
`nvoi deploy` on every push; without it nothing repairs anything, as nvoi has no
controller of its own. `Reconverges` is conditional: from some point on the file
no longer changes and no run stops. `Infra!Fairness` and `IngressSpec` are the same
two assumptions; edits and mishaps are bounded there, so they end. `RolloutSpec`
has weak fairness of the deploy's own steps, of polls that end the wait (it polls
every few seconds until its deadline), and of the controllers and the kubelet, which
are there to do nothing else; it owes neither crashes nor failed calls nor the
deadline.

**Deadlock** is checked everywhere but in `concurrent_deploys` and `rollout`, which
really end: when both deploys are over, when the deploy has passed or failed.
Elsewhere a deploy can always begin between two runs.

### What the refuted claims show

* `claim_first_deploy`: `ComputePlan` needs the master (`plan.go:135`), which only
  the later Bootstrap creates, so a deploy to an empty account ends with the
  advice to run `nvoi deploy`. The other runs of the pipeline therefore start with
  the master up (`Provisioned`); `deploy_plain` also starts without it, where every
  plan fails; `infra` has the variable `borrowed` for a caller that brings a cluster
  client of its own, and checks both.
* `claim_pending_database`: changing a database's `server:` and dropping the old
  server in one edit deletes the server the database runs on.
* `claim_freshest_is_ours`: keys are the time of the upload, and a manual Job does
  not keep a scheduled one away (nor the other way round). A backup that was
  running when migrate began uploads an older dump last, and that is what migrate
  has chosen to restore when it deletes the volume.

The models show the opposite of more texts of the repository than these three; the others are in the
list below, with the line they contradict.

### What no run promises

The same models show the following. The configuration sets of the passing runs
avoid them, or the properties name them as exceptions.

Pipeline and plan:

* A bucket with a name of its own has not the prefix by which `planStorage` looks for live ones
  (`plan.go:694-699`). Every plan adds it, though changes are to "represent an actual diff"
  (`plan.go:46`): every deploy prompts, "No changes." is never said and the quiet path never
  taken. `NothingLeftToAsk` says exactly what is asked again.
* `GetCaddyRoutes` returns no error when the pod is not found or its admin API does not answer
  (`caddy.go:213-231`). The plan then shows no deletion of a record, though it is to "list
  everything we'd unroute" (`plan.go:358`); RouteDomains asks again (`reconcile.go:419`) and
  deletes it. `DestructionAnnounced` speaks of records only where that first read is answered.
* A CronJob that cannot be read has no schedule to compare (`plan.go:597`), and "No changes." is
  said of a file whose schedule changed. The same goes for the image of a service and for
  Secret keys (`plan.go:547-550`, `652-655`), though errors of planners are to "abort the
  whole computation" (`plan.go:117-119`). `NoChangesIsTrue` is therefore checked and proved
  where of these reads only those of routes fail.
* Secrets of crons carry the owner label of the services, whose sweep deletes them
  in every deploy (`services.go:189`); `sweep.go:33-37` says that no step sees
  another's objects. Crons writes them again a few steps later.
* A changed `replicas`, `env`, `command` or `port` alone is "No changes.", where
  `plan.go:420-421` has it applied silently.
* Removing the last domain leaves Caddy serving it (`ingress.go:24`: "stop being
  served"), because neither RouteDomains nor Ingress runs.
* A run stopped between a database's credentials Secret and its StatefulSet is
  "No changes." afterwards (`planDatabases` looks at the Secret only, its comment
  at `plan.go:723-726` names the StatefulSet too).
* Adding or removing `backup:`, a changed backup schedule or database server are
  not planned (`databases.go:125-127` speaks of the next deploy).
* A service that gains or loses a named volume keeps both its Deployment and its
  StatefulSet (`plan.go:912-913`: "Services emit one of the two").
* A domain moved from one service to another is "No changes."
  (`reconcile.go:258-259`).
* For services that are not built, a run stopped between pruning a Secret and
  applying the workload is forgotten (`plan.go:994-996`).
* A read error on the quiet path drops DATABASE_URL from a service
  (`reconcile.go:351`).
* A volume whose sweep fails is left with a warning while the next sweep of the
  same step takes its credentials Secret (`databases.go:163`). No later plan knows
  it, and the next loud run deletes it without having shown a deletion.

Two deploys at once:

* Two deploys of the same file can both succeed and leave a key that neither
  declares: its removal lost a conflict, and that failure is ignored
  (`services.go:203`). `TwinsConverge` excepts these keys (`unpruned`).
* What only one of the two declares has no promise at all: the other sweeps it.

Rollouts:

* The wait counts pods by label: for a StatefulSet the old pod passes, and
  dependents are applied while it is being replaced (`services.go:25-27`).
  `DependenciesServe` excepts pods replaced in place.
* A Deployment whose new image cannot be pulled passes if the deploy polls before
  the new pod exists; `MissingImagesStop` is about services without old pods.
* A pod of the old revision in ImagePullBackOff makes the wait for the image that
  would repair it give up; `GoodDeploysSucceed` supposes that what is replaced
  worked.
* A pod replaced under its name hides its crashes from `verifyStability`.

Ingress:

* The plan sees a tunnel only by its agents (`plan.go:868-870` means this to capture
  the visible delta): a run stopped once they are applied, and a domain added in
  tunnel mode, are "No changes.", and so is a switch from one tunnel to the other, which leaves the
  old agents running for ever. `NoChangesIsServed` and `CaddyReconverges` are about Caddy mode, `OneIngress`
  about Caddy and a tunnel. The branch that would plan the removal of a tunnel
  (`plan.go:894`) cannot be reached.
* Changed ngrok endpoints or a changed tunnel token do not restart the agents' pods: `WiredWhenDone` speaks of
  what they were told.
* A CNAME of a removed domain stays (only addresses are listed), and so does the
  record of a run that stopped before its reload if the domain is then removed.
* A Caddy pod that restarts serves nothing until the next deploy, and the records
  of domains removed meanwhile stay: the routes were the only trace. So do those of
  domains removed by a deploy whose question Caddy did not answer; `OrphansRemoved`
  leaves them out (`tracked`). The read is RouteDomains' own, or the plan's if that takes the
  quiet path; no warning is given, though RouteDomains is to unroute "any that aren't in cfg"
  (`reconcile.go:380-381`).
* Tunnels and reserved domains at the provider are not deleted on a switch.

Infrastructure:

* The plan compares names and public rules (`hetzner/infra.go:650`: "Empty slice
  means a converged Hetzner side"). A server that never joined, a firewall that is
  not attached, a volume that is not mounted are not planned; `ReadyWhenDeployed`
  is about deploys that were loud.
* The first builder needs a firewall that no command creates: ProvisionBuilders
  applies its rules first and fails (`OperatorCreatesFirewall` stands for somebody
  creating it by hand).
* AWS and Scaleway attach a server to a firewall that is gone without an error and without
  effect; Scaleway skips IPv6 rules that its plan compares, and so plans an update
  for ever: `Settles` is about Hetzner.
* A volume `b-builder-cache` beside a builder `b` has the name of the builder's cache
  (`pkg/utils/naming.go:79`; validation looks at each name alone): a destroy without volumes
  would take it for the cache and delete it. In the model the names differ.
* A destroy works from nvoi.yaml and not by labels (`pkg/provider/infra.go:95-96`):
  a worker that is no longer declared survives it. On Hetzner it survives the network
  too, and if it is declared again no deploy puts it back (`Outcast`).
* A mount that was cut short before fstab is taken for complete ("already mounted")
  and is gone after a reboot (`halfway`).
* A failed listing is an empty one to drain and unmount (`blind`), and a failed lookup of
  AWS's VPC is a VPC that is gone (`network.go:121`), so that a destroy which "hard-nukes every AWS
  resource" (`aws/infra.go:262`) ends well and leaves it; `DestroyIsThorough` speaks of destroys in which no
  such read failed.

Migrate:

* A migrate stopped between deleting the StatefulSet and the volume, followed by a
  deploy, leaves a pod that can never be scheduled: its volume is on the old
  server, and the drift gate compares StatefulSets only.
* A migrate that gets past its backup panics once the old database is deleted
  (`database.go:575`, see *Migrate* above), where it "applies the new StatefulSet per cfg, restores
  from the backup" (`database.go:466`). It leaves no database at all, and the next one
  finds "nothing to migrate". A deploy makes an empty one on the new server, if
  something else makes it loud (the credentials Secret, by which the planner knows a
  database, is still there), and `restore --latest` brings the data back until a
  scheduled backup of the empty database becomes the latest. `DeployBegins` is a
  loud deploy.
* A restore that replays into a volume another migrate then tears down was a
  success all the same; `RestoreBringsBack` speaks of the moment it is reported.
* What clients write between the dump and the teardown is lost.

## Proofs

All constants are arbitrary; each assumption is named below, and TLC evaluates it
in every run whose module extends the one that states it.

**The pipeline** (`DeployProof`, `DeployConvergesProof`). Any sets of names, databases,
domains, servers, images, hashes and any set of configurations of which each satisfies
`IsConfig` and `ValidateConfig` (`ConfigsAssumption`); the master is a server
(`ServersAssumption`); no name that `storage:` gives is that of a backup bucket
(`BucketsAssumption`); the reads that fail softly and the disturbances are any of those
named (`UnreadAssumption`, `DisturbancesAssumption`). Each plan is one of many, for any
subset of those reads.

* `DeployProof!TypeCorrect`: `Spec => []TypeOK`. `TypeOK` alone is not inductive:
  `ApplyDatabase` reads the `step`-th object of a list whose length depends on the
  configuration, and the keys of a workload are typed only while its service is
  declared. `InRange` adds that the work of a step is declared in the
  configuration (which cannot change during a run), that `step` stays within the
  list, and that nothing is at hand before the steps begin.
* `DeployProof!DataPinned`: `Spec => DatabasePinned`. The invariant adds
  `DataOwned` (data objects carry the owner label `databases`, hence no other
  step's sweep can list them) and `Settled` (the database being written has not
  drifted, though the check was several writes ago). Each write of another step
  leaves data objects alone because of its kind or name (`AppliedElsewhere`,
  `RemovedElsewhere`, `SweptElsewhere`); a database's own write replaces only its
  StatefulSet, on the same server (`ApplyKeepsData`); the sweep of the databases
  keeps the names of declared ones (`SweepKeepsData`).
* `DeployProof!DnsFirst`: `Spec => IngressHasDns`. `Web` follows a run to the
  reload: the loud path has opened the ports and made the records, the quiet path
  has found both in its plan (`QuietPlan`), and steps that only the loud path
  takes are reached on no other.
* `DeployProof!NothingSilentlyDestroyed`: `Spec => DestructionAnnounced` where no
  sweep fails (`"sweep" \notin Disturbances`; with it TLC refutes the property, see *What
  no run promises*). What the property says of records it says where planRouteDomains'
  read of Caddy cannot fail (see *What no run promises*); servers and volumes need no read that
  fails softly. `Covered` is what makes the plan complete: every volume has the
  credentials Secret the planner knows a database by, because the Secret is written
  first and swept last. `Announced` says that what the run may still delete is in
  the plan it has shown.
* `DeployProof!ReferencesResolve`: `Spec => RefsResolveWhenWritten` with every
  disturbance, where no declared secret is called like a DATABASE_URL
  (`Keys \cap Databases = {}`, since pruning goes by the key). `Sourced`: a URL the run
  holds is of a declared database that has its credentials. `Stored`: the Secret of the
  workload at hand has what the workload refers to, from the last
  upsert past the prune to the write.
* `DeployConvergesProof!AlwaysNothingMissing`: `Spec => []NothingDeclaredMissing` with every
  disturbance. `Shaped` says that the owner label of an object and its name decide what it
  is, so that a sweep meets only its own, and that a name is used once; `AppsDone` that what a
  step has done for a service or cron (`ServiceDone`, `CronDone`) is there from then on: the
  service whose turn is over stays as it is while others are written, and the crons leave it
  alone. `Pulled` is the pull secret. The Secret of a cron is the exception: the services'
  sweep takes it, and `CronDone` begins after that. Assumed is `NamesApart`, that no name is a service
  and a cron at once (`plan.go:969`, where the two would prune each other's keys).
* `DeployConvergesProof!AppsConverge`: `Spec => []AppsConvergedWhenDone`, an equality:
  nothing else is left either. `Cleared` follows the sweeps through their lists,
  `Placed` the servers and `Filled` the buckets of `storage:` on both paths (a quiet plan has
  found them, `QuietFinds`), `Collected` the URLs of all databases. Assumed besides: no deletion and no read of
  credentials fails (`Thorough`, `Readable`; the code warns and goes on), and no service turns from a
  Deployment into a StatefulSet (`KindsStable`, `services.go:84`: the sweep keeps both). Runs may stop
  anywhere, prompts may be declined, removals of records may fail.
* `DeployConvergesProof!SecondDeployAsksNothing`: `Spec => []NothingLeftToAsk`, an equality: a
  plan whose reads are answered asks for the buckets with a name of their own
  (`AsksAgain`), and for nothing else. `TidyWhenDone`
  is what the planners look at: beyond `AppsConverged` the buckets, the credentials Secrets,
  which are those of the declared databases and of no other, and Caddy's Deployment. It
  needs `Bucketed` and `Known` along the loud path, and on the quiet one that the plan has
  found the same. One assumption more, `MovesKeepBackups`: a database that waits for its
  migration is passed over with its bucket, so if the file turned its backups on at the
  same time every plan would ask for the bucket again.
* `DeployConvergesProof!AlwaysLeftoversPlanned`: `Spec => []LeftoversPlanned`, no assumption.
* `DeployConvergesProof!DatabasesConverge`: `Spec => []ConvergedWhenDone`, the equality of
  `AppsConverge` with the databases in it. A run that stops between two objects of a
  database leaves one the planner takes for whole (`databases.go:280`), so the assumptions
  are those above and `Unstopped`. `DatabasesWhole` is what such a stop would break: a database
  has all its objects or none, except the one being written and those being swept. A database
  that waits for its migration has the StatefulSet it waits for, hence all the rest.
  `DbShaped` says that an object of the databases is one that some configuration asks for. With `BackupsStable` (backups are neither
  turned on nor off; `plan.go:746`) it is the same set whichever configuration wrote it.
* `DeployConvergesProof!NoChangesMeansConverged`: `Spec => []NoChangesIsTrue`. Here the
  planners are shown to be complete: from an empty plan, each kind of object is traced
  back to what its planner compared (`NothingToDo`). They compare names, keys, images and
  schedules and take the rest on trust, so the invariant says what is to be
  trusted: of the planners' reads only those of Caddy's routes may fail (`OnlyRoutesUnread`; an
  unread route makes a plan longer, as a domain is declared there); between runs the workloads are those of some configuration (`LiveAtRest`: a run
  that gets past its plan applies all of them before it ends, if nothing stops it), and a route is one some configuration asked for (`RoutesKnown`). The assumptions
  `SpecsStable` and `DomainsStable` exclude edits the plan does not look at; what each assumption
  excludes is listed under *What no run promises*, and there the claim is false of the code.

The constants of `deploy_plain` satisfy all of these assumptions, those of `deploy_shop` those of
`DataPinned` to `ReferencesResolve`, `AppsConverge` and `SecondDeployAsksNothing`, those of `deploy_sweeps` `NamesApart`.

**The kube primitives** (`KubeWritesProof`). Any clients, objects, keys and values; at
least one attempt (`StepsAssumption`).

* `TypeCorrect`, then `SeenCorrect`: as long as an object's version is the one a
  client read, the object holds what the client read, whoever else writes. This is
  what makes an accepted Update lose nothing, and what a Create relies on when it
  found nothing.
* `Refinement`: `Spec => StoreIsAtomic`. The initial states map to initial states
  (`InitRefines`), and each step to a start, an effect, a failure or a stutter of
  `ObjectStore` (`StepRefines`): an accepted write is the effect, a read that finds
  nothing to write is one too, a conflict that is retried is nothing.

**Ingress** (`IngressProof`). Any domains, any number of edits, faults and tunnels
(`IngressAssumption`: the three bounds are naturals).

* `TypeCorrect`, `WiredCorrect`, `NoChangesCorrect`, `OneIngressCorrect`,
  `OrphansCorrect`: the five invariants of the run. None of them is inductive, as
  they speak of how a run ended; `IInv` says what a run may rely on at each of its
  steps: the mode it belongs to (`ModeOfStep`), ports, records, Caddy, the
  tunnel providers, agents and CNAMEs in the order in which they are made
  (`WebOfStep` to `CnamesOfStep`), what has been swept if no warning was given
  (`OtherIngressGone`), and that a record nvoi can still recognise, and has not missed for want of an answer, has a route, until the step past
  which no orphan has a record (`TrackedIsRouted`, `OrphansOfStep`). The quiet path
  enters with `Quiet`: what the loud steps would have established, the plan has read.
* `RedeployCorrect`: `IngressSpec => RedeployKeepsServing`, from the same invariant,
  one case per action.

In `IngressProof` the actions fall into three classes (those of Caddy's mode, of a tunnel's, others), and
a part of the invariant that belongs to one class is kept by the other two for one
reason each (`CaddyActionsKeep`, `TunnelActionsKeep`, `OtherActionsLeave`).

**Migrate** (`MigrateProof`). Any servers, writes, backup Jobs and keys; the value for
"nothing" is none of the values it stands beside (`MigrateAssumption`).

* `TypeCorrect`: `Spec => []TypeOK` with every disturbance. Added to make it inductive:
  the bucket has a newest key when it is not empty, a Job that has succeeded has
  left its backup, and the backup a restore reads is there (`HasLatest`, `Stored`).
* `PodsInPlace`: `Spec => []WritesToWhatStays` with every disturbance. Command and deploy name
  the same server, and the drift gate keeps deploys away until the StatefulSet has gone
  (`SameServer`, `Placement`); a volume whose deletion is pending has a pod that is
  ending (`EndingVolume`), and while a migrate deletes no other pod starts, as the
  volume is bound to the old server and the StatefulSet, if a deploy has made one,
  selects the new one (`OldVolume`, `NoLivePod`).
* `DataBackedUp`: `Spec => TeardownAfterBackup`, and `RestoreHolds`:
  `Spec => RestoreBringsBack`, both as long as no backup overlaps another one (with an
  overlap TLC refutes the first, by what `claim_freshest_is_ours` shows). What the database
  held is in the volume and in every dump while the command waits (`DataHeld`) and in the backup
  it has chosen from then on (`KeyHolds`); a restore's backup is in the volume
  once the replay is done (`Restored`), and no migrate runs beside it (`NoReplay`).

**Two deploys** (`ConcurrentDeploysProof`). Any deploys, names and spellings of the shared
Secret; a deploy declares at least one service, and no payload is the value for "absent"
(`ObjectsAssumption`, beside `StepsAssumption` of `KubeWrites`).

* `DeploysAreTyped`, `DeploysAreAtomic`: `DeploysSpec => []TypeOK` and
  `DeploysSpec => StoreIsAtomic`. Every step of a deploy is a step of `KubeWrites` or
  leaves its variables alone (`StepsAreCalls`), so the invariant and the refinement proved
  there carry over; two deploys are clients of that store and nothing else.
* `AlwaysCommonSurvives`: what both deploys declare is never deleted. By `Doing`, a client
  deletes only what its own sweep listed and does not declare, whatever has been read
  and written between the listing and the delete.
* `AlwaysTwinsConverge`: two deploys of one configuration that both ended without an
  error leave exactly what it declares. `Twins` has what a single deploy has done at each of
  its steps and that the other one, of the same configuration, undoes none of it.

**Service order and rollout** (`RolloutProof`). Any services, images and bounds; each
dependency graph is over the services it orders and each setup is one of those graphs with
its images (`GraphsAssumption`, `SetupsAssumption`).

* `AlwaysComplete`, `AlwaysDependenciesFirst`: `OrderInv` says that a service enters `ready`
  once all it depends on has been placed, that the counts of what is left are right, and
  that placed, ready and waiting services are disjoint and all there are. What is left
  when nothing is ready then has, each, an unplaced dependency; findDependencyCycle had
  found no cycle, so that there is a least such service, and it contradicts itself.
  `WFMin` of the library gives it without an induction over data.
* `TypesAlways`, `AlwaysMissingImagesStop`, `AlwaysDependenciesServe`: `RolloutInv` adds
  `Progress` (the service waited for is the one after those done), `Applied` (what is done
  is applied, with the image of the run), `PodsFit` (a ready pod has an image that can be
  pulled), and `Outcome` (what a run that ended may say of them).

**Infrastructure** (`InfraProof`). Any finite sets of servers and volumes
(`FiniteAssumption`: calls are made one per element of such a set), any configurations with one
master whose volumes are on declared servers (`CloudAssumption`), any bounds.

* `DataStays`: `Spec => DataKept`. What a command does next depends on what is left of its
  sequence of calls, so the invariant is about that sequence: `Complete(cmd, todo)` says that
  every call still to be made is of its type and may stand there, and that the last one
  ends a command of that name. `Later(k)` are the calls that
  may stand anywhere in a command named k: none of them creates or formats a volume, a
  volume is removed only if k may remove it (`MayRemove`), and only a deploy plans. `First(k)`
  allows the next call more: to format a disk that is blank now, and to create a volume that is
  not there now. What makes this inductive is that MountVolume and EnsureVolume are
  expanded when they are reached, so that looking at the disk and writing to it have no call in
  between (`ExpansionProgram`). One lemma per operation and provider says what it expands to
  (`EnsureVolumeCalls`, `TeardownOrphansCalls`, `TeardownCalls`, ...); an error drops calls from
  the front only (`RaiseKeeps`). TLC finds the invariant (`Inv`) true of the instance of
  the run `infra`. Assumed is `CachesApart`: no volume has the name of a builder's cache.
* `DestroyThorough`: `Spec => []DestroyIsThorough`. Whatever failed or was refused on the way,
  a destroy that says "destroyed" has destroyed. The invariant `Thorough` says that while
  no error was collected and no listing failed, what is live keeps a call to come
  (`ToGo`): each live declared server its RemoveServer or DestroyServer, a network its
  DeleteNetwork or DropNetwork. Only errors could break that, since an error drops the calls up to the
  mark it runs to. Where it runs to a "collect", the command has failed; so all rests on what
  stands before a "warn". `Ordered` says that only calls that may fail without harm do
  (`Gentle`: dialling, unmounting, detaching, leaving a firewall), between the mark and the "try" that
  opens it, or the front if that has been passed. `Handler` is defined by counting marks;
  `HandlerGentle` turns the counts into "no mark before it", so that what is dropped is gentle
  (`ErrorThorough`). One lemma per operation and provider says which calls
  of a destroy it expands to and that the call it stands for is among them; and no step
  of a destroy makes a server or a network, so what is live only shrinks. TLC finds `Inv` and `Thorough`
  true of the instance of the run `infra`.

* `InfraTyped`: `Spec => []TypeOK`. What is not obvious of the types is that an agent runs, a volume
  is attached or mounted, only on a server that exists. `Supplied` says so of the calls to
  come. `Provided`: a call that `Needs` a server which is not there now comes after a
  `Reach` of it, with no closing mark between; so if the server is missing, the Reach is refused
  and the error takes the call away with it. `Sorted`: what needs a server comes before everything
  that takes something away (`Clearing`), so that no sweep comes in between. Operations that
  look their server up first are expanded where they look (`ExpansionBuilt`), and the calls of
  a destroy need no server (`ExpansionAlone`). With `Supplied`, `Placed` (what is on a server goes with
  it) and `Counted` (outcomes and bounds) are inductive. TLC finds `Supplied` true of the
  instance of the run `infra`.

Only model-checked: `ReadyWhenDeployed` of `Infra`, which is about what all calls of a deploy
have achieved and not about what they may do; and liveness (`Reconverges`, `Settles`,
`GoodDeploysSucceed`, `CaddyReconverges`), which under fairness is outside the prover's reach.
`ReadyWhenDeployed` would also need an assumption: the configurations must agree on the master. While a master
moves from one server to another, both carry its label until the old one is swept;
the code takes the first one listed, `nodes` does not tell two clusters apart, and TLC finds
the property false if such a pair is added to the run's configurations.
They must also keep the volume: one that drops it removes it through an unmount whose failure
is only a warning (`aws/infra.go:737`), which in the model leaves the mount behind. Declared again, the volume
is new and blank, and `MountVolume`, which asks whether the path is a mountpoint and not what is mounted there
(`volume.go:18`), takes it for mounted. Whether a mountpoint outlives its device is for the
server's system to say, so this is a note on a hazard and not a finding.

## Not modelled, and what is left

* **Branching** (`branching.go`, `zfs.go`, the branch verbs of
  `cmd/cli/database.go`). Its writes to the cluster are four in a row, the snapshot and the
  clone are a remote shell script whose failures half-way are not decided by code
  in `src/`. Read while modelling, and worth a module of its own if branches
  get a life of their own: `DeleteBranch` removes the snapshot last, so a
  delete that stopped before it makes the next branch of the same name start from the old
  data; a branch shares its parent's credentials Secret, and removing the parent
  from nvoi.yaml sweeps the Secret and makes branch-delete refuse the name; a
  branch made again after a migrate is pinned to the new server, its volume to the old.
* **Storage credentials.** The keys a `storage:` entry of a workload expands to are among its
  `secrets`; on the quiet path the code reads them back from the Secrets. The model
  supposes that a file with `storage:` or backups declares `providers.storage`; for backups
  validation asks it (`validate.go:269`). That a bucket with a
  name of its own may exist before nvoi ensures it makes no difference to the plan and is
  left out of the initial states.
* **What `DeleteServer` looks at on AWS and Scaleway.** Both detach what the provider lists on the
  server, one call per volume, before they terminate it (`aws/server.go:161`,
  `scaleway/server.go:203`). The model has these calls for nvoi's volumes. It leaves out the boot
  disk, AWS's move to the default security group, Scaleway's second way to delete, and that
  Scaleway terminates the server without detaching when that listing fails
  (`scaleway/server.go:204`); what then becomes of the volumes is for the provider to say.
* **Image builds** (`pkg/provider/build`, local, ssh, daytona): a sequential loop before
  the plan that stops at the first error and shares no state with the rest; the
  result enters the models as the image.
* **Buckets and databases of a teardown**: single calls without an order that matters,
  errors collected.
* **SaaS databases** (neon, planetscale): no object of theirs can be lost by a deploy.
* **SSH, kube tunnel, k3s scripts, provider, secret, bucket and git-host clients**:
  connection plumbing; an error of any of them is a call that fails.
* **Command line, rendering, describe**: input and output. Certificate and HTTPS
  probes only warn, and are in `Ingress` as far as that goes (`dark`).
