------------------------------ MODULE Migrate ------------------------------
(***************************************************************************)
(* `nvoi database migrate` (runDatabaseMigrate in cmd/cli/database.go): a  *)
(* database is to move to the server its configuration names.  The command *)
(* takes a fresh backup, deletes the workloads and the volume, and panics  *)
(* when it applies the new ones, through a client nobody has given it.     *)
(* What brings the database back is a deploy and `nvoi database restore`.  *)
(* Beside the commands there are their Jobs, which go on when the command  *)
(* stops, the scheduled backups, the clients that write, deploys that may  *)
(* run at the same time, and the cluster, which starts and ends the pod in *)
(* its own time.                                                           *)
(*                                                                         *)
(* One self-hosted Postgres database with backup: configured.  Its data is *)
(* the set of writes it holds.                                             *)
(***************************************************************************)
EXTENDS Integers, FiniteSets, FiniteSetsExt, Functions

CONSTANTS
    Nodes,        \* servers the database may be on
    Writes,       \* what clients may write
    BackupJobs,   \* backup Jobs: as many may run at the same time
    MaxKey,       \* bound on the backup keys, which are upload times
    NoVal,        \* "no value"
    Disturbances
(* What the model may meet:                                                *)
(*   "abort"    the command dies, or a call of it returns an error         *)
(*   "jobfail"  a Job's pod fails                                          *)
(*   "overlap"  a backup starts while another one is running               *)
(*   "linger"   a deleted pod goes on for a while                          *)

VolumeType == [node : Nodes \cup {NoVal}, data : SUBSET Writes, ending : BOOLEAN]
PodType == [node : Nodes, ending : BOOLEAN]

ASSUME MigrateAssumption ==
    /\ MaxKey \in Nat
    /\ NoVal \notin Nodes \cup BackupJobs \cup 1..MaxKey
    /\ NoVal \notin VolumeType \cup PodType
    /\ Disturbances \subseteq {"abort", "jobfail", "overlap", "linger"}

VARIABLES
    want,      \* databases.X.server in nvoi.yaml
    sts,       \* the StatefulSet: the server it selects
    svc,       \* the Kubernetes Service exists
    volume,    \* the PVC: where it is bound, its data, its deletion pending
    pod,       \* the database pod: where it runs, its deletion pending
    bucket,    \* the backups: key |-> data
    jobs,      \* the backup Jobs
    replay,    \* the restore Job
    deploying, \* what a deploy has still to apply
    dnode,     \* and the server it read from nvoi.yaml
    pc,        \* where the command is, "idle" between commands
    target,    \* the server it read from nvoi.yaml
    mine,      \* the backup Job it started
    key,       \* the backup it is to restore
    saved,     \* history: what the database held when the command began
    outcome    \* how the last command ended

database == <<sts, svc, volume, pod>>
backups == <<bucket, jobs, replay>>
deploy == <<deploying, dnode>>
command == <<pc, target, mine, key, saved, outcome>>
vars == <<want, database, backups, deploy, command>>

----------------------------------------------------------------------------
Latest == Max(DOMAIN bucket)

Active(j) == jobs[j].state \in {"dumping", "uploading"}

NoneActive == (\A j \in BackupJobs : ~ Active(j)) /\ replay.state # "running"

\* The Service leads new connections to the pod; one that is ending keeps
\* the connections it has.
Serving == pod # NoVal /\ ~ pod.ending /\ svc /\ volume # NoVal

Init ==
    /\ want \in Nodes
    /\ sts = want
    /\ svc = TRUE
    /\ volume = [node |-> want, data |-> {}, ending |-> FALSE]
    /\ pod = [node |-> want, ending |-> FALSE]
    /\ bucket = <<>>
    /\ jobs = [j \in BackupJobs |-> [state |-> "over", data |-> {}, key |-> NoVal]]
    /\ replay = [state |-> "over", key |-> NoVal]
    /\ deploying = "over"
    /\ dnode = NoVal
    /\ pc = "idle"
    /\ target = NoVal
    /\ mine = NoVal
    /\ key = NoVal
    /\ saved = {}
    /\ outcome = "none"

(* The cluster, external to nvoi.                                          *)

\* What a deletion of the workload does to its pod: with "linger" the pod
\* stays for its grace period, serving the connections it has.
PodDeleted ==
    IF pod = NoVal \/ "linger" \notin Disturbances THEN NoVal
    ELSE [pod EXCEPT !.ending = TRUE]

VolumeFits == volume # NoVal /\ volume.node \in {NoVal, sts}

\* The volume is bound where its first pod runs; a bound one ties later
\* pods to its server, and one that is being deleted takes no pod.
PodStarts ==
    /\ sts # NoVal /\ pod = NoVal
    /\ VolumeFits
    /\ pod' = [node |-> sts, ending |-> FALSE]
    /\ volume' = [volume EXCEPT !.node = sts]
    /\ UNCHANGED <<want, sts, svc, backups, deploy, command>>

\* A volume in use is deleted when its pod has gone.
PodEnds ==
    /\ pod # NoVal /\ pod.ending
    /\ pod' = NoVal
    /\ volume' = IF volume # NoVal /\ volume.ending THEN NoVal ELSE volume
    /\ UNCHANGED <<want, sts, svc, backups, deploy, command>>

ClientWrites(w) ==
    /\ pod # NoVal /\ volume # NoVal
    /\ w \notin volume.data
    /\ volume' = [volume EXCEPT !.data = @ \cup {w}]
    /\ UNCHANGED <<want, sts, svc, pod, backups, deploy, command>>

----------------------------------------------------------------------------
(* Backup Jobs: cmd/db in MODE=backup dumps into a file, takes the current *)
(* time as key, and uploads.                                               *)

\* A Job made from the CronJob's template.  ForbidConcurrent keeps only the
\* scheduled ones apart.
JobCreated(j) ==
    /\ ~ Active(j)
    /\ "overlap" \in Disturbances \/ NoneActive
    /\ jobs' = [jobs EXCEPT ![j] = [state |-> "dumping", data |-> {}, key |-> NoVal]]

\* The schedule, or `nvoi database backup now`.
BackupStarts(j) ==
    /\ j # mine
    /\ JobCreated(j)
    /\ UNCHANGED <<want, database, bucket, replay, deploy, command>>

Dump(j) ==
    /\ jobs[j].state = "dumping"
    /\ Serving
    /\ jobs' = [jobs EXCEPT ![j].state = "uploading", ![j].data = volume.data]
    /\ UNCHANGED <<want, database, bucket, replay, deploy, command>>

\* Keys count seconds: only uploads of overlapping Jobs can share one, and
\* the later one then replaces the earlier.
Upload(j, k) ==
    /\ jobs[j].state = "uploading"
    /\ \A l \in DOMAIN bucket : l < k \/ (l = k /\ "overlap" \in Disturbances)
    /\ bucket' = [l \in DOMAIN bucket \cup {k} |->
                    IF l = k THEN jobs[j].data ELSE bucket[l]]
    /\ jobs' = [jobs EXCEPT ![j].state = "over", ![j].key = k]
    /\ UNCHANGED <<want, database, replay, deploy, command>>

\* The pod of the Job fails; the Job tries again or gives up (backoffLimit).
BackupFails(j) ==
    /\ "jobfail" \in Disturbances
    /\ Active(j)
    /\ \E s \in {"dumping", "over"} : jobs' = [jobs EXCEPT ![j].state = s]
    /\ UNCHANGED <<want, database, bucket, replay, deploy, command>>

(* The restore Job: cmd/db in MODE=restore pipes a backup into psql.  The  *)
(* dump drops and recreates what it holds.                                 *)

Replayed ==
    /\ replay.state = "running"
    /\ Serving
    /\ volume' = [volume EXCEPT !.data = bucket[replay.key]]
    /\ replay' = [replay EXCEPT !.state = "done"]
    /\ UNCHANGED <<want, sts, svc, pod, bucket, jobs, deploy, command>>

\* It fails on the way, and is not tried again (BackoffLimit 0).
ReplayFails ==
    /\ "jobfail" \in Disturbances
    /\ replay.state = "running"
    /\ replay' = [replay EXCEPT !.state = "over"]
    /\ \/ UNCHANGED volume
       \/ /\ Serving
          /\ \E left \in SUBSET (volume.data \cup bucket[replay.key]) :
                volume' = [volume EXCEPT !.data = left]
    /\ UNCHANGED <<want, sts, svc, pod, bucket, jobs, deploy, command>>

----------------------------------------------------------------------------
(* What ReconcileOneDatabase writes for a deploy: the Service, the volume  *)
(* unless there is one, the StatefulSet.                                   *)

ApplyService == svc' = TRUE /\ UNCHANGED <<sts, volume, pod>>

ApplyVolume ==
    /\ volume' = IF volume = NoVal THEN [node |-> NoVal, data |-> {}, ending |-> FALSE]
                                   ELSE volume
    /\ UNCHANGED <<sts, svc, pod>>

ApplyStatefulSet(n) ==
    /\ sts' = n
    /\ pod' = IF pod # NoVal /\ pod.node # n THEN PodDeleted ELSE pod
    /\ UNCHANGED <<svc, volume>>

(* A deploy, as far as this database goes: detectNodePinDrift, then the    *)
(* three writes.                                                           *)

\* Mutant of DeployBegins: a database without a StatefulSet is not new, so
\* no server is read for it.
DeployBeginsBlind ==
    /\ deploying = "over"
    /\ sts \in {NoVal, want}
    /\ deploying' = "service"
    /\ dnode' = sts
    /\ UNCHANGED <<want, database, backups, command>>

DeployBegins ==
    /\ deploying = "over"
    /\ sts \in {NoVal, want}
    /\ deploying' = "service"
    /\ dnode' = want
    /\ UNCHANGED <<want, database, backups, command>>

DeployApplies ==
    /\ \/ deploying = "service" /\ ApplyService /\ deploying' = "volume"
       \/ deploying = "volume" /\ ApplyVolume /\ deploying' = "statefulset"
       \/ deploying = "statefulset" /\ ApplyStatefulSet(dnode) /\ deploying' = "over"
    /\ dnode' = IF deploying' = "over" THEN NoVal ELSE dnode
    /\ UNCHANGED <<want, backups, command>>

Edit(n) ==
    /\ pc = "idle" /\ deploying = "over"
    /\ n # want
    /\ want' = n
    /\ UNCHANGED <<database, backups, deploy, command>>

----------------------------------------------------------------------------
(* The command.                                                            *)

Goto(p) == pc' = p /\ UNCHANGED <<target, mine, key, saved, outcome>>

Over(o) ==
    /\ pc' = "idle"
    /\ outcome' = o
    /\ target' = NoVal
    /\ mine' = NoVal
    /\ key' = NoVal
    /\ saved' = {}

Ends(o) == Over(o) /\ UNCHANGED <<want, database, backups, deploy>>

\* Without a StatefulSet, or with one on the wanted server, the command
\* ends at once.  Else a backup is started.
MigrateBegins(j) ==
    /\ pc = "idle"
    /\ sts \notin {NoVal, want}
    /\ JobCreated(j)
    /\ pc' = "backup"
    /\ target' = want
    /\ mine' = j
    /\ saved' = IF volume = NoVal THEN {} ELSE volume.data
    /\ outcome' = "none"
    /\ UNCHANGED <<want, database, bucket, replay, deploy, key>>

\* Mutant of BackupAwaited: a Job that has given up counts as finished.
BackupAwaitedOver ==
    /\ pc = "backup"
    /\ jobs[mine].state = "over"
    /\ DOMAIN bucket # {}
    /\ Goto("locate")
    /\ UNCHANGED <<want, database, backups, deploy>>

\* WaitForJob: the Job has succeeded.
BackupAwaited ==
    /\ pc = "backup"
    /\ jobs[mine].key # NoVal
    /\ Goto("locate")
    /\ UNCHANGED <<want, database, backups, deploy>>

\* It has a failed pod, or five minutes are over; the Job may go on.
BackupGivenUp ==
    /\ pc = "backup"
    /\ jobs[mine].key = NoVal
    /\ Ends("failed")

LatestBackupKey ==
    /\ pc = "locate"
    /\ key' = Latest
    /\ pc' = "delete-statefulset"
    /\ UNCHANGED <<want, database, backups, deploy, target, mine, saved, outcome>>

\* Mutant of DeleteWorkload: the Service goes, the StatefulSet does not.
DeleteNoWorkload ==
    /\ pc = "delete-statefulset"
    /\ Goto("delete-service")
    /\ UNCHANGED <<want, database, backups, deploy>>

\* DeleteByName: the StatefulSet, then the Service.
DeleteWorkload ==
    /\ pc = "delete-statefulset"
    /\ sts' = NoVal
    /\ pod' = PodDeleted
    /\ Goto("delete-service")
    /\ UNCHANGED <<want, svc, volume, backups, deploy>>

DeleteService ==
    /\ pc = "delete-service"
    /\ svc' = FALSE
    /\ Goto("delete-volume")
    /\ UNCHANGED <<want, sts, volume, pod, backups, deploy>>

DeletePVC ==
    /\ pc = "delete-volume"
    /\ volume' = IF volume = NoVal \/ pod = NoVal THEN NoVal
                 ELSE [volume EXCEPT !.ending = TRUE]
    /\ Goto("apply")
    /\ UNCHANGED <<want, sts, svc, pod, backups, deploy>>

\* ReconcileOneDatabase applies through dc.Cluster.MasterKube.  A deploy sets
\* it; this command has a client of its own (req.Kube) and leaves it nil:
\* the first write is a nil dereference, and what would follow it, the
\* wait for the new pod and the restore, is never reached.
ApplyPanics == pc = "apply" /\ Ends("failed")

\* `nvoi database restore`: --from-backup, or --latest.
RestoreVerb(k) ==
    /\ pc = "idle"
    /\ k \in DOMAIN bucket
    /\ "overlap" \in Disturbances \/ NoneActive
    /\ replay.state # "running"
    /\ replay' = [state |-> "running", key |-> k]
    /\ pc' = "replay"
    /\ outcome' = "none"
    /\ UNCHANGED <<want, database, bucket, jobs, deploy, target, mine, key, saved>>

\* Mutant of RestoreVerbEnds: a restore that has given up counts as finished.
RestoreVerbEndsOver == pc = "replay" /\ replay.state # "running" /\ Ends("restored")

RestoreVerbEnds == pc = "replay" /\ replay.state = "done" /\ Ends("restored")

\* The restore Job has failed, or five minutes are over.
RestoreGivenUp ==
    /\ pc = "replay"
    /\ replay.state # "done"
    /\ Ends("failed")

Abort == "abort" \in Disturbances /\ pc # "idle" /\ Ends("failed")

----------------------------------------------------------------------------
ClusterStep ==
    \/ PodStarts \/ PodEnds
    \/ \E w \in Writes : ClientWrites(w)
    \/ \E j \in BackupJobs : \/ BackupStarts(j) \/ Dump(j) \/ BackupFails(j)
                             \/ \E k \in 1..MaxKey : Upload(j, k)
    \/ Replayed \/ ReplayFails

CommandStep ==
    \/ \E j \in BackupJobs : MigrateBegins(j)
    \/ BackupAwaited \/ BackupGivenUp \/ LatestBackupKey
    \/ DeleteWorkload \/ DeleteService \/ DeletePVC \/ ApplyPanics
    \/ \E k \in 1..MaxKey : RestoreVerb(k)
    \/ RestoreVerbEnds \/ RestoreGivenUp \/ Abort

Next ==
    \/ ClusterStep \/ CommandStep
    \/ DeployBegins \/ DeployApplies
    \/ \E n \in Nodes : Edit(n)

Spec == Init /\ [][Next]_vars

----------------------------------------------------------------------------
Stages == {"idle", "backup", "locate", "delete-statefulset", "delete-service",
           "delete-volume", "apply", "replay"}

JobType == [state : {"dumping", "uploading", "over"}, data : SUBSET Writes,
            key : 1..MaxKey \cup {NoVal}]

\* Besides the types: a command that migrates knows its server and its Job,
\* and a deploy under way knows the server it applies.
TypeOK ==
    /\ want \in Nodes
    /\ sts \in Nodes \cup {NoVal}
    /\ svc \in BOOLEAN
    /\ volume \in VolumeType \cup {NoVal}
    /\ pod \in PodType \cup {NoVal}
    /\ DOMAIN bucket \subseteq 1..MaxKey
    /\ \A k \in DOMAIN bucket : bucket[k] \subseteq Writes
    /\ jobs \in [BackupJobs -> JobType]
    /\ replay \in [state : {"running", "done", "over"}, key : DOMAIN bucket \cup {NoVal}]
    /\ deploying \in {"service", "volume", "statefulset", "over"}
    /\ deploying # "over" => dnode \in Nodes
    /\ pc \in Stages
    /\ pc \notin {"idle", "replay"} => target \in Nodes /\ mine \in BackupJobs
    /\ pc \notin {"idle", "replay", "backup", "locate"} => key \in DOMAIN bucket
    /\ saved \subseteq Writes
    /\ outcome \in {"none", "failed", "restored"}

----------------------------------------------------------------------------
(* What the commands promise.                                              *)

Kept(v) == v # NoVal /\ ~ v.ending

\* The StatefulSet and the volume of a database are deleted only when the
\* backup to be restored holds everything the database held when the command
\* began, however many earlier commands stopped half-way or panicked and
\* whatever they left (WaitForJob before the teardown, database.go:540-562).
TeardownAfterBackup ==
    [][(sts # NoVal /\ sts' = NoVal) \/ (Kept(volume) /\ ~ Kept(volume)')
          => key \in DOMAIN bucket /\ saved \subseteq bucket[key]]_vars

\* A restore that reports success has left all of its backup in a volume
\* that stays, although the database may be torn down, recreated by a deploy
\* and dumped by other Jobs around it, and pods of the torn one linger: the
\* replay goes through the Service to whatever pod is there (RunRestoreJob).
RestoreBringsBack ==
    [][outcome' = "restored" /\ outcome # "restored" =>
          /\ Kept(volume)'
          /\ replay.key \in DOMAIN bucket /\ bucket[replay.key] \subseteq volume'.data]_vars

\* A pod that is not ending serves from the server that the StatefulSet
\* selects and on a volume that is bound there and stays: a teardown, a
\* deploy between its steps and another teardown never leave a pod writing
\* to a volume that is about to go (DeleteByName before DeletePVC, and
\* detectNodePinDrift before a deploy's apply).
WritesToWhatStays ==
    pod # NoVal /\ ~ pod.ending => pod.node = sts /\ Kept(volume) /\ volume.node = sts

----------------------------------------------------------------------------
(* What the repository says of the command and the command does not do.    *)

\* "the most recent object in the bucket at this point is guaranteed to be
\* the one we just pushed" (database.go:543-546).
FreshestIsOurs ==
    [][pc = "locate" /\ pc' = "delete-statefulset" => key' = jobs[mine].key]_vars
============================================================================
