---------------------------- MODULE MigrateProof ----------------------------
(***************************************************************************)
(* What migrate and restore promise of the data, for any servers, writes,  *)
(* backup Jobs and keys, with commands, Jobs and deploys that stop         *)
(* anywhere: types and the pod's place without any condition, the rest as  *)
(* long as no backup overlaps another.                                     *)
(***************************************************************************)
EXTENDS Migrate, TLAPS

Migrating == pc \notin {"idle", "replay"}
Waiting == pc \in {"backup", "locate"}
Deleting == {"delete-service", "delete-volume"}

\* The three deletions of a migrate.
Teardown == DeleteWorkload \/ DeleteService \/ DeletePVC

\* The newest backup is well defined.
HasLatest ==
    DOMAIN bucket = {} \/ \E k \in DOMAIN bucket : \A l \in DOMAIN bucket : l <= k

\* A Job that has succeeded has left its backup; the command waits for that.
JobStored ==
    /\ Waiting /\ jobs[mine].key # NoVal => jobs[mine].key \in DOMAIN bucket
    /\ pc = "locate" => jobs[mine].key # NoVal

\* A restore replays a backup that is there.
ReplayStored == replay.state = "running" => replay.key \in DOMAIN bucket

Stored == JobStored /\ ReplayStored

\* Deploy and command work with the server that nvoi.yaml names.
SameServer ==
    /\ deploying # "over" => dnode = want /\ sts \in {NoVal, want}
    /\ Migrating => target = want

\* The gate of deploys keeps them away until the StatefulSet has gone; then
\* there is only one server anybody places it on.
Placement ==
    /\ pc \in {"backup", "locate", "delete-statefulset"} =>
          deploying = "over" /\ sts \in Nodes \ {target}
    /\ pc \in Deleting => sts \in {NoVal, target}

\* A volume that is being deleted waits for a pod that is ending.
EndingVolume ==
    /\ volume # NoVal /\ volume.ending => pod # NoVal /\ pod.ending
    /\ "linger" \notin Disturbances => pod = NoVal \/ ~ pod.ending

\* The dump was taken from a volume bound to the old server: no pod of a
\* deploy can take it until it has gone.
Dumped ==
    \/ pc = "backup" /\ (jobs[mine].state = "uploading" \/ jobs[mine].key # NoVal)
    \/ pc \in {"locate", "delete-statefulset"} \cup Deleting

OldVolume == Dumped => Kept(volume) /\ volume.node \in Nodes \ {target}

NoLivePod == pc \in Deleting => pod = NoVal \/ pod.ending

\* No restore runs beside a migrate.
NoReplay == Migrating => replay.state # "running"

\* What the database held is in the volume, in every dump, and in every
\* backup from the command's own on.
DataHeld ==
    Waiting =>
        /\ volume = NoVal \/ saved \subseteq volume.data
        /\ \A j \in BackupJobs : jobs[j].state = "uploading" => saved \subseteq jobs[j].data
        /\ jobs[mine].key # NoVal =>
              \A l \in DOMAIN bucket : l >= jobs[mine].key => saved \subseteq bucket[l]

\* From the teardown on it is in the backup that is to be restored.
KeyHolds ==
    pc \in {"delete-statefulset", "apply"} \cup Deleting =>
        key \in DOMAIN bucket /\ saved \subseteq bucket[key]

\* A restore that is over has put its backup into a volume that stays.
Restored ==
    pc = "replay" /\ replay.state = "done" =>
        /\ Kept(volume)
        /\ replay.key \in DOMAIN bucket /\ bucket[replay.key] \subseteq volume.data

TypeInv == TypeOK /\ HasLatest /\ Stored

IInv ==
    /\ TypeInv /\ SameServer /\ Placement /\ WritesToWhatStays /\ EndingVolume
    /\ OldVolume /\ NoLivePod
    /\ NoReplay /\ DataHeld /\ KeyHolds /\ Restored

----------------------------------------------------------------------------
(***************************************************************************)
(* Types.                                                                  *)
(***************************************************************************)

\* The newest key is one of the bucket's, and no other is newer.
LEMMA LatestIs ==
    ASSUME DOMAIN bucket \subseteq 1..MaxKey, HasLatest, DOMAIN bucket # {}
    PROVE  Latest \in DOMAIN bucket /\ \A l \in DOMAIN bucket : l <= Latest
  <1>1. PICK k \in DOMAIN bucket : \A l \in DOMAIN bucket : l <= k
    BY DEF HasLatest
  <1>2. DOMAIN bucket \subseteq Int
    BY MigrateAssumption
  <1>3. \E k2 \in DOMAIN bucket : \A y \in DOMAIN bucket : k2 >= y
    BY <1>1, <1>2
  <1>4. Latest \in DOMAIN bucket /\ \A y \in DOMAIN bucket : Latest >= y
    BY <1>3 DEF Latest, Max
  <1>. QED
    BY <1>2, <1>4

DatabaseTypes ==
    /\ want \in Nodes /\ sts \in Nodes \cup {NoVal} /\ svc \in BOOLEAN
    /\ volume \in VolumeType \cup {NoVal} /\ pod \in PodType \cup {NoVal}
    /\ deploying \in {"service", "volume", "statefulset", "over"}
    /\ deploying # "over" => dnode \in Nodes

Bucket ==
    /\ DOMAIN bucket \subseteq 1..MaxKey
    /\ \A k \in DOMAIN bucket : bucket[k] \subseteq Writes
    /\ HasLatest

JobTypes ==
    /\ jobs \in [BackupJobs -> JobType]
    /\ replay \in [state : {"running", "done", "over"}, key : DOMAIN bucket \cup {NoVal}]

CommandTypes ==
    /\ pc \in Stages
    /\ Migrating => target \in Nodes /\ mine \in BackupJobs
    /\ Migrating /\ ~ Waiting => key \in DOMAIN bucket
    /\ saved \subseteq Writes
    /\ outcome \in {"none", "failed", "restored"}

\* The types in parts, so that a step cites those it disturbs.
LEMMA TypeParts ==
    /\ TypeInv <=> DatabaseTypes /\ Bucket /\ JobTypes /\ CommandTypes /\ Stored
    /\ TypeInv' <=> (DatabaseTypes /\ Bucket /\ JobTypes /\ CommandTypes /\ Stored)'
  BY DEF TypeInv, TypeOK, DatabaseTypes, Bucket, JobTypes, CommandTypes, Migrating, Waiting

CommandEnds == \E o \in {"failed", "restored"} : Ends(o)

\* Who writes to the database, to the backups and for the command.
LEMMA Writers ==
    ASSUME [Next]_vars
    PROVE  /\ \/ UNCHANGED <<want, database, deploy>>
              \/ PodStarts \/ PodEnds \/ \E w \in Writes : ClientWrites(w)
              \/ Replayed \/ ReplayFails
              \/ DeployBegins \/ DeployApplies \/ \E n \in Nodes : Edit(n)
              \/ Teardown
           /\ \/ UNCHANGED backups
              \/ \E j \in BackupJobs : \/ BackupStarts(j) \/ Dump(j) \/ BackupFails(j)
                                       \/ MigrateBegins(j)
                                       \/ \E k \in 1..MaxKey : Upload(j, k)
              \/ Replayed \/ ReplayFails \/ \E k \in 1..MaxKey : RestoreVerb(k)
           /\ \/ UNCHANGED command
              \/ \E j \in BackupJobs : MigrateBegins(j)
              \/ BackupAwaited \/ LatestBackupKey \/ Teardown
              \/ \E k \in 1..MaxKey : RestoreVerb(k)
              \/ CommandEnds
  <1>. USE DEF deploy, database, backups, command
  <1>1. CASE ClusterStep
    BY <1>1 DEF ClusterStep, PodStarts, PodEnds, ClientWrites, BackupStarts, Dump,
                BackupFails, Upload, Replayed, ReplayFails
  <1>2. CASE CommandStep
    <2>1. BackupGivenUp \/ ApplyPanics \/ RestoreVerbEnds \/ RestoreGivenUp \/ Abort
             => CommandEnds
      BY DEF BackupGivenUp, ApplyPanics, RestoreVerbEnds, RestoreGivenUp, Abort, CommandEnds
    <2>2. CommandEnds => UNCHANGED <<want, database, deploy, backups>>
      BY DEF CommandEnds, Ends
    <2>. QED
      BY <1>2, <2>1, <2>2 DEF CommandStep, MigrateBegins, BackupAwaited, LatestBackupKey,
         Teardown, DeleteWorkload, DeleteService, DeletePVC, RestoreVerb
  <1>3. CASE DeployBegins \/ DeployApplies \/ \E n \in Nodes : Edit(n)
    BY <1>3 DEF DeployBegins, DeployApplies, Edit
  <1>4. CASE UNCHANGED vars
    BY <1>4 DEF vars
  <1>. QED
    BY <1>1, <1>2, <1>3, <1>4 DEF Next

\* Nothing has been backed up or commanded yet.
LEMMA InitTypes == Init => TypeInv
  <1>. USE MigrateAssumption DEF Init
  <1>1. Init => DatabaseTypes
    BY DEF DatabaseTypes, VolumeType, PodType
  <1>2. Init => Bucket
    BY DEF Bucket, HasLatest
  <1>3. Init => JobTypes
    <2>. SUFFICES ASSUME Init PROVE JobTypes
      OBVIOUS
    <2>1. [state |-> "over", data |-> {}, key |-> NoVal] \in JobType
      BY DEF JobType
    <2>2. [state |-> "over", key |-> NoVal]
             \in [state : {"running", "done", "over"}, key : DOMAIN bucket \cup {NoVal}]
      OBVIOUS
    <2>. QED
      BY <2>1, <2>2 DEF JobTypes
  <1>4. Init => CommandTypes /\ Stored
    BY DEF CommandTypes, Stored, JobStored, ReplayStored, Stages, Migrating, Waiting
  <1>. QED
    BY <1>1, <1>2, <1>3, <1>4, TypeParts

\* What a deletion leaves of a pod is a pod or nothing.
LEMMA PodRemoved ==
    ASSUME DatabaseTypes
    PROVE  PodDeleted \in PodType \cup {NoVal}
  BY DEF DatabaseTypes, PodDeleted, PodType

\* The volume a deploy or the command applies.
LEMMA VolumeApplied ==
    ASSUME DatabaseTypes, ApplyVolume
    PROVE  volume' \in VolumeType \cup {NoVal}
  BY DEF DatabaseTypes, ApplyVolume, VolumeType

\* A restore, finished or not, changes what is in a volume and nothing else.
LEMMA ReplayChanges ==
    ASSUME TypeInv, Replayed \/ ReplayFails
    PROVE  \/ UNCHANGED volume
           \/ /\ volume \in VolumeType
              /\ \E d \in SUBSET Writes : volume' = [volume EXCEPT !.data = d]
  <1>1. DatabaseTypes /\ Bucket /\ Stored
    BY TypeParts
  <1>2. replay.key \in DOMAIN bucket /\ bucket[replay.key] \subseteq Writes
    BY <1>1 DEF Replayed, ReplayFails, Stored, ReplayStored, Bucket
  <1>3. ASSUME Serving
        PROVE  volume \in VolumeType /\ volume.data \subseteq Writes
    BY <1>1, <1>3 DEF Serving, DatabaseTypes, VolumeType
  <1>. QED
    BY <1>2, <1>3 DEF Replayed, ReplayFails

\* The database, and the deploy beside the command.
LEMMA StepDatabaseTypes == TypeInv /\ [Next]_vars => DatabaseTypes'
  <1>. SUFFICES ASSUME TypeInv, [Next]_vars
                PROVE  DatabaseTypes'
    OBVIOUS
  <1>0. DatabaseTypes /\ Bucket /\ JobTypes /\ CommandTypes
    BY TypeParts
  <1>. USE <1>0 DEF DatabaseTypes, database, deploy
  <1>1. CASE PodStarts
    BY <1>1 DEF PodStarts, VolumeFits, VolumeType, PodType
  <1>2. CASE PodEnds
    BY <1>2 DEF PodEnds
  <1>3. ASSUME NEW w \in Writes, ClientWrites(w) PROVE DatabaseTypes'
    BY <1>3 DEF ClientWrites, VolumeType
  <1>4. CASE Replayed \/ ReplayFails
    <2>1. volume' \in VolumeType \cup {NoVal}
      BY <1>4, ReplayChanges DEF VolumeType
    <2>. QED
      BY <1>4, <2>1 DEF Replayed, ReplayFails
  <1>6. CASE DeployBegins
    BY <1>6 DEF DeployBegins
  <1>7. CASE DeployApplies
    <2>1. dnode' = IF deploying' = "over" THEN NoVal ELSE dnode
      BY <1>7 DEF DeployApplies
    <2>2. CASE deploying = "service" /\ ApplyService /\ deploying' = "volume"
      BY <1>7, <2>1, <2>2 DEF DeployApplies, ApplyService
    <2>3. CASE deploying = "volume" /\ ApplyVolume /\ deploying' = "statefulset"
      BY <1>7, <2>1, <2>3, VolumeApplied DEF DeployApplies, ApplyVolume
    <2>4. CASE deploying = "statefulset" /\ ApplyStatefulSet(dnode) /\ deploying' = "over"
      BY <1>7, <2>4, PodRemoved DEF DeployApplies, ApplyStatefulSet
    <2>. QED
      BY <1>7, <2>2, <2>3, <2>4 DEF DeployApplies
  <1>8. ASSUME NEW n \in Nodes, Edit(n) PROVE DatabaseTypes'
    BY <1>8 DEF Edit
  <1>9. CASE Teardown
    BY <1>9, PodRemoved DEF Teardown, DeleteWorkload, DeleteService, DeletePVC, VolumeType
  <1>11. CASE UNCHANGED <<want, database, deploy>>
    BY <1>11
  <1>. QED
    BY <1>1, <1>2, <1>3, <1>4, <1>6, <1>7, <1>8, <1>9, <1>11, Writers

\* The backups and their Jobs.
LEMMA StepBackupTypes == TypeInv /\ [Next]_vars => (Bucket /\ JobTypes)'
  <1>. SUFFICES ASSUME TypeInv, [Next]_vars
                PROVE  (Bucket /\ JobTypes)'
    OBVIOUS
  <1>0. DatabaseTypes /\ Bucket /\ JobTypes /\ CommandTypes
    BY TypeParts
  <1>. USE <1>0, MigrateAssumption DEF backups
  <1>1. CASE UNCHANGED bucket
    <2>. USE <1>1
    <2>1. Bucket'
      BY DEF Bucket, HasLatest
    <2>2. CASE UNCHANGED backups
      BY <2>1, <2>2 DEF JobTypes
    <2>4. ASSUME NEW j \in BackupJobs, JobCreated(j), UNCHANGED replay
          PROVE  (Bucket /\ JobTypes)'
      <3>1. [state |-> "dumping", data |-> {}, key |-> NoVal] \in JobType
        BY DEF JobType
      <3>. QED
        BY <2>1, <2>4, <3>1 DEF JobTypes, JobCreated
    <2>5. ASSUME NEW j \in BackupJobs, Dump(j) PROVE (Bucket /\ JobTypes)'
      <3>1. volume.data \in SUBSET Writes
        BY <2>5 DEF Dump, Serving, DatabaseTypes, VolumeType
      <3>2. [jobs[j] EXCEPT !.state = "uploading", !.data = volume.data] \in JobType
        BY <3>1 DEF JobTypes, JobType
      <3>3. jobs' = [jobs EXCEPT ![j] = [jobs[j] EXCEPT !.state = "uploading", !.data = volume.data]]
        BY <2>5 DEF Dump, JobTypes
      <3>. QED
        BY <2>1, <2>5, <3>2, <3>3 DEF JobTypes, Dump
    <2>6. ASSUME NEW j \in BackupJobs, BackupFails(j) PROVE (Bucket /\ JobTypes)'
      <3>1. PICK s \in {"dumping", "over"} : jobs' = [jobs EXCEPT ![j].state = s]
        BY <2>6 DEF BackupFails
      <3>2. [jobs[j] EXCEPT !.state = s] \in JobType
        BY DEF JobTypes, JobType
      <3>3. jobs' = [jobs EXCEPT ![j] = [jobs[j] EXCEPT !.state = s]]
        BY <3>1 DEF JobTypes
      <3>. QED
        BY <2>1, <2>6, <3>2, <3>3 DEF JobTypes, BackupFails
    <2>7. CASE Replayed
      BY <2>1, <2>7 DEF JobTypes, Replayed
    <2>8. CASE ReplayFails
      BY <2>1, <2>8 DEF JobTypes, ReplayFails
    <2>10. ASSUME NEW k \in 1..MaxKey, RestoreVerb(k) PROVE (Bucket /\ JobTypes)'
      BY <2>1, <2>10 DEF JobTypes, RestoreVerb
    <2>11. ASSUME NEW j \in BackupJobs, NEW k \in 1..MaxKey, Upload(j, k)
           PROVE  (Bucket /\ JobTypes)'
      <3>1. k \in DOMAIN bucket' /\ bucket'[k] = jobs[j].data
        BY <2>11 DEF Upload
      <3>2. bucket' = bucket
        BY <1>1
      <3>3. [jobs[j] EXCEPT !.state = "over", !.key = k] \in JobType
        BY DEF JobTypes, JobType
      <3>4. jobs' = [jobs EXCEPT ![j] = [jobs[j] EXCEPT !.state = "over", !.key = k]]
        BY <2>11 DEF Upload, JobTypes
      <3>. QED
        BY <2>1, <2>11, <3>2, <3>3, <3>4 DEF JobTypes, Upload
    <2>. QED
      BY <2>2, <2>4, <2>5, <2>6, <2>7, <2>8, <2>10, <2>11, Writers
         DEF BackupStarts, MigrateBegins
  <1>2. ASSUME NEW j \in BackupJobs, NEW k \in 1..MaxKey, Upload(j, k)
        PROVE  (Bucket /\ JobTypes)'
    <2>1. DOMAIN bucket' = DOMAIN bucket \cup {k} /\ \A l \in DOMAIN bucket : l <= k
      BY <1>2 DEF Upload, Bucket
    <2>2. \A l \in DOMAIN bucket' : bucket'[l] = IF l = k THEN jobs[j].data ELSE bucket[l]
      BY <1>2 DEF Upload
    <2>3. Bucket'
      BY <2>1, <2>2 DEF Bucket, HasLatest, JobTypes, JobType
    <2>4. [jobs[j] EXCEPT !.state = "over", !.key = k] \in JobType
      BY DEF JobTypes, JobType
    <2>5. jobs' = [jobs EXCEPT ![j] = [jobs[j] EXCEPT !.state = "over", !.key = k]]
      BY <1>2 DEF Upload, JobTypes
    <2>6. jobs' \in [BackupJobs -> JobType]
      BY <2>4, <2>5 DEF JobTypes
    <2>. QED
      BY <1>2, <2>1, <2>3, <2>6 DEF JobTypes, Upload
  <1>. QED
    BY <1>1, <1>2, Writers DEF BackupStarts, Dump, BackupFails, MigrateBegins,
       Replayed, ReplayFails, RestoreVerb

\* The command.
LEMMA StepCommandTypes == TypeInv /\ [Next]_vars => CommandTypes'
  <1>. SUFFICES ASSUME TypeInv, [Next]_vars
                PROVE  CommandTypes'
    OBVIOUS
  <1>0. DatabaseTypes /\ Bucket /\ JobTypes /\ CommandTypes
    BY TypeParts
  <1>1. DOMAIN bucket \subseteq DOMAIN bucket'
    BY Writers DEF backups, Upload, BackupStarts, Dump, BackupFails, MigrateBegins,
       Replayed, ReplayFails, RestoreVerb
  <1>. USE <1>0, <1>1 DEF CommandTypes, Migrating, Waiting, Stages, Goto
  <1>2. CASE UNCHANGED command
    BY <1>2 DEF command
  <1>3. ASSUME NEW j \in BackupJobs, MigrateBegins(j) PROVE CommandTypes'
    BY <1>3 DEF MigrateBegins, DatabaseTypes, VolumeType
  <1>4. CASE BackupAwaited
    BY <1>4 DEF BackupAwaited
  <1>5. CASE LatestBackupKey
    <2>1. jobs[mine].key \in DOMAIN bucket
      BY <1>5 DEF LatestBackupKey, TypeInv, Stored, JobStored, Waiting
    <2>2. Latest \in DOMAIN bucket
      BY <2>1, LatestIs DEF Bucket
    <2>. QED
      BY <1>5, <2>2 DEF LatestBackupKey
  <1>6. CASE Teardown
    BY <1>6 DEF Teardown, DeleteWorkload, DeleteService, DeletePVC
  <1>10. ASSUME NEW k \in 1..MaxKey, RestoreVerb(k) PROVE CommandTypes'
    BY <1>10 DEF RestoreVerb
  <1>11. CASE CommandEnds
    BY <1>11 DEF CommandEnds, Ends, Over
  <1>. QED
    BY <1>2, <1>3, <1>4, <1>5, <1>6, <1>10, <1>11, Writers

\* What a Job has stored, and a restore reads, is there.
LEMMA StepStored == TypeInv /\ [Next]_vars => Stored'
  <1>. SUFFICES ASSUME TypeInv, [Next]_vars
                PROVE  Stored'
    OBVIOUS
  <1>0. DatabaseTypes /\ Bucket /\ JobTypes /\ CommandTypes /\ Stored
    BY TypeParts
  <1>1. DOMAIN bucket \subseteq DOMAIN bucket'
    BY Writers DEF backups, Upload, BackupStarts, Dump, BackupFails, MigrateBegins,
       Replayed, ReplayFails, RestoreVerb
  <1>2. ReplayStored'
    <2>. USE DEF ReplayStored
    <2>1. CASE UNCHANGED replay
      BY <1>0, <1>1, <2>1 DEF Stored
    <2>2. CASE Replayed \/ ReplayFails
      BY <1>0, <2>2 DEF Replayed, ReplayFails, JobTypes
    <2>4. ASSUME NEW k \in 1..MaxKey, RestoreVerb(k)
          PROVE  ReplayStored'
      BY <2>4 DEF RestoreVerb
    <2>. QED
      BY <2>1, <2>2, <2>4, Writers
         DEF backups, Upload, BackupStarts, Dump, BackupFails, MigrateBegins
  <1>3. JobStored'
    <2>. USE <1>0, <1>1 DEF Waiting, JobStored
    <2>1. CASE UNCHANGED <<jobs, command>>
      BY <2>1 DEF Stored, command
    <2>2. ASSUME NEW j \in BackupJobs, Dump(j) \/ BackupFails(j) PROVE JobStored'
      <3>1. \A i \in BackupJobs : jobs'[i].key = jobs[i].key
        BY <2>2 DEF Dump, BackupFails, JobTypes, JobType
      <3>. QED
        BY <2>2, <3>1 DEF Stored, Dump, BackupFails, command, CommandTypes, Migrating
    <2>3. ASSUME NEW j \in BackupJobs, BackupStarts(j) PROVE JobStored'
      <3>1. \A i \in BackupJobs : i # j => jobs'[i] = jobs[i]
        BY <2>3 DEF BackupStarts, JobCreated, JobTypes
      <3>. QED
        BY <2>3, <3>1 DEF Stored, BackupStarts, command, CommandTypes, Migrating
    <2>4. ASSUME NEW j \in BackupJobs, NEW k \in 1..MaxKey, Upload(j, k) PROVE JobStored'
      <3>1. \A i \in BackupJobs : jobs'[i].key = IF i = j THEN k ELSE jobs[i].key
        BY <2>4 DEF Upload, JobTypes, JobType
      <3>2. k \in DOMAIN bucket' /\ k # NoVal
        BY <2>4, MigrateAssumption DEF Upload
      <3>. QED
        BY <2>4, <3>1, <3>2 DEF Stored, Upload, command, CommandTypes, Migrating
    <2>5. ASSUME NEW j \in BackupJobs, MigrateBegins(j) PROVE JobStored'
      <3>1. jobs'[j].key = NoVal
        BY <2>5 DEF MigrateBegins, JobCreated, JobTypes
      <3>. QED
        BY <2>5, <3>1 DEF MigrateBegins
    <2>6. CASE BackupAwaited
      BY <2>6 DEF Stored, BackupAwaited, Goto, backups
    <2>7. CASE LatestBackupKey \/ Teardown \/ (\E k \in 1..MaxKey : RestoreVerb(k)) \/ CommandEnds
      BY <2>7 DEF LatestBackupKey, Teardown, DeleteWorkload, DeleteService, DeletePVC,
         RestoreVerb, CommandEnds, Ends, Over, Goto
    <2>8. Replayed \/ ReplayFails => UNCHANGED <<jobs, command>>
      BY DEF Replayed, ReplayFails
    <2>. QED
      BY <2>1, <2>2, <2>3, <2>4, <2>5, <2>6, <2>7, <2>8, Writers DEF backups
  <1>. QED
    BY <1>2, <1>3 DEF Stored

\* Every step keeps the types, and what Jobs and restores rely on.
LEMMA StepTypes == TypeInv /\ [Next]_vars => TypeInv'
  BY StepDatabaseTypes, StepBackupTypes, StepCommandTypes, StepStored, TypeParts

(***************************************************************************)
(* TypeOK, whether or not backups overlap.                                 *)
(***************************************************************************)
THEOREM TypeCorrect == Spec => []TypeOK
  <1>1. TypeInv => TypeOK
    BY DEF TypeInv
  <1>. QED
    BY <1>1, InitTypes, StepTypes, PTL DEF Spec
----------------------------------------------------------------------------
(***************************************************************************)
(* Where the database is.                                                  *)
(***************************************************************************)
BackupStep ==
    \E j \in BackupJobs : \/ BackupStarts(j) \/ Dump(j) \/ BackupFails(j)
                          \/ \E k \in 1..MaxKey : Upload(j, k)

\* Every step, by what it writes.
LEMMA Actions ==
    ASSUME [Next]_vars
    PROVE  \/ UNCHANGED vars \/ BackupStep
           \/ PodStarts \/ PodEnds \/ (\E w \in Writes : ClientWrites(w))
           \/ Replayed \/ ReplayFails
           \/ DeployBegins \/ DeployApplies \/ (\E n \in Nodes : Edit(n))
           \/ (\E j \in BackupJobs : MigrateBegins(j))
           \/ BackupAwaited \/ LatestBackupKey \/ Teardown
           \/ (\E k \in 1..MaxKey : RestoreVerb(k)) \/ CommandEnds
  BY DEF Next, ClusterStep, CommandStep, BackupStep, CommandEnds, Teardown, BackupGivenUp,
         ApplyPanics, RestoreVerbEnds, RestoreGivenUp, Abort

\* The schedule and the Jobs leave the database and the command alone.
LEMMA BackupStepLeaves ==
    ASSUME BackupStep
    PROVE  UNCHANGED <<want, database, deploy, command, replay>>
  BY DEF BackupStep, BackupStarts, Dump, BackupFails, Upload

\* Deploys and commands place the database on the one server nvoi.yaml
\* names, and deploys not at all while it has drifted.
LEMMA StepServer ==
    ASSUME TypeInv, SameServer, Placement, [Next]_vars
    PROVE  SameServer' /\ Placement'
  <1>0. DatabaseTypes /\ CommandTypes
    BY TypeParts
  <1>. USE <1>0, MigrateAssumption
       DEF SameServer, Placement, Migrating, Deleting, DatabaseTypes, CommandTypes
  <1>1. CASE UNCHANGED <<want, sts, deploy, pc, target>>
    BY <1>1 DEF deploy
  <1>2. CASE DeployBegins
    BY <1>2 DEF DeployBegins, database, command
  <1>3. CASE DeployApplies
    BY <1>3 DEF DeployApplies, ApplyService, ApplyVolume, ApplyStatefulSet, command
  <1>4. ASSUME NEW n \in Nodes, Edit(n) PROVE SameServer' /\ Placement'
    BY <1>4 DEF Edit, database, deploy, command
  <1>5. ASSUME NEW j \in BackupJobs, MigrateBegins(j) PROVE SameServer' /\ Placement'
    BY <1>5 DEF MigrateBegins, database, deploy
  <1>6. CASE BackupAwaited \/ LatestBackupKey
    BY <1>6 DEF BackupAwaited, LatestBackupKey, Goto, database, deploy
  <1>7. CASE Teardown
    BY <1>7 DEF Teardown, DeleteWorkload, DeleteService, DeletePVC, Goto, deploy
  <1>9. ASSUME NEW k \in 1..MaxKey, RestoreVerb(k) PROVE SameServer' /\ Placement'
    BY <1>9 DEF RestoreVerb, database, deploy
  <1>10. CASE CommandEnds
    BY <1>10 DEF CommandEnds, Ends, Over, database, deploy
  <1>11. UNCHANGED vars \/ BackupStep \/ PodStarts \/ PodEnds \/ (\E w \in Writes : ClientWrites(w))
            \/ Replayed \/ ReplayFails => UNCHANGED <<want, sts, deploy, pc, target>>
    BY BackupStepLeaves DEF vars, database, command, PodStarts, PodEnds, ClientWrites, Replayed, ReplayFails
  <1>. QED
    BY <1>1, <1>2, <1>3, <1>4, <1>5, <1>6, <1>7, <1>9, <1>10, <1>11, Actions

\* Pods, and the volumes they hold.
Pods == WritesToWhatStays /\ EndingVolume /\ NoLivePod

\* A pod runs where the StatefulSet and the volume are, through teardown
\* and recreation.
LEMMA StepPods ==
    ASSUME TypeInv, SameServer, Placement, OldVolume, Pods, [Next]_vars
    PROVE  Pods'
  <1>0. DatabaseTypes /\ CommandTypes
    BY TypeParts
  <1>. USE <1>0, MigrateAssumption
       DEF Pods, WritesToWhatStays, EndingVolume, NoLivePod, Kept, Deleting
  <1>1. CASE UNCHANGED <<database, pc, target>>
    BY <1>1 DEF database
  <1>2. CASE PodStarts
    BY <1>2 DEF PodStarts, VolumeFits, DatabaseTypes, VolumeType, PodType, command,
                OldVolume, Dumped, Placement
  <1>3. CASE PodEnds
    BY <1>3 DEF PodEnds, command
  <1>4. CASE UNCHANGED <<sts, pod, pc, target>> /\ volume # NoVal
                /\ volume' \in VolumeType /\ volume'.node = volume.node /\ volume'.ending = volume.ending
    BY <1>4
  <1>5. CASE UNCHANGED command /\ ApplyVolume
    BY <1>5 DEF ApplyVolume, command, VolumeType
  <1>6. ASSUME NEW n \in Nodes, UNCHANGED command, ApplyStatefulSet(n) PROVE Pods'
    BY <1>6 DEF ApplyStatefulSet, PodDeleted, DatabaseTypes, PodType, command
  <1>7. CASE Teardown
    <2>1. CASE pc = "delete-statefulset"
      BY <1>7, <2>1 DEF Teardown, DeleteWorkload, DeleteService, DeletePVC,
         Goto, PodDeleted, DatabaseTypes, PodType
    <2>2. CASE pc = "delete-service"
      BY <1>7, <2>2 DEF Teardown, DeleteWorkload, DeleteService, DeletePVC, Goto
    <2>3. CASE pc = "delete-volume"
      BY <1>7, <2>3 DEF Teardown, DeleteWorkload, DeleteService, DeletePVC,
         Goto, DatabaseTypes, VolumeType
    <2>. QED
      BY <1>7, <2>1, <2>2, <2>3 DEF Teardown, DeleteWorkload, DeleteService, DeletePVC
  <1>9. BackupAwaited \/ LatestBackupKey => Pods'
    BY DEF BackupAwaited, LatestBackupKey, Goto, database
  <1>10. (\E j \in BackupJobs : MigrateBegins(j)) \/ (\E k \in 1..MaxKey : RestoreVerb(k))
            \/ CommandEnds => Pods'
    BY DEF MigrateBegins, RestoreVerb, CommandEnds, Ends, Over, database
  <1>11. ASSUME NEW w \in Writes, ClientWrites(w) PROVE Pods'
    BY <1>4, <1>11 DEF ClientWrites, DatabaseTypes, VolumeType, command
  <1>12. CASE Replayed \/ ReplayFails
    <2>1. UNCHANGED <<sts, pod, command>>
      BY <1>12 DEF Replayed, ReplayFails
    <2>2. CASE UNCHANGED volume
      BY <2>1, <2>2 DEF command
    <2>3. CASE ~ UNCHANGED volume
      <3>1. volume \in VolumeType /\ \E d \in SUBSET Writes : volume' = [volume EXCEPT !.data = d]
        BY <1>12, <2>3, ReplayChanges
      <3>. QED
        BY <1>4, <2>1, <3>1 DEF VolumeType, command
    <2>. QED
      BY <2>2, <2>3
  <1>13. CASE DeployApplies
    BY <1>5, <1>6, <1>13 DEF DeployApplies, ApplyService, DatabaseTypes, command
  <1>14. DeployBegins \/ (\E n \in Nodes : Edit(n)) \/ BackupStep \/ UNCHANGED vars
            => UNCHANGED <<database, pc, target>>
    BY BackupStepLeaves DEF DeployBegins, Edit, vars, command
  <1>. QED
    BY <1>1, <1>2, <1>3, <1>7, <1>9, <1>10, <1>11, <1>12, <1>13, <1>14, Actions

\* The command's own Job gets past its dump by dumping.
LEMMA OwnDump ==
    ASSUME TypeInv, BackupStep, UNCHANGED command, Dumped', ~ Dumped
    PROVE  pc = "backup" /\ Dump(mine)
  <1>0. JobTypes /\ CommandTypes
    BY TypeParts
  <1>1. /\ pc = "backup" /\ mine \in BackupJobs
        /\ jobs[mine].state # "uploading" /\ jobs[mine].key = NoVal
        /\ jobs'[mine].state = "uploading" \/ jobs'[mine].key # NoVal
    BY <1>0 DEF Dumped, command, CommandTypes, Migrating
  <1>2. ASSUME NEW j \in BackupJobs, BackupStarts(j) PROVE FALSE
    BY <1>0, <1>1, <1>2 DEF BackupStarts, JobCreated, JobTypes
  <1>3. ASSUME NEW j \in BackupJobs, BackupFails(j) PROVE FALSE
    BY <1>0, <1>1, <1>3 DEF BackupFails, JobTypes, JobType
  <1>4. ASSUME NEW j \in BackupJobs, NEW k \in 1..MaxKey, Upload(j, k) PROVE FALSE
    BY <1>0, <1>1, <1>4 DEF Upload, JobTypes, JobType
  <1>5. ASSUME NEW j \in BackupJobs, Dump(j) PROVE j = mine
    BY <1>0, <1>1, <1>5 DEF Dump, JobTypes, JobType
  <1>. QED
    BY <1>1, <1>2, <1>3, <1>4, <1>5 DEF BackupStep

\* The old server keeps its volume until the command deletes it.
LEMMA StepOldVolume ==
    ASSUME TypeInv, SameServer, Placement, WritesToWhatStays, OldVolume, [Next]_vars
    PROVE  OldVolume'
  <1>0. DatabaseTypes /\ JobTypes /\ CommandTypes
    BY TypeParts
  <1>. USE <1>0 DEF OldVolume, Dumped, Kept, Deleting
  <1>1. CASE /\ UNCHANGED <<pc, target>> /\ (Dumped' => Dumped)
             /\ \/ UNCHANGED volume
                \/ volume' \in VolumeType /\ volume'.node = volume.node /\ volume'.ending = volume.ending
    BY <1>1, MigrateAssumption
  <1>2. CASE PodStarts
    <2>1. (Dumped' => Dumped) /\ UNCHANGED <<pc, target>>
      BY <1>2 DEF PodStarts, backups, command
    <2>2. CASE Dumped
      <3>1. volume \in VolumeType /\ sts = volume.node /\ volume' = [volume EXCEPT !.node = sts]
        BY <1>2, <2>2, MigrateAssumption DEF PodStarts, VolumeFits, DatabaseTypes
      <3>. QED
        BY <1>1, <2>1, <3>1 DEF VolumeType
    <2>. QED
      BY <2>1, <2>2
  <1>3. CASE PodEnds
    BY <1>3, <1>1 DEF PodEnds, backups, command
  <1>4. ASSUME NEW w \in Writes, ClientWrites(w) PROVE OldVolume'
    BY <1>4, <1>1 DEF ClientWrites, backups, command, DatabaseTypes, VolumeType
  <1>5. CASE Replayed \/ ReplayFails
    <2>1. UNCHANGED <<jobs, command>>
      BY <1>5 DEF Replayed, ReplayFails
    <2>. QED
      BY <1>5, <1>1, <2>1, ReplayChanges DEF command, VolumeType
  <1>6. CASE DeployApplies
    BY <1>6, <1>1 DEF DeployApplies, ApplyService, ApplyVolume, ApplyStatefulSet, backups, command
  <1>7. CASE DeployBegins \/ (\E n \in Nodes : Edit(n)) \/ UNCHANGED vars
    BY <1>7, <1>1 DEF DeployBegins, Edit, vars, database, backups, command
  <1>8. CASE BackupStep
    <2>1. UNCHANGED <<volume, command>>
      BY <1>8, BackupStepLeaves DEF database
    <2>2. CASE Dumped' => Dumped
      BY <1>1, <2>1, <2>2 DEF command
    <2>3. CASE Dumped' /\ ~ Dumped
      <3>1. pc = "backup" /\ Dump(mine)
        BY <1>8, <2>1, <2>3, OwnDump DEF command
      <3>2. Kept(volume) /\ volume.node \in Nodes \ {target}
        BY <3>1 DEF Dump, Serving, WritesToWhatStays, Placement
      <3>. QED
        BY <2>1, <3>2 DEF command
    <2>. QED
      BY <2>2, <2>3
  <1>9. ASSUME NEW j \in BackupJobs, MigrateBegins(j) PROVE OldVolume'
    <2>1. jobs'[j].state = "dumping" /\ jobs'[j].key = NoVal
      BY <1>9 DEF MigrateBegins, JobCreated, JobTypes
    <2>. QED
      BY <1>9, <2>1 DEF MigrateBegins
  <1>10. CASE BackupAwaited
    BY <1>10 DEF BackupAwaited, Goto, database, backups
  <1>11. CASE LatestBackupKey
    BY <1>11 DEF LatestBackupKey, database
  <1>12. CASE Teardown
    BY <1>12 DEF Teardown, DeleteWorkload, DeleteService, DeletePVC, Goto
  <1>13. CASE (\E k \in 1..MaxKey : RestoreVerb(k)) \/ CommandEnds
    BY <1>13 DEF RestoreVerb, CommandEnds, Ends, Over
  <1>. QED
    BY <1>2, <1>3, <1>4, <1>5, <1>6, <1>7, <1>8, <1>9, <1>10, <1>11, <1>12, <1>13, Actions

----------------------------------------------------------------------------
(***************************************************************************)
(* Where its data is.                                                      *)
(***************************************************************************)

\* No restore runs beside a backup, and none beside a migrate.
LEMMA StepNoReplay ==
    ASSUME "overlap" \notin Disturbances, TypeInv, NoReplay, [Next]_vars
    PROVE  NoReplay'
  <1>. USE DEF NoReplay, Migrating
  <1>0. JobTypes
    BY TypeParts
  <1>1. CASE UNCHANGED <<pc, replay>>
    BY <1>1
  <1>2. CASE Replayed \/ ReplayFails
    BY <1>0, <1>2 DEF Replayed, ReplayFails, JobTypes
  <1>3. ASSUME NEW j \in BackupJobs, MigrateBegins(j) PROVE NoReplay'
    BY <1>3 DEF MigrateBegins, JobCreated, NoneActive
  <1>4. CASE BackupAwaited \/ LatestBackupKey \/ Teardown
    BY <1>4 DEF BackupAwaited, LatestBackupKey, Teardown, DeleteWorkload, DeleteService, DeletePVC,
       Goto, backups
  <1>5. CASE (\E k \in 1..MaxKey : RestoreVerb(k)) \/ CommandEnds
    BY <1>5 DEF RestoreVerb, CommandEnds, Ends, Over
  <1>6. UNCHANGED vars \/ BackupStep \/ PodStarts \/ PodEnds \/ (\E w \in Writes : ClientWrites(w))
            \/ DeployBegins \/ DeployApplies \/ (\E n \in Nodes : Edit(n)) => UNCHANGED <<pc, replay>>
    BY BackupStepLeaves DEF vars, PodStarts, PodEnds, ClientWrites, DeployBegins, DeployApplies, Edit,
       backups, command
  <1>. QED
    BY <1>1, <1>2, <1>3, <1>4, <1>5, <1>6, Actions

\* Without overlaps an upload gets the newest key and replaces no backup.
LEMMA UploadKeeps ==
    ASSUME "overlap" \notin Disturbances, NEW j, NEW k, Upload(j, k)
    PROVE  \A l \in DOMAIN bucket' :
              \/ l = k /\ bucket'[l] = jobs[j].data
              \/ l \in DOMAIN bucket /\ l < k /\ bucket'[l] = bucket[l]
  <1>1. DOMAIN bucket' = DOMAIN bucket \cup {k}
    BY DEF Upload
  <1>2. \A l \in DOMAIN bucket' : bucket'[l] = IF l = k THEN jobs[j].data ELSE bucket[l]
    BY DEF Upload
  <1>3. \A l \in DOMAIN bucket : l < k
    BY DEF Upload
  <1>. QED
    BY <1>1, <1>2, <1>3

\* While a command waits for its backup, no Job and no restore loses what
\* the database held.
LEMMA StepDataHeld ==
    ASSUME "overlap" \notin Disturbances, TypeInv, Placement, NoReplay, DataHeld, [Next]_vars
    PROVE  DataHeld'
  <1>0. DatabaseTypes /\ Bucket /\ JobTypes /\ CommandTypes /\ JobStored
    BY TypeParts DEF Stored
  <1>. USE <1>0, MigrateAssumption DEF DataHeld, Waiting
  <1>1. CASE /\ UNCHANGED <<pc, mine, saved, jobs, bucket>>
             /\ volume' = NoVal \/ (volume # NoVal /\ volume.data \subseteq volume'.data)
    BY <1>1
  <1>2. CASE PodStarts
    BY <1>1, <1>2 DEF PodStarts, VolumeFits, backups, command, DatabaseTypes, VolumeType
  <1>3. CASE PodEnds
    BY <1>1, <1>3 DEF PodEnds, backups, command
  <1>4. ASSUME NEW w \in Writes, ClientWrites(w) PROVE DataHeld'
    BY <1>1, <1>4 DEF ClientWrites, backups, command, DatabaseTypes, VolumeType
  <1>5. CASE Replayed \/ ReplayFails
    BY <1>5 DEF Replayed, ReplayFails, NoReplay, Migrating, command
  <1>6. CASE DeployApplies
    BY <1>6 DEF DeployApplies, Placement, command
  <1>7. DeployBegins \/ (\E n \in Nodes : Edit(n)) \/ UNCHANGED vars => DataHeld'
    BY DEF DeployBegins, Edit, vars, database, backups, command
  <1>9. ASSUME NEW j \in BackupJobs, BackupStarts(j) PROVE DataHeld'
    <2>1. \A i \in BackupJobs : IF i = j THEN jobs'[i].state = "dumping" ELSE jobs'[i] = jobs[i]
      BY <1>9 DEF BackupStarts, JobCreated, JobTypes
    <2>. QED
      BY <1>9, <2>1 DEF BackupStarts, database, command, CommandTypes, Migrating
  <1>10. ASSUME NEW j \in BackupJobs, Dump(j) PROVE DataHeld'
    <2>1. \A i \in BackupJobs :
             /\ jobs'[i].key = jobs[i].key
             /\ i # j => jobs'[i] = jobs[i]
      BY <1>10 DEF Dump, JobTypes, JobType
    <2>2. jobs'[j].data = volume.data /\ volume # NoVal
      BY <1>10 DEF Dump, Serving, JobTypes, JobType
    <2>3. UNCHANGED <<bucket, volume, command>>
      BY <1>10 DEF Dump, database
    <2>4. ASSUME Waiting
          PROVE  mine \in BackupJobs /\ saved \subseteq volume.data
      BY <2>2, <2>4 DEF CommandTypes, Migrating
    <2>. QED
      <3>. SUFFICES ASSUME Waiting'
                    PROVE  DataHeld'
        OBVIOUS
      <3>1. Waiting /\ mine \in BackupJobs /\ saved \subseteq volume.data
        BY <2>3, <2>4 DEF command
      <3>2. \A i \in BackupJobs : jobs'[i].state = "uploading" => saved \subseteq jobs'[i].data
        BY <2>1, <2>2, <3>1
      <3>3. jobs'[mine].key = jobs[mine].key
        BY <2>1, <3>1
      <3>. QED
        BY <2>3, <3>1, <3>2, <3>3 DEF command
  <1>11. ASSUME NEW j \in BackupJobs, BackupFails(j) PROVE DataHeld'
    <2>1. \A i \in BackupJobs :
             /\ jobs'[i].key = jobs[i].key
             /\ jobs'[i] = jobs[i] \/ jobs'[i].state # "uploading"
      BY <1>11 DEF BackupFails, JobTypes, JobType
    <2>. QED
      BY <1>11, <2>1 DEF BackupFails, database, command, CommandTypes, Migrating
  <1>12. ASSUME NEW j \in BackupJobs, NEW k \in 1..MaxKey, Upload(j, k) PROVE DataHeld'
    <2>1. \A i \in BackupJobs : IF i = j THEN jobs'[i].key = k /\ jobs'[i].state = "over"
                               ELSE jobs'[i] = jobs[i]
      BY <1>12 DEF Upload, JobTypes, JobType
    <2>2. \A l \in DOMAIN bucket : l < k
      BY <1>12 DEF Upload
    <2>3. \A l \in DOMAIN bucket' :
             \/ l = k /\ bucket'[l] = jobs[j].data
             \/ l \in DOMAIN bucket /\ l < k /\ bucket'[l] = bucket[l]
      BY <1>12, UploadKeeps
    <2>4. jobs[j].state = "uploading" /\ UNCHANGED <<volume, command>>
      BY <1>12 DEF Upload, database
    <2>. QED
      <3>1. CASE Waiting
        <4>1. mine \in BackupJobs /\ saved \subseteq jobs[j].data
          BY <2>4, <3>1 DEF CommandTypes, Migrating
        <4>2. CASE mine = j
          <5>1. \A l \in DOMAIN bucket' : l >= k => l = k
            BY <2>3 DEF Bucket
          <5>. QED
            BY <2>1, <2>3, <2>4, <3>1, <4>1, <4>2, <5>1 DEF command
        <4>3. CASE mine # j
          BY <2>1, <2>3, <2>4, <3>1, <4>1, <4>3 DEF command
        <4>. QED
          BY <4>2, <4>3
      <3>. QED
        BY <2>4, <3>1 DEF command
  <1>13. ASSUME NEW j \in BackupJobs, MigrateBegins(j) PROVE DataHeld'
    <2>1. \A i \in BackupJobs : jobs'[i].state # "uploading"
      BY <1>13 DEF MigrateBegins, JobCreated, NoneActive, Active, JobTypes
    <2>2. jobs'[j].key = NoVal
      BY <1>13 DEF MigrateBegins, JobCreated, JobTypes
    <2>. QED
      BY <1>13, <2>1, <2>2 DEF MigrateBegins, database
  <1>14. CASE BackupAwaited
    BY <1>14 DEF BackupAwaited, Goto, database, backups
  <1>15. CASE LatestBackupKey \/ Teardown \/ (\E k \in 1..MaxKey : RestoreVerb(k)) \/ CommandEnds
    BY <1>15 DEF LatestBackupKey, Teardown, DeleteWorkload, DeleteService, DeletePVC,
       RestoreVerb, CommandEnds, Ends, Over, Goto
  <1>. QED
    BY <1>2, <1>3, <1>4, <1>5, <1>6, <1>7, <1>9, <1>10, <1>11, <1>12, <1>13, <1>14, <1>15,
       Actions DEF BackupStep

\* The backup the command restores is the newest one there is when it looks,
\* its own or a later one, and no upload replaces it.
LEMMA StepKeyHolds ==
    ASSUME "overlap" \notin Disturbances, TypeInv, DataHeld, KeyHolds, [Next]_vars
    PROVE  KeyHolds'
  <1>0. DatabaseTypes /\ Bucket /\ JobTypes /\ CommandTypes /\ JobStored
    BY TypeParts DEF Stored
  <1>. USE DEF KeyHolds, Deleting
  <1>1. CASE UNCHANGED <<bucket, pc, key, saved>>
    BY <1>1
  <1>2. ASSUME NEW j \in BackupJobs, NEW k \in 1..MaxKey, Upload(j, k) PROVE KeyHolds'
    <2>1. DOMAIN bucket' = DOMAIN bucket \cup {k} /\ UNCHANGED command
      BY <1>2 DEF Upload
    <2>2. \A l \in DOMAIN bucket : l < k
      BY <1>2 DEF Upload
    <2>3. \A l \in DOMAIN bucket : bucket'[l] = bucket[l]
      BY <1>0, <1>2, <2>1, <2>2, UploadKeeps DEF Bucket
    <2>. QED
      BY <2>1, <2>3 DEF command
  <1>3. CASE LatestBackupKey
    <2>1. /\ pc = "locate" /\ pc' = "delete-statefulset" /\ key' = Latest
          /\ UNCHANGED <<bucket, saved>>
      BY <1>3 DEF LatestBackupKey, backups
    <2>2. jobs[mine].key # NoVal /\ jobs[mine].key \in DOMAIN bucket
      BY <1>0, <2>1 DEF JobStored, Waiting
    <2>3. Latest \in DOMAIN bucket /\ Latest >= jobs[mine].key
      BY <1>0, <2>2, LatestIs, MigrateAssumption DEF Bucket
    <2>4. saved \subseteq bucket[Latest]
      BY <2>1, <2>2, <2>3 DEF DataHeld, Waiting
    <2>. QED
      BY <2>1, <2>3, <2>4
  <1>4. CASE Teardown
    BY <1>4 DEF Teardown, DeleteWorkload, DeleteService, DeletePVC, Goto, backups
  <1>6. CASE (\E j \in BackupJobs : MigrateBegins(j)) \/ BackupAwaited
             \/ (\E k \in 1..MaxKey : RestoreVerb(k)) \/ CommandEnds
    BY <1>6 DEF MigrateBegins, BackupAwaited, RestoreVerb, CommandEnds, Ends, Over, Goto
  <1>7. UNCHANGED vars \/ PodStarts \/ PodEnds \/ (\E w \in Writes : ClientWrites(w)) \/ Replayed
           \/ ReplayFails \/ DeployBegins \/ DeployApplies \/ (\E n \in Nodes : Edit(n))
           \/ (\E j \in BackupJobs : BackupStarts(j) \/ Dump(j) \/ BackupFails(j))
              => UNCHANGED <<bucket, pc, key, saved>>
    BY DEF vars, PodStarts, PodEnds, ClientWrites, Replayed, ReplayFails, DeployBegins, DeployApplies,
           Edit, BackupStarts, Dump, BackupFails, backups, command
  <1>. QED
    BY <1>1, <1>2, <1>3, <1>4, <1>6, <1>7, Actions DEF BackupStep

\* A restore that is over has filled a volume, and the volume stays: only a
\* migrate deletes, and no upload replaces the backup.
LEMMA StepRestored ==
    ASSUME "overlap" \notin Disturbances, TypeInv, WritesToWhatStays, Restored, [Next]_vars
    PROVE  Restored'
  <1>0. DatabaseTypes /\ Bucket /\ JobTypes /\ Stored
    BY TypeParts
  <1>. USE DEF Restored, Kept
  <1>1. CASE UNCHANGED <<volume, replay, pc, bucket>>
    BY <1>1
  <1>2. CASE /\ UNCHANGED <<replay, bucket, pc>> /\ volume \in VolumeType /\ volume' \in VolumeType
             /\ volume'.ending = volume.ending /\ volume.data \subseteq volume'.data
    BY <1>2, MigrateAssumption
  <1>3. CASE PodStarts
    BY <1>0, <1>2, <1>3 DEF PodStarts, VolumeFits, DatabaseTypes, VolumeType, backups, command
  <1>4. CASE PodEnds
    BY <1>4 DEF PodEnds, backups, command
  <1>5. ASSUME NEW w \in Writes, ClientWrites(w) PROVE Restored'
    BY <1>0, <1>2, <1>5 DEF ClientWrites, DatabaseTypes, VolumeType, backups, command
  <1>6. CASE Replayed
    <2>1. /\ Serving /\ volume' = [volume EXCEPT !.data = bucket[replay.key]]
          /\ replay.key \in DOMAIN bucket /\ replay'.key = replay.key /\ UNCHANGED <<bucket, command>>
      BY <1>0, <1>6 DEF Replayed, JobTypes, Stored, ReplayStored
    <2>2. Kept(volume) /\ volume \in VolumeType
      BY <1>0, <2>1 DEF Serving, WritesToWhatStays, DatabaseTypes
    <2>3. bucket[replay.key] \subseteq Writes
      BY <1>0, <2>1 DEF Bucket
    <2>4. volume' \in VolumeType /\ volume' # NoVal
      BY <2>1, <2>2, <2>3, MigrateAssumption DEF VolumeType
    <2>5. ~ volume'.ending /\ volume'.data = bucket[replay.key]
      BY <2>1, <2>2 DEF VolumeType
    <2>. QED
      BY <2>1, <2>4, <2>5
  <1>7. CASE ReplayFails
    BY <1>0, <1>7 DEF ReplayFails, JobTypes
  <1>8. CASE DeployApplies
    BY <1>8 DEF DeployApplies, ApplyService, ApplyVolume, ApplyStatefulSet, backups, command
  <1>9. ASSUME NEW j \in BackupJobs, NEW k \in 1..MaxKey, Upload(j, k) PROVE Restored'
    <2>1. \A l \in DOMAIN bucket : l < k
      BY <1>9 DEF Upload
    <2>2. \A l \in DOMAIN bucket : l \in DOMAIN bucket' /\ bucket'[l] = bucket[l]
      BY <1>0, <1>9, <2>1 DEF Upload, Bucket
    <2>. QED
      BY <1>9, <2>2 DEF Upload, database, command
  <1>10. ASSUME NEW k \in 1..MaxKey, RestoreVerb(k) PROVE Restored'
    BY <1>10 DEF RestoreVerb
  <1>11. CASE (\E j \in BackupJobs : MigrateBegins(j)) \/ BackupAwaited \/ LatestBackupKey
              \/ Teardown \/ CommandEnds
    BY <1>11 DEF MigrateBegins, BackupAwaited, LatestBackupKey, Teardown, DeleteWorkload, DeleteService, DeletePVC,
       CommandEnds, Ends, Over, Goto
  <1>12. UNCHANGED vars \/ DeployBegins \/ (\E n \in Nodes : Edit(n))
            \/ (\E j \in BackupJobs : BackupStarts(j) \/ Dump(j) \/ BackupFails(j))
               => UNCHANGED <<volume, replay, pc, bucket>>
    BY DEF vars, DeployBegins, Edit, BackupStarts, Dump, BackupFails, database, backups, command
  <1>. QED
    BY <1>1, <1>3, <1>4, <1>5, <1>6, <1>7, <1>8, <1>9, <1>10, <1>11, <1>12, Actions DEF BackupStep

----------------------------------------------------------------------------
(***************************************************************************)
(* The promises.                                                           *)
(***************************************************************************)

\* Before the first command everything is in place.
LEMMA InitInv == Init => IInv
  <1>1. Init => SameServer /\ Placement /\ OldVolume /\ NoLivePod
    BY DEF Init, SameServer, Placement, OldVolume, NoLivePod, Dumped, Migrating, Deleting
  <1>2. Init => WritesToWhatStays /\ EndingVolume
    <2>1. Init => volume \in VolumeType /\ volume.node = sts /\ ~ volume.ending
      BY DEF Init, VolumeType
    <2>2. Init => pod.node = sts /\ ~ pod.ending
      BY DEF Init
    <2>. QED
      BY <2>1, <2>2, MigrateAssumption DEF WritesToWhatStays, EndingVolume, Kept
  <1>3. Init => NoReplay /\ DataHeld /\ KeyHolds /\ Restored
    BY DEF Init, NoReplay, DataHeld, KeyHolds, Restored, Migrating, Waiting, Deleting
  <1>. QED
    BY <1>1, <1>2, <1>3, InitTypes DEF IInv

\* The invariant is inductive when backups do not overlap.
LEMMA StepInv ==
    ASSUME "overlap" \notin Disturbances
    PROVE  IInv /\ [Next]_vars => IInv'
  BY StepTypes, StepServer, StepPods, StepOldVolume, StepNoReplay, StepDataHeld, StepKeyHolds,
     StepRestored DEF IInv, Pods

\* Only the command deletes, and it does so when it holds the backup.
LEMMA StepTeardown ==
    ASSUME IInv, [Next]_vars
    PROVE  (sts # NoVal /\ sts' = NoVal) \/ (Kept(volume) /\ ~ Kept(volume)')
              => key \in DOMAIN bucket /\ saved \subseteq bucket[key]
  <1>0. DatabaseTypes /\ CommandTypes /\ KeyHolds
    BY TypeParts DEF IInv
  <1>. DEFINE Keeps == (sts # NoVal => sts' # NoVal) /\ (Kept(volume) => Kept(volume)')
  <1>. USE <1>0, MigrateAssumption DEF Kept
  <1>1. CASE Teardown
    BY <1>1 DEF Teardown, DeleteWorkload, DeleteService, DeletePVC, KeyHolds, Deleting
  <1>2. UNCHANGED <<sts, volume>> => Keeps
    OBVIOUS
  <1>3. volume \in VolumeType /\ volume' \in VolumeType /\ volume'.ending = volume.ending /\ UNCHANGED sts
           => Keeps
    OBVIOUS
  <1>4. PodStarts => Keeps
    BY <1>3 DEF PodStarts, VolumeFits, DatabaseTypes, VolumeType
  <1>5. PodEnds => Keeps
    BY DEF PodEnds
  <1>6. ASSUME NEW w \in Writes, ClientWrites(w) PROVE Keeps
    BY <1>3, <1>6 DEF ClientWrites, DatabaseTypes, VolumeType
  <1>7. Replayed \/ ReplayFails => Keeps
    <2>1. Replayed \/ ReplayFails => UNCHANGED sts
      BY DEF Replayed, ReplayFails
    <2>. QED
      BY <1>2, <1>3, <2>1, ReplayChanges DEF VolumeType, IInv
  <1>8. DeployApplies => Keeps
    BY DEF DeployApplies, ApplyService, ApplyVolume, ApplyStatefulSet, DatabaseTypes
  <1>10. UNCHANGED <<want, database, deploy>> => Keeps
    BY DEF database
  <1>11. DeployBegins \/ (\E n \in Nodes : Edit(n)) => Keeps
    BY DEF DeployBegins, Edit, database
  <1>. QED
    BY <1>1, <1>4, <1>5, <1>6, <1>7, <1>8, <1>10, <1>11, Writers

\* Only a restore that is over lets its command report it.
LEMMA StepReported ==
    ASSUME IInv, [Next]_vars, outcome' = "restored", outcome # "restored"
    PROVE  Kept(volume)' /\ replay.key \in DOMAIN bucket /\ bucket[replay.key] \subseteq volume'.data
  <1>1. RestoreVerbEnds
    BY DEF Next, ClusterStep, CommandStep, PodStarts, PodEnds, ClientWrites, BackupStarts,
       Dump, BackupFails, Upload, Replayed, ReplayFails, MigrateBegins, BackupAwaited, BackupGivenUp,
       LatestBackupKey, DeleteWorkload, DeleteService, DeletePVC, ApplyPanics, RestoreVerb,
       RestoreGivenUp, Abort, DeployBegins, DeployApplies, Edit, Ends, Over, Goto, command, vars
  <1>. QED
    BY <1>1 DEF RestoreVerbEnds, Ends, IInv, Restored, database, Kept

(***************************************************************************)
(* What the teardown deletes is in the backup that will be restored (the   *)
(* WaitForJob of database.go before DeleteByName and DeletePVC), whatever  *)
(* stops and lingers, if no backup overlaps another.                       *)
(***************************************************************************)
THEOREM DataBackedUp ==
    ASSUME "overlap" \notin Disturbances
    PROVE  Spec => TeardownAfterBackup
  <1>1. IInv /\ [Next]_vars =>
           [(sts # NoVal /\ sts' = NoVal) \/ (Kept(volume) /\ ~ Kept(volume)')
               => key \in DOMAIN bucket /\ saved \subseteq bucket[key]]_vars
    BY StepTeardown
  <1>. QED
    BY <1>1, InitInv, StepInv, PTL DEF Spec, TeardownAfterBackup

(***************************************************************************)
(* A restore that reports success (WaitForJob in RunRestoreJob) has left   *)
(* all of its backup in a volume that stays: through teardowns, panics,    *)
(* deploys that recreate the database, clients and lingering pods.         *)
(***************************************************************************)
THEOREM RestoreHolds ==
    ASSUME "overlap" \notin Disturbances
    PROVE  Spec => RestoreBringsBack
  <1>1. IInv /\ [Next]_vars =>
           [outcome' = "restored" /\ outcome # "restored" =>
               /\ Kept(volume)'
               /\ replay.key \in DOMAIN bucket /\ bucket[replay.key] \subseteq volume'.data]_vars
    BY StepReported
  <1>. QED
    BY <1>1, InitInv, StepInv, PTL DEF Spec, RestoreBringsBack

(***************************************************************************)
(* No pod serves from another server than the StatefulSet's, or writes to  *)
(* a volume that is being deleted (DeleteByName before DeletePVC, and the  *)
(* drift gate of deploys), whatever stops, lingers or overlaps.            *)
(***************************************************************************)
THEOREM PodsInPlace == Spec => []WritesToWhatStays
  <1>. DEFINE Placed == TypeInv /\ SameServer /\ Placement /\ OldVolume /\ Pods
  <1>1. Init => Placed
    BY InitInv DEF IInv, Pods
  <1>2. Placed /\ [Next]_vars => Placed'
    BY StepTypes, StepServer, StepPods, StepOldVolume DEF Pods
  <1>3. Placed => WritesToWhatStays
    BY DEF Pods
  <1>. QED
    BY <1>1, <1>2, <1>3, PTL DEF Spec
=============================================================================
