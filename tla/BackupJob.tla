----------------------------- MODULE BackupJob ------------------------------
(***************************************************************************)
(* Backups of a cluster from the resource to the store: the controller of  *)
(* Backup resources (controllers/backup), the jobs and the CronJob it      *)
(* applies, the client that runs in the pod of a job and the backup server *)
(* in the pods of the cluster (sidecar/), the last backup that the status  *)
(* syncer records and the deletion of the cluster.                         *)
(***************************************************************************)
EXTENDS Naturals, Sequences, FiniteSets

CONSTANTS
    Backups,    \* the Backup resources of the cluster, in order of creation
    Asked,      \* what they may ask for: [kind, opts]
    Nil,        \* an absent object or field
    MaxRuns,    \* bound: runs of a CronJob
    MaxTries,   \* pods of a job: 1 + BackoffLimit
    MaxFaults   \* bound: faults

ASSUME BackupsAssumption == Backups \subseteq Nat /\ IsFiniteSet(Backups)
ASSUME BackupBounds == MaxRuns \in Nat \ {0} /\ MaxTries \in Nat \ {0} /\ MaxFaults \in Nat

ASSUME AskedAssumption ==
    Asked \subseteq [kind : {"manual", "cron"}, opts : {{"s3"}, {"nfs"}, {"s3", "nfs"}, {"binlog"}}]

Endpoints == {"s3", "nfs"}
ConditionTypes == {"", "Started", "Active", "Succeeded", "Failed"}

(* A job is the run-th of its owner; a pod of it takes the backup that is  *)
(* named by the job and the try.                                           *)
Jobs == [owner : Backups, run : 1 .. MaxRuns]
BackupName == [job : Jobs, try : 1 .. MaxTries]
Status == [finished : BOOLEAN, state : ConditionTypes, name : BackupName \cup {Nil}]
Backup == [asks : Asked, labelled : BOOLEAN, status : Status \cup {Nil}]
Pod == {"none", "asked", "got", "stuck"}
Job == [at : {"open", "complete", "failed"}, try : 1 .. MaxTries, pod : Pod,
        host : BOOLEAN, note : BackupName \cup {Nil}]

ASSUME NilAssumption == Nil \notin BackupName \cup Status \cup Backup \cup Job

VARIABLES
    cluster,   \* [state, last]: last is the last backup recorded
    backup,    \* the Backup resources, Nil when absent
    jobs,      \* their jobs, Nil when absent
    cronjob,   \* the CronJob of the cluster: [owner, suspend] or Nil
    queue,     \* of each endpoint of the server: the requests that wait
    serving,   \* and the one that is served, or Nil
    stored,    \* the names of the backups whose processes both ended well
    cut,       \* those of them whose end the copy between the two lost
    binlogs,   \* the names to which binary logs were uploaded
    faults

vars == <<cluster, backup, jobs, cronjob, queue, serving, stored, cut, binlogs, faults>>
server == <<queue, serving>>
stores == <<stored, cut, binlogs>>

TypeOK ==
    /\ cluster \in [state : {"notready", "ready", "deleting", "gone"}, last : BackupName \cup {Nil}]
    /\ backup \in [Backups -> Backup \cup {Nil}]
    /\ jobs \in [Jobs -> Job \cup {Nil}]
    /\ cronjob \in [owner : Backups, suspend : BOOLEAN] \cup {Nil}
    /\ queue \in [Endpoints -> Seq(BackupName)]
    /\ serving \in [Endpoints -> BackupName \cup {Nil}]
    /\ stored \subseteq BackupName /\ cut \subseteq BackupName /\ binlogs \subseteq BackupName
    /\ faults \in 0 .. MaxFaults

Init ==
    /\ cluster = [state |-> "notready", last |-> Nil]
    /\ backup = [b \in Backups |-> Nil]
    /\ jobs = [j \in Jobs |-> Nil]
    /\ cronjob = Nil
    /\ queue = [e \in Endpoints |-> <<>>] /\ serving = [e \in Endpoints |-> Nil]
    /\ stored = {} /\ cut = {} /\ binlogs = {} /\ faults = 0

Fault == faults < MaxFaults /\ faults' = faults + 1

Exists(b) == backup[b] # Nil
JobExists(j) == jobs[j] # Nil
SetBackup(b, rec) == backup' = [backup EXCEPT ![b] = rec]
SetJob(j, rec) == jobs' = [jobs EXCEPT ![j] = rec]
Up == cluster.state \in {"notready", "ready"}

-----------------------------------------------------------------------------
(* The user and the cluster.                                               *)
CreateBackup(b) ==
    /\ ~Exists(b) /\ Up
    /\ \A c \in Backups : c < b => Exists(c)
    /\ \E a \in Asked : SetBackup(b, [asks |-> a, labelled |-> FALSE, status |-> Nil])
    /\ UNCHANGED <<cluster, jobs, cronjob, server, stores, faults>>

ClusterReady ==
    /\ cluster.state = "notready"
    /\ cluster' = [cluster EXCEPT !.state = "ready"]
    /\ UNCHANGED <<backup, jobs, cronjob, server, stores, faults>>

DeleteCluster ==
    /\ Fault /\ Up
    /\ cluster' = [cluster EXCEPT !.state = "deleting"]
    /\ UNCHANGED <<backup, jobs, cronjob, server, stores>>

-----------------------------------------------------------------------------
(* The backup controller.                                                  *)
JobCompleted(j) == jobs[j].at = "complete"
JobFailed(j) == jobs[j].at = "failed"

(* The state from the numbers of pods in the status of a job: a job is     *)
(* Failed already while it waits for its second pod.                       *)
StateOf(j) ==
    IF JobCompleted(j) THEN "Succeeded"
    ELSE IF jobs[j].pod # "none" THEN "Active"
    ELSE IF JobFailed(j) \/ jobs[j].try > 1 THEN "Failed"
    ELSE "Started"

(* The jobs are listed at the API server and not from the cache.           *)
CurrentJob(b) == [owner |-> b, run |-> 1]

NameAlways(b, old) ==
    [finished |-> old.finished \/ JobCompleted(CurrentJob(b)) \/ JobFailed(CurrentJob(b)),
     state |-> StateOf(CurrentJob(b)),
     name |-> [job |-> CurrentJob(b), try |-> jobs[CurrentJob(b)].try]]
ManualStatus(b, old) ==
    LET j == CurrentJob(b)
    IN [finished |-> old.finished \/ JobCompleted(j) \/ JobFailed(j),
        state |-> StateOf(j),
        name |-> IF JobCompleted(j) THEN jobs[j].note ELSE old.name]
NewStatus == [finished |-> FALSE, state |-> "", name |-> Nil]
AfterManual(b) ==
    LET old == backup[b].status
    IN IF old = Nil THEN NewStatus
       ELSE IF JobExists(CurrentJob(b)) THEN ManualStatus(b, old) ELSE old

(* generateBackupJobSpec refuses s3 with nfs; the API server a job without *)
(* an image, which is what it has when the cluster is gone.                *)
CanGenerate(b) == Cardinality(backup[b].asks.opts) = 1 /\ cluster.state # "gone"

(* The host is the one of the last node of the status; a cluster that was  *)
(* never ready has none.                                                   *)
GetBackupHost == cluster.state # "notready"
NewJob(host) == [at |-> "open", try |-> 1, pod |-> "none", host |-> host, note |-> Nil]

(* The directory of a backup's binary logs.                                *)
BinlogDir(n) == {n}

(* The binary logs go to the last backup, by a job of their own: it fails  *)
(* when their directory exists.                                            *)
CreateBinlogJob(b) ==
    IF cluster.last # Nil /\ "nfs" \in backup[b].asks.opts THEN BinlogDir(cluster.last) ELSE {}

(* Every pass sets the label, fills the status, and applies the job unless *)
(* the status is finished.  The template of a job that exists cannot       *)
(* change: the second apply is a no-op or an error that is logged.         *)
ReconcileManual(b, applied, patched) ==
    LET new == AfterManual(b)
        j == CurrentJob(b)
        apply == applied /\ ~new.finished /\ CanGenerate(b)
    IN /\ SetBackup(b, [backup[b] EXCEPT !.labelled = TRUE,
                            !.status = IF patched THEN new ELSE backup[b].status])
       /\ IF apply /\ ~JobExists(j) THEN SetJob(j, NewJob(GetBackupHost)) ELSE UNCHANGED jobs
       /\ binlogs' = IF apply THEN binlogs \cup CreateBinlogJob(b) ELSE binlogs
       /\ UNCHANGED cronjob

(* A scheduled backup shows the latest job of any CronJob of the cluster.  *)
CronJobs == {j \in Jobs : JobExists(j) /\ Exists(j.owner) /\ backup[j.owner].asks.kind = "cron"}
Latest == CHOOSE j \in CronJobs : \A k \in CronJobs : k.run <= j.run
AfterCron(b) ==
    IF CronJobs = {} THEN (IF backup[b].status = Nil THEN NewStatus ELSE backup[b].status)
    ELSE [finished |-> FALSE, state |-> StateOf(Latest), name |-> jobs[Latest].note]

(* It takes the CronJob that exists; one of another Backup cannot be       *)
(* applied, since it would have two controllers.                           *)
KeepsSuspended(state) == TRUE
Suspend(state) == state # "ready"
ReconcileCron(b, applied, patched) ==
    /\ SetBackup(b, [backup[b] EXCEPT !.labelled = TRUE,
                         !.status = IF patched THEN AfterCron(b) ELSE backup[b].status])
    /\ cronjob' = IF applied /\ CanGenerate(b) /\ (cronjob = Nil \/ cronjob.owner = b)
                  THEN [owner |-> b, suspend |-> Suspend(cluster.state)] ELSE cronjob
    /\ UNCHANGED <<jobs, binlogs>>

ReconcileWith(b, applied, patched) ==
    /\ Exists(b)
    /\ IF backup[b].asks.kind = "manual" THEN ReconcileManual(b, applied, patched)
       ELSE ReconcileCron(b, applied, patched)
    /\ UNCHANGED <<cluster, server, stored, cut>>

Reconcile(b) == ReconcileWith(b, TRUE, TRUE) /\ UNCHANGED faults

(* An apply that fails is logged, and tried again at the next event of the *)
(* backup or its job or at the next resync, as for any pass; a failed      *)
(* patch is an error and the backup requeued.                              *)
ReconcileFails(b) ==
    /\ Fault
    /\ \/ ReconcileWith(b, FALSE, TRUE)
       \/ ReconcileWith(b, TRUE, FALSE)

-----------------------------------------------------------------------------
(* Jobs and CronJobs.                                                      *)
Fire ==
    /\ cronjob # Nil /\ ~cronjob.suspend
    /\ \A k \in CronJobs : jobs[k].at # "open"
    /\ \E n \in 1 .. MaxRuns :
          LET j == [owner |-> cronjob.owner, run |-> n]
          IN /\ ~JobExists(j) /\ \A i \in 1 .. n - 1 : JobExists([j EXCEPT !.run = i])
             /\ SetJob(j, NewJob(GetBackupHost))
    /\ UNCHANGED <<cluster, backup, cronjob, server, stores, faults>>

(* The pod ends with an error: one more try, or the job has failed.        *)
TriesOnceMore(job) ==
    IF job.try <= MaxTries THEN [job EXCEPT !.try = job.try + 1, !.pod = "none"]
    ELSE [job EXCEPT !.at = "failed", !.pod = "none"]
NextTry(job) ==
    IF job.try < MaxTries THEN [job EXCEPT !.try = job.try + 1, !.pod = "none"]
    ELSE [job EXCEPT !.at = "failed", !.pod = "none"]

-----------------------------------------------------------------------------
(* The client: it asks the endpoint of its type, waits for the answer,     *)
(* annotates its job and exits.                                            *)
EndpointOf(j) == CHOOSE e \in Endpoints : e \in backup[j.owner].asks.opts
Name(j) == [job |-> j, try |-> jobs[j].try]
At(j, step) == JobExists(j) /\ jobs[j].at = "open" /\ jobs[j].pod = step

(* A backup of the binary logs alone dumps and uploads them to a directory *)
(* of their own, without the server and without a name.                    *)
IsBinlogJob(j) == backup[j.owner].asks.opts = {"binlog"}
UploadBinLog(j) ==
    /\ At(j, "none") /\ IsBinlogJob(j)
    /\ SetJob(j, [jobs[j] EXCEPT !.at = "complete"])
    /\ UNCHANGED <<cluster, backup, cronjob, server, stores, faults>>

(* A pod is started for the job and sends its request; without a host it   *)
(* fails at once.                                                          *)
RequestBackup(j) ==
    /\ At(j, "none") /\ ~IsBinlogJob(j)
    /\ IF jobs[j].host
       THEN /\ SetJob(j, [jobs[j] EXCEPT !.pod = "asked"])
            /\ queue' = [queue EXCEPT ![EndpointOf(j)] = Append(@, Name(j))]
       ELSE SetJob(j, NextTry(jobs[j])) /\ UNCHANGED queue
    /\ UNCHANGED <<cluster, backup, cronjob, serving, stores, faults>>

Annotated(j) == [jobs[j] EXCEPT !.note = Name(j)]
SetAnnotations(j) ==
    /\ At(j, "got")
    /\ SetJob(j, [Annotated(j) EXCEPT !.at = "complete", !.pod = "none"])
    /\ UNCHANGED <<cluster, backup, cronjob, server, stores, faults>>

(* The pod is killed, at the latest after the annotation.                  *)
PodKilled(j) ==
    /\ Fault
    /\ \/ JobExists(j) /\ jobs[j].pod # "none" /\ SetJob(j, NextTry(jobs[j]))
       \/ At(j, "got") /\ SetJob(j, NextTry(Annotated(j)))
    /\ UNCHANGED <<cluster, backup, cronjob, server, stores>>

(* xbstream ends before the stream does: nobody reads the pipe any more,   *)
(* and the client waits for the copy for ever.                             *)
XbstreamDies(j) ==
    /\ Fault /\ At(j, "asked") /\ serving["nfs"] = Name(j)
    /\ SetJob(j, [jobs[j] EXCEPT !.pod = "stuck"])
    /\ UNCHANGED <<cluster, backup, cronjob, server, stores>>

-----------------------------------------------------------------------------
(* The server: one request at a time for each endpoint, in the order of    *)
(* arrival; a request runs although its client has gone.                   *)
LiveClient(n, step) ==
    JobExists(n.job) /\ jobs[n.job].at = "open" /\ jobs[n.job].pod = step /\ jobs[n.job].try = n.try

(* The s3 endpoint first uploads the binary logs to the last backup.       *)
RunPitrBackupS3 == IF cluster.last # Nil THEN BinlogDir(cluster.last) ELSE {}
MaxClients(e) ==
    /\ serving[e] = Nil /\ queue[e] # <<>>
    /\ serving' = [serving EXCEPT ![e] = Head(queue[e])]
    /\ queue' = [queue EXCEPT ![e] = Tail(@)]
    /\ binlogs' = IF e = "s3" THEN binlogs \cup RunPitrBackupS3 ELSE binlogs
    /\ UNCHANGED <<cluster, backup, jobs, cronjob, stored, cut, faults>>

(* Both xtrabackup and the upload, or the extraction at the client, have   *)
(* succeeded.                                                              *)
Arrives(e, n) == e = "s3" \/ LiveClient(n, "asked")

AnswerSuccess(e) ==
    LET n == serving[e]
    IN /\ n # Nil /\ ~LiveClient(n, "stuck")
       /\ serving' = [serving EXCEPT ![e] = Nil]
       /\ jobs' = IF LiveClient(n, "asked") THEN [jobs EXCEPT ![n.job].pod = "got"] ELSE jobs
       /\ stored' = IF Arrives(e, n) THEN stored \cup {n} ELSE stored
       /\ UNCHANGED <<cluster, backup, cronjob, queue, binlogs>>
BackupHandler(e) == AnswerSuccess(e) /\ UNCHANGED <<cut, faults>>

(* To S3 a goroutine copies from xtrabackup to xbcloud.  The handler waits *)
(* for xtrabackup, which closes the pipe the copy may still read: the      *)
(* error of the copy is only logged, and xbcloud sees an ordinary end.     *)
(* Over NFS the stream is read to its end before.                          *)
CopyFails ==
    /\ Fault
    /\ cut' = cut \cup {serving["s3"]}
    /\ AnswerSuccess("s3")

(* xtrabackup or xbcloud fails, or over NFS the copy; the handler ends.    *)
SucceedsAnyway(n) ==
    jobs' = IF LiveClient(n, "asked") THEN [jobs EXCEPT ![n.job].pod = "got"] ELSE jobs
AnswerError(n) ==
    jobs' = IF LiveClient(n, "asked") THEN [jobs EXCEPT ![n.job] = NextTry(jobs[n.job])] ELSE jobs
HandlerFails(e) ==
    LET n == serving[e]
    IN /\ n # Nil /\ ~LiveClient(n, "stuck") /\ Fault
       /\ serving' = [serving EXCEPT ![e] = Nil]
       /\ AnswerError(n)
       /\ UNCHANGED <<cluster, backup, cronjob, queue, stores>>

(* The pod of the server restarts: the clients that read get an error.     *)
ServerCrash ==
    /\ Fault
    /\ queue' = [e \in Endpoints |-> <<>>] /\ serving' = [e \in Endpoints |-> Nil]
    /\ jobs' = [j \in Jobs |-> IF At(j, "asked") THEN NextTry(jobs[j]) ELSE jobs[j]]
    /\ UNCHANGED <<cluster, backup, cronjob, stores>>

-----------------------------------------------------------------------------
(* The status syncer: the newest backup that has ended and has a name, of  *)
(* those with the label.  Failed is an end in the older API too.           *)
Named == {b \in Backups : Exists(b) /\ backup[b].labelled /\ backup[b].status # Nil
                          /\ backup[b].status.state \in {"Succeeded", "Failed"}
                          /\ backup[b].status.name # Nil}
Oldest == CHOOSE b \in Named : \A c \in Named : c >= b
Newest == CHOOSE b \in Named : \A c \in Named : c <= b
UpdateLastBackup ==
    /\ Up /\ Named # {}
    /\ cluster' = [cluster EXCEPT !.last = backup[Newest].status.name]
    /\ UNCHANGED <<backup, jobs, cronjob, server, stores, faults>>

(* With a backup go its jobs and CronJob.                                  *)
Collect(S) ==
    /\ backup' = [b \in Backups |-> IF b \in S THEN Nil ELSE backup[b]]
    /\ jobs' = [j \in Jobs |-> IF j.owner \in S THEN Nil ELSE jobs[j]]
    /\ cronjob' = IF cronjob # Nil /\ cronjob.owner \in S THEN Nil ELSE cronjob

(* The backups with the label are deleted one by one, an error is logged;  *)
(* the finalizer is removed in any case.  Deletion is counted as a fault,  *)
(* and the errors in it are not counted again.                             *)
Labelled == {b \in Backups : Exists(b) /\ backup[b].labelled}
DeleteAllBackup ==
    /\ cluster.state = "deleting"
    /\ Collect(Labelled)
    /\ cluster' = [cluster EXCEPT !.state = "gone"]
    /\ UNCHANGED <<server, stores, faults>>

DeleteSomeBackup ==
    /\ cluster.state = "deleting"
    /\ \E S \in SUBSET Labelled : S # Labelled /\ Collect(S)
    /\ cluster' = [cluster EXCEPT !.state = "gone"]
    /\ UNCHANGED <<server, stores, faults>>

-----------------------------------------------------------------------------
Client(j) == UploadBinLog(j) \/ RequestBackup(j) \/ SetAnnotations(j)
Handler(e) == MaxClients(e) \/ BackupHandler(e)

Next ==
    \/ \E b \in Backups : CreateBackup(b) \/ Reconcile(b) \/ ReconcileFails(b)
    \/ \E j \in Jobs : Client(j) \/ PodKilled(j) \/ XbstreamDies(j)
    \/ \E e \in Endpoints : Handler(e) \/ HandlerFails(e)
    \/ ClusterReady \/ DeleteCluster \/ Fire \/ CopyFails \/ ServerCrash
    \/ UpdateLastBackup \/ DeleteAllBackup \/ DeleteSomeBackup

Spec == Init /\ [][Next]_vars

(* Backups are reconciled at events and resyncs, the pods of jobs make     *)
(* progress, and a request that is served ends.                            *)
FairSpec ==
    /\ Spec
    /\ \A b \in Backups : WF_vars(Reconcile(b))
    /\ \A j \in Jobs : WF_vars(Client(j))
    /\ \A e \in Endpoints : WF_vars(Handler(e))
    /\ WF_vars(ClusterReady)

-----------------------------------------------------------------------------
(* What the backups promise.                                               *)

(***************************************************************************)
(* Whatever a Backup or the cluster records as the name of a backup, and   *)
(* wherever binary logs were uploaded to, is a backup that both xtrabackup *)
(* and what stores its stream ended well for, also if it is of a job whose *)
(* pods failed, whose client was killed after it annotated the job, or     *)
(* whose server restarted (requestS3Backup, requestNFSBackup,              *)
(* reconcileManualBackup, updateLastBackup).  It may still lack its end,   *)
(* see RecordedWhole.                                                      *)
(***************************************************************************)
Recorded ==
    {backup[b].status.name : b \in {c \in Backups : Exists(c) /\ backup[c].status # Nil}}
    \cup {cluster.last} \cup binlogs
RecordedStored == Recorded \ {Nil} \subseteq stored

(***************************************************************************)
(* "pipe command fail one, whole things fail": what is recorded is a whole *)
(* backup.  The copy between the two commands is the third part of the     *)
(* pipe, its failure does not count, and the code does not keep this       *)
(* (RunTakeS3BackupCommand).                                               *)
(***************************************************************************)
RecordedWhole == Recorded \ {Nil} \subseteq stored \ cut

(***************************************************************************)
(* The last backup moves only to newer Backup resources, unless there is a *)
(* scheduled one: while its job runs the last backup falls back to an      *)
(* older Backup (updateLastBackup).                                        *)
(***************************************************************************)
LastForward ==
    [][\/ cluster.last = Nil
       \/ \E b \in Backups : Exists(b) /\ backup[b].asks.kind = "cron"
       \/ cluster'.last.job.owner >= cluster.last.job.owner]_vars

(***************************************************************************)
(* A manual backup ends, although the errors of a reconcile are only       *)
(* logged, pods are killed and the server restarts.  Except: with s3 and   *)
(* nfs at once there is no job, one of a cluster that is gone may have     *)
(* none, and a client whose xbstream died waits for ever, and so do those  *)
(* behind it (reconcileManualBackup, requestNFSBackup, maxClients).        *)
(***************************************************************************)
Stuck == \E j \in Jobs : At(j, "stuck")

(***************************************************************************)
(* The schedule of a backup made before its cluster was ready comes into   *)
(* force, although nothing tells the controller that the cluster is ready: *)
(* unless another Backup owns the CronJob (reconcileCronBackup).           *)
(***************************************************************************)
EventuallyScheduled ==
    <>[](\A b \in Backups :
            (Exists(b) /\ backup[b].asks.kind = "cron" /\ Cardinality(backup[b].asks.opts) = 1)
            => ~Up \/ (cronjob # Nil /\ ~cronjob.suspend))
=============================================================================
