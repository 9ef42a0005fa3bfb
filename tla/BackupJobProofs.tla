-------------------------- MODULE BackupJobProofs ---------------------------
(***************************************************************************)
(* Proofs of the safety properties of BackupJob, for every finite set of   *)
(* Backups, whatever they ask for, and any number of runs, tries and       *)
(* faults: only whole backups are recorded, and the last backup of a       *)
(* cluster without schedules never falls back.                             *)
(***************************************************************************)
EXTENDS BackupJob, FiniteSetTheorems, WellFoundedInduction, TLAPS

-----------------------------------------------------------------------------
(* A finite set of naturals has a largest member: a smallest cofinal       *)
(* subset of it has one element.                                           *)
LEMMA MaxExists ==
    ASSUME NEW S \in SUBSET Nat, IsFiniteSet(S), S # {}
    PROVE  \E m \in S : \A x \in S : x <= m
<1> DEFINE Cofinal == {U \in SUBSET S : U # {} /\ \A x \in S : \E u \in U : x <= u}
<1>1. IsWellFoundedOn(StrictSubsetOrdering(S), SUBSET S)
    BY FS_StrictSubsetOrderingWellFounded, FS_FiniteSubsetsOfFinite
<1>2. Cofinal \subseteq SUBSET S /\ S \in Cofinal
    OBVIOUS
<1>3. \E U \in Cofinal : \A V \in Cofinal : ~(<<V, U>> \in StrictSubsetOrdering(S))
    <2> HIDE DEF Cofinal
    <2> QED
        BY <1>1, <1>2, WFMin
<1>4. PICK U \in Cofinal : \A V \in Cofinal : ~(<<V, U>> \in StrictSubsetOrdering(S))
    BY <1>3
<1>5. \A V \in Cofinal : V \subseteq U => V = U
    BY <1>4 DEF StrictSubsetOrdering
<1>6. PICK u \in U : TRUE
    BY <1>4
<1>7. ASSUME NEW v \in U, u < v PROVE FALSE
    <2>1. U \ {u} \in Cofinal
        BY <1>7
    <2> QED
        BY <2>1, <1>5
<1> QED
    BY <1>7

(* The newest of the Backups that have ended with a name.                  *)
LEMMA NewestExists ==
    Named # {} => Newest \in Named /\ \A c \in Named : c <= Newest
<1> SUFFICES ASSUME Named # {} PROVE Newest \in Named /\ \A c \in Named : c <= Newest
    OBVIOUS
<1>1. Named \subseteq Backups
    BY DEF Named
<1>2. Named \in SUBSET Nat /\ IsFiniteSet(Named)
    BY <1>1, BackupsAssumption, FS_Subset
<1>3. \E b \in Named : \A c \in Named : c <= b
    BY <1>2, MaxExists
<1> QED
    BY <1>3 DEF Newest

(* The latest of the jobs of a schedule.                                   *)
LEMMA LatestExists == CronJobs # {} => Latest \in CronJobs
<1> SUFFICES ASSUME CronJobs # {} PROVE Latest \in CronJobs
    OBVIOUS
<1> DEFINE R == {j.run : j \in CronJobs}
<1>1. R \subseteq 1 .. MaxRuns /\ R # {}
    BY DEF CronJobs, Jobs
<1>2. R \in SUBSET Nat /\ IsFiniteSet(R)
    <2> HIDE DEF R
    <2>1. IsFiniteSet(1 .. MaxRuns)
        BY FS_Interval, BackupBounds
    <2>2. IsFiniteSet(R)
        BY <1>1, <2>1, FS_Subset
    <2>3. R \in SUBSET Nat
        BY <1>1, BackupBounds
    <2> QED
        BY <2>2, <2>3
<1>3. PICK m \in R : \A x \in R : x <= m
    BY <1>1, <1>2, MaxExists
<1>4. \E j \in CronJobs : \A k \in CronJobs : k.run <= j.run
    BY <1>3
<1> QED
    BY <1>4 DEF Latest

-----------------------------------------------------------------------------
(* Types of the operators the actions are built from.                      *)
LEMMA NextTryType == ASSUME NEW job \in Job PROVE NextTry(job) \in Job
<1>1. CASE job.try < MaxTries
    <2>1. job.try + 1 \in 1 .. MaxTries
        BY <1>1, BackupBounds DEF Job
    <2> QED
        BY <1>1, <2>1 DEF NextTry, Job, Pod
<1>2. CASE ~(job.try < MaxTries)
    BY <1>2 DEF NextTry, Job, Pod
<1> QED
    BY <1>1, <1>2

LEMMA NewJobType == ASSUME NEW host \in BOOLEAN PROVE NewJob(host) \in Job
    BY BackupBounds DEF NewJob, Job, Pod

LEMMA NameType == ASSUME TypeOK, NEW j \in Jobs, JobExists(j) PROVE Name(j) \in BackupName
    BY DEF TypeOK, JobExists, Name, BackupName, Job

LEMMA CurrentJobType == ASSUME NEW b \in Backups PROVE CurrentJob(b) \in Jobs
    BY BackupBounds DEF CurrentJob, Jobs

LEMMA StateOfType == ASSUME NEW j PROVE StateOf(j) \in ConditionTypes
    BY DEF StateOf, ConditionTypes

LEMMA AfterManualType ==
    ASSUME TypeOK, NEW b \in Backups, Exists(b)
    PROVE  AfterManual(b) \in Status
<1>1. NewStatus \in Status
    BY DEF NewStatus, Status, ConditionTypes
<1>2. backup[b].status \in Status \cup {Nil}
    BY DEF TypeOK, Exists, Backup
<1>3. ASSUME backup[b].status # Nil, JobExists(CurrentJob(b))
      PROVE  ManualStatus(b, backup[b].status) \in Status
    <2>1. jobs[CurrentJob(b)] \in Job
        BY <1>3, CurrentJobType DEF TypeOK, JobExists
    <2>2. StateOf(CurrentJob(b)) \in ConditionTypes
        BY StateOfType
    <2>3. jobs[CurrentJob(b)].note \in BackupName \cup {Nil}
        BY <2>1 DEF Job
    <2> QED
        BY <1>2, <1>3, <2>2, <2>3 DEF ManualStatus, Status, JobCompleted, JobFailed
<1> QED
    BY <1>1, <1>2, <1>3 DEF AfterManual

LEMMA AfterCronType ==
    ASSUME TypeOK, NEW b \in Backups, Exists(b)
    PROVE  AfterCron(b) \in Status
<1>1. NewStatus \in Status
    BY DEF NewStatus, Status, ConditionTypes
<1>2. backup[b].status \in Status \cup {Nil}
    BY DEF TypeOK, Exists, Backup
<1>3. ASSUME CronJobs # {} PROVE jobs[Latest].note \in BackupName \cup {Nil}
    BY <1>3, LatestExists DEF CronJobs, JobExists, TypeOK, Job
<1>4. StateOf(Latest) \in ConditionTypes
    BY StateOfType
<1> QED
    BY <1>1, <1>2, <1>3, <1>4 DEF AfterCron, Status

-----------------------------------------------------------------------------
(* Types.                                                                  *)
LEMMA InitType == Init => TypeOK
    BY BackupBounds DEF Init, TypeOK, Endpoints

LEMMA FaultType == ASSUME TypeOK, Fault PROVE faults' \in 0 .. MaxFaults
    BY BackupBounds DEF TypeOK, Fault

LEMMA JobAt == ASSUME TypeOK, NEW j \in Jobs, JobExists(j) PROVE jobs[j] \in Job
    BY DEF TypeOK, JobExists

LEMMA SetJobType ==
    ASSUME TypeOK, NEW j \in Jobs, NEW rec \in Job, SetJob(j, rec)
    PROVE  jobs' \in [Jobs -> Job \cup {Nil}]
    BY DEF TypeOK, SetJob

LEMMA SetBackupType ==
    ASSUME TypeOK, NEW b \in Backups, NEW rec \in Backup, SetBackup(b, rec)
    PROVE  backup' \in [Backups -> Backup \cup {Nil}]
    BY DEF TypeOK, SetBackup

LEMMA ReconcileType ==
    ASSUME TypeOK, NEW b \in Backups, NEW applied \in BOOLEAN, NEW patched \in BOOLEAN,
           ReconcileWith(b, applied, patched), faults' \in 0 .. MaxFaults
    PROVE  TypeOK'
<1>1. Exists(b) /\ backup[b] \in Backup
    BY DEF ReconcileWith, TypeOK, Exists
<1> DEFINE Rec(new) == [backup[b] EXCEPT !.labelled = TRUE,
                            !.status = IF patched THEN new ELSE backup[b].status]
<1>2. ASSUME NEW new \in Status PROVE Rec(new) \in Backup
    BY <1>1, <1>2 DEF Backup
<1>3. CASE backup[b].asks.kind = "manual"
    <2>1. ReconcileManual(b, applied, patched)
        BY <1>3 DEF ReconcileWith
    <2>2. backup' \in [Backups -> Backup \cup {Nil}]
        BY <1>1, <1>2, <2>1, AfterManualType, SetBackupType DEF ReconcileManual
    <2>3. GetBackupHost \in BOOLEAN
        BY DEF GetBackupHost
    <2>4. jobs' \in [Jobs -> Job \cup {Nil}]
        BY <2>1, <2>3, NewJobType, CurrentJobType, SetJobType DEF ReconcileManual, TypeOK
    <2>5. binlogs' \subseteq BackupName
        BY <2>1 DEF ReconcileManual, CreateBinlogJob, BinlogDir, TypeOK
    <2> QED
        BY <2>1, <2>2, <2>4, <2>5 DEF ReconcileWith, ReconcileManual, TypeOK, server
<1>4. CASE backup[b].asks.kind # "manual"
    <2>1. ReconcileCron(b, applied, patched)
        BY <1>4 DEF ReconcileWith
    <2>2. backup' \in [Backups -> Backup \cup {Nil}]
        BY <1>1, <1>2, <2>1, AfterCronType, SetBackupType DEF ReconcileCron
    <2>3. cronjob' \in [owner : Backups, suspend : BOOLEAN] \cup {Nil}
        BY <2>1 DEF ReconcileCron, TypeOK, Suspend
    <2> QED
        BY <2>1, <2>2, <2>3 DEF ReconcileWith, ReconcileCron, TypeOK, server
<1> QED
    BY <1>3, <1>4

LEMMA ClientType ==
    ASSUME TypeOK, NEW j \in Jobs, Client(j) \/ PodKilled(j) \/ XbstreamDies(j)
    PROVE  TypeOK'
<1>1. CASE UploadBinLog(j)
    <2>1. jobs[j] \in Job
        BY <1>1, JobAt DEF UploadBinLog, At
    <2>2. [jobs[j] EXCEPT !.at = "complete"] \in Job
        BY <2>1 DEF Job
    <2> QED
        BY <1>1, <2>2, SetJobType DEF UploadBinLog, TypeOK, server, stores
<1>2. CASE RequestBackup(j)
    <2>1. jobs[j] \in Job /\ JobExists(j)
        BY <1>2, JobAt DEF RequestBackup, At
    <2>2. [jobs[j] EXCEPT !.pod = "asked"] \in Job /\ NextTry(jobs[j]) \in Job
        BY <2>1, NextTryType DEF Job, Pod
    <2>3. jobs' \in [Jobs -> Job \cup {Nil}]
        BY <1>2, <2>2, SetJobType DEF RequestBackup
    <2>4. queue' \in [Endpoints -> Seq(BackupName)]
        <3>1. Name(j) \in BackupName
            BY <2>1, NameType
        <3>2. \A e \in Endpoints : Append(queue[e], Name(j)) \in Seq(BackupName)
            BY <3>1 DEF TypeOK
        <3>3. queue \in [Endpoints -> Seq(BackupName)]
            BY DEF TypeOK
        <3>4. \/ UNCHANGED queue
              \/ queue' = [queue EXCEPT ![EndpointOf(j)] = Append(queue[EndpointOf(j)], Name(j))]
            BY <1>2 DEF RequestBackup
        <3> QED
            BY <3>2, <3>3, <3>4
    <2> QED
        BY <1>2, <2>3, <2>4 DEF RequestBackup, TypeOK, stores
<1>3. ASSUME At(j, "got") PROVE Annotated(j) \in Job
    <2>1. jobs[j] \in Job /\ Name(j) \in BackupName
        BY <1>3, JobAt, NameType DEF At
    <2> QED
        BY <2>1 DEF Annotated, Job
<1>4. CASE SetAnnotations(j)
    <2>1. Annotated(j) \in Job
        BY <1>3, <1>4 DEF SetAnnotations
    <2>2. [Annotated(j) EXCEPT !.at = "complete", !.pod = "none"] \in Job
        BY <2>1 DEF Job, Pod
    <2> QED
        BY <1>4, <2>2, SetJobType DEF SetAnnotations, TypeOK, server, stores
<1>5. CASE PodKilled(j)
    <2>1. jobs' \in [Jobs -> Job \cup {Nil}]
        <3>1. CASE JobExists(j) /\ SetJob(j, NextTry(jobs[j]))
            BY <3>1, JobAt, NextTryType, SetJobType
        <3>2. CASE At(j, "got") /\ SetJob(j, NextTry(Annotated(j)))
            BY <3>2, <1>3, NextTryType, SetJobType
        <3> QED
            BY <1>5, <3>1, <3>2 DEF PodKilled
    <2> QED
        BY <1>5, <2>1, FaultType DEF PodKilled, TypeOK, server, stores
<1>6. CASE XbstreamDies(j)
    <2>1. jobs[j] \in Job
        BY <1>6, JobAt DEF XbstreamDies, At
    <2>2. [jobs[j] EXCEPT !.pod = "stuck"] \in Job
        BY <2>1 DEF Job, Pod
    <2> QED
        BY <1>6, <2>2, SetJobType, FaultType DEF XbstreamDies, TypeOK, server, stores
<1> QED
    BY <1>1, <1>2, <1>4, <1>5, <1>6 DEF Client

LEMMA HandlerType ==
    ASSUME TypeOK, NEW e \in Endpoints,
           Handler(e) \/ HandlerFails(e) \/ (e = "s3" /\ CopyFails)
    PROVE  TypeOK'
<1>1. CASE MaxClients(e)
    <2>1. queue[e] \in Seq(BackupName) /\ queue[e] # <<>>
        BY <1>1 DEF MaxClients, TypeOK
    <2>2. Head(queue[e]) \in BackupName /\ Tail(queue[e]) \in Seq(BackupName)
        BY <2>1
    <2>3. binlogs' \subseteq BackupName
        BY <1>1 DEF MaxClients, RunPitrBackupS3, BinlogDir, TypeOK
    <2> QED
        BY <1>1, <2>2, <2>3 DEF MaxClients, TypeOK
<1>2. ASSUME serving[e] # Nil, LiveClient(serving[e], "asked")
      PROVE  /\ serving[e] \in BackupName /\ serving[e].job \in Jobs
             /\ jobs[serving[e].job] \in Job
    <2>1. serving[e] \in BackupName
        BY <1>2 DEF TypeOK
    <2>2. serving[e].job \in Jobs
        BY <2>1 DEF BackupName
    <2> QED
        BY <1>2, <2>1, <2>2, JobAt DEF LiveClient
<1>3. ASSUME AnswerSuccess(e), cut' \subseteq BackupName, faults' \in 0 .. MaxFaults
      PROVE  TypeOK'
    <2>1. jobs' \in [Jobs -> Job \cup {Nil}]
        <3>1. CASE LiveClient(serving[e], "asked")
            <4>1. [jobs[serving[e].job] EXCEPT !.pod = "got"] \in Job
                BY <1>2, <1>3, <3>1 DEF AnswerSuccess, Job, Pod
            <4> QED
                BY <1>2, <1>3, <3>1, <4>1 DEF AnswerSuccess, TypeOK
        <3> QED
            BY <1>3, <3>1 DEF AnswerSuccess, TypeOK
    <2>2. serving[e] \in BackupName
        BY <1>3 DEF AnswerSuccess, TypeOK
    <2> QED
        BY <1>3, <2>1, <2>2 DEF AnswerSuccess, TypeOK
<1>5. CASE BackupHandler(e)
    BY <1>3, <1>5 DEF BackupHandler, TypeOK
<1>6. CASE e = "s3" /\ CopyFails
    <2>1. AnswerSuccess(e) /\ serving[e] \in BackupName /\ cut' = cut \cup {serving[e]}
        BY <1>6 DEF CopyFails, AnswerSuccess, TypeOK
    <2>2. faults' \in 0 .. MaxFaults
        BY <1>6, FaultType DEF CopyFails
    <2>3. cut' \subseteq BackupName
        BY <2>1 DEF TypeOK
    <2> QED
        BY <1>3, <2>1, <2>2, <2>3
<1>4. CASE HandlerFails(e)
    <2>1. jobs' \in [Jobs -> Job \cup {Nil}]
        <3>1. CASE LiveClient(serving[e], "asked")
            <4>1. NextTry(jobs[serving[e].job]) \in Job
                BY <1>2, <1>4, <3>1, NextTryType DEF HandlerFails
            <4> QED
                BY <1>2, <1>4, <3>1, <4>1 DEF HandlerFails, AnswerError, TypeOK
        <3> QED
            BY <1>4, <3>1 DEF HandlerFails, AnswerError, TypeOK
    <2> QED
        BY <1>4, <2>1, FaultType DEF HandlerFails, TypeOK, stores
<1> QED
    BY <1>1, <1>4, <1>5, <1>6 DEF Handler

LEMMA CollectType ==
    ASSUME TypeOK, NEW S \in SUBSET Backups, Collect(S)
    PROVE  /\ backup' \in [Backups -> Backup \cup {Nil}]
           /\ jobs' \in [Jobs -> Job \cup {Nil}]
           /\ cronjob' \in [owner : Backups, suspend : BOOLEAN] \cup {Nil}
    BY DEF TypeOK, Collect

LEMMA ClusterType ==
    ASSUME TypeOK,
           ClusterReady \/ DeleteCluster \/ UpdateLastBackup \/ DeleteAllBackup \/ DeleteSomeBackup
    PROVE  TypeOK'
<1>1. CASE ClusterReady
    BY <1>1 DEF ClusterReady, TypeOK, server, stores
<1>2. CASE DeleteCluster
    BY <1>2, FaultType DEF DeleteCluster, TypeOK, server, stores
<1>3. CASE UpdateLastBackup
    <2>1. Newest \in Backups /\ Exists(Newest) /\ backup[Newest].status # Nil
        BY <1>3, NewestExists DEF UpdateLastBackup, Named
    <2>2. backup[Newest].status \in Status
        BY <2>1 DEF TypeOK, Exists, Backup
    <2>3. backup[Newest].status.name \in BackupName \cup {Nil}
        BY <2>2 DEF Status
    <2> QED
        BY <1>3, <2>3 DEF UpdateLastBackup, TypeOK, server, stores
<1>4. CASE DeleteAllBackup
    <2>1. Labelled \in SUBSET Backups
        BY DEF Labelled
    <2> QED
        BY <1>4, <2>1, CollectType DEF DeleteAllBackup, TypeOK, server, stores
<1>5. CASE DeleteSomeBackup
    <2>1. Labelled \in SUBSET Backups
        BY DEF Labelled
    <2>2. PICK S \in SUBSET Backups : Collect(S)
        BY <1>5, <2>1 DEF DeleteSomeBackup
    <2> QED
        BY <1>5, <2>2, CollectType DEF DeleteSomeBackup, TypeOK, server, stores
<1> QED
    BY <1>1, <1>2, <1>3, <1>4, <1>5

LEMMA TypeStep == ASSUME TypeOK, [Next]_vars PROVE TypeOK'
<1>1. CASE UNCHANGED vars
    BY <1>1 DEF vars, TypeOK
<1>2. ASSUME NEW b \in Backups, CreateBackup(b) PROVE TypeOK'
    <2>1. PICK a \in Asked : SetBackup(b, [asks |-> a, labelled |-> FALSE, status |-> Nil])
        BY <1>2 DEF CreateBackup
    <2>2. [asks |-> a, labelled |-> FALSE, status |-> Nil] \in Backup
        BY DEF Backup
    <2> QED
        BY <1>2, <2>1, <2>2, SetBackupType DEF CreateBackup, TypeOK, server, stores
<1>3. ASSUME NEW b \in Backups, Reconcile(b) PROVE TypeOK'
    <2>1. faults' \in 0 .. MaxFaults
        BY <1>3 DEF Reconcile, TypeOK
    <2> QED
        BY <1>3, <2>1, ReconcileType DEF Reconcile
<1>4. ASSUME NEW b \in Backups, ReconcileFails(b) PROVE TypeOK'
    <2>1. faults' \in 0 .. MaxFaults
        BY <1>4, FaultType DEF ReconcileFails
    <2> QED
        BY <1>4, <2>1, ReconcileType DEF ReconcileFails
<1>5. CASE Fire
    <2>1. PICK n \in 1 .. MaxRuns : SetJob([owner |-> cronjob.owner, run |-> n], NewJob(GetBackupHost))
        BY <1>5 DEF Fire
    <2>2. [owner |-> cronjob.owner, run |-> n] \in Jobs
        BY <1>5 DEF Fire, TypeOK, Jobs
    <2>3. NewJob(GetBackupHost) \in Job
        BY NewJobType DEF GetBackupHost
    <2> QED
        BY <1>5, <2>1, <2>2, <2>3, SetJobType DEF Fire, TypeOK, server, stores
<1>6. CASE ServerCrash
    <2>1. \A j \in Jobs : At(j, "asked") => NextTry(jobs[j]) \in Job
        BY JobAt, NextTryType DEF At
    <2> QED
        BY <1>6, <2>1, FaultType DEF ServerCrash, TypeOK, stores
<1> QED
    BY <1>1, <1>2, <1>3, <1>4, <1>5, <1>6, ClientType, HandlerType, ClusterType DEF Next, Endpoints

(***************************************************************************)
(* Every Backup, job, request and name is well formed: in particular the   *)
(* newest Backup and the latest job of a schedule are found whenever they  *)
(* are asked for, and no job has more pods than BackoffLimit allows        *)
(* (updateLastBackup, reconcileCronBackup).                                *)
(***************************************************************************)
THEOREM TypeCorrect == Spec => []TypeOK
    BY InitType, TypeStep, PTL DEF Spec

-----------------------------------------------------------------------------
(* Only stored backups are recorded.                                       *)

(* A job is annotated, and its client answered, with the name of a stored  *)
(* backup.                                                                 *)
NotesStored ==
    \A j \in Jobs : JobExists(j) =>
        /\ jobs[j].note \in stored \cup {Nil}
        /\ jobs[j].pod = "got" => Name(j) \in stored

StatusStored ==
    \A b \in Backups : Exists(b) /\ backup[b].status # Nil =>
        backup[b].status.name \in stored \cup {Nil}

LastStored == cluster.last \in stored \cup {Nil}

BinlogsStored == binlogs \subseteq stored

StoredInv == TypeOK /\ NotesStored /\ StatusStored /\ LastStored /\ BinlogsStored

LEMMA StoredImplies == StoredInv => RecordedStored
    BY DEF StoredInv, RecordedStored, Recorded, StatusStored, LastStored, BinlogsStored

(* What the pods and the handlers do to a job keeps its note and its       *)
(* answer covered.                                                         *)
NotesGrow ==
    /\ stored \subseteq stored'
    /\ \A j \in Jobs : jobs'[j] # Nil =>
          \/ jobs'[j].note = Nil /\ jobs'[j].pod # "got"
          \/ /\ jobs[j] # Nil
             /\ \/ jobs'[j].note = jobs[j].note
                \/ jobs'[j].note \in stored'
             /\ \/ jobs'[j].pod # "got"
                \/ jobs'[j].pod = jobs[j].pod /\ jobs'[j].try = jobs[j].try
                \/ [job |-> j, try |-> jobs'[j].try] \in stored'

LEMMA NotesStep == ASSUME NotesStored, NotesGrow PROVE NotesStored'
    BY DEF NotesStored, NotesGrow, JobExists, Name

LEMMA NextTryNote ==
    ASSUME NEW job \in Job
    PROVE  NextTry(job).note = job.note /\ NextTry(job).pod = "none"
    BY DEF NextTry, Job

LEMMA ReconcileStored ==
    ASSUME StoredInv, NEW b \in Backups, NEW applied \in BOOLEAN, NEW patched \in BOOLEAN,
           ReconcileWith(b, applied, patched)
    PROVE  NotesGrow /\ StatusStored' /\ LastStored' /\ BinlogsStored'
<1> USE DEF StoredInv
<1>1. Exists(b) /\ backup[b] \in Backup /\ stored' = stored /\ cluster' = cluster
    BY DEF ReconcileWith, TypeOK, Exists
<1>2. LastStored'
    BY <1>1 DEF LastStored
<1>3. CASE backup[b].asks.kind = "manual"
    <2>1. ReconcileManual(b, applied, patched)
        BY <1>3 DEF ReconcileWith
    <2>2. NotesGrow
        <3>1. jobs' = jobs \/ jobs' = [jobs EXCEPT ![CurrentJob(b)] = NewJob(GetBackupHost)]
            BY <2>1 DEF ReconcileManual, SetJob
        <3>2. NewJob(GetBackupHost).note = Nil /\ NewJob(GetBackupHost).pod # "got"
            BY DEF NewJob
        <3> QED
            BY <1>1, <3>1, <3>2, CurrentJobType DEF NotesGrow, TypeOK
    <2>3. AfterManual(b).name \in stored \cup {Nil}
        <3>1. jobs[CurrentJob(b)] # Nil => jobs[CurrentJob(b)].note \in stored \cup {Nil}
            BY CurrentJobType DEF NotesStored, JobExists
        <3>2. backup[b].status # Nil => backup[b].status.name \in stored \cup {Nil}
            BY <1>1 DEF StatusStored
        <3> QED
            BY <3>1, <3>2 DEF AfterManual, NewStatus, ManualStatus, JobExists
    <2>4. StatusStored'
        <3>1. backup' = [backup EXCEPT ![b] = [backup[b] EXCEPT !.labelled = TRUE,
                            !.status = IF patched THEN AfterManual(b) ELSE backup[b].status]]
            BY <2>1 DEF ReconcileManual, SetBackup
        <3>2. backup'[b].status = IF patched THEN AfterManual(b) ELSE backup[b].status
            BY <1>1, <3>1 DEF TypeOK, Backup
        <3>3. \A c \in Backups : c # b => backup'[c] = backup[c]
            BY <3>1 DEF TypeOK
        <3> QED
            BY <1>1, <2>3, <3>2, <3>3 DEF StatusStored, Exists
    <2>5. BinlogsStored'
        BY <1>1, <2>1 DEF ReconcileManual, CreateBinlogJob, BinlogDir, BinlogsStored, LastStored
    <2> QED
        BY <1>2, <2>2, <2>4, <2>5
<1>4. CASE backup[b].asks.kind # "manual"
    <2>1. ReconcileCron(b, applied, patched)
        BY <1>4 DEF ReconcileWith
    <2>2. NotesGrow
        BY <1>1, <2>1 DEF ReconcileCron, NotesGrow
    <2>3. \/ AfterCron(b).name \in stored \cup {Nil}
          \/ AfterCron(b) = backup[b].status
        <3>1. CronJobs # {} => jobs[Latest].note \in stored \cup {Nil}
            BY LatestExists DEF CronJobs, NotesStored
        <3> QED
            BY <3>1 DEF AfterCron, NewStatus
    <2>4. StatusStored'
        <3>1. backup' = [backup EXCEPT ![b] = [backup[b] EXCEPT !.labelled = TRUE,
                            !.status = IF patched THEN AfterCron(b) ELSE backup[b].status]]
            BY <2>1 DEF ReconcileCron, SetBackup
        <3>2. backup'[b].status = IF patched THEN AfterCron(b) ELSE backup[b].status
            BY <1>1, <3>1 DEF TypeOK, Backup
        <3>3. \A c \in Backups : c # b => backup'[c] = backup[c]
            BY <3>1 DEF TypeOK
        <3> QED
            BY <1>1, <2>3, <3>2, <3>3 DEF StatusStored, Exists
    <2>5. BinlogsStored'
        BY <1>1, <2>1 DEF ReconcileCron, BinlogsStored
    <2> QED
        BY <1>2, <2>2, <2>4, <2>5
<1> QED
    BY <1>3, <1>4

(* An action of a pod or a handler: the statuses stay.                     *)
LEMMA OthersStay ==
    ASSUME StoredInv, UNCHANGED <<cluster, backup, binlogs>>, stored \subseteq stored'
    PROVE  StatusStored' /\ LastStored' /\ BinlogsStored'
    BY DEF StoredInv, StatusStored, LastStored, BinlogsStored, Exists

LEMMA ClientStored ==
    ASSUME StoredInv, NEW j \in Jobs, Client(j) \/ PodKilled(j) \/ XbstreamDies(j)
    PROVE  NotesGrow /\ StatusStored' /\ LastStored' /\ BinlogsStored'
<1> USE DEF StoredInv
<1>1. stored' = stored /\ UNCHANGED <<cluster, backup, binlogs>>
    BY DEF Client, UploadBinLog, RequestBackup, SetAnnotations, PodKilled, XbstreamDies, stores
<1> SUFFICES NotesGrow
    BY <1>1, OthersStay
<1>2. jobs \in [Jobs -> Job \cup {Nil}]
    BY DEF TypeOK
<1>3. ASSUME NEW rec, JobExists(j), SetJob(j, rec),
             rec.note = jobs[j].note \/ rec.note \in stored, rec.pod # "got"
      PROVE  NotesGrow
    BY <1>1, <1>2, <1>3 DEF NotesGrow, SetJob, JobExists
<1>4. CASE UploadBinLog(j)
    <2>1. JobExists(j) /\ jobs[j] \in Job /\ jobs[j].pod = "none"
        BY <1>4, JobAt DEF UploadBinLog, At
    <2>2. [jobs[j] EXCEPT !.at = "complete"].note = jobs[j].note
          /\ [jobs[j] EXCEPT !.at = "complete"].pod # "got"
        BY <2>1 DEF Job
    <2> QED
        BY <1>3, <1>4, <2>1, <2>2 DEF UploadBinLog
<1>5. CASE RequestBackup(j)
    <2>1. JobExists(j) /\ jobs[j] \in Job
        BY <1>5, JobAt DEF RequestBackup, At
    <2>2. [jobs[j] EXCEPT !.pod = "asked"].note = jobs[j].note
          /\ [jobs[j] EXCEPT !.pod = "asked"].pod # "got"
        BY <2>1 DEF Job
    <2> QED
        BY <1>3, <1>5, <2>1, <2>2, NextTryNote DEF RequestBackup
<1>6. ASSUME At(j, "got")
      PROVE  /\ JobExists(j) /\ Annotated(j) \in Job
             /\ Annotated(j).note \in stored
    <2>1. JobExists(j) /\ jobs[j] \in Job /\ Name(j) \in BackupName
        BY <1>6, JobAt, NameType DEF At
    <2>2. Name(j) \in stored
        BY <1>6, <2>1 DEF NotesStored, At
    <2> QED
        BY <2>1, <2>2 DEF Annotated, Job
<1>7. CASE SetAnnotations(j)
    <2>1. At(j, "got") /\ SetJob(j, [Annotated(j) EXCEPT !.at = "complete", !.pod = "none"])
        BY <1>7 DEF SetAnnotations
    <2>2. [Annotated(j) EXCEPT !.at = "complete", !.pod = "none"].note \in stored
          /\ [Annotated(j) EXCEPT !.at = "complete", !.pod = "none"].pod # "got"
        BY <1>6, <2>1 DEF Job
    <2> QED
        BY <1>3, <1>6, <2>1, <2>2
<1>8. CASE PodKilled(j)
    <2>1. CASE JobExists(j) /\ SetJob(j, NextTry(jobs[j]))
        <3>1. jobs[j] \in Job
            BY <2>1, JobAt
        <3> QED
            BY <1>3, <2>1, <3>1, NextTryNote
    <2>2. CASE At(j, "got") /\ SetJob(j, NextTry(Annotated(j)))
        BY <1>3, <1>6, <2>2, NextTryNote
    <2> QED
        BY <1>8, <2>1, <2>2 DEF PodKilled
<1>9. CASE XbstreamDies(j)
    <2>1. JobExists(j) /\ jobs[j] \in Job
        BY <1>9, JobAt DEF XbstreamDies, At
    <2>2. [jobs[j] EXCEPT !.pod = "stuck"].note = jobs[j].note
          /\ [jobs[j] EXCEPT !.pod = "stuck"].pod # "got"
        BY <2>1 DEF Job
    <2> QED
        BY <1>3, <1>9, <2>1, <2>2 DEF XbstreamDies
<1> QED
    BY <1>4, <1>5, <1>7, <1>8, <1>9 DEF Client

LEMMA HandlerStored ==
    ASSUME StoredInv, NEW e \in Endpoints,
           Handler(e) \/ HandlerFails(e) \/ (e = "s3" /\ CopyFails)
    PROVE  NotesGrow /\ StatusStored' /\ LastStored' /\ BinlogsStored'
<1> USE DEF StoredInv
<1>1. CASE MaxClients(e)
    <2>1. stored' = stored /\ UNCHANGED <<cluster, backup, jobs>>
        BY <1>1 DEF MaxClients
    <2>2. BinlogsStored'
        BY <1>1, <2>1 DEF MaxClients, RunPitrBackupS3, BinlogDir, BinlogsStored, LastStored
    <2> QED
        BY <2>1, <2>2 DEF NotesGrow, StatusStored, LastStored, Exists
<1>2. ASSUME serving[e] # Nil, LiveClient(serving[e], "asked")
      PROVE  /\ serving[e].job \in Jobs /\ jobs[serving[e].job] \in Job
             /\ jobs[serving[e].job] # Nil
             /\ [job |-> serving[e].job, try |-> jobs[serving[e].job].try] = serving[e]
    <2>1. serving[e] \in BackupName
        BY <1>2 DEF TypeOK
    <2>2. serving[e].job \in Jobs
        BY <2>1 DEF BackupName
    <2>3. JobExists(serving[e].job) /\ jobs[serving[e].job].try = serving[e].try
        BY <1>2 DEF LiveClient
    <2>4. [job |-> serving[e].job, try |-> serving[e].try] = serving[e]
        BY <2>1 DEF BackupName
    <2> QED
        BY <2>2, <2>3, <2>4, JobAt DEF JobExists
<1>3. CASE BackupHandler(e) \/ (e = "s3" /\ CopyFails)
    <2> DEFINE k == serving[e].job
    <2>1. serving[e] # Nil /\ UNCHANGED <<cluster, backup, binlogs>> /\ stored \subseteq stored'
        BY <1>3 DEF BackupHandler, CopyFails, AnswerSuccess
    <2>2. CASE LiveClient(serving[e], "asked")
        <3>1. serving[e] \in stored' /\ jobs' = [jobs EXCEPT ![k] = [jobs[k] EXCEPT !.pod = "got"]]
            BY <1>3, <2>2 DEF BackupHandler, CopyFails, AnswerSuccess, Arrives
        <3>2. k \in Jobs /\ jobs[k] \in Job /\ jobs[k] # Nil /\ [job |-> k, try |-> jobs[k].try] = serving[e]
            BY <1>2, <2>1, <2>2
        <3>3. jobs'[k] = [jobs[k] EXCEPT !.pod = "got"]
              /\ \A i \in Jobs : i # k => jobs'[i] = jobs[i]
            BY <3>1, <3>2 DEF TypeOK
        <3>4. jobs'[k].note = jobs[k].note /\ jobs'[k].try = jobs[k].try
            BY <3>2, <3>3 DEF Job
        <3>5. NotesGrow
            BY <2>1, <3>1, <3>2, <3>3, <3>4 DEF NotesGrow
        <3> QED
            BY <2>1, <3>5, OthersStay
    <2>3. CASE ~LiveClient(serving[e], "asked")
        <3>1. jobs' = jobs
            BY <1>3, <2>3 DEF BackupHandler, CopyFails, AnswerSuccess
        <3> QED
            BY <2>1, <3>1, OthersStay DEF NotesGrow
    <2> QED
        BY <2>2, <2>3
<1>4. CASE HandlerFails(e)
    <2> DEFINE k == serving[e].job
    <2>1. serving[e] # Nil /\ UNCHANGED <<cluster, backup, binlogs>> /\ stored' = stored
        BY <1>4 DEF HandlerFails, stores
    <2>2. CASE LiveClient(serving[e], "asked")
        <3>1. jobs' = [jobs EXCEPT ![k] = NextTry(jobs[k])]
            BY <1>4, <2>2 DEF HandlerFails, AnswerError
        <3>2. k \in Jobs /\ jobs[k] \in Job /\ jobs[k] # Nil
            BY <1>2, <2>1, <2>2
        <3>3. jobs'[k] = NextTry(jobs[k]) /\ \A i \in Jobs : i # k => jobs'[i] = jobs[i]
            BY <3>1, <3>2 DEF TypeOK
        <3>4. NotesGrow
            BY <2>1, <3>2, <3>3, NextTryNote DEF NotesGrow
        <3> QED
            BY <2>1, <3>4, OthersStay
    <2>3. CASE ~LiveClient(serving[e], "asked")
        <3>1. jobs' = jobs
            BY <1>4, <2>3 DEF HandlerFails, AnswerError
        <3> QED
            BY <2>1, <3>1, OthersStay DEF NotesGrow
    <2> QED
        BY <2>2, <2>3
<1> QED
    BY <1>1, <1>3, <1>4 DEF Handler

LEMMA CollectStored ==
    ASSUME StoredInv, NEW S \in SUBSET Backups, Collect(S), UNCHANGED stores,
           cluster' = [cluster EXCEPT !.state = "gone"]
    PROVE  NotesGrow /\ StatusStored' /\ LastStored' /\ BinlogsStored'
<1>1. NotesGrow
    BY DEF StoredInv, NotesGrow, Collect, stores
<1>2. StatusStored'
    BY DEF StoredInv, StatusStored, Collect, stores, Exists
<1>3. cluster'.last = cluster.last
    BY DEF StoredInv, TypeOK
<1> QED
    BY <1>1, <1>2, <1>3 DEF StoredInv, LastStored, BinlogsStored, stores

LEMMA ClusterStored ==
    ASSUME StoredInv,
           ClusterReady \/ DeleteCluster \/ UpdateLastBackup \/ DeleteAllBackup \/ DeleteSomeBackup
    PROVE  NotesGrow /\ StatusStored' /\ LastStored' /\ BinlogsStored'
<1> USE DEF StoredInv
<1>1. CASE ClusterReady \/ DeleteCluster
    <2>1. cluster'.last = cluster.last /\ UNCHANGED <<backup, jobs, stores>>
        BY <1>1 DEF ClusterReady, DeleteCluster, TypeOK
    <2> QED
        BY <2>1 DEF NotesGrow, StatusStored, LastStored, BinlogsStored, stores, Exists
<1>2. CASE UpdateLastBackup
    <2>1. Newest \in Backups /\ Exists(Newest) /\ backup[Newest].status # Nil
        BY <1>2, NewestExists DEF UpdateLastBackup, Named
    <2>2. backup[Newest].status.name \in stored \cup {Nil}
        BY <2>1 DEF StatusStored
    <2>3. cluster'.last = backup[Newest].status.name /\ UNCHANGED <<backup, jobs, stores>>
        BY <1>2 DEF UpdateLastBackup, TypeOK
    <2> QED
        BY <2>2, <2>3 DEF NotesGrow, StatusStored, LastStored, BinlogsStored, stores, Exists
<1>3. CASE DeleteAllBackup
    BY <1>3, CollectStored DEF DeleteAllBackup, Labelled
<1>4. CASE DeleteSomeBackup
    <2>1. PICK S \in SUBSET Backups : Collect(S)
        BY <1>4 DEF DeleteSomeBackup, Labelled
    <2> QED
        BY <1>4, <2>1, CollectStored DEF DeleteSomeBackup
<1> QED
    BY <1>1, <1>2, <1>3, <1>4

LEMMA StoredStep == ASSUME StoredInv, [Next]_vars PROVE StoredInv'
<1>1. TypeOK'
    BY TypeStep DEF StoredInv
<1>2. SUFFICES NotesGrow /\ StatusStored' /\ LastStored' /\ BinlogsStored'
    BY <1>1, NotesStep DEF StoredInv
<1> USE DEF StoredInv
<1>3. CASE UNCHANGED vars
    BY <1>3 DEF vars, NotesGrow, StatusStored, LastStored, BinlogsStored, Exists
<1>4. ASSUME NEW b \in Backups, CreateBackup(b)
      PROVE  NotesGrow /\ StatusStored' /\ LastStored' /\ BinlogsStored'
    <2>1. UNCHANGED <<cluster, jobs, stores>>
        BY <1>4 DEF CreateBackup
    <2>2. PICK a \in Asked : SetBackup(b, [asks |-> a, labelled |-> FALSE, status |-> Nil])
        BY <1>4 DEF CreateBackup
    <2>3. StatusStored'
        BY <2>1, <2>2 DEF StatusStored, SetBackup, TypeOK, Exists, stores
    <2> QED
        BY <2>1, <2>3 DEF NotesGrow, LastStored, BinlogsStored, stores
<1>5. CASE Fire
    <2>1. UNCHANGED <<cluster, backup, stores>>
        BY <1>5 DEF Fire
    <2>2. PICK n \in 1 .. MaxRuns : SetJob([owner |-> cronjob.owner, run |-> n], NewJob(GetBackupHost))
        BY <1>5 DEF Fire
    <2>3. NotesGrow
        BY <2>1, <2>2 DEF NotesGrow, SetJob, NewJob, TypeOK, stores
    <2> QED
        BY <2>1, <2>3, OthersStay DEF stores
<1>6. CASE ServerCrash
    <2>1. UNCHANGED <<cluster, backup, stores>>
        BY <1>6 DEF ServerCrash
    <2>2. \A j \in Jobs : jobs'[j] = IF At(j, "asked") THEN NextTry(jobs[j]) ELSE jobs[j]
        BY <1>6 DEF ServerCrash
    <2>3. \A j \in Jobs : At(j, "asked") => jobs[j] # Nil /\ NextTry(jobs[j]).note = jobs[j].note
                                           /\ NextTry(jobs[j]).pod = "none"
        BY JobAt, NextTryNote DEF At, JobExists
    <2>4. NotesGrow
        BY <2>1, <2>2, <2>3 DEF NotesGrow, stores
    <2> QED
        BY <2>1, <2>4, OthersStay DEF stores
<1> QED
    BY <1>3, <1>4, <1>5, <1>6, ReconcileStored, ClientStored, HandlerStored, ClusterStored
    DEF Next, Reconcile, ReconcileFails, Endpoints

(***************************************************************************)
(* What a Backup or the cluster records, and where binary logs go to, is a *)
(* backup whose processes ended well: the client annotates its job only    *)
(* after the answer of the server, whatever is killed between the two, and *)
(* only the note of a job becomes a name (requestS3Backup,                 *)
(* reconcileManualBackup).  That its end was not lost cannot be proved:    *)
(* see RecordedWhole.                                                      *)
(***************************************************************************)
THEOREM RecordedIsStored == Spec => []RecordedStored
<1>1. Init => StoredInv
    BY InitType DEF Init, StoredInv, NotesStored, StatusStored, LastStored, BinlogsStored,
       JobExists, Exists
<1> QED
    BY <1>1, StoredStep, StoredImplies, PTL DEF Spec

-----------------------------------------------------------------------------
(* The last backup of a cluster without schedules.                         *)

(* A job that has ended has no pod, and its note names itself.             *)
JobShape ==
    \A j \in Jobs : JobExists(j) =>
        /\ jobs[j].at # "open" => jobs[j].pod = "none"
        /\ jobs[j].note = Nil \/ jobs[j].note.job = j

(* A manual Backup with a name has a job that is complete and gave it.     *)
HasName(b) == backup[b].status # Nil /\ backup[b].status.name # Nil
ManualNamed ==
    \A b \in Backups : Exists(b) /\ backup[b].asks.kind = "manual" /\ HasName(b) =>
        /\ backup[b].labelled /\ backup[b].status.state = "Succeeded"
        /\ JobExists(CurrentJob(b)) /\ JobCompleted(CurrentJob(b))
        /\ backup[b].status.name = jobs[CurrentJob(b)].note

(* The last backup is still the name of some Backup.                       *)
NoSchedule == \A b \in Backups : Exists(b) => backup[b].asks.kind = "manual"
Holds(b) == Exists(b) /\ backup[b].status # Nil /\ backup[b].status.name = cluster.last
LastHeld == Up /\ cluster.last # Nil /\ NoSchedule => \E b \in Backups : Holds(b)

ForwardInv == TypeOK /\ JobShape /\ ManualNamed /\ LastHeld

(* Jobs that are complete never change.                                    *)
JobsKept == \A j \in Jobs : jobs[j] # Nil /\ jobs[j].at = "complete" => jobs'[j] = jobs[j]

LEMMA OpenJobStep ==
    ASSUME TypeOK, JobShape, NEW j \in Jobs, JobExists(j), jobs[j].at = "open",
           NEW rec, SetJob(j, rec), rec.at # "open" => rec.pod = "none",
           rec.note \in {jobs[j].note, Name(j)}
    PROVE  JobShape' /\ JobsKept
<1>1. Name(j).job = j
    BY DEF Name
<1>2. jobs'[j] = rec /\ \A i \in Jobs : i # j => jobs'[i] = jobs[i]
    BY DEF SetJob, TypeOK
<1> QED
    BY <1>1, <1>2 DEF JobShape, JobsKept, JobExists

LEMMA NewJobStep ==
    ASSUME TypeOK, JobShape, NEW j \in Jobs, ~JobExists(j), NEW host \in BOOLEAN,
           SetJob(j, NewJob(host))
    PROVE  JobShape' /\ JobsKept
<1>1. NewJob(host).at = "open" /\ NewJob(host).note = Nil
    BY DEF NewJob
<1>2. jobs'[j] = NewJob(host) /\ \A i \in Jobs : i # j => jobs'[i] = jobs[i]
    BY DEF SetJob, TypeOK
<1> QED
    BY <1>1, <1>2 DEF JobShape, JobsKept, JobExists

(* A step that leaves the Backups and the cluster alone.                   *)
LEMMA JobsOnly ==
    ASSUME ForwardInv, JobsKept, UNCHANGED <<cluster, backup>>
    PROVE  ManualNamed' /\ LastHeld'
<1>1. ManualNamed'
    <2> SUFFICES ASSUME NEW b \in Backups, Exists(b), backup[b].asks.kind = "manual", HasName(b)
                 PROVE  /\ backup[b].labelled /\ backup[b].status.state = "Succeeded"
                        /\ jobs'[CurrentJob(b)] # Nil /\ jobs'[CurrentJob(b)].at = "complete"
                        /\ backup[b].status.name = jobs'[CurrentJob(b)].note
        BY DEF ManualNamed, JobExists, JobCompleted, CurrentJob, Exists, HasName
    <2> QED
        BY CurrentJobType DEF ForwardInv, ManualNamed, JobsKept, JobExists, JobCompleted
<1>2. LastHeld'
    BY DEF ForwardInv, LastHeld, Up, NoSchedule, Holds, Exists
<1> QED
    BY <1>1, <1>2

LEMMA ClientForward ==
    ASSUME ForwardInv, NEW j \in Jobs, Client(j) \/ PodKilled(j) \/ XbstreamDies(j)
    PROVE  JobShape' /\ ManualNamed' /\ LastHeld'
<1> USE DEF ForwardInv
<1>1. UNCHANGED <<cluster, backup>>
    BY DEF Client, UploadBinLog, RequestBackup, SetAnnotations, PodKilled, XbstreamDies
<1> SUFFICES JobShape' /\ JobsKept
    BY <1>1, JobsOnly
<1>2. CASE UploadBinLog(j)
    <2>1. JobExists(j) /\ jobs[j] \in Job /\ jobs[j].at = "open" /\ jobs[j].pod = "none"
        BY <1>2, JobAt DEF UploadBinLog, At
    <2> DEFINE rec == [jobs[j] EXCEPT !.at = "complete"]
    <2>2. rec.pod = "none" /\ rec.note = jobs[j].note
        BY <2>1 DEF Job
    <2>3. SetJob(j, rec)
        BY <1>2 DEF UploadBinLog
    <2> HIDE DEF rec
    <2> QED
        BY <2>1, <2>2, <2>3, OpenJobStep
<1>3. CASE RequestBackup(j)
    <2>1. JobExists(j) /\ jobs[j] \in Job /\ jobs[j].at = "open"
        BY <1>3, JobAt DEF RequestBackup, At
    <2>2. CASE jobs[j].host
        <3> DEFINE rec == [jobs[j] EXCEPT !.pod = "asked"]
        <3>1. rec.at = "open" /\ rec.note = jobs[j].note
            BY <2>1 DEF Job
        <3>2. SetJob(j, rec)
            BY <1>3, <2>2 DEF RequestBackup
        <3> HIDE DEF rec
        <3> QED
            BY <2>1, <3>1, <3>2, OpenJobStep
    <2>3. CASE ~jobs[j].host
        <3>1. SetJob(j, NextTry(jobs[j]))
            BY <1>3, <2>3 DEF RequestBackup
        <3> QED
            BY <2>1, <3>1, NextTryNote, OpenJobStep
    <2> QED
        BY <2>2, <2>3
<1>4. ASSUME At(j, "got")
      PROVE  JobExists(j) /\ jobs[j].at = "open" /\ Annotated(j) \in Job /\ Annotated(j).note = Name(j)
    <2>1. JobExists(j) /\ jobs[j] \in Job /\ Name(j) \in BackupName /\ jobs[j].at = "open"
        BY <1>4, JobAt, NameType DEF At
    <2> QED
        BY <2>1 DEF Annotated, Job
<1>5. CASE SetAnnotations(j)
    <2> DEFINE rec == [Annotated(j) EXCEPT !.at = "complete", !.pod = "none"]
    <2>1. At(j, "got") /\ SetJob(j, rec)
        BY <1>5 DEF SetAnnotations
    <2>2. rec.pod = "none" /\ rec.note = Name(j)
        BY <1>4, <2>1 DEF Job
    <2> HIDE DEF rec
    <2> QED
        BY <1>4, <2>1, <2>2, OpenJobStep
<1>6. CASE PodKilled(j)
    <2>1. CASE JobExists(j) /\ jobs[j].pod # "none" /\ SetJob(j, NextTry(jobs[j]))
        <3>1. jobs[j] \in Job /\ jobs[j].at = "open"
            BY <2>1, JobAt DEF JobShape
        <3> QED
            BY <2>1, <3>1, NextTryNote, OpenJobStep
    <2>2. CASE At(j, "got") /\ SetJob(j, NextTry(Annotated(j)))
        <3>1. NextTry(Annotated(j)).note = Name(j) /\ NextTry(Annotated(j)).pod = "none"
            BY <1>4, <2>2, NextTryNote
        <3> QED
            BY <1>4, <2>2, <3>1, OpenJobStep
    <2> QED
        BY <1>6, <2>1, <2>2 DEF PodKilled
<1>7. CASE XbstreamDies(j)
    <2>1. JobExists(j) /\ jobs[j] \in Job /\ jobs[j].at = "open"
        BY <1>7, JobAt DEF XbstreamDies, At
    <2> DEFINE rec == [jobs[j] EXCEPT !.pod = "stuck"]
    <2>2. rec.at = "open" /\ rec.note = jobs[j].note
        BY <2>1 DEF Job
    <2>3. SetJob(j, rec)
        BY <1>7 DEF XbstreamDies
    <2> HIDE DEF rec
    <2> QED
        BY <2>1, <2>2, <2>3, OpenJobStep
<1> QED
    BY <1>2, <1>3, <1>5, <1>6, <1>7 DEF Client

LEMMA HandlerForward ==
    ASSUME ForwardInv, NEW e \in Endpoints,
           Handler(e) \/ HandlerFails(e) \/ (e = "s3" /\ CopyFails)
    PROVE  JobShape' /\ ManualNamed' /\ LastHeld'
<1> USE DEF ForwardInv
<1> DEFINE k == serving[e].job
<1>1. UNCHANGED <<cluster, backup>>
    BY DEF Handler, MaxClients, BackupHandler, CopyFails, AnswerSuccess, HandlerFails
<1> SUFFICES JobShape' /\ JobsKept
    BY <1>1, JobsOnly
<1>2. CASE UNCHANGED jobs
    BY <1>2 DEF JobShape, JobsKept, JobExists
<1>3. ASSUME serving[e] # Nil, LiveClient(serving[e], "asked")
      PROVE  k \in Jobs /\ JobExists(k) /\ jobs[k] \in Job /\ jobs[k].at = "open"
    <2>1. serving[e] \in BackupName
        BY <1>3 DEF TypeOK
    <2>2. k \in Jobs
        BY <2>1 DEF BackupName
    <2> QED
        BY <1>3, <2>2, JobAt DEF LiveClient
<1>4. CASE (BackupHandler(e) \/ (e = "s3" /\ CopyFails)) /\ ~UNCHANGED jobs
    <2> DEFINE rec == [jobs[k] EXCEPT !.pod = "got"]
    <2>1. serving[e] # Nil /\ LiveClient(serving[e], "asked") /\ SetJob(k, rec)
        BY <1>4 DEF BackupHandler, CopyFails, AnswerSuccess, SetJob
    <2>2. rec.at = "open" /\ rec.note = jobs[k].note
        BY <1>3, <2>1 DEF Job
    <2> HIDE DEF rec, k
    <2> QED
        BY <1>3, <2>1, <2>2, OpenJobStep
<1>5. CASE HandlerFails(e) /\ ~UNCHANGED jobs
    <2>1. serving[e] # Nil /\ LiveClient(serving[e], "asked") /\ SetJob(k, NextTry(jobs[k]))
        BY <1>5 DEF HandlerFails, AnswerError, SetJob
    <2> HIDE DEF k
    <2> QED
        BY <1>3, <2>1, NextTryNote, OpenJobStep
<1> QED
    BY <1>2, <1>4, <1>5 DEF Handler, MaxClients

LEMMA ReconcileForward ==
    ASSUME ForwardInv, NEW b \in Backups, NEW applied \in BOOLEAN, NEW patched \in BOOLEAN,
           ReconcileWith(b, applied, patched)
    PROVE  JobShape' /\ ManualNamed' /\ LastHeld'
<1> USE DEF ForwardInv
<1>1. Exists(b) /\ backup[b] \in Backup /\ cluster' = cluster
    BY DEF ReconcileWith, TypeOK, Exists
<1>2. ASSUME NEW new,
             backup' = [backup EXCEPT ![b] = [backup[b] EXCEPT !.labelled = TRUE, !.status = new]]
      PROVE  /\ backup'[b].asks = backup[b].asks /\ backup'[b].labelled /\ backup'[b].status = new
             /\ \A c \in Backups : c # b => backup'[c] = backup[c]
    BY <1>1, <1>2 DEF TypeOK, Backup
<1>3. CASE backup[b].asks.kind = "manual"
    <2>1. ReconcileManual(b, applied, patched)
        BY <1>3 DEF ReconcileWith
    <2> DEFINE new == IF patched THEN AfterManual(b) ELSE backup[b].status
               j == CurrentJob(b)
    <2>2. JobShape' /\ JobsKept
        <3>1. CASE UNCHANGED jobs
            BY <3>1 DEF JobShape, JobsKept, JobExists
        <3>2. CASE ~JobExists(j) /\ SetJob(j, NewJob(GetBackupHost))
            BY <3>2, CurrentJobType, NewJobStep DEF GetBackupHost
        <3> QED
            BY <2>1, <3>1, <3>2 DEF ReconcileManual
    <2>3. /\ backup'[b].asks = backup[b].asks /\ backup'[b].labelled /\ backup'[b].status = new
          /\ \A c \in Backups : c # b => backup'[c] = backup[c]
        BY <1>2, <2>1 DEF ReconcileManual, SetBackup
    <2>4. HasName(b) => /\ backup[b].status.state = "Succeeded"
                        /\ jobs[j] # Nil /\ jobs[j].at = "complete" /\ jobs[j].note = backup[b].status.name
        BY <1>1, <1>3 DEF ManualNamed, JobExists, JobCompleted
    <2>5. HasName(b) => new # Nil /\ new.name = backup[b].status.name
        <3>1. AfterManual(b) # Nil
            BY <1>1, AfterManualType, NilAssumption
        <3>2. ASSUME HasName(b) PROVE AfterManual(b).name = backup[b].status.name
            BY <2>4, <3>2 DEF AfterManual, ManualStatus, JobCompleted, HasName, JobExists
        <3> QED
            BY <3>1, <3>2 DEF HasName
    <2>6. new # Nil /\ new.name # Nil =>
             /\ new.state = "Succeeded" /\ jobs[j] # Nil /\ jobs[j].at = "complete"
             /\ new.name = jobs[j].note
        <3>1. CASE HasName(b)
            BY <2>4, <3>1 DEF AfterManual, ManualStatus, JobCompleted, HasName, JobExists, StateOf
        <3>2. CASE ~HasName(b)
            BY <3>2 DEF AfterManual, ManualStatus, JobCompleted, HasName, JobExists, StateOf, NewStatus
        <3> QED
            BY <3>1, <3>2
    <2> HIDE DEF new, j
    <2>7. j \in Jobs /\ j = CurrentJob(b) /\ \A c \in Backups : CurrentJob(c) \in Jobs
        BY CurrentJobType DEF j
    <2>8. ManualNamed'
        <3> SUFFICES ASSUME NEW c \in Backups, Exists(c)', (backup[c].asks.kind = "manual")', HasName(c)'
                     PROVE  /\ backup'[c].labelled /\ backup'[c].status.state = "Succeeded"
                            /\ jobs'[CurrentJob(c)] # Nil /\ jobs'[CurrentJob(c)].at = "complete"
                            /\ backup'[c].status.name = jobs'[CurrentJob(c)].note
            BY DEF ManualNamed, JobExists, JobCompleted, CurrentJob
        <3>1. CASE c = b
            BY <2>2, <2>3, <2>6, <2>7, <3>1 DEF HasName, JobsKept
        <3>2. CASE c # b
            BY <2>2, <2>3, <2>7, <3>2 DEF ManualNamed, HasName, Exists, JobsKept, JobExists, JobCompleted
        <3> QED
            BY <3>1, <3>2
    <2>9. LastHeld'
        <3>1. backup'[b] # Nil
            <4>1. new \in Status \cup {Nil}
                BY <1>1, AfterManualType DEF new, Backup
            <4>2. [backup[b] EXCEPT !.labelled = TRUE, !.status = new] \in Backup
                BY <1>1, <4>1 DEF Backup
            <4>3. backup'[b] = [backup[b] EXCEPT !.labelled = TRUE, !.status = new]
                BY <2>1 DEF ReconcileManual, SetBackup, TypeOK, new
            <4> QED
                BY <4>2, <4>3, NilAssumption
        <3> SUFFICES ASSUME Up, cluster.last # Nil, NoSchedule' PROVE \E c \in Backups : Holds(c)'
            BY <1>1 DEF LastHeld, Up
        <3>2. NoSchedule
            BY <1>3, <2>3 DEF NoSchedule, Exists
        <3>3. PICK c \in Backups : Holds(c)
            BY <3>2 DEF LastHeld
        <3>4. CASE c = b
            <4>1. HasName(b)
                BY <3>3, <3>4 DEF Holds, HasName
            <4>2. backup'[b].status # Nil /\ backup'[b].status.name = cluster.last
                BY <2>3, <2>5, <3>3, <3>4, <4>1 DEF Holds
            <4> QED
                BY <1>1, <3>1, <4>2 DEF Holds, Exists
        <3>5. CASE c # b
            BY <1>1, <2>3, <3>3, <3>5 DEF Holds, Exists
        <3> QED
            BY <3>4, <3>5
    <2> QED
        BY <2>2, <2>8, <2>9
<1>4. CASE backup[b].asks.kind # "manual"
    <2>1. ReconcileCron(b, applied, patched)
        BY <1>4 DEF ReconcileWith
    <2> DEFINE new == IF patched THEN AfterCron(b) ELSE backup[b].status
    <2>2. UNCHANGED jobs /\ SetBackup(b, [backup[b] EXCEPT !.labelled = TRUE, !.status = new])
        BY <2>1 DEF ReconcileCron
    <2>3. /\ backup'[b].asks = backup[b].asks
          /\ \A c \in Backups : c # b => backup'[c] = backup[c]
        BY <1>2, <2>2 DEF SetBackup
    <2>4. backup'[b] # Nil
        <3>1. new \in Status \cup {Nil}
            BY <1>1, AfterCronType DEF Backup
        <3>2. [backup[b] EXCEPT !.labelled = TRUE, !.status = new] \in Backup
            BY <1>1, <3>1 DEF Backup
        <3> QED
            BY <2>2, <3>2, NilAssumption DEF SetBackup, TypeOK
    <2> HIDE DEF new
    <2>5. JobShape'
        BY <2>2 DEF JobShape, JobExists
    <2>6. ManualNamed'
        BY <1>4, <2>2, <2>3 DEF ManualNamed, HasName, Exists, JobExists, JobCompleted, CurrentJob
    <2>7. ~NoSchedule'
        BY <1>4, <2>3, <2>4 DEF NoSchedule, Exists
    <2> QED
        BY <2>5, <2>6, <2>7 DEF LastHeld
<1> QED
    BY <1>3, <1>4

LEMMA CollectForward ==
    ASSUME ForwardInv, NEW S \in SUBSET Backups, Collect(S),
           cluster' = [cluster EXCEPT !.state = "gone"]
    PROVE  JobShape' /\ ManualNamed' /\ LastHeld'
<1> USE DEF ForwardInv
<1>1. JobShape'
    BY DEF JobShape, Collect, JobExists
<1>2. ManualNamed'
    <2>1. \A b \in Backups : CurrentJob(b) \in Jobs /\ CurrentJob(b).owner = b
        BY CurrentJobType DEF CurrentJob
    <2>2. \A b \in Backups : Exists(b)' => b \notin S /\ backup'[b] = backup[b]
                                       /\ jobs'[CurrentJob(b)] = jobs[CurrentJob(b)]
        BY <2>1 DEF Collect, Exists
    <2> SUFFICES ASSUME NEW b \in Backups, Exists(b)', (backup[b].asks.kind = "manual")', HasName(b)'
                 PROVE  /\ backup'[b].labelled /\ backup'[b].status.state = "Succeeded"
                        /\ jobs'[CurrentJob(b)] # Nil /\ jobs'[CurrentJob(b)].at = "complete"
                        /\ backup'[b].status.name = jobs'[CurrentJob(b)].note
        BY DEF ManualNamed, JobExists, JobCompleted, CurrentJob
    <2> QED
        BY <2>2 DEF ManualNamed, HasName, Exists, JobExists, JobCompleted
<1>3. ~Up'
    BY DEF TypeOK, Up
<1> QED
    BY <1>1, <1>2, <1>3 DEF LastHeld

LEMMA ForwardStep == ASSUME ForwardInv, [Next]_vars PROVE ForwardInv'
<1>1. TypeOK'
    BY TypeStep DEF ForwardInv
<1>2. SUFFICES JobShape' /\ ManualNamed' /\ LastHeld'
    BY <1>1 DEF ForwardInv
<1> USE DEF ForwardInv
<1>3. ASSUME UNCHANGED jobs PROVE JobShape' /\ JobsKept
    BY <1>3 DEF JobShape, JobsKept, JobExists
<1>4. CASE UNCHANGED vars
    BY <1>3, <1>4, JobsOnly DEF vars
<1>5. ASSUME NEW b \in Backups, CreateBackup(b) PROVE JobShape' /\ ManualNamed' /\ LastHeld'
    <2>1. UNCHANGED <<cluster, jobs>> /\ ~Exists(b)
        BY <1>5 DEF CreateBackup
    <2>2. PICK a \in Asked : SetBackup(b, [asks |-> a, labelled |-> FALSE, status |-> Nil])
        BY <1>5 DEF CreateBackup
    <2>3. backup'[b].status = Nil /\ \A c \in Backups : c # b => backup'[c] = backup[c]
        BY <2>2 DEF SetBackup, TypeOK
    <2>4. ManualNamed'
        BY <2>1, <2>3 DEF ManualNamed, HasName, Exists, JobExists, JobCompleted, CurrentJob
    <2>5. LastHeld'
        <3> SUFFICES ASSUME Up, cluster.last # Nil, NoSchedule' PROVE \E c \in Backups : Holds(c)'
            BY <2>1 DEF LastHeld, Up
        <3>1. NoSchedule
            BY <2>1, <2>3 DEF NoSchedule, Exists
        <3>2. PICK c \in Backups : Holds(c)
            BY <3>1 DEF LastHeld
        <3> QED
            BY <2>1, <2>3, <3>2 DEF Holds, Exists
    <2> QED
        BY <1>3, <2>1, <2>4, <2>5
<1>6. CASE Fire
    <2>1. PICK n \in 1 .. MaxRuns :
              /\ ~JobExists([owner |-> cronjob.owner, run |-> n])
              /\ SetJob([owner |-> cronjob.owner, run |-> n], NewJob(GetBackupHost))
        BY <1>6 DEF Fire
    <2>2. [owner |-> cronjob.owner, run |-> n] \in Jobs
        BY <1>6 DEF Fire, TypeOK, Jobs
    <2>3. GetBackupHost \in BOOLEAN
        BY DEF GetBackupHost
    <2>4. JobShape' /\ JobsKept
        BY <2>1, <2>2, <2>3, NewJobStep
    <2> QED
        BY <1>6, <2>4, JobsOnly DEF Fire
<1>7. CASE ServerCrash
    <2>1. \A j \in Jobs : jobs'[j] = IF At(j, "asked") THEN NextTry(jobs[j]) ELSE jobs[j]
        BY <1>7 DEF ServerCrash
    <2>2. \A j \in Jobs : At(j, "asked") => /\ jobs[j] # Nil /\ jobs[j].at = "open"
                                           /\ NextTry(jobs[j]).note = jobs[j].note
                                           /\ NextTry(jobs[j]).pod = "none"
        BY JobAt, NextTryNote DEF At, JobExists
    <2>3. JobShape' /\ JobsKept
        BY <2>1, <2>2 DEF JobShape, JobsKept, JobExists
    <2> QED
        BY <1>7, <2>3, JobsOnly DEF ServerCrash
<1>8. CASE ClusterReady \/ DeleteCluster
    <2>1. UNCHANGED <<backup, jobs>> /\ cluster'.last = cluster.last /\ (Up' => Up)
        BY <1>8 DEF ClusterReady, DeleteCluster, TypeOK, Up
    <2>2. ManualNamed'
        BY <2>1 DEF ManualNamed, HasName, Exists, JobExists, JobCompleted, CurrentJob
    <2>3. LastHeld'
        BY <2>1 DEF LastHeld, NoSchedule, Holds, Exists
    <2> QED
        BY <1>3, <2>1, <2>2, <2>3
<1>9. CASE UpdateLastBackup
    <2>1. UNCHANGED <<backup, jobs>> /\ cluster'.last = backup[Newest].status.name
        BY <1>9 DEF UpdateLastBackup, TypeOK
    <2>2. Newest \in Backups /\ Exists(Newest) /\ backup[Newest].status # Nil
        BY <1>9, NewestExists DEF UpdateLastBackup, Named
    <2>3. ManualNamed'
        BY <2>1 DEF ManualNamed, HasName, Exists, JobExists, JobCompleted, CurrentJob
    <2>4. \E c \in Backups : Holds(c)'
        BY <2>1, <2>2 DEF Holds, Exists
    <2> QED
        BY <1>3, <2>1, <2>3, <2>4 DEF LastHeld
<1>10. CASE DeleteAllBackup
    BY <1>10, CollectForward DEF DeleteAllBackup, Labelled
<1>11. CASE DeleteSomeBackup
    <2>1. PICK S \in SUBSET Backups : Collect(S)
        BY <1>11 DEF DeleteSomeBackup, Labelled
    <2> QED
        BY <1>11, <2>1, CollectForward DEF DeleteSomeBackup
<1> QED
    BY <1>4, <1>5, <1>6, <1>7, <1>8, <1>9, <1>10, <1>11,
       ReconcileForward, ClientForward, HandlerForward
    DEF Next, Reconcile, ReconcileFails, Endpoints

(* The Backup whose name is the last is one of those the syncer chooses    *)
(* from.                                                                   *)
LEMMA UpdateForward ==
    ASSUME ForwardInv, UpdateLastBackup, NoSchedule, cluster.last # Nil
    PROVE  cluster'.last.job.owner >= cluster.last.job.owner
<1> USE DEF ForwardInv
<1>1. ASSUME NEW b \in Backups, Exists(b), HasName(b)
      PROVE  b \in Named /\ backup[b].status.name.job.owner = b
    <2>1. /\ backup[b].labelled /\ backup[b].status.state = "Succeeded"
          /\ JobExists(CurrentJob(b)) /\ backup[b].status.name = jobs[CurrentJob(b)].note
        BY <1>1 DEF NoSchedule, ManualNamed
    <2>2. backup[b].status.name.job = CurrentJob(b)
        BY <1>1, <2>1, CurrentJobType DEF JobShape, HasName
    <2> QED
        BY <1>1, <2>1, <2>2 DEF Named, HasName, CurrentJob
<1>2. PICK c \in Backups : Holds(c)
    BY DEF LastHeld, UpdateLastBackup
<1>3. c \in Named /\ cluster.last.job.owner = c
    BY <1>1, <1>2 DEF Holds, HasName
<1>4. Newest \in Named /\ c <= Newest
    BY <1>3, NewestExists
<1>5. cluster'.last = backup[Newest].status.name
    BY DEF UpdateLastBackup, TypeOK
<1>6. cluster'.last.job.owner = Newest
    BY <1>1, <1>4, <1>5 DEF Named, HasName
<1> QED
    BY <1>3, <1>4, <1>6, BackupsAssumption DEF Named

(***************************************************************************)
(* As long as the cluster has no schedule, the last backup moves only to   *)
(* newer Backups: the name of a manual Backup stays once it is given, and  *)
(* the syncer chooses the newest (updateLastBackup,                        *)
(* reconcileManualBackup).                                                 *)
(***************************************************************************)
THEOREM LastMovesForward == Spec => LastForward
<1>1. Init => ForwardInv
    BY InitType DEF Init, ForwardInv, JobShape, ManualNamed, LastHeld, JobExists, Exists
<1>2. ASSUME ForwardInv, [Next]_vars
      PROVE  [\/ cluster.last = Nil
              \/ \E b \in Backups : Exists(b) /\ backup[b].asks.kind = "cron"
              \/ cluster'.last.job.owner >= cluster.last.job.owner]_vars
    <2> SUFFICES ASSUME cluster.last # Nil, NoSchedule
                 PROVE  cluster'.last.job.owner >= cluster.last.job.owner
        <3>1. \A b \in Backups : Exists(b) => backup[b].asks.kind \in {"manual", "cron"}
            <4>1. \A a \in Asked : a.kind \in {"manual", "cron"}
                BY AskedAssumption
            <4>2. \A b \in Backups : Exists(b) => backup[b].asks \in Asked
                BY <1>2 DEF ForwardInv, TypeOK, Exists, Backup
            <4> QED
                BY <4>1, <4>2
        <3> QED
            BY <3>1 DEF NoSchedule
    <2>1. cluster.last.job.owner \in Nat
        <3>1. cluster.last \in BackupName
            BY <1>2 DEF ForwardInv, TypeOK
        <3> QED
            BY <3>1, BackupsAssumption DEF BackupName, Jobs
    <2>2. CASE UpdateLastBackup
        BY <1>2, <2>2, UpdateForward
    <2>3. ASSUME ~UpdateLastBackup PROVE cluster'.last = cluster.last
        <3>1. CASE ClusterReady \/ DeleteCluster \/ DeleteAllBackup \/ DeleteSomeBackup
            BY <1>2, <3>1 DEF ForwardInv, TypeOK, ClusterReady, DeleteCluster,
               DeleteAllBackup, DeleteSomeBackup
        <3>2. CASE UNCHANGED vars \/ Fire \/ ServerCrash
            BY <3>2 DEF vars, Fire, ServerCrash
        <3>3. CASE \E b \in Backups : CreateBackup(b) \/ Reconcile(b) \/ ReconcileFails(b)
            BY <3>3 DEF CreateBackup, Reconcile, ReconcileFails, ReconcileWith
        <3>4. CASE \E j \in Jobs : Client(j) \/ PodKilled(j) \/ XbstreamDies(j)
            BY <3>4 DEF Client, UploadBinLog, RequestBackup, SetAnnotations, PodKilled, XbstreamDies
        <3>5. CASE CopyFails \/ \E e \in Endpoints : Handler(e) \/ HandlerFails(e)
            BY <3>5 DEF Handler, MaxClients, BackupHandler, CopyFails, AnswerSuccess, HandlerFails
        <3> QED
            BY <1>2, <2>3, <3>1, <3>2, <3>3, <3>4, <3>5 DEF Next
    <2> QED
        BY <2>1, <2>2, <2>3
<1> QED
    BY <1>1, <1>2, ForwardStep, PTL DEF Spec, LastForward
=============================================================================
