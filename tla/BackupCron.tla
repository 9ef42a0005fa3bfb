----------------------------- MODULE BackupCron -----------------------------
(***************************************************************************)
(* Scheduled backups: the BackupCron controller, which keeps the registry  *)
(* of cron entries (controllers/backupcron_controller.go), and the runs of *)
(* the entries, which create and delete Backup resources                   *)
(* (backup/cronbackup.go).                                                 *)
(*                                                                         *)
(* The registry is in the memory of the operator and lost at a restart.    *)
(* One reconcile at a time works on a copy of a cluster; every operation   *)
(* on the registry holds LockJobRegister and is one action.  The runs are  *)
(* goroutines that overlap with each other and with the reconcile, and     *)
(* list the backups from an informer cache that lags.                      *)
(*                                                                         *)
(* Two entries that are equal in every field are one here; they could only *)
(* arise between clusters of one name in two namespaces.                   *)
(***************************************************************************)
EXTENDS Naturals, FiniteSets

CONSTANTS
    Namespaces, Names,  \* of clusters
    Schedules,   \* schedules cron.Parse accepts
    Bad,         \* a schedule cron.Parse refuses, in BothS3NFS also an empty one
    Addresses,   \* NFS servers
    Images,      \* sidecar images
    Limits,      \* backupScheduleJobsHistoryLimit
    None,        \* an absent object or an empty field
    Runs,        \* bound: runs of entries at the same time
    MaxEdits,    \* bound: creations, edits and deletions of clusters
    MaxBackups,  \* bound: scheduled backups ever created
    MaxFaults    \* bound: failed calls and operator restarts

ASSUME NoneAssumption == None \notin Schedules \cup {Bad} \cup Addresses \cup Limits
ASSUME BadAssumption == Bad \notin Schedules
ASSUME BoundsAssumption == MaxEdits \in Nat /\ MaxBackups \in Nat /\ MaxFaults \in Nat
ASSUME LimitsAssumption == Limits \subseteq Nat

Clusters == Namespaces \X Names
NameOf(c) == c[2]
Types == {"auto", "nfs", "s3"}

(* BothS3NFS: a schedule for each of the two storages.                     *)
BothVal == [{"nfs", "s3"} -> Schedules \cup {Bad}]

(* The fields the controller reads; up: replicas is not 0.  The webhook    *)
(* asks for an NFS server with BothS3NFS (validBothS3NFS).                 *)
ClusterSpec ==
    {s \in [up : BOOLEAN, schedule : Schedules \cup {Bad, None}, both : BothVal \cup {None},
            address : Addresses \cup {None}, image : Images, limit : Limits \cup {None}] :
        s.both # None => s.address # None}

(* The types of entry a cluster asks for, and the fields of each.          *)
Asked(s) == IF s.both # None THEN {"nfs", "s3"}
            ELSE IF s.schedule # None THEN {"auto"} ELSE {}
ScheduleOf(s, t) == IF t = "auto" THEN s.schedule ELSE s.both[t]
AddressOf(s, t) == IF t = "s3" THEN None ELSE s.address

(* A registered CronJob.  A backup: n is its creation time.                *)
Entry == [cluster : Clusters, type : Types, schedule : Schedules,
          address : Addresses \cup {None}, image : Images, limit : Limits \cup {None}]
Backup == [cluster : Clusters, n : 1 .. MaxBackups, completed : BOOLEAN]

VARIABLES
    spec,     \* the MysqlCluster resources, None when absent
    pending,  \* clusters in the work queue
    rec,      \* the reconcile: its cluster, copy and step; Idle between two
    entries,  \* the entries registered in cron
    run,      \* each run: its step, the entry, backups still to delete
    backups,  \* the Backup resources with recurrent=true
    seen,     \* what the cache shows of them
    budget    \* [edits, made, faults] used so far

vars == <<spec, pending, rec, entries, run, backups, seen, budget>>

Idle == [step |-> "idle"]
RecSteps == {"zero", "deactivate", "nfs", "s3", "auto"}
RecVal == [step : RecSteps, cluster : Clusters, spec : ClusterSpec] \cup {Idle}
RunSteps == {"need", "count", "create", "gc", "delete"}
RunVal == [step : RunSteps, entry : Entry, extra : SUBSET (1 .. MaxBackups)] \cup {Idle}

TypeOK ==
    /\ spec \in [Clusters -> ClusterSpec \cup {None}]
    /\ pending \subseteq Clusters
    /\ rec \in RecVal
    /\ entries \subseteq Entry
    /\ run \in [Runs -> RunVal]
    /\ backups \subseteq Backup /\ seen \subseteq Backup
    /\ \A b \in backups \cup seen : b.n <= budget.made
    /\ budget \in [edits : 0 .. MaxEdits, made : 0 .. MaxBackups, faults : 0 .. MaxFaults]

Init ==
    /\ spec = [c \in Clusters |-> None]
    /\ pending = {} /\ rec = Idle
    /\ entries = {} /\ run = [r \in Runs |-> Idle]
    /\ backups = {} /\ seen = {}
    /\ budget = [edits |-> 0, made |-> 0, faults |-> 0]

Fault ==
    /\ budget.faults < MaxFaults
    /\ budget' = [budget EXCEPT !.faults = @ + 1]

-----------------------------------------------------------------------------
(* The user, the cache, the backup jobs, the operator's process.           *)
EditCluster(c) ==
    /\ budget.edits < MaxEdits
    /\ \E s \in (ClusterSpec \cup {None}) \ {spec[c]} : spec' = [spec EXCEPT ![c] = s]
    /\ pending' = pending \cup {c}
    /\ budget' = [budget EXCEPT !.edits = @ + 1]
    /\ UNCHANGED <<rec, entries, run, backups, seen>>

SyncCache ==
    /\ seen # backups
    /\ seen' = backups
    /\ UNCHANGED <<spec, pending, rec, entries, run, backups, budget>>

(* The backup controller records that the job is over.                     *)
Complete(b) ==
    /\ ~b.completed
    /\ backups' = (backups \ {b}) \cup {[b EXCEPT !.completed = TRUE]}
    /\ UNCHANGED <<spec, pending, rec, entries, run, seen, budget>>

(* The new process starts with an event for every cluster.                 *)
Restart ==
    /\ Fault
    /\ rec' = Idle /\ entries' = {} /\ run' = [r \in Runs |-> Idle]
    /\ pending' = {c \in Clusters : spec[c] # None}
    /\ seen' = backups
    /\ UNCHANGED <<spec, backups>>

-----------------------------------------------------------------------------
(* The registry.  cron orders its entries by the next firing time, so any  *)
(* entry may be met first: each operation has a set of outcomes.           *)

(* Cron.Remove: the entries' names are without the namespace.              *)
Remove(E, c, t) ==
    LET named == {e \in E : NameOf(e.cluster) = NameOf(c) /\ e.type = t}
    IN IF named = {} THEN {E} ELSE {E \ {e} : e \in named}

EntriesOf(E, c, t) == {e \in E : e.cluster = c /\ e.type = t}

ClearBothS3NFS(E, c) ==
    LET both == EntriesOf(E, c, "nfs") \cup EntriesOf(E, c, "s3")
    IN IF both = {} THEN {E} ELSE UNION {Remove(E, c, e.type) : e \in both}

NewEntry(c, s, t) ==
    [cluster |-> c, type |-> t, schedule |-> ScheduleOf(s, t),
     address |-> AddressOf(s, t), image |-> s.image, limit |-> s.limit]

(* An s3 entry is without address and so always outdated with BothS3NFS.   *)
OutdatedBySchedule(e, s, t) == e.schedule # ScheduleOf(s, t)
Outdated(e, s, t) == e.schedule # ScheduleOf(s, t) \/ e.address # s.address

UpdateClusterSchedule(E, c, s, t) ==
    LET own == EntriesOf(E, c, t)
        Replaced == {F \cup {NewEntry(c, s, t)} : F \in Remove(E, c, t)}
        Kept(e) == (E \ {e}) \cup {[e EXCEPT !.image = s.image]}
    IN IF own = {} THEN {E \cup {NewEntry(c, s, t)}}
       ELSE UNION {IF Outdated(e, s, t) THEN Replaced ELSE {Kept(e)} : e \in own}

-----------------------------------------------------------------------------
(* The reconcile.                                                          *)
Branch(s) == IF s.both # None THEN "nfs"
             ELSE IF s.schedule # None THEN "auto" ELSE "deactivate"

(* Get; of a cluster that is gone, an entry with the empty name is removed. *)
Fetch(c) ==
    /\ rec = Idle /\ c \in pending
    /\ pending' = pending \ {c}
    /\ rec' = IF spec[c] = None THEN Idle
              ELSE [step |-> IF spec[c].up THEN Branch(spec[c]) ELSE "zero",
                    cluster |-> c, spec |-> spec[c]]
    /\ UNCHANGED <<spec, entries, run, backups, seen, budget>>

(* Get or Validate fails: the error requeues the cluster.                  *)
FetchFailsForGood(c) ==
    /\ rec = Idle /\ c \in pending
    /\ Fault
    /\ pending' = pending \ {c}
    /\ UNCHANGED <<spec, rec, entries, run, backups, seen>>
FetchFails(c) ==
    /\ rec = Idle /\ c \in pending
    /\ Fault
    /\ UNCHANGED <<spec, pending, rec, entries, run, backups, seen>>

At(step) == rec # Idle /\ rec.step = step
Goto(step) == rec' = [rec EXCEPT !.step = step]

CloseCluster ==
    /\ At("zero")
    /\ \E E \in Remove(entries, rec.cluster, "auto") :
          entries' \in ClearBothS3NFS(E, rec.cluster)
    /\ Goto(Branch(rec.spec))
    /\ UNCHANGED <<spec, pending, run, backups, seen, budget>>

Deactivate ==
    /\ At("deactivate")
    /\ entries' \in Remove(entries, rec.cluster, "auto")
    /\ rec' = Idle
    /\ UNCHANGED <<spec, pending, run, backups, seen, budget>>

ParsesAnything(t) == TRUE
Parses(t) == ScheduleOf(rec.spec, t) # Bad

(* cron.Parse fails: what was registered before stays, the cluster is      *)
(* requeued.                                                               *)
ParseError == rec' = Idle /\ pending' = pending \cup {rec.cluster}

(* One schedule of BothS3NFS.                                              *)
RegisterBoth(t) ==
    /\ At(t)
    /\ IF Parses(t)
       THEN /\ entries' \in UpdateClusterSchedule(entries, rec.cluster, rec.spec, t)
            /\ IF t = "nfs" THEN Goto("s3") ELSE rec' = Idle
            /\ UNCHANGED pending
       ELSE ParseError /\ UNCHANGED entries
    /\ UNCHANGED <<spec, run, backups, seen, budget>>

RegisterAuto ==
    /\ At("auto")
    /\ \E E \in ClearBothS3NFS(entries, rec.cluster) :
          IF Parses("auto")
          THEN /\ entries' \in UpdateClusterSchedule(E, rec.cluster, rec.spec, "auto")
               /\ rec' = Idle /\ UNCHANGED pending
          ELSE ParseError /\ entries' = E
    /\ UNCHANGED <<spec, run, backups, seen, budget>>

-----------------------------------------------------------------------------
(* The run of an entry.                                                    *)
Running(r, step) == run[r] # Idle /\ run[r].step = step
GotoRun(r, step) == run' = [run EXCEPT ![r].step = step]

(* The end of Run, with the deferred backupGC if there is a limit.         *)
Return(r) ==
    run' = [run EXCEPT ![r] = IF @.entry.limit = None THEN Idle ELSE [@ EXCEPT !.step = "gc"]]

Fire(r) ==
    /\ run[r] = Idle /\ budget.made < MaxBackups
    /\ \E e \in entries :
          run' = [run EXCEPT ![r] = [step |-> "need", entry |-> e, extra |-> {}]]
    /\ UNCHANGED <<spec, pending, rec, entries, backups, seen, budget>>

(* backupNeedRun: the cluster exists and has replicas.                     *)
Needed(r) == LET s == spec[run[r].entry.cluster] IN s # None /\ s.up
NeedRun(r) ==
    /\ Running(r, "need")
    /\ IF Needed(r) THEN GotoRun(r, "count") ELSE Return(r)
    /\ UNCHANGED <<spec, pending, rec, entries, backups, seen, budget>>

NeedFails(r) ==
    /\ Running(r, "need") /\ Fault
    /\ Return(r)
    /\ UNCHANGED <<spec, pending, rec, entries, backups, seen>>

(* scheduledBackupsRunningCount: the list is without the selector, so that *)
(* also a backup made by a user, at any time, may be the one that runs.    *)
CountRunning(r) ==
    /\ Running(r, "count")
    /\ \/ Return(r)
       \/ (\A b \in seen : b.completed) /\ GotoRun(r, "create")
    /\ UNCHANGED <<spec, pending, rec, entries, backups, seen, budget>>

(* An error of the list counts as no running backup.                       *)
CountFails(r) ==
    /\ Running(r, "count") /\ Fault
    /\ GotoRun(r, "create")
    /\ UNCHANGED <<spec, pending, rec, entries, backups, seen>>

CreateBackup(r) ==
    /\ Running(r, "create") /\ budget.made < MaxBackups
    /\ budget' = [budget EXCEPT !.made = @ + 1]
    /\ backups' = backups \cup {[cluster |-> run[r].entry.cluster, n |-> budget.made + 1,
                                 completed |-> FALSE]}
    /\ Return(r)
    /\ UNCHANGED <<spec, pending, rec, entries, seen>>

(* Also without a fault: with the conversion webhook a new v1alpha1 Backup *)
(* is refused for its empty backup date.                                   *)
CreateFails(r) ==
    /\ Running(r, "create")
    /\ Return(r)
    /\ UNCHANGED <<spec, pending, rec, entries, backups, seen, budget>>

(* The backups of the cluster in the order of byTimestamp, newest first:   *)
(* those at index limit and beyond.  No two are of the same second here.   *)
OldestFirst(a, b) == a.n < b.n
BeforeInOrder(a, b) == a.n > b.n
Extra(list, c, limit) ==
    {b \in list : b.cluster = c
        /\ Cardinality({a \in list : a.cluster = c /\ BeforeInOrder(a, b)}) >= limit}

(* The loop over the extra backups, left when there are none.              *)
Delete(r, extra) ==
    run' = [run EXCEPT ![r] =
               IF extra = {} THEN Idle
               ELSE [step |-> "delete", entry |-> run[r].entry, extra |-> extra]]

BackupGC(r) ==
    /\ Running(r, "gc")
    /\ LET e == run[r].entry IN Delete(r, {b.n : b \in Extra(seen, e.cluster, e.limit)})
    /\ UNCHANGED <<spec, pending, rec, entries, backups, seen, budget>>

GCFails(r) ==
    /\ Running(r, "gc") /\ Fault
    /\ run' = [run EXCEPT ![r] = Idle]
    /\ UNCHANGED <<spec, pending, rec, entries, backups, seen>>

(* One turn of the loop, also over a backup that is gone by now or whose   *)
(* deletion fails.                                                         *)
DeleteTurn(r, n) ==
    /\ Running(r, "delete") /\ n \in run[r].extra
    /\ \A m \in run[r].extra : m <= n
    /\ Delete(r, run[r].extra \ {n})
    /\ UNCHANGED <<spec, pending, rec, entries, seen>>

DeleteBackup(r, n) ==
    /\ DeleteTurn(r, n)
    /\ backups' = {b \in backups : b.n # n}
    /\ UNCHANGED budget

DeleteFails(r, n) == DeleteTurn(r, n) /\ Fault /\ UNCHANGED backups

-----------------------------------------------------------------------------
World == (\E c \in Clusters : EditCluster(c)) \/ SyncCache
         \/ (\E b \in backups : Complete(b)) \/ Restart

Reconcile ==
    \/ \E c \in Clusters : Fetch(c)
    \/ CloseCluster \/ Deactivate \/ RegisterAuto
    \/ \E t \in {"nfs", "s3"} : RegisterBoth(t)

RunStep(r) ==
    \/ Fire(r) \/ NeedRun(r) \/ NeedFails(r) \/ CountRunning(r) \/ CountFails(r)
    \/ CreateBackup(r) \/ CreateFails(r) \/ BackupGC(r) \/ GCFails(r)
    \/ \E n \in 1 .. MaxBackups : DeleteBackup(r, n) \/ DeleteFails(r, n)

Next == World \/ Reconcile \/ (\E c \in Clusters : FetchFails(c)) \/ (\E r \in Runs : RunStep(r))

Spec == Init /\ [][Next]_vars

(* The work queue serves every cluster in turn; nothing is promised about
   the runs.                                                               *)
FairSpec == Spec /\ WF_vars(Reconcile) /\ \A c \in Clusters : SF_vars(Fetch(c))

-----------------------------------------------------------------------------
(* What the controller promises.                                           *)

(***************************************************************************)
(* Once a cluster's reconcile is over, every schedule it asks for is       *)
(* registered, once, with the schedule, NFS server and image of the        *)
(* resource, whatever it asked for before and whichever entries were       *)
(* fired, re-created or lost with the process in between (Reconcile,       *)
(* updateClusterSchedule).  A cluster without replicas is no exception:    *)
(* its entries are removed and then registered again.  The history limit   *)
(* is not among the fields, see LimitFollows.                              *)
(***************************************************************************)
Settled(c) == c \notin pending /\ (rec # Idle => rec.cluster # c)

Serves(e, s, t) ==
    e.schedule = ScheduleOf(s, t) /\ e.address = AddressOf(s, t) /\ e.image = s.image

RegisteredAs(E, c, s, t) ==
    \E e \in E : EntriesOf(E, c, t) = {e} /\ Serves(e, s, t)

Registered(c) == \A t \in Asked(spec[c]) : RegisteredAs(entries, c, spec[c], t)

AskedRegistered == \A c \in Clusters : Settled(c) /\ spec[c] # None => Registered(c)

(***************************************************************************)
(* "If set keeps last BackupScheduleJobsHistoryLimit Backups": what is     *)
(* registered for a settled cluster has the limit of the resource.  The    *)
(* comparison of updateClusterSchedule leaves the limit out, so that the   *)
(* code does not keep this.                                                *)
(***************************************************************************)
LimitFollows ==
    \A c \in Clusters : Settled(c) /\ spec[c] # None =>
        \A t \in Asked(spec[c]) : \A e \in EntriesOf(entries, c, t) : e.limit = spec[c].limit

(***************************************************************************)
(* The registration happens: after the edits, the faults and the restarts, *)
(* which empty the registry, every cluster whose schedules parse ends up   *)
(* registered for good (Reconcile, requeued on errors).                    *)
(***************************************************************************)
AllParse(s) == \A t \in Asked(s) : ScheduleOf(s, t) # Bad
EventuallyRegistered ==
    \A c \in Clusters : <>[](spec[c] # None /\ AllParse(spec[c]) => Registered(c))

(***************************************************************************)
(* "If set keeps last BackupScheduleJobsHistoryLimit Backups": what a run  *)
(* deletes has as many newer backups of its cluster as the smallest limit, *)
(* although runs overlap, list from an old cache and were registered with  *)
(* different limits (backupGC).                                            *)
(***************************************************************************)
Newer(b) == {a \in backups : a.cluster = b.cluster /\ a.n > b.n}
KeepsLast ==
    [][\A b \in backups : (\A a \in backups' : a.n # b.n) =>
          \E l \in Limits : Cardinality(Newer(b)) >= l]_vars

(***************************************************************************)
(* The inductive strengthening of AskedRegistered.  It needs clusters that *)
(* differ in their names, since cron knows the entries by name.            *)
(***************************************************************************)
NamesDistinct == \A c, d \in Clusters : NameOf(c) = NameOf(d) => c = d

OneEach(E) == \A e, f \in E : e.cluster = f.cluster /\ e.type = f.type => e = f

(* No s3 entry has an address, so that one is never taken for up to date.  *)
S3Bare(E) == \A e \in E : e.type = "s3" => e.address = None

(* The copy of a reconcile is current unless its cluster is queued again.  *)
CopyCurrent ==
    rec # Idle => rec.cluster \in pending \/ spec[rec.cluster] = rec.spec

(* A reconcile is at a step of its branch, and past the steps before it.   *)
BranchTaken ==
    rec # Idle /\ rec.step # "zero" =>
       IF rec.step = "s3"
       THEN Branch(rec.spec) = "nfs" /\ RegisteredAs(entries, rec.cluster, rec.spec, "nfs")
       ELSE rec.step = Branch(rec.spec)

IndInv ==
    /\ TypeOK /\ OneEach(entries) /\ S3Bare(entries)
    /\ CopyCurrent /\ BranchTaken /\ AskedRegistered
=============================================================================
