--------------------------- MODULE RollingUpdate ---------------------------
(***************************************************************************)
(* The StatefulSetSyncer of the MysqlCluster controller                    *)
(* (mysqlcluster/syncer/statefulset.go): how an edit of the MysqlCluster   *)
(* spec reaches the StatefulSet, how the pods are then replaced one by one *)
(* (the update strategy is OnDelete, so the operator deletes them itself)  *)
(* and how the claims of removed ordinals are cleaned up.                  *)
(*                                                                         *)
(* The operator reads and writes API objects one call at a time, while     *)
(* the user edits the spec, the StatefulSet controller and the kubelet     *)
(* work on the pods, the status syncer relabels them and backups come and  *)
(* go.  The reconciles of one cluster are serialised by the work queue, so *)
(* there is one operator process; what it holds (snap, updateRev, copy) is a copy *)
(* that may be stale when it is used.                                      *)
(***************************************************************************)
EXTENDS Integers, FiniteSets

CONSTANTS
    MaxReplicas,  \* ordinals are 0 .. MaxReplicas - 1
    MaxImage,     \* bound: images 0 .. MaxImage, each edit takes the next one
    MaxConfig,    \* bound: config revisions 0 .. MaxConfig (cmRev, sctRev, ...)
    MaxResizes,   \* bound: edits of spec.replicas
    MaxBackups,   \* bound: Backup resources created
    MaxFaults,    \* bound: container crashes, evictions, API errors, restarts
    Starts        \* the clusters a behaviour may start from (Start)

ASSUME ReplicasAssumption == MaxReplicas \in Nat \ {0}
ASSUME BoundsAssumption ==
    /\ MaxImage \in Nat /\ MaxConfig \in Nat /\ MaxResizes \in Nat
    /\ MaxBackups \in Nat /\ MaxFaults \in Nat

(* A start: how many pods are asked for, whether they run already, the image *)
(* and configuration they have, and what of the bounds is used up.          *)
Start == [replicas : 0 .. MaxReplicas, running : BOOLEAN,
          image : 0 .. MaxImage, config : 0 .. MaxConfig,
          backups : 0 .. MaxBackups, resizes : 0 .. MaxResizes, faults : 0 .. MaxFaults]
ASSUME StartsAssumption == Starts \subseteq Start

Pods == 0 .. MaxReplicas - 1
None == -1                      \* no pod

(* A pod template, which the StatefulSet controller turns into a revision. *)
Template == [image : 0 .. MaxImage, config : 0 .. MaxConfig, upgrade : BOOLEAN]
(* Status.UpdateRevision is "" until the controller has seen the object.   *)
NoTemplate == [image |-> -1, config |-> -1, upgrade |-> FALSE]
Revision == Template \cup {NoTemplate}

Phase == {"none", "starting", "ready", "failed", "terminating"}
(* healthy and leader are the labels healthy=yes and role=LEADER.          *)
PodRecord == [phase : Phase, rev : Revision, healthy : BOOLEAN, leader : BOOLEAN]
NoPod == [phase |-> "none", rev |-> NoTemplate, healthy |-> FALSE, leader |-> FALSE]

VARIABLES
    spec,       \* MysqlCluster.Spec: replicas, image, config
    sfs,        \* the StatefulSet: exists, replicas, template, needUpdate label
    status,     \* StatefulSet.Status as last written by its controller
    pods,       \* the pods by ordinal
    leader,     \* the pod xenon has elected, or None
    pvc,        \* the data claims by ordinal
    backups,    \* [created, running]: Backup resources not completed
    budget,     \* [resizes, faults] used so far
    (* the operator's reconcile *)
    pc,         \* where the reconcile is
    snap,       \* the spec it fetched
    updateRev,  \* s.sfs.Status.UpdateRevision as fetched with the StatefulSet
    todo,       \* listed pods the loop of updatePod has not come to
    copy,       \* the listed pods as last fetched
    cur,        \* the pod applyNWait works on
    leaderPod,  \* the pod deferred by the loop
    (* observation of the reconcile, for the properties *)
    down,       \* pods this reconcile deleted that were not ready since
    firstLeader \* first listed pod seen with role=LEADER

external == <<leader, budget>>
objects  == <<spec, sfs, status, pods, pvc, backups>>
local    == <<snap, updateRev, todo, copy, cur, leaderPod, firstLeader>>
vars == <<objects, external, pc, local, down>>

PcVal == {"idle", "updatePod", "poll", "delete", "wait", "pvc"}
StatusVal == [replicas : 0 .. MaxReplicas, ready : 0 .. MaxReplicas,
              updated : 0 .. MaxReplicas, updateRev : Revision]
SpecVal == [replicas : 0 .. MaxReplicas, image : 0 .. MaxImage, config : 0 .. MaxConfig]

TypeOK ==
    /\ spec \in SpecVal
    /\ sfs \in [exists : BOOLEAN, replicas : 0 .. MaxReplicas,
                template : Revision, needUpdate : BOOLEAN]
    /\ status \in StatusVal
    /\ pods \in [Pods -> PodRecord]
    /\ leader \in Pods \cup {None}
    /\ pvc \in [Pods -> {"none", "bound", "deleting"}]
    /\ backups \in [created : 0 .. MaxBackups, running : 0 .. MaxBackups]
    /\ backups.running <= backups.created
    /\ budget \in [resizes : 0 .. MaxResizes, faults : 0 .. MaxFaults]
    /\ pc \in PcVal
    /\ snap \in SpecVal
    /\ updateRev \in Revision
    /\ todo \subseteq Pods
    /\ copy \in [Pods -> PodRecord]
    /\ cur \in Pods \cup {None}
    /\ pc \in {"delete", "wait"} => cur \in Pods
    /\ leaderPod \in Pods \cup {None}
    /\ down \subseteq Pods
    /\ firstLeader \in Pods \cup {None}

NoSpec == [replicas |-> 0, image |-> 0, config |-> 0]
FirstTemplate(s) == [image |-> s.image, config |-> s.config, upgrade |-> FALSE]

(* The operator holds nothing between two reconciles.                      *)
InitLocal ==
    /\ pc = "idle" /\ snap = NoSpec /\ updateRev = NoTemplate
    /\ todo = {} /\ copy = [p \in Pods |-> NoPod] /\ cur = None /\ leaderPod = None
    /\ down = {} /\ firstLeader = None

(* The pods and labels of the cluster a behaviour starts from.             *)
SettledPods(s) ==
    [p \in Pods |-> IF s.running /\ p < s.replicas
                    THEN [phase |-> "ready", rev |-> FirstTemplate(s),
                          healthy |-> TRUE, leader |-> p = 0]
                    ELSE NoPod]

InitWith(s) ==
    /\ spec = [replicas |-> s.replicas, image |-> s.image, config |-> s.config]
    /\ backups = [created |-> s.backups, running |-> 0]
    /\ budget = [resizes |-> s.resizes, faults |-> s.faults]
    /\ InitLocal
    /\ LET n == IF s.running THEN s.replicas ELSE 0
       IN  /\ sfs = [exists |-> s.running, replicas |-> n, needUpdate |-> FALSE,
                     template |-> IF s.running THEN FirstTemplate(s) ELSE NoTemplate]
           /\ status = [replicas |-> n, ready |-> n, updated |-> n, updateRev |-> sfs.template]
           /\ pods = SettledPods(s)
           /\ leader = IF n > 0 THEN 0 ELSE None
           /\ pvc = [p \in Pods |-> IF p < n THEN "bound" ELSE "none"]

Init == \E s \in Starts : InitWith(s)

Exists(p) == pods[p].phase # "none"
Ready(p)  == pods[p].phase = "ready"
Terminating(p) == pods[p].phase = "terminating"
Live(p) == Exists(p) /\ ~Terminating(p)
Fault == /\ budget.faults < MaxFaults
         /\ budget' = [budget EXCEPT !.faults = @ + 1]

-----------------------------------------------------------------------------
(* The user: kubectl edits of the MysqlCluster, and Backup resources.      *)
EditImage ==
    /\ spec.image < MaxImage
    /\ spec' = [spec EXCEPT !.image = @ + 1]
    /\ UNCHANGED <<sfs, status, pods, pvc, backups, external, pc, local, down>>

EditConfig ==
    /\ spec.config < MaxConfig
    /\ spec' = [spec EXCEPT !.config = @ + 1]
    /\ UNCHANGED <<sfs, status, pods, pvc, backups, external, pc, local, down>>

EditReplicas(n) ==
    /\ budget.resizes < MaxResizes /\ n # spec.replicas
    /\ spec' = [spec EXCEPT !.replicas = n]
    /\ budget' = [budget EXCEPT !.resizes = @ + 1]
    /\ UNCHANGED <<sfs, status, pods, pvc, backups, leader, pc, local, down>>

BackupStart ==
    /\ backups.created < MaxBackups
    /\ backups' = [created |-> backups.created + 1, running |-> backups.running + 1]
    /\ UNCHANGED <<spec, sfs, status, pods, pvc, external, pc, local, down>>

BackupDone ==
    /\ backups.running > 0
    /\ backups' = [backups EXCEPT !.running = @ - 1]
    /\ UNCHANGED <<spec, sfs, status, pods, pvc, external, pc, local, down>>

-----------------------------------------------------------------------------
(* The StatefulSet controller, ordered pod management (external).          *)
StsStatus ==
    /\ sfs.exists
    /\ status' = [replicas  |-> Cardinality({p \in Pods : Exists(p)}),
                  ready     |-> Cardinality({p \in Pods : Ready(p)}),
                  updated   |-> Cardinality({p \in Pods : Live(p) /\ pods[p].rev = sfs.template}),
                  updateRev |-> sfs.template]
    /\ UNCHANGED <<spec, sfs, pods, pvc, backups, external, pc, local, down>>

(* A new pod carries the labels of the template: role=CANDIDATE, healthy=no. *)
NewPod == [phase |-> "starting", rev |-> sfs.template, healthy |-> FALSE, leader |-> FALSE]

StsCreate(p) ==
    /\ sfs.exists /\ p < sfs.replicas /\ ~Exists(p)
    /\ \A q \in Pods : q < p => Ready(q)
    /\ pvc[p] # "deleting"
    /\ pods' = [pods EXCEPT ![p] = NewPod]
    /\ pvc' = [pvc EXCEPT ![p] = "bound"]
    /\ UNCHANGED <<spec, sfs, status, backups, external, pc, local, down>>

StsScaleDown(p) ==
    /\ sfs.exists /\ p >= sfs.replicas
    /\ Live(p)
    /\ \A q \in Pods : q > p => ~Exists(q)
    /\ pods' = [pods EXCEPT ![p].phase = "terminating"]
    /\ UNCHANGED <<spec, sfs, status, pvc, backups, external, pc, local, down>>

StsReplaceFailed(p) ==
    /\ sfs.exists /\ pods[p].phase = "failed"
    /\ pods' = [pods EXCEPT ![p].phase = "terminating"]
    /\ UNCHANGED <<spec, sfs, status, pvc, backups, external, pc, local, down>>

(* The kubelet, the claim protection and xenon's election (external).      *)
PodReady(p) ==
    /\ pods[p].phase = "starting"
    /\ pods' = [pods EXCEPT ![p].phase = "ready"]
    /\ down' = down \ {p}
    /\ UNCHANGED <<spec, sfs, status, pvc, backups, external, pc, local>>

PodGone(p) ==
    /\ pods[p].phase = "terminating"
    /\ pods' = [pods EXCEPT ![p] = NoPod]
    /\ UNCHANGED <<spec, sfs, status, pvc, backups, external, pc, local, down>>

PodCrash(p) ==
    /\ Fault /\ Ready(p)
    /\ \E ph \in {"starting", "failed"} : pods' = [pods EXCEPT ![p].phase = ph]
    /\ UNCHANGED <<spec, sfs, status, pvc, backups, leader, pc, local, down>>

PvcGone(p) ==
    /\ pvc[p] = "deleting" /\ ~Exists(p)
    /\ pvc' = [pvc EXCEPT ![p] = "none"]
    /\ UNCHANGED <<spec, sfs, status, pods, backups, external, pc, local, down>>

Elect(p) ==
    /\ Ready(p)
    /\ IF leader = None THEN TRUE ELSE ~Ready(leader)
    /\ leader' = p
    /\ UNCHANGED <<objects, budget, pc, local, down>>

(***************************************************************************)
(* updatePodLabel of the status syncer: the labels follow what the syncer  *)
(* sees of the pod, some time later.                                       *)
(***************************************************************************)
Relabelled(p) == [phase |-> pods[p].phase, rev |-> pods[p].rev,
                  healthy |-> Ready(p), leader |-> leader = p /\ Live(p)]

UpdatePodLabel(p) ==
    /\ Exists(p)
    /\ pods' = [pods EXCEPT ![p] = Relabelled(p)]
    /\ UNCHANGED <<spec, sfs, status, pvc, backups, external, pc, local, down>>

-----------------------------------------------------------------------------
(* The operator.                                                           *)
Goto(l) == pc' = l
(* The reconcile returns, with or without an error, and is requeued.       *)
Finish ==
    /\ pc' = "idle" /\ snap' = NoSpec /\ updateRev' = NoTemplate
    /\ todo' = {} /\ copy' = [p \in Pods |-> NoPod] /\ cur' = None /\ leaderPod' = None
    /\ down' = {} /\ firstLeader' = None

(***************************************************************************)
(* mutate: the template and the needUpdate label the cluster asks for.     *)
(* The reconcile fetches the cluster, then the StatefulSet; nobody else    *)
(* writes the latter's spec, so the two reads are one step.                *)
(***************************************************************************)
NeedUpdate ==
    \/ sfs.needUpdate
    \/ sfs.exists /\ sfs.template.image # spec.image
MutatedTemplate == [image |-> spec.image, config |-> spec.config, upgrade |-> NeedUpdate]
MutatedOneMore == [exists |-> TRUE, replicas |-> spec.replicas + 1,
                   template |-> MutatedTemplate, needUpdate |-> NeedUpdate]
Mutated == [exists |-> TRUE, replicas |-> spec.replicas,
            template |-> MutatedTemplate, needUpdate |-> NeedUpdate]

SfsUpdated == sfs.replicas # spec.replicas \/ sfs.template # MutatedTemplate

PodsAllUpdated == \A p \in Pods : Exists(p) => pods[p].rev = status.updateRev

CreateSfs ==
    /\ pc = "idle" /\ ~sfs.exists
    /\ sfs' = Mutated
    /\ UNCHANGED <<spec, status, pods, pvc, backups, external, pc, local, down>>

AllUpdatedKeepsLabel ==
    /\ pc = "idle" /\ sfs.exists /\ ~SfsUpdated /\ PodsAllUpdated
    /\ UNCHANGED vars

(* Nothing to change and no pod of an old revision: drop the needUpdate
   label once every pod is ready; updatePVC is not reached.                *)
AllUpdated ==
    /\ pc = "idle" /\ sfs.exists /\ ~SfsUpdated /\ PodsAllUpdated
    /\ sfs' = IF status.ready = status.replicas
              THEN [sfs EXCEPT !.needUpdate = FALSE] ELSE sfs
    /\ UNCHANGED <<spec, status, pods, pvc, backups, external, pc, local, down>>

(* The early returns at the head of updatePod, on the status fetched with
   the StatefulSet: all pods updated, or not all of them ready.            *)
NothingToUpdate == status.updated = spec.replicas
NotAllReadyOffByOne == status.ready <= status.replicas
NotAllReady == status.ready < status.replicas

EnterUpdatePod ==
    /\ snap' = spec
    /\ updateRev' = status.updateRev
    /\ Goto(IF NothingToUpdate \/ NotAllReady THEN "pvc" ELSE "updatePod")
    /\ UNCHANGED <<todo, copy, cur, leaderPod, firstLeader, down>>

(* A failed list counts as "not all updated" in podsAllUpdated and as "no
   backup" in backupIsRunning.                                             *)
ListFails == Fault

ContinueUpdate ==
    /\ pc = "idle" /\ sfs.exists /\ ~SfsUpdated
    /\ (~PodsAllUpdated /\ UNCHANGED budget) \/ ListFails
    /\ EnterUpdatePod
    /\ UNCHANGED <<objects, leader>>

(* cli.Update; the status in s.sfs is the one stored with the old object.  *)
UpdateSfs ==
    /\ pc = "idle" /\ sfs.exists /\ SfsUpdated
    /\ sfs' = Mutated
    /\ EnterUpdatePod
    /\ UNCHANGED <<spec, status, pods, pvc, backups, external>>

BackupIsRunning == backups.running > 0

RefuseDuringBackup ==
    /\ pc = "updatePod" /\ BackupIsRunning
    /\ Finish
    /\ UNCHANGED <<objects, external>>

ListPods ==
    /\ pc = "updatePod"
    /\ (~BackupIsRunning /\ UNCHANGED budget) \/ ListFails
    /\ todo' = {p \in Pods : Exists(p)}
    /\ copy' = pods
    /\ Goto("poll")
    /\ UNCHANGED <<objects, leader, snap, updateRev, cur, leaderPod, firstLeader, down>>

(* cli.Get into a pod already held: a pod that is gone leaves the copy.    *)
Fetched(p) == IF Exists(p) THEN pods[p] ELSE copy[p]
Get(p) == copy' = [copy EXCEPT ![p] = Fetched(p)]

(***************************************************************************)
(* One turn of the loop: the cache lists the pods in any order.  The first *)
(* leader is put off; applyNWait starts on any other pod, deleting it if   *)
(* the revision label of the copy is old.                                  *)
(***************************************************************************)
DeferredNever(p) == FALSE
Deferred(p) == Fetched(p).leader /\ leaderPod = None
ApplyNWait(p) ==
    /\ cur' = p
    /\ Goto(IF copy'[p].rev = updateRev THEN "wait" ELSE "delete")

PollHealthy(p) ==
    /\ pc = "poll" /\ p \in todo /\ Fetched(p).healthy
    /\ Deferred(p) \/ updateRev # NoTemplate
    /\ Get(p)
    /\ todo' = todo \ {p}
    /\ firstLeader' = IF firstLeader = None /\ Fetched(p).leader THEN p ELSE firstLeader
    /\ IF Deferred(p)
       THEN leaderPod' = p /\ UNCHANGED <<pc, cur>>
       ELSE ApplyNWait(p) /\ UNCHANGED leaderPod
    /\ UNCHANGED <<objects, external, snap, updateRev, down>>

PollUnhealthy(p) ==
    /\ pc = "poll" /\ p \in todo /\ ~Fetched(p).healthy
    /\ Finish
    /\ UNCHANGED <<objects, external>>

UpdateLeader ==
    /\ pc = "poll" /\ todo = {} /\ leaderPod # None
    /\ updateRev # NoTemplate
    /\ UNCHANGED copy
    /\ ApplyNWait(leaderPod)
    /\ UNCHANGED <<objects, external, snap, updateRev, todo, leaderPod, firstLeader, down>>

NoLeaderToUpdate ==
    /\ pc = "poll" /\ todo = {} /\ leaderPod = None
    /\ Goto("pvc")
    /\ UNCHANGED <<objects, external, local, down>>

(* applyNWait refuses to start before the controller reported a revision.  *)
EmptyRevision ==
    /\ pc = "poll" /\ updateRev = NoTemplate
    /\ \/ todo = {} /\ leaderPod # None
       \/ \E p \in todo : Fetched(p).healthy /\ ~Deferred(p)
    /\ Finish
    /\ UNCHANGED <<objects, external>>

DeletePod ==
    /\ pc = "delete" /\ snap.replicas # 0
    /\ Live(cur) /\ pods[cur].rev # updateRev
    /\ Get(cur)
    /\ pods' = [pods EXCEPT ![cur].phase = "terminating"]
    /\ down' = down \cup {cur}
    /\ UNCHANGED <<spec, sfs, status, pvc, backups, external, pc, snap, updateRev, todo, cur,
                   leaderPod, firstLeader>>

PodReplaced ==
    /\ pc = "delete" /\ Exists(cur)
    /\ \/ snap.replicas = 0
       \/ Live(cur) /\ pods[cur].rev = updateRev
    /\ Get(cur)
    /\ Goto("wait")
    /\ UNCHANGED <<objects, external, snap, updateRev, todo, cur, leaderPod, firstLeader, down>>

(* Two minutes without the pod coming back: wait.ErrWaitTimeout.           *)
DeleteTimeout ==
    /\ pc = "delete" /\ ~Live(cur)
    /\ snap.replicas = 0 => ~Exists(cur)
    /\ Finish
    /\ UNCHANGED <<objects, external>>

HealthyUnchecked(p) == TRUE
Healthy(p) == Fetched(p).healthy
Updated(p) == Fetched(p).rev = updateRev
Removed(p) == p >= snap.replicas
Failed(p)  == Fetched(p).phase = "failed"

WaitDone ==
    /\ pc = "wait"
    /\ Removed(cur) \/ (~Failed(cur) /\ Healthy(cur) /\ Updated(cur))
    /\ Get(cur)
    /\ Goto(IF cur = leaderPod THEN "pvc" ELSE "poll")
    /\ UNCHANGED <<objects, external, snap, updateRev, todo, cur, leaderPod, firstLeader, down>>

(* A failed pod, a healthy pod of another revision, or two hours.          *)
WaitError ==
    /\ pc = "wait" /\ ~Removed(cur)
    /\ Failed(cur) \/ ~(Healthy(cur) /\ Updated(cur))
    /\ Finish
    /\ UNCHANGED <<objects, external>>

(* updatePVC.                                                              *)
ExtraOffByOne(p) == p >= snap.replicas - 1
Extra(p) == p >= snap.replicas

DeletePvc(p) ==
    /\ pc = "pvc" /\ snap.replicas # 0
    /\ Extra(p) /\ pvc[p] = "bound"
    /\ pvc' = [pvc EXCEPT ![p] = "deleting"]
    /\ UNCHANGED <<spec, sfs, status, pods, backups, external, pc, local, down>>

UpdatePvcDone ==
    /\ pc = "pvc"
    /\ snap.replicas = 0 \/ \A p \in Pods : Extra(p) => pvc[p] # "bound"
    /\ Finish
    /\ UNCHANGED <<objects, external>>

(* Any API call of the reconcile may fail, and the operator may restart.   *)
OperatorFails ==
    /\ pc # "idle" /\ Fault
    /\ Finish
    /\ UNCHANGED <<objects, leader>>

-----------------------------------------------------------------------------
User == EditImage \/ EditConfig \/ BackupStart \/ BackupDone
        \/ \E n \in 0 .. MaxReplicas : EditReplicas(n)

Kubernetes ==
    \/ StsStatus
    \/ \E p \in Pods :
          \/ StsCreate(p) \/ StsScaleDown(p) \/ StsReplaceFailed(p)
          \/ PodReady(p) \/ PodGone(p) \/ PodCrash(p)
          \/ PvcGone(p) \/ Elect(p) \/ UpdatePodLabel(p)

Operator ==
    \/ CreateSfs \/ AllUpdated \/ ContinueUpdate \/ UpdateSfs
    \/ RefuseDuringBackup \/ ListPods
    \/ UpdateLeader \/ NoLeaderToUpdate \/ EmptyRevision \/ DeletePod \/ PodReplaced \/ DeleteTimeout
    \/ WaitDone \/ WaitError \/ UpdatePvcDone
    \/ \E p \in Pods : PollHealthy(p) \/ PollUnhealthy(p) \/ DeletePvc(p)

Next == User \/ Kubernetes \/ Operator \/ OperatorFails

Spec == Init /\ [][Next]_vars

(***************************************************************************)
(* Nobody has to edit the spec or create a backup, and nothing has to      *)
(* fail.  A reconcile that ended is requeued (error, resync, or the watch  *)
(* on the StatefulSet); Kubernetes keeps working; backups end; the status  *)
(* syncer visits every pod every five seconds.                             *)
(***************************************************************************)
Fairness ==
    /\ WF_vars(Operator) /\ SF_vars(DeleteTimeout)   \* a poll lasts two minutes at most
    /\ WF_vars(StsStatus) /\ WF_vars(BackupDone)
    /\ \A p \in Pods :
          /\ WF_vars(StsCreate(p)) /\ WF_vars(StsScaleDown(p)) /\ WF_vars(StsReplaceFailed(p))
          /\ WF_vars(PodReady(p)) /\ WF_vars(PodGone(p)) /\ WF_vars(PvcGone(p))
          /\ WF_vars(Elect(p)) /\ WF_vars(UpdatePodLabel(p))

FairSpec == Spec /\ Fairness

-----------------------------------------------------------------------------
(* What the syncer promises.                                               *)

(***************************************************************************)
(* The inductive strengthening of the safety properties below.             *)
(***************************************************************************)

(* The StatefulSet keeps the replicas of the spec the reconcile works on.  *)
SnapshotApplied == pc # "idle" => snap.replicas = sfs.replicas

(* The loop is past the pod being replaced and past the deferred leader,
   which comes when there is no other.                                     *)
LoopOrder ==
    /\ pc \in {"delete", "wait"} => cur \notin todo
    /\ pc \in {"delete", "wait"} /\ cur = leaderPod => todo = {}
    /\ pc \in {"idle", "updatePod"} => leaderPod = None
    /\ leaderPod \notin todo
    /\ firstLeader = leaderPod

(* Only the pod being replaced can be down, and it does not look settled.  *)
Unsettled(r) == ~(r.healthy /\ r.rev = updateRev)
DownPod(p) ==
    /\ pods[p].phase \in {"none", "terminating", "starting"}
    /\ pods[p].phase = "starting" => ~pods[p].healthy /\ p < snap.replicas
    /\ pods[p].phase = "terminating" => Unsettled(pods[p])
DownInv ==
    /\ pc \notin {"delete", "wait"} => down = {}
    /\ down \subseteq {cur}
    /\ down # {} => snap.replicas # 0
    /\ \A p \in down : DownPod(p)
    /\ pc = "wait" => \A p \in down : Unsettled(copy[p]) /\ p < snap.replicas

(* A listed pod the loop has dealt with was fetched healthy and updated.   *)
Handled(q) == copy[q].healthy /\ copy[q].rev = updateRev
HandledInv ==
    pc \in {"poll", "delete", "wait"} =>
       \A q \in Pods :
          copy[q].phase # "none" /\ q < snap.replicas =>
             \/ q \in todo \/ q = leaderPod \/ Handled(q)
             \/ pc \in {"delete", "wait"} /\ q = cur

IndInv == TypeOK /\ SnapshotApplied /\ LoopOrder /\ DownInv /\ HandledInv

(***************************************************************************)
(* A reconcile keeps at most one of the pods it deleted down at a time:    *)
(* updatePod goes on only when applyNWait has seen the last one healthy on *)
(* the new revision (statefulset.go, updatePod and applyNWait).            *)
(***************************************************************************)
OneRestartAtATime == \A p, q \in down : p = q

(***************************************************************************)
(* "update follower nodes first": when the pod first seen as the leader is *)
(* deleted, every other listed pod that the cluster keeps has been fetched *)
(* healthy on the update revision (statefulset.go, updatePod).             *)
(***************************************************************************)
FollowersFirst ==
    [][DeletePod /\ cur = firstLeader =>
         \A q \in Pods \ {cur} :
            copy[q].phase # "none" /\ q < snap.replicas =>
                copy[q].healthy /\ copy[q].rev = updateRev]_vars

(***************************************************************************)
(* updatePVC deletes only claims of ordinals that the StatefulSet no       *)
(* longer has, whatever was edited since the reconcile began.              *)
(***************************************************************************)
WantedClaimsKept ==
    [][\A p \in Pods : pvc[p] = "bound" /\ pvc'[p] = "deleting"
                        => p >= sfs.replicas]_vars

(***************************************************************************)
(* When the edits are over, the pods are exactly the ordinals asked for,   *)
(* all ready on the template asked for, the NEED_UPGRADE marker of an      *)
(* image change removed again.                                             *)
(***************************************************************************)
Converged ==
    \A p \in Pods :
       IF p < spec.replicas
       THEN /\ Ready(p)
            /\ pods[p].rev = [image |-> spec.image, config |-> spec.config, upgrade |-> FALSE]
       ELSE ~Exists(p)
EventuallyConverged == <>[]Converged

=============================================================================
