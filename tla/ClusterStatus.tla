--------------------------- MODULE ClusterStatus ----------------------------
(***************************************************************************)
(* The status of a cluster: the status controller, which syncs it every    *)
(* five seconds (controllers/status_controller.go, syncer/status.go), and  *)
(* the patch of the cluster controller (controllers/                       *)
(* mysqlcluster_controller.go), each working on a copy of the resource.    *)
(*                                                                         *)
(* A sync has two steps.  It fetches the resource, lists the pods in the   *)
(* order of the cache, which is arbitrary, and repairs the raft members of *)
(* the nodes its copy of the status records; then it records the nodes,    *)
(* labels the pods and patches the fields of the status it has changed.    *)
(* The pods, raft, the cluster controller and the user run in between.     *)
(***************************************************************************)
EXTENDS Naturals, Sequences, FiniteSets

CONSTANTS
    MaxReplicas,   \* the largest number of replicas asked for
    MaxReadOnlys,  \* and of read-only nodes
    Remote,        \* spec.remoteCluster is set
    Nil,           \* an absent object or field
    MaxEvents,     \* bound: edits, labels set by users, faults, elections
    MaxUpdates     \* bound: rolling updates

ASSUME SizesAssumption == MaxReplicas \in Nat \ {0} /\ MaxReadOnlys \in Nat
ASSUME RemoteAssumption == Remote \in BOOLEAN
ASSUME StatusBounds == MaxEvents \in Nat /\ MaxUpdates \in Nat

Ordinals == 0 .. MaxReplicas - 1
Sizes == 0 .. MaxReplicas
ReadOnlyNums == (0 .. MaxReadOnlys) \cup {Nil}

States == {"", "Initializing", "Updating", "Ready", "Closed", "ScaleIn", "ScaleOut"}
Conds == {"Init", "Update", "Ready", "Close", "Error", "ScaleIn", "ScaleOut", "RemoteSlave"}

(* Nodes are recorded by host: a pod of the cluster or a read-only pod.    *)
Db(p) == [kind |-> "db", ordinal |-> p]
Ro(i) == [kind |-> "ro", ordinal |-> i]
Hosts == {Db(p) : p \in Ordinals} \cup {Ro(i) : i \in 0 .. MaxReadOnlys - 1}
NodeStatus == [host : Hosts, raft : SUBSET Ordinals]

(* conds: the conditions that are True, Nil before they are initialized.   *)
Status == [state : States, conds : (SUBSET Conds) \cup {Nil},
           ready : Sizes, nodes : Seq(NodeStatus)]
NoStatus == [state |-> "", conds |-> Nil, ready |-> 0, nodes |-> <<>>]

(* A pod: at is where it is in its life, term its deletion timestamp; the  *)
(* labels the syncer reads and writes; sql, what the database is like:     *)
(* lagged and broken are of a follower's replication, frozen is a leader   *)
(* with super_read_only.                                                   *)
Pod == [at : {"pending", "starting", "ready"}, term : BOOLEAN,
        role : {"LEADER", "FOLLOWER", "UNKNOWN", ""}, healthy : BOOLEAN,
        rebuild : BOOLEAN, try : BOOLEAN, sql : {"good", "lagged", "broken", "frozen"}]

VARIABLES
    spec,     \* [replicas, ro]: ro is ReadOnlys.Num, Nil without ReadOnlys
    pods,     \* the pods of the cluster, Nil when absent
    ropods,   \* the number of read-only pods
    leader,   \* the raft leader, Nil when there is none
    peers,    \* the raft members each pod's xenon knows
    status,   \* the stored status
    sync,     \* the status sync under way
    upd,      \* the state in the cluster controller's copy during an update
    budget    \* [events, updates] used so far

vars == <<spec, pods, ropods, leader, peers, status, sync, upd, budget>>
world == <<spec, pods, ropods, leader, peers>>

SyncVal == [spec : [replicas : Sizes, ro : ReadOnlyNums], old : Status, new : Status,
            list : Seq(Ordinals), seen : [Ordinals -> {"absent", "leaving", "down", "up"}],
            labels : [Ordinals -> [role : {"LEADER", "FOLLOWER", "UNKNOWN", ""}, healthy : BOOLEAN]]]

ASSUME NilAssumption == Nil \notin SyncVal \cup [size : Sizes, phase : States]

TypeOK ==
    /\ spec \in [replicas : Sizes, ro : ReadOnlyNums]
    /\ pods \in [Ordinals -> Pod \cup {Nil}]
    /\ ropods \in 0 .. MaxReadOnlys
    /\ leader \in Ordinals \cup {Nil}
    /\ peers \in [Ordinals -> SUBSET Ordinals]
    /\ status \in Status
    /\ sync \in SyncVal \cup {Nil}
    /\ upd \in States \cup {Nil}
    /\ budget \in [events : 0 .. MaxEvents, updates : 0 .. MaxUpdates]

Init ==
    /\ spec \in [replicas : Sizes, ro : {Nil}]
    /\ pods = [p \in Ordinals |-> Nil] /\ ropods = 0
    /\ leader = Nil /\ peers = [p \in Ordinals |-> {}]
    /\ status = NoStatus /\ sync = Nil /\ upd = Nil
    /\ budget = [events |-> 0, updates |-> 0]

Event ==
    /\ budget.events < MaxEvents
    /\ budget' = [budget EXCEPT !.events = @ + 1]

-----------------------------------------------------------------------------
(* The user, the StatefulSets, the pods and raft.                          *)
EditSpec ==
    /\ Event
    /\ \/ \E r \in Sizes \ {spec.replicas} : spec' = [spec EXCEPT !.replicas = r]
       \/ \E n \in ReadOnlyNums \ {spec.ro} : spec' = [spec EXCEPT !.ro = n]
    /\ UNCHANGED <<pods, ropods, leader, peers, status, sync, upd>>

Exists(p) == pods[p] # Nil
SetPod(p, pod) == pods' = [pods EXCEPT ![p] = pod]

(* A user asks for a rebuild of a pod or for it to become the leader.      *)
LabelPod(p) ==
    /\ Event /\ Exists(p)
    /\ \/ ~pods[p].rebuild /\ SetPod(p, [pods[p] EXCEPT !.rebuild = TRUE])
       \/ ~pods[p].try /\ SetPod(p, [pods[p] EXCEPT !.try = TRUE])
    /\ UNCHANGED <<spec, ropods, leader, peers, status, sync, upd>>

(* In order, each when the ones before it are ready; the new pod has the   *)
(* peers of the spec (its xenon reads them from the config map).           *)
CreatePod(p) ==
    /\ ~Exists(p) /\ p < spec.replicas
    /\ \A q \in 0 .. p - 1 : Exists(q) /\ pods[q].at = "ready"
    /\ SetPod(p, [at |-> "starting", term |-> FALSE, role |-> "", healthy |-> FALSE,
                  rebuild |-> FALSE, try |-> FALSE, sql |-> "good"])
    /\ peers' = [peers EXCEPT ![p] = 0 .. spec.replicas - 1]
    /\ UNCHANGED <<spec, ropods, leader, status, sync, upd, budget>>

PodProgress(p) ==
    /\ Exists(p) /\ ~pods[p].term /\ pods[p].at # "ready"
    /\ SetPod(p, [pods[p] EXCEPT !.at = "ready"])
    /\ UNCHANGED <<spec, ropods, leader, peers, status, sync, upd, budget>>

(* A container stops, the pod finds no node or is deleted (by an update or *)
(* a drain), the replication falls back.                                   *)
PodFails(p) ==
    /\ Event /\ Exists(p)
    /\ \/ pods[p].at = "ready" /\ SetPod(p, [pods[p] EXCEPT !.at = "starting"])
       \/ pods[p].at = "starting" /\ SetPod(p, [pods[p] EXCEPT !.at = "pending"])
       \/ ~pods[p].term /\ SetPod(p, [pods[p] EXCEPT !.term = TRUE])
       \/ \E s \in {"lagged", "broken"} : SetPod(p, [pods[p] EXCEPT !.sql = s])
    /\ UNCHANGED <<spec, ropods, leader, peers, status, sync, upd>>

(* The replication catches up; the readiness probe makes a leader writable. *)
SqlRecovers(p) ==
    /\ Exists(p) /\ pods[p].sql # "good"
    /\ SetPod(p, [pods[p] EXCEPT !.sql = "good"])
    /\ UNCHANGED <<spec, ropods, leader, peers, status, sync, upd, budget>>

ScaleInPod(p) ==
    /\ Exists(p) /\ ~pods[p].term /\ p >= spec.replicas
    /\ \A q \in Ordinals : q > p => ~Exists(q)
    /\ SetPod(p, [pods[p] EXCEPT !.term = TRUE])
    /\ UNCHANGED <<spec, ropods, leader, peers, status, sync, upd, budget>>

PodGone(p) ==
    /\ Exists(p) /\ pods[p].term
    /\ SetPod(p, Nil)
    /\ peers' = [peers EXCEPT ![p] = {}]
    /\ leader' = IF leader = p THEN Nil ELSE leader
    /\ UNCHANGED <<spec, ropods, status, sync, upd, budget>>

ScaleReadOnly ==
    /\ LET want == IF spec.ro = Nil THEN 0 ELSE spec.ro
       IN \/ ropods < want /\ ropods' = ropods + 1
          \/ ropods > want /\ ropods' = ropods - 1
    /\ UNCHANGED <<spec, pods, leader, peers, status, sync, upd, budget>>

(* An election among the members that are up; one without a leader is not  *)
(* a fault.                                                                *)
Elect(p) ==
    /\ Exists(p) /\ pods[p].at = "ready" /\ leader # p
    /\ IF leader = Nil THEN UNCHANGED budget ELSE Event
    /\ leader' = p
    /\ UNCHANGED <<spec, pods, ropods, peers, status, sync, upd>>

-----------------------------------------------------------------------------
(* The cluster controller.  applyNWait sets the state in its copy; the     *)
(* deferred function patches it at the end of the reconcile, and only the  *)
(* fields that differ from what was fetched.                               *)
StartUpdate ==
    /\ upd = Nil /\ budget.updates < MaxUpdates
    /\ upd' = status.state
    /\ budget' = [budget EXCEPT !.updates = @ + 1]
    /\ UNCHANGED <<spec, pods, ropods, leader, peers, status, sync>>

PatchUpdating ==
    /\ upd # Nil
    /\ status' = IF upd = "Updating" THEN status ELSE [status EXCEPT !.state = "Updating"]
    /\ upd' = Nil
    /\ UNCHANGED <<world, sync, budget>>

-----------------------------------------------------------------------------
(* The status sync, first part: from the fetch to the raft members.        *)
Truth(conds, c, holds) == IF holds THEN conds \cup {c} ELSE conds \ {c}

(* The conditions are initialized, or Error is cleared.                    *)
StartConditions(conds) == IF conds = Nil THEN {} ELSE conds \ {"Error"}

(* updateClusterStatus: the new state, and the condition it sets if any.   *)
ScalesFromAny(s, n, ready) ==
    IF s = "" THEN <<"Initializing", {"Init"}>>
    ELSE IF n > ready THEN <<"ScaleOut", {"ScaleOut"}>> ELSE <<s, {}>>
NeverCloses(s, n, ready) ==
    IF s = "" THEN <<"Initializing", {"Init"}>>
    ELSE IF s \in {"Ready", "Closed"} /\ n > ready THEN <<"ScaleOut", {"ScaleOut"}>>
    ELSE IF s \in {"Ready", "Closed"} /\ n < ready THEN <<"ScaleIn", {"ScaleIn"}>>
    ELSE <<s, {}>>
UpdateClusterStatus(s, n, ready) ==
    IF s = "" THEN <<"Initializing", {"Init"}>>
    ELSE IF s = "Updating" THEN <<s, {"Update"}>>
    ELSE IF n = 0 /\ ready = 0 THEN <<"Closed", {"Close"}>>
    ELSE IF s \in {"Ready", "Closed"} /\ n > ready THEN <<"ScaleOut", {"ScaleOut"}>>
    ELSE IF s \in {"Ready", "Closed"} /\ n < ready THEN <<"ScaleIn", {"ScaleIn"}>>
    ELSE <<s, {}>>

(* The pods of the cache, in any order.                                    *)
Orders(S) == {f \in [1 .. Cardinality(S) -> S] : \A i, j \in DOMAIN f : i # j => f[i] # f[j]}
PodLists == Orders({p \in Ordinals : Exists(p)})

(* A set of numbers in their order.                                        *)
Ascending(S) ==
    CHOOSE s \in [1 .. Cardinality(S) -> S] : \A i, j \in DOMAIN s : i < j => s[i] < s[j]

(* Pods with the rebuild label are left out of everything that follows in  *)
(* the loop, and deleted.                                                  *)
Kept == {p \in Ordinals : Exists(p) /\ ~pods[p].rebuild}
ReadyNodes == Cardinality({p \in Kept : pods[p].at = "ready"})
Unschedulable == \E p \in Kept : pods[p].at = "pending"
AutoRebuild ==
    [p \in Ordinals |->
        IF Exists(p) /\ p \notin Kept
        THEN [pods[p] EXCEPT !.term = TRUE, !.healthy = FALSE]
        ELSE pods[p]]

(* PodTryLeader and PodLeader point at the variable of the loop: when some *)
(* pod has the label, the last pod of the list is made read-only if there  *)
(* is a leader, the election is tried on it and the label removed from it. *)
Tried(list, up) ==
    IF \E p \in Kept : pods[p].try THEN {list[Len(list)]} \cap up ELSE {}
SetLeaderReadOnly(pod, p) ==
    IF p = leader /\ \E q \in Kept : pods[q].role = "LEADER"
    THEN [pod EXCEPT !.sql = "frozen"] ELSE pod
TryLeader(ps, list, up) ==
    [p \in Ordinals |->
        IF p \in Tried(list, up) THEN [SetLeaderReadOnly(ps[p], p) EXCEPT !.try = FALSE]
        ELSE ps[p]]

(* reconcileXenon: the members of every node recorded are made the first n *)
(* pods, by what the record says of its members, up to the first node that *)
(* cannot be reached.                                                      *)
Reached(nodes, up) ==
    LET bad == {i \in DOMAIN nodes : nodes[i].host.kind = "db" /\ nodes[i].host.ordinal \notin up}
    IN {i \in DOMAIN nodes : nodes[i].host.kind = "db" /\ \A j \in bad : i < j}
AllReached(nodes, up) ==
    \A i \in DOMAIN nodes : nodes[i].host.kind = "db" => nodes[i].host.ordinal \in up
AddsOnly(ps, nodes, n, up) ==
    [p \in Ordinals |-> ps[p] \cup
        (IF \E i \in Reached(nodes, up) : nodes[i].host.ordinal = p THEN 0 .. n - 1 ELSE {})]
Members(ps, nodes, n, up) ==
    LET expected == 0 .. n - 1
        OfNode(p) == {i \in Reached(nodes, up) : nodes[i].host.ordinal = p}
    IN [p \in Ordinals |->
           {q \in Ordinals :
               IF q \in expected
               THEN q \in ps[p] \/ \E i \in OfNode(p) : q \notin nodes[i].raft
               ELSE q \in ps[p] /\ \A i \in OfNode(p) : q \notin nodes[i].raft}]

(* The pods whose xenon answers.                                           *)
UpPods == {p \in Ordinals : Exists(p) /\ pods[p].at = "ready"}

(* RoCheckStatus records the read-only pods that are not recorded.         *)
Hosting(nodes) == {nodes[i].host : i \in DOMAIN nodes}
RoNode(i) == [host |-> Ro(i), raft |-> {}]
RoFromOne(nodes, n) == nodes \o [i \in 1 .. n |-> RoNode(i)]
RoCheckStatus(nodes, n) ==
    LET new == Ascending({i \in 0 .. n - 1 : Ro(i) \notin Hosting(nodes)})
    IN nodes \o [k \in DOMAIN new |-> RoNode(new[k])]

(* When all are ready and reached: the loop over Init, ScaleIn and         *)
(* ScaleOut sets each of them to the condition of the cluster, True.       *)
ReadyConditions == {"Ready", "Init", "ScaleIn", "ScaleOut"}

(* What the listed copy of a pod says of it for the rest of the sync.      *)
Seen ==
    [p \in Ordinals |->
        IF ~Exists(p) THEN "absent" ELSE IF pods[p].term THEN "leaving"
        ELSE IF pods[p].at = "ready" THEN "up" ELSE "down"]
Labels ==
    [p \in Ordinals |->
        IF Exists(p) THEN [role |-> pods[p].role, healthy |-> pods[p].healthy]
        ELSE [role |-> "", healthy |-> FALSE]]

(* Of a remote cluster: whether the leader replicates from elsewhere.      *)
ClusterSlaveCheck(conds, slave) ==
    IF Remote THEN Truth(conds, "RemoteSlave", slave) ELSE conds

SyncWith(list, up, slave) ==
    LET old == status
        n == spec.replicas
        moved == UpdateClusterStatus(old.state, n, old.ready)
        conds == StartConditions(old.conds) \cup moved[2]
                 \cup (IF Unschedulable THEN {"Error"} ELSE {})
        complete == ReadyNodes = n /\ n # 0
        settled == complete /\ AllReached(old.nodes, up)
        conds2 == IF settled THEN conds \cup ReadyConditions
                  ELSE IF complete THEN conds \cup {"Error"} ELSE conds
    IN /\ pods' = TryLeader(AutoRebuild, list, up)
       /\ peers' = IF complete THEN Members(peers, old.nodes, n, up) ELSE peers
       /\ leader' \in {leader} \cup Tried(list, up)
       /\ sync' = [spec |-> spec, old |-> old, list |-> list, seen |-> Seen, labels |-> Labels,
                   new |-> [state |-> IF settled THEN "Ready" ELSE moved[1],
                            conds |-> ClusterSlaveCheck(conds2, slave),
                            ready |-> ReadyNodes,
                            nodes |-> RoCheckStatus(old.nodes, ropods)]]

SyncPods ==
    /\ sync = Nil
    /\ \E list \in PodLists, slave \in BOOLEAN : SyncWith(list, UpPods, slave)
    /\ UNCHANGED <<spec, ropods, status, upd, budget>>

(* A call to the xenon of a ready pod fails.                               *)
SyncPodsUnreached ==
    /\ sync = Nil /\ Event
    /\ \E list \in PodLists, p \in UpPods, slave \in BOOLEAN :
          SyncWith(list, UpPods \ {p}, slave)
    /\ UNCHANGED <<spec, ropods, status, upd>>

(* The deferred patch of the status controller.                            *)
Patch(old, new) ==
    [f \in DOMAIN status |-> IF new[f] # old[f] THEN new[f] ELSE status[f]]

(* The list of the pods fails: what was changed so far is patched.         *)
SyncListFails ==
    /\ sync = Nil /\ Event
    /\ LET moved == UpdateClusterStatus(status.state, spec.replicas, status.ready)
       IN status' = [status EXCEPT !.state = moved[1],
                                   !.conds = StartConditions(status.conds) \cup moved[2]]
    /\ UNCHANGED <<world, sync, upd>>

-----------------------------------------------------------------------------
(* Second part: updateNodeStatus for every pod of the list.                *)

(* A pod is recorded with the members its xenon reports, none when it does *)
(* not answer.                                                             *)
Raft(p, up) == IF p \in up THEN peers[p] ELSE {}
RecordPods(nodes, list, up) ==
    LET new == Ascending({i \in DOMAIN list : Db(list[i]) \notin Hosting(nodes)})
        Recorded(p) == [host |-> Db(p), raft |-> Raft(p, up)]
    IN [i \in DOMAIN nodes |->
           IF \E k \in DOMAIN list : nodes[i].host = Db(list[k])
           THEN Recorded(nodes[i].host.ordinal) ELSE nodes[i]]
       \o [k \in DOMAIN new |-> Recorded(list[new[k]])]

(* "Delete node status of nodes that have been deleted": the first         *)
(* Len(list) nodes are kept and, with ReadOnlys, the last Num.  With fewer *)
(* nodes than Num the slice is out of range and the operator panics.       *)
TrimPanics(nodes, list, ro) == Len(nodes) > Len(list) /\ ro # Nil /\ ro > Len(nodes)
Trim(nodes, list, ro) ==
    IF Len(nodes) <= Len(list) THEN nodes
    ELSE SubSeq(nodes, 1, Len(list))
         \o (IF ro = Nil THEN <<>> ELSE SubSeq(nodes, Len(nodes) - ro + 1, Len(nodes)))

(* What SHOW SLAVE STATUS and the variables of a pod say: a leader         *)
(* replicates from nobody, and is writable unless it was frozen.           *)
Lagged(p) == p # leader /\ pods[p].sql = "lagged"
Replicating(p) == p # leader /\ pods[p].sql # "broken"
ReadOnly(p) == p # leader \/ pods[p].sql = "frozen"

(* updatePodLabel: what the syncer asks the pod and reads in the copy it   *)
(* has listed.  The labels that differ from those listed are patched onto  *)
(* whatever pod has the name by now; a pod that is gone is ignored.        *)
RoleOf(p, up) ==
    IF sync.seen[p] = "leaving" \/ p \notin up THEN "UNKNOWN"
    ELSE IF p = leader THEN "LEADER" ELSE "FOLLOWER"
HealthyOf(p, up) ==
    /\ sync.seen[p] = "up" /\ pods[p].at = "ready"
    /\ ~Lagged(p)
    /\ IF p \in up /\ p = leader THEN ~ReadOnly(p) /\ ~Replicating(p)
                               ELSE ReadOnly(p) /\ Replicating(p)
LabelsOnce(list, up) ==
    [p \in Ordinals |->
        IF Exists(p) /\ pods[p].role = ""
        THEN [pods[p] EXCEPT !.role = RoleOf(p, up), !.healthy = HealthyOf(p, up)]
        ELSE pods[p]]
LabelPods(list, up) ==
    [p \in Ordinals |->
        IF Exists(p) /\ \E i \in DOMAIN list : list[i] = p
        THEN [pods[p] EXCEPT
                 !.role = IF RoleOf(p, up) = sync.labels[p].role THEN @ ELSE RoleOf(p, up),
                 !.healthy = IF HealthyOf(p, up) = sync.labels[p].healthy THEN @ ELSE HealthyOf(p, up)]
        ELSE pods[p]]

NodesWith(up) ==
    LET nodes == RecordPods(sync.new.nodes, sync.list, up)
    IN /\ pods' = LabelPods(sync.list, up)
       /\ sync' = Nil
       /\ IF TrimPanics(nodes, sync.list, sync.spec.ro)
          THEN status' = Patch(sync.old, [sync.new EXCEPT !.nodes = nodes]) /\ upd' = Nil
          ELSE /\ status' = Patch(sync.old, [sync.new EXCEPT
                               !.nodes = Trim(nodes, sync.list, sync.spec.ro)])
               /\ UNCHANGED upd

SyncNodes ==
    /\ sync # Nil
    /\ NodesWith(UpPods)
    /\ UNCHANGED <<spec, ropods, leader, peers, budget>>

SyncNodesUnreached ==
    /\ sync # Nil /\ Event
    /\ \E p \in UpPods : NodesWith(UpPods \ {p})
    /\ UNCHANGED <<spec, ropods, leader, peers>>

(* The patch fails or the operator stops: the work on the copies is lost.  *)
Lost ==
    /\ sync # Nil /\ Event
    /\ sync' = Nil /\ upd' = Nil
    /\ UNCHANGED <<world, status>>

-----------------------------------------------------------------------------
PodLife(p) == CreatePod(p) \/ PodProgress(p) \/ ScaleInPod(p) \/ PodGone(p) \/ SqlRecovers(p)

Kubernetes ==
    \/ \E p \in Ordinals : PodLife(p)
    \/ ScaleReadOnly

World ==
    \/ EditSpec \/ Kubernetes
    \/ \E p \in Ordinals : LabelPod(p) \/ PodFails(p) \/ Elect(p)

Updating == StartUpdate \/ PatchUpdating

Sync == SyncPods \/ SyncNodes

Next == World \/ Updating \/ Sync \/ SyncPodsUnreached \/ SyncListFails \/ SyncNodesUnreached \/ Lost

Spec == Init /\ [][Next]_vars

(* The pods come up, a leader is elected when there is none, the status    *)
(* controller has an event for the cluster every five seconds, and a       *)
(* reconcile of the cluster ends.                                          *)
FairSpec ==
    /\ Spec
    /\ \A p \in Ordinals : WF_vars(PodLife(p))
    /\ WF_vars(ScaleReadOnly) /\ WF_vars(Sync) /\ WF_vars(PatchUpdating)
    /\ WF_vars(leader = Nil /\ \E p \in Ordinals : Elect(p))

-----------------------------------------------------------------------------
(* What the status promises.                                               *)

(***************************************************************************)
(* The state the user reads is the phase of a cluster as ClusterPhase has  *)
(* it, although it is patched by two controllers from copies of different  *)
(* times (Sync, updateClusterStatus, applyNWait and the deferred patches). *)
(***************************************************************************)
Phase == INSTANCE ClusterPhase WITH
    phase <- status.state, asked <- spec.replicas,
    looked <- IF sync = Nil THEN Nil
              ELSE [size |-> sync.spec.replicas, phase |-> sync.old.state]
ImplementsPhase == Phase!Spec

(* The nodes recorded are exactly the pods the spec asks for.              *)
DbHosts(nodes) == {nodes[i].host.ordinal : i \in {j \in DOMAIN nodes : nodes[j].host.kind = "db"}}
Accurate == DbHosts(status.nodes) = 0 .. spec.replicas - 1

(***************************************************************************)
(* When edits and faults are over the cluster is Ready, or Closed with no  *)
(* replicas.  Except: an update whose cluster is closed stays Updating,    *)
(* and a node that is recorded and gone is pinged in vain (Sync,           *)
(* reconcileXenon).                                                        *)
(***************************************************************************)
EventuallySettled ==
    <>[](IF spec.replicas = 0 THEN status.state \in {"Closed", "Updating"}
         ELSE status.state = "Ready" \/ ~Accurate)

(***************************************************************************)
(* The raft members converge: every pod's xenon ends up with exactly the   *)
(* pods of the spec, although reconcileXenon works from the members that   *)
(* an earlier sync recorded, of pods that have restarted since.            *)
(***************************************************************************)
EventuallyMembers ==
    <>[](Accurate => \A p \in 0 .. spec.replicas - 1 : peers[p] = 0 .. spec.replicas - 1)

(***************************************************************************)
(* The labels the services select on converge: the leader and only it has  *)
(* the role LEADER, and every pod is healthy (updatePodLabel).  Except     *)
(* while a pod keeps the try-leader label: whichever pod is listed last is *)
(* then made read-only at every sync.                                      *)
(***************************************************************************)
EventuallyLabelled ==
    <>[](\A p \in 0 .. spec.replicas - 1 :
            \/ \E q \in Ordinals : Exists(q) /\ pods[q].try
            \/ Exists(p) /\ pods[p].healthy /\ (pods[p].role = "LEADER" <=> leader = p))

=============================================================================
