------------------------ MODULE ClusterStatusProofs -------------------------
(***************************************************************************)
(* Proofs about ClusterStatus, for any number of replicas, read-only nodes *)
(* and events: every variable keeps its type, and the state that the two   *)
(* controllers patch refines ClusterPhase.                                 *)
(***************************************************************************)
EXTENDS ClusterStatus, FiniteSetTheorems, WellFoundedInduction, TLAPS

-----------------------------------------------------------------------------
(* A finite set of numbers has an ascending enumeration: a smallest subset *)
(* without one would lose it together with its largest element.            *)
LEMMA MaxExists ==
    ASSUME NEW S \in SUBSET Nat, IsFiniteSet(S), S # {}
    PROVE  \E m \in S : \A x \in S : x <= m
<1> DEFINE Cofinal == {U \in SUBSET S : U # {} /\ \A x \in S : \E u \in U : x <= u}
<1>1. IsWellFoundedOn(StrictSubsetOrdering(S), SUBSET S)
    BY FS_StrictSubsetOrderingWellFounded, FS_FiniteSubsetsOfFinite
<1>2. Cofinal \subseteq SUBSET S /\ S \in Cofinal
    OBVIOUS
<1>3. PICK U \in Cofinal : \A V \in Cofinal : ~(<<V, U>> \in StrictSubsetOrdering(S))
    <2> HIDE DEF Cofinal
    <2> QED
        BY <1>1, <1>2, WFMin
<1>4. \A V \in Cofinal : V \subseteq U => V = U
    BY <1>3 DEF StrictSubsetOrdering
<1>5. PICK u \in U : TRUE
    BY <1>3
<1>6. ASSUME NEW v \in U, u < v PROVE FALSE
    <2>1. U \ {u} \in Cofinal
        BY <1>6
    <2> QED
        BY <2>1, <1>4
<1> QED
    BY <1>6

Enumerates(s, S) ==
    s \in [1 .. Cardinality(S) -> S] /\ \A i, j \in DOMAIN s : i < j => s[i] < s[j]

LEMMA AscendingExists ==
    ASSUME NEW S \in SUBSET Nat, IsFiniteSet(S)
    PROVE  \E s \in [1 .. Cardinality(S) -> S] : Enumerates(s, S)
<1> DEFINE Bad == {U \in SUBSET S : ~\E s \in [1 .. Cardinality(U) -> U] : Enumerates(s, U)}
<1> SUFFICES ASSUME Bad # {} PROVE FALSE
    BY DEF Enumerates
<1>1. IsWellFoundedOn(StrictSubsetOrdering(S), SUBSET S)
    BY FS_StrictSubsetOrderingWellFounded, FS_FiniteSubsetsOfFinite
<1>2. PICK U \in Bad : \A V \in Bad : ~(<<V, U>> \in StrictSubsetOrdering(S))
    <2>1. Bad \subseteq SUBSET S
        OBVIOUS
    <2>2. PICK W \in Bad : TRUE
        OBVIOUS
    <2> HIDE DEF Bad
    <2> QED
        BY <1>1, <2>1, <2>2, WFMin
<1>3. U \in SUBSET Nat /\ IsFiniteSet(U)
    BY FS_Subset
<1>4. CASE U = {}
    <2>1. Cardinality(U) = 0
        BY <1>4, FS_EmptySet
    <2>2. Enumerates([i \in 1 .. 0 |-> 0], U)
        BY <1>4, <2>1 DEF Enumerates
    <2> QED
        BY <1>2, <2>1, <2>2 DEF Enumerates
<1>5. CASE U # {}
    <2>1. PICK m \in U : \A x \in U : x <= m
        BY <1>3, <1>5, MaxExists
    <2> DEFINE V == U \ {m}
               n == Cardinality(V)
    <2>2. V \in SUBSET S /\ <<V, U>> \in StrictSubsetOrdering(S)
        BY <1>2, <2>1 DEF StrictSubsetOrdering
    <2>3. PICK s \in [1 .. n -> V] : Enumerates(s, V)
        BY <1>2, <2>2
    <2>4. n \in Nat /\ Cardinality(U) = n + 1
        <3>1. IsFiniteSet(V)
            BY <1>3, FS_Subset
        <3>2. n \in Nat
            BY <3>1, FS_CardinalityType
        <3>3. U = V \cup {m} /\ m \notin V
            BY <2>1
        <3> QED
            BY <3>1, <3>2, <3>3, FS_AddElement
    <2> HIDE DEF n
    <2> DEFINE t == [i \in 1 .. n + 1 |-> IF i = n + 1 THEN m ELSE s[i]]
    <2>5. t \in [1 .. Cardinality(U) -> U]
        BY <2>1, <2>3, <2>4
    <2>6. \A i, j \in 1 .. n + 1 : i < j => t[i] < t[j]
        <3>1. \A i \in 1 .. n : s[i] < m
            <4>1. \A x \in V : x < m
                BY <1>3, <2>1
            <4> HIDE DEF V
            <4> QED
                BY <2>3, <4>1
        <3>2. \A i, j \in 1 .. n : i < j => s[i] < s[j]
            BY <2>3 DEF Enumerates
        <3> QED
            BY <2>4, <3>1, <3>2
    <2>7. Enumerates(t, U)
        BY <2>4, <2>5, <2>6 DEF Enumerates
    <2> QED
        BY <1>2, <2>5, <2>7
<1> QED
    BY <1>4, <1>5

LEMMA AscendingType ==
    ASSUME NEW S \in SUBSET Nat, IsFiniteSet(S)
    PROVE  Cardinality(S) \in Nat /\ Ascending(S) \in [1 .. Cardinality(S) -> S]
<1>1. \E s \in [1 .. Cardinality(S) -> S] : \A i, j \in DOMAIN s : i < j => s[i] < s[j]
    BY AscendingExists DEF Enumerates
<1> QED
    BY <1>1, FS_CardinalityType DEF Ascending

-----------------------------------------------------------------------------
(* Types of the operators the actions are built from.                      *)
LEMMA SubsetOfOrdinals ==
    ASSUME NEW S \in SUBSET Ordinals
    PROVE  IsFiniteSet(S) /\ Cardinality(S) \in Sizes
<1>1. IsFiniteSet(Ordinals) /\ Cardinality(Ordinals) = MaxReplicas
    BY SizesAssumption, FS_Interval DEF Ordinals
<1>2. IsFiniteSet(S) /\ Cardinality(S) <= Cardinality(Ordinals)
    BY <1>1, FS_Subset
<1> QED
    BY <1>1, <1>2, FS_CardinalityType, SizesAssumption DEF Sizes

LEMMA UpdateType ==
    ASSUME NEW s \in States, NEW n, NEW ready
    PROVE  /\ UpdateClusterStatus(s, n, ready)[1] \in States
           /\ UpdateClusterStatus(s, n, ready)[2] \subseteq Conds
    BY DEF UpdateClusterStatus, States, Conds

LEMMA RecordsType ==
    ASSUME NEW nodes \in Seq(NodeStatus), NEW n \in 0 .. MaxReadOnlys
    PROVE  RoCheckStatus(nodes, n) \in Seq(NodeStatus)
<1> DEFINE S == {i \in 0 .. n - 1 : Ro(i) \notin Hosting(nodes)}
<1>1. S \in SUBSET Nat /\ IsFiniteSet(S) /\ S \subseteq 0 .. MaxReadOnlys - 1
    <2>1. IsFiniteSet(0 .. n - 1)
        BY FS_Interval, SizesAssumption
    <2>2. S \subseteq 0 .. n - 1
        OBVIOUS
    <2> HIDE DEF S
    <2>3. IsFiniteSet(S)
        BY <2>1, <2>2, FS_Subset
    <2> QED
        BY <2>2, <2>3, SizesAssumption
<1> DEFINE new == Ascending(S)
<1>2. Cardinality(S) \in Nat /\ new \in [1 .. Cardinality(S) -> S]
    <2> HIDE DEF S
    <2> QED
        BY <1>1, AscendingType
<1>3. RoCheckStatus(nodes, n) = nodes \o [k \in DOMAIN new |-> RoNode(new[k])]
    BY DEF RoCheckStatus
<1> HIDE DEF S, new
<1>4. \A i \in 0 .. MaxReadOnlys - 1 : RoNode(i) \in NodeStatus
    BY DEF RoNode, NodeStatus, Hosts
<1>5. [k \in DOMAIN new |-> RoNode(new[k])] \in Seq(NodeStatus)
    <2>1. \A k \in 1 .. Cardinality(S) : RoNode(new[k]) \in NodeStatus
        BY <1>1, <1>2, <1>4
    <2> HIDE DEF NodeStatus
    <2> QED
        BY <1>2, <2>1
<1> QED
    BY <1>3, <1>5

LEMMA RecordPodsType ==
    ASSUME NEW nodes \in Seq(NodeStatus), NEW list \in Seq(Ordinals), NEW up,
           peers \in [Ordinals -> SUBSET Ordinals]
    PROVE  RecordPods(nodes, list, up) \in Seq(NodeStatus)
<1> DEFINE S == {i \in DOMAIN list : Db(list[i]) \notin Hosting(nodes)}
           Recorded(p) == [host |-> Db(p), raft |-> Raft(p, up)]
           new == Ascending(S)
           a == [i \in DOMAIN nodes |->
                    IF \E k \in DOMAIN list : nodes[i].host = Db(list[k])
                    THEN Recorded(nodes[i].host.ordinal) ELSE nodes[i]]
           b == [k \in DOMAIN new |-> Recorded(list[new[k]])]
<1>1. RecordPods(nodes, list, up) = a \o b
    BY DEF RecordPods
<1>2. \A p \in Ordinals : Recorded(p) \in NodeStatus
    BY DEF NodeStatus, Hosts, Raft
<1>3. \A k \in DOMAIN list : list[k] \in Ordinals
    OBVIOUS
<1>4. S \in SUBSET Nat /\ IsFiniteSet(S) /\ S \subseteq DOMAIN list
    <2>1. DOMAIN list = 1 .. Len(list) /\ Len(list) \in Nat
        OBVIOUS
    <2>2. IsFiniteSet(DOMAIN list)
        BY <2>1, FS_Interval
    <2>3. S \subseteq DOMAIN list
        OBVIOUS
    <2> HIDE DEF S
    <2>4. IsFiniteSet(S)
        BY <2>2, <2>3, FS_Subset
    <2> QED
        BY <2>1, <2>3, <2>4
<1>5. Cardinality(S) \in Nat /\ new \in [1 .. Cardinality(S) -> S]
    <2> HIDE DEF S
    <2> QED
        BY <1>4, AscendingType
<1>6. a \in Seq(NodeStatus)
    <2>1. \A i \in DOMAIN nodes : a[i] \in NodeStatus
        <3> SUFFICES ASSUME NEW i \in DOMAIN nodes PROVE a[i] \in NodeStatus
            OBVIOUS
        <3>1. CASE \E k \in DOMAIN list : nodes[i].host = Db(list[k])
            <4>1. PICK k \in DOMAIN list : nodes[i].host = Db(list[k])
                BY <3>1
            <4>2. nodes[i].host.ordinal = list[k]
                BY <4>1 DEF Db
            <4>3. a[i] = Recorded(list[k])
                BY <3>1, <4>2
            <4> QED
                BY <1>2, <1>3, <4>3
        <3>2. CASE ~\E k \in DOMAIN list : nodes[i].host = Db(list[k])
            <4>1. a[i] = nodes[i]
                BY <3>2
            <4> QED
                BY <4>1
        <3> QED
            BY <3>1, <3>2
    <2>2. DOMAIN nodes = 1 .. Len(nodes) /\ Len(nodes) \in Nat /\ DOMAIN a = DOMAIN nodes
        OBVIOUS
    <2>3. a = [i \in 1 .. Len(nodes) |-> a[i]]
        BY <2>2
    <2> HIDE DEF a
    <2> QED
        BY <2>1, <2>2, <2>3
<1>7. b \in Seq(NodeStatus)
    <2>1. \A k \in 1 .. Cardinality(S) : Recorded(list[new[k]]) \in NodeStatus
        <3> HIDE DEF S, new, Recorded
        <3> QED
            BY <1>2, <1>3, <1>4, <1>5
    <2>2. DOMAIN new = 1 .. Cardinality(S)
        BY <1>5
    <2> HIDE DEF new, S, Recorded
    <2> QED
        BY <1>5, <2>1, <2>2
<1> HIDE DEF a, b
<1> QED
    BY <1>1, <1>6, <1>7

LEMMA TrimType ==
    ASSUME NEW nodes \in Seq(NodeStatus), NEW list \in Seq(Ordinals), NEW ro \in ReadOnlyNums,
           ~TrimPanics(nodes, list, ro)
    PROVE  Trim(nodes, list, ro) \in Seq(NodeStatus)
<1> HIDE DEF NodeStatus
<1>1. CASE Len(nodes) <= Len(list)
    BY <1>1 DEF Trim
<1>2. CASE Len(nodes) > Len(list)
    <2>1. SubSeq(nodes, 1, Len(list)) \in Seq(NodeStatus)
        BY <1>2
    <2>2. ASSUME ro # Nil
          PROVE  SubSeq(nodes, Len(nodes) - ro + 1, Len(nodes)) \in Seq(NodeStatus)
        <3>1. ro \in Nat /\ ro <= Len(nodes)
            BY <1>2, <2>2, SizesAssumption DEF ReadOnlyNums, TrimPanics
        <3> QED
            BY <3>1
    <2> QED
        BY <1>2, <2>1, <2>2 DEF Trim
<1> QED
    BY <1>1, <1>2

LEMMA PatchType ==
    ASSUME status \in Status, NEW old \in Status, NEW new \in Status
    PROVE  /\ Patch(old, new) \in Status
           /\ Patch(old, new).state \in {new.state, status.state}
           /\ Patch(old, new).state # status.state => new.state # old.state
<1>1. DOMAIN status = {"state", "conds", "ready", "nodes"}
    BY DEF Status
<1>2. Patch(old, new) = [state |-> IF new.state # old.state THEN new.state ELSE status.state,
                         conds |-> IF new.conds # old.conds THEN new.conds ELSE status.conds,
                         ready |-> IF new.ready # old.ready THEN new.ready ELSE status.ready,
                         nodes |-> IF new.nodes # old.nodes THEN new.nodes ELSE status.nodes]
    BY <1>1 DEF Patch
<1> QED
    BY <1>2 DEF Status

-----------------------------------------------------------------------------
(* Types.                                                                  *)
LEMMA EventType ==
    ASSUME TypeOK, Event
    PROVE  budget' \in [events : 0 .. MaxEvents, updates : 0 .. MaxUpdates]
    BY StatusBounds DEF TypeOK, Event

LEMMA PodType == ASSUME TypeOK, NEW p \in Ordinals, Exists(p) PROVE pods[p] \in Pod
    BY DEF TypeOK, Exists

LEMMA SetPodType ==
    ASSUME TypeOK, NEW p \in Ordinals, NEW pod \in Pod \cup {Nil}, SetPod(p, pod)
    PROVE  pods' \in [Ordinals -> Pod \cup {Nil}]
    BY DEF TypeOK, SetPod

LEMMA InitType == Init => TypeOK
<1> SUFFICES ASSUME Init PROVE TypeOK
    OBVIOUS
<1>1. status \in Status
    <2>1. 0 \in Sizes /\ "" \in States /\ <<>> \in Seq(NodeStatus)
        BY SizesAssumption DEF Sizes, States
    <2> QED
        BY <2>1 DEF Init, NoStatus, Status
<1> QED
    BY <1>1, SizesAssumption, StatusBounds DEF Init, TypeOK, ReadOnlyNums

LEMMA PodActionType ==
    ASSUME TypeOK, NEW p \in Ordinals,
           PodLife(p) \/ LabelPod(p) \/ PodFails(p) \/ Elect(p)
    PROVE  TypeOK'
<1>1. CASE CreatePod(p)
    <2>1. 0 .. spec.replicas - 1 \in SUBSET Ordinals
        BY SizesAssumption DEF TypeOK, Ordinals, Sizes
    <2>2. pods' \in [Ordinals -> Pod \cup {Nil}]
        <3>1. [at |-> "starting", term |-> FALSE, role |-> "", healthy |-> FALSE,
               rebuild |-> FALSE, try |-> FALSE, sql |-> "good"] \in Pod
            BY DEF Pod
        <3> QED
            BY <1>1, <3>1, SetPodType DEF CreatePod
    <2>3. peers' \in [Ordinals -> SUBSET Ordinals]
        BY <1>1, <2>1 DEF CreatePod, TypeOK
    <2> QED
        BY <1>1, <2>2, <2>3 DEF CreatePod, TypeOK
<1>2. CASE PodProgress(p)
    <2>1. [pods[p] EXCEPT !.at = "ready"] \in Pod
        BY <1>2, PodType DEF PodProgress, Pod
    <2> QED
        BY <1>2, <2>1, SetPodType DEF PodProgress, TypeOK
<1>3. CASE ScaleInPod(p)
    <2>1. [pods[p] EXCEPT !.term = TRUE] \in Pod
        BY <1>3, PodType DEF ScaleInPod, Pod
    <2> QED
        BY <1>3, <2>1, SetPodType DEF ScaleInPod, TypeOK
<1>4. CASE PodGone(p)
    <2>1. pods' \in [Ordinals -> Pod \cup {Nil}]
        BY <1>4, SetPodType DEF PodGone
    <2>2. peers' \in [Ordinals -> SUBSET Ordinals] /\ leader' \in Ordinals \cup {Nil}
        BY <1>4 DEF PodGone, TypeOK
    <2> QED
        BY <1>4, <2>1, <2>2 DEF PodGone, TypeOK
<1>5. CASE SqlRecovers(p)
    <2>1. [pods[p] EXCEPT !.sql = "good"] \in Pod
        BY <1>5, PodType DEF SqlRecovers, Pod
    <2> QED
        BY <1>5, <2>1, SetPodType DEF SqlRecovers, TypeOK
<1>6. CASE LabelPod(p)
    <2>1. pods[p] \in Pod
        BY <1>6, PodType DEF LabelPod
    <2>2. [pods[p] EXCEPT !.rebuild = TRUE] \in Pod /\ [pods[p] EXCEPT !.try = TRUE] \in Pod
        BY <2>1 DEF Pod
    <2>3. pods' \in [Ordinals -> Pod \cup {Nil}]
        BY <1>6, <2>2, SetPodType DEF LabelPod
    <2> QED
        BY <1>6, <2>3, EventType DEF LabelPod, TypeOK
<1>7. CASE PodFails(p)
    <2>1. pods[p] \in Pod
        BY <1>7, PodType DEF PodFails
    <2>2. /\ [pods[p] EXCEPT !.at = "starting"] \in Pod /\ [pods[p] EXCEPT !.at = "pending"] \in Pod
          /\ [pods[p] EXCEPT !.term = TRUE] \in Pod
          /\ \A s \in {"lagged", "broken"} : [pods[p] EXCEPT !.sql = s] \in Pod
        BY <2>1 DEF Pod
    <2>3. pods' \in [Ordinals -> Pod \cup {Nil}]
        BY <1>7, <2>2, SetPodType DEF PodFails
    <2> QED
        BY <1>7, <2>3, EventType DEF PodFails, TypeOK
<1>8. CASE Elect(p)
    <2>1. budget' \in [events : 0 .. MaxEvents, updates : 0 .. MaxUpdates]
        BY <1>8, EventType DEF Elect, TypeOK
    <2> QED
        BY <1>8, <2>1 DEF Elect, TypeOK
<1> QED
    BY <1>1, <1>2, <1>3, <1>4, <1>5, <1>6, <1>7, <1>8 DEF PodLife

LEMMA MembersType ==
    ASSUME NEW ps, NEW nodes, NEW n, NEW up
    PROVE  Members(ps, nodes, n, up) \in [Ordinals -> SUBSET Ordinals]
    BY DEF Members

LEMMA TriedPodsType ==
    ASSUME TypeOK, NEW list, NEW up, up \subseteq UpPods
    PROVE  TryLeader(AutoRebuild, list, up) \in [Ordinals -> Pod \cup {Nil}]
<1>1. AutoRebuild \in [Ordinals -> Pod \cup {Nil}]
    <2>1. \A p \in Ordinals : Exists(p) => [pods[p] EXCEPT !.term = TRUE, !.healthy = FALSE] \in Pod
        BY PodType DEF Pod
    <2> QED
        BY <2>1 DEF AutoRebuild, TypeOK
<1>2. \A p \in up : p \in Ordinals /\ AutoRebuild[p] \in Pod
    <2>1. \A p \in up : p \in Ordinals /\ Exists(p)
        BY DEF UpPods
    <2>2. \A p \in up : [pods[p] EXCEPT !.term = TRUE, !.healthy = FALSE] \in Pod /\ pods[p] \in Pod
        BY <2>1, PodType DEF Pod
    <2> QED
        BY <2>1, <2>2 DEF AutoRebuild
<1>3. \A p \in up : [SetLeaderReadOnly(AutoRebuild[p], p) EXCEPT !.try = FALSE] \in Pod
    <2>1. \A p \in up : SetLeaderReadOnly(AutoRebuild[p], p) \in Pod
        <3>1. \A pod \in Pod : [pod EXCEPT !.sql = "frozen"] \in Pod
            BY DEF Pod
        <3> QED
            BY <1>2, <3>1 DEF SetLeaderReadOnly
    <2>2. \A pod \in Pod : [pod EXCEPT !.try = FALSE] \in Pod
        BY DEF Pod
    <2> QED
        BY <2>1, <2>2
<1>4. Tried(list, up) \subseteq up
    BY DEF Tried
<1> HIDE DEF AutoRebuild
<1> QED
    BY <1>1, <1>3, <1>4 DEF TryLeader

LEMMA SyncWithType ==
    ASSUME TypeOK, NEW list \in PodLists, NEW up, up \subseteq UpPods, NEW slave \in BOOLEAN,
           SyncWith(list, up, slave)
    PROVE  /\ pods' \in [Ordinals -> Pod \cup {Nil}]
           /\ peers' \in [Ordinals -> SUBSET Ordinals]
           /\ leader' \in Ordinals \cup {Nil}
           /\ sync' \in SyncVal
           /\ sync'.spec = spec /\ sync'.old = status
           /\ \/ sync'.new.state = UpdateClusterStatus(status.state, spec.replicas, status.ready)[1]
              \/ sync'.new.state = "Ready" /\ spec.replicas # 0
<1>1. pods' \in [Ordinals -> Pod \cup {Nil}]
    BY TriedPodsType DEF SyncWith
<1>2. peers' \in [Ordinals -> SUBSET Ordinals]
    <2>1. peers \in [Ordinals -> SUBSET Ordinals]
        BY DEF TypeOK
    <2>2. peers' = Members(peers, status.nodes, spec.replicas, up) \/ peers' = peers
        BY DEF SyncWith
    <2> QED
        BY <2>1, <2>2, MembersType
<1>3. leader' \in Ordinals \cup {Nil}
    <2>1. Tried(list, up) \subseteq Ordinals
        BY DEF Tried, UpPods
    <2> QED
        BY <2>1 DEF SyncWith, TypeOK
<1>4. list \in Seq(Ordinals)
    <2> DEFINE S == {p \in Ordinals : Exists(p)}
    <2>1. S \in SUBSET Ordinals /\ list \in [1 .. Cardinality(S) -> S]
        BY DEF PodLists, Orders
    <2>2. Cardinality(S) \in Nat
        BY <2>1, SubsetOfOrdinals, SizesAssumption DEF Sizes
    <2> HIDE DEF S
    <2> QED
        BY <2>1, <2>2
<1>5. ReadyNodes \in Sizes
    BY SubsetOfOrdinals DEF ReadyNodes, Kept
<1>6. Seen \in [Ordinals -> {"absent", "leaving", "down", "up"}]
    BY DEF Seen
<1>14. Labels \in [Ordinals -> [role : {"LEADER", "FOLLOWER", "UNKNOWN", ""}, healthy : BOOLEAN]]
    BY PodType DEF Labels, Pod
<1>7. RoCheckStatus(status.nodes, ropods) \in Seq(NodeStatus)
    <2>1. status.nodes \in Seq(NodeStatus) /\ ropods \in 0 .. MaxReadOnlys
        BY DEF TypeOK, Status
    <2> QED
        BY <2>1, RecordsType
<1> DEFINE moved == UpdateClusterStatus(status.state, spec.replicas, status.ready)
<1>8. moved[1] \in States /\ moved[2] \subseteq Conds
    BY UpdateType DEF TypeOK, Status
<1>9. StartConditions(status.conds) \subseteq Conds
    BY DEF StartConditions, TypeOK, Status
<1>10. \A conds \in SUBSET Conds : ClusterSlaveCheck(conds, slave) \in SUBSET Conds
    BY DEF ClusterSlaveCheck, Truth, Conds
<1>11. PICK state \in States, conds \in SUBSET Conds :
           /\ sync' = [spec |-> spec, old |-> status, list |-> list, seen |-> Seen, labels |-> Labels,
                       new |-> [state |-> state, conds |-> conds, ready |-> ReadyNodes,
                                nodes |-> RoCheckStatus(status.nodes, ropods)]]
           /\ state = moved[1] \/ (state = "Ready" /\ spec.replicas # 0)
    <2> DEFINE conds == StartConditions(status.conds) \cup moved[2]
                        \cup (IF Unschedulable THEN {"Error"} ELSE {})
               complete == ReadyNodes = spec.replicas /\ spec.replicas # 0
               settled == complete /\ AllReached(status.nodes, up)
               conds2 == IF settled THEN conds \cup ReadyConditions
                         ELSE IF complete THEN conds \cup {"Error"} ELSE conds
               state == IF settled THEN "Ready" ELSE moved[1]
    <2>1. conds2 \in SUBSET Conds
        <3>1. ReadyConditions \subseteq Conds /\ {"Error"} \subseteq Conds
            BY DEF ReadyConditions, Conds
        <3> HIDE DEF moved
        <3> QED
            BY <1>8, <1>9, <3>1
    <2>2. ClusterSlaveCheck(conds2, slave) \in SUBSET Conds
        BY <1>10, <2>1
    <2>3. state \in States /\ (state = moved[1] \/ (state = "Ready" /\ spec.replicas # 0))
        BY <1>8 DEF States
    <2>4. sync' = [spec |-> spec, old |-> status, list |-> list, seen |-> Seen, labels |-> Labels,
                   new |-> [state |-> state, conds |-> ClusterSlaveCheck(conds2, slave),
                            ready |-> ReadyNodes, nodes |-> RoCheckStatus(status.nodes, ropods)]]
        BY DEF SyncWith
    <2> HIDE DEF conds2, state, moved
    <2> QED
        BY <2>2, <2>3, <2>4
<1> HIDE DEF moved
<1>12. [state |-> state, conds |-> conds, ready |-> ReadyNodes,
        nodes |-> RoCheckStatus(status.nodes, ropods)] \in Status
    BY <1>5, <1>7 DEF Status
<1>13. sync' \in SyncVal
    BY <1>4, <1>6, <1>11, <1>12, <1>14 DEF SyncVal, TypeOK
<1> QED
    BY <1>1, <1>2, <1>3, <1>11, <1>13 DEF moved

LEMMA NodesWithType ==
    ASSUME TypeOK, sync # Nil, NEW up, NodesWith(up)
    PROVE  /\ pods' \in [Ordinals -> Pod \cup {Nil}]
           /\ status' \in Status /\ sync' = Nil /\ upd' \in States \cup {Nil}
           /\ status'.state \in {sync.new.state, status.state}
           /\ status'.state # status.state => sync.new.state # sync.old.state
<1>1. sync \in SyncVal
    BY DEF TypeOK
<1>2. /\ sync.new \in Status /\ sync.old \in Status /\ sync.list \in Seq(Ordinals)
      /\ sync.spec.ro \in ReadOnlyNums
    BY <1>1 DEF SyncVal
<1>3. pods' \in [Ordinals -> Pod \cup {Nil}]
    <2>1. \A p \in Ordinals : HealthyOf(p, up) \in BOOLEAN
        BY DEF HealthyOf, Lagged, ReadOnly, Replicating
    <2>2. \A p \in Ordinals : RoleOf(p, up) \in {"LEADER", "FOLLOWER", "UNKNOWN", ""}
        BY DEF RoleOf
    <2>3. \A p \in Ordinals : Exists(p) =>
             \A role \in {RoleOf(p, up), pods[p].role}, healthy \in {HealthyOf(p, up), pods[p].healthy} :
                 [pods[p] EXCEPT !.role = role, !.healthy = healthy] \in Pod
        BY <2>1, <2>2, PodType DEF Pod
    <2> QED
        BY <2>3 DEF NodesWith, LabelPods, TypeOK
<1> DEFINE nodes == RecordPods(sync.new.nodes, sync.list, up)
<1>4. nodes \in Seq(NodeStatus)
    <2>1. sync.new.nodes \in Seq(NodeStatus)
        BY <1>2 DEF Status
    <2> QED
        BY <1>2, <2>1, RecordPodsType DEF TypeOK
<1>5. ASSUME NEW ns \in Seq(NodeStatus)
      PROVE  /\ Patch(sync.old, [sync.new EXCEPT !.nodes = ns]) \in Status
             /\ Patch(sync.old, [sync.new EXCEPT !.nodes = ns]).state \in {sync.new.state, status.state}
             /\ Patch(sync.old, [sync.new EXCEPT !.nodes = ns]).state # status.state
                => sync.new.state # sync.old.state
    <2> DEFINE new == [sync.new EXCEPT !.nodes = ns]
    <2>1. new \in Status /\ new.state = sync.new.state
        BY <1>2 DEF Status
    <2>2. status \in Status
        BY DEF TypeOK
    <2> HIDE DEF new
    <2>3. /\ Patch(sync.old, new) \in Status
          /\ Patch(sync.old, new).state \in {sync.new.state, status.state}
          /\ Patch(sync.old, new).state # status.state => sync.new.state # sync.old.state
        BY <1>2, <2>1, <2>2, PatchType
    <2> QED
        BY <2>3 DEF new
<1>6. CASE TrimPanics(nodes, sync.list, sync.spec.ro)
    <2>1. status' = Patch(sync.old, [sync.new EXCEPT !.nodes = nodes]) /\ upd' = Nil /\ sync' = Nil
        BY <1>6 DEF NodesWith
    <2> HIDE DEF nodes
    <2> QED
        BY <1>3, <1>4, <1>5, <2>1
<1>7. CASE ~TrimPanics(nodes, sync.list, sync.spec.ro)
    <2> DEFINE ns == Trim(nodes, sync.list, sync.spec.ro)
    <2>1. status' = Patch(sync.old, [sync.new EXCEPT !.nodes = ns]) /\ upd' = upd /\ sync' = Nil
        BY <1>7 DEF NodesWith
    <2>2. ns \in Seq(NodeStatus)
        BY <1>2, <1>4, <1>7, TrimType
    <2>3. upd \in States \cup {Nil}
        BY DEF TypeOK
    <2> HIDE DEF ns
    <2> QED
        BY <1>3, <1>5, <2>1, <2>2, <2>3
<1> QED
    BY <1>6, <1>7

LEMMA ControllerType ==
    ASSUME TypeOK,
           StartUpdate \/ PatchUpdating \/ SyncPods \/ SyncPodsUnreached \/ SyncListFails
           \/ SyncNodes \/ SyncNodesUnreached \/ Lost
    PROVE  TypeOK'
<1>1. CASE StartUpdate
    <2>1. budget' \in [events : 0 .. MaxEvents, updates : 0 .. MaxUpdates]
        BY <1>1, StatusBounds DEF StartUpdate, TypeOK
    <2> QED
        BY <1>1, <2>1 DEF StartUpdate, TypeOK, Status
<1>2. CASE PatchUpdating
    <2>1. [status EXCEPT !.state = "Updating"] \in Status
        BY DEF TypeOK, Status, States
    <2> QED
        BY <1>2, <2>1 DEF PatchUpdating, TypeOK, world
<1>3. CASE SyncPods
    <2>1. PICK list \in PodLists, slave \in BOOLEAN : SyncWith(list, UpPods, slave)
        BY <1>3 DEF SyncPods
    <2> QED
        BY <1>3, <2>1, SyncWithType DEF SyncPods, TypeOK
<1>4. CASE SyncPodsUnreached
    <2>1. PICK list \in PodLists, p \in UpPods, slave \in BOOLEAN : SyncWith(list, UpPods \ {p}, slave)
        BY <1>4 DEF SyncPodsUnreached
    <2>2. budget' \in [events : 0 .. MaxEvents, updates : 0 .. MaxUpdates]
        BY <1>4, EventType DEF SyncPodsUnreached
    <2> QED
        BY <1>4, <2>1, <2>2, SyncWithType DEF SyncPodsUnreached, TypeOK
<1>5. CASE SyncListFails
    <2> DEFINE moved == UpdateClusterStatus(status.state, spec.replicas, status.ready)
               conds == StartConditions(status.conds) \cup moved[2]
    <2>1. moved[1] \in States /\ moved[2] \subseteq Conds
        BY UpdateType DEF TypeOK, Status
    <2>2. conds \in SUBSET Conds
        BY <2>1 DEF StartConditions, TypeOK, Status
    <2>3. status' = [status EXCEPT !.state = moved[1], !.conds = conds]
        BY <1>5 DEF SyncListFails
    <2> HIDE DEF moved, conds
    <2>4. status' \in Status
        BY <2>1, <2>2, <2>3 DEF TypeOK, Status
    <2> QED
        BY <1>5, <2>4, EventType DEF SyncListFails, TypeOK, world
<1>6. CASE SyncNodes
    BY <1>6, NodesWithType DEF SyncNodes, TypeOK
<1>7. CASE SyncNodesUnreached
    <2>1. PICK p \in UpPods : NodesWith(UpPods \ {p})
        BY <1>7 DEF SyncNodesUnreached
    <2> QED
        BY <1>7, <2>1, NodesWithType, EventType DEF SyncNodesUnreached, TypeOK
<1>8. CASE Lost
    BY <1>8, EventType DEF Lost, TypeOK, world
<1> QED
    BY <1>1, <1>2, <1>3, <1>4, <1>5, <1>6, <1>7, <1>8

LEMMA TypeStep == ASSUME TypeOK, [Next]_vars PROVE TypeOK'
<1>1. CASE UNCHANGED vars
    BY <1>1 DEF vars, TypeOK
<1>2. CASE EditSpec
    <2>1. spec' \in [replicas : Sizes, ro : ReadOnlyNums]
        BY <1>2 DEF EditSpec, TypeOK
    <2> QED
        BY <1>2, <2>1, EventType DEF EditSpec, TypeOK
<1>3. CASE ScaleReadOnly
    <2>1. (IF spec.ro = Nil THEN 0 ELSE spec.ro) \in 0 .. MaxReadOnlys
        BY SizesAssumption DEF TypeOK, ReadOnlyNums
    <2>2. ropods' \in 0 .. MaxReadOnlys
        BY <1>3, <2>1, SizesAssumption DEF ScaleReadOnly, TypeOK
    <2> QED
        BY <1>3, <2>2 DEF ScaleReadOnly, TypeOK
<1> QED
    BY <1>1, <1>2, <1>3, PodActionType, ControllerType DEF Next, World, Kubernetes, Updating, Sync

(***************************************************************************)
(* The status stays well formed: whatever the list of the pods is, the     *)
(* nodes recorded are pods and read-only pods of the cluster, and not more *)
(* pods are ready than the cluster can have (updateNodeStatus,             *)
(* RoCheckStatus).                                                         *)
(***************************************************************************)
THEOREM TypeCorrect == Spec => []TypeOK
    BY InitType, TypeStep, PTL DEF Spec

-----------------------------------------------------------------------------
(* The state refines ClusterPhase.                                         *)
Look(spc, state) == [size |-> spc.replicas, phase |-> state]

(* What a sync is about to patch is a verdict on what it has fetched.      *)
SyncJustified ==
    sync # Nil =>
        sync.new.state \in {sync.old.state} \cup Phase!Verdicts(Look(sync.spec, sync.old.state))

LEMMA UpdateJustified ==
    ASSUME NEW s \in States, NEW n \in Nat, NEW ready \in Nat
    PROVE  UpdateClusterStatus(s, n, ready)[1] \in {s} \cup Phase!Verdicts([size |-> n, phase |-> s])
<1>1. SUFFICES ASSUME NEW l, l = [size |-> n, phase |-> s], NEW u, u = UpdateClusterStatus(s, n, ready)[1]
               PROVE  u \in {s} \cup Phase!Verdicts(l)
    OBVIOUS
<1>2. l.size = n /\ l.phase = s
    BY <1>1
<1>3. \/ s = "" /\ u = "Initializing"
      \/ n = 0 /\ s \notin {"", "Updating"} /\ u = "Closed"
      \/ s \in {"Ready", "Closed"} /\ n # 0 /\ u = "ScaleOut"
      \/ s \in {"Ready", "Closed"} /\ u = "ScaleIn"
      \/ u = s
    <2>1. n > ready => n # 0
        OBVIOUS
    <2> QED
        BY <1>1, <2>1 DEF UpdateClusterStatus
<1> QED
    BY <1>2, <1>3 DEF Phase!Verdicts

LEMMA SizesNat == TypeOK => spec.replicas \in Nat /\ status.ready \in Nat /\ status.state \in States
    BY SizesAssumption DEF TypeOK, Status, Sizes

LEMMA SyncWithJustified ==
    ASSUME TypeOK, NEW list \in PodLists, NEW up, up \subseteq UpPods, NEW slave \in BOOLEAN,
           SyncWith(list, up, slave)
    PROVE  /\ SyncJustified' /\ sync' # Nil
           /\ sync'.spec = spec /\ sync'.old = status
<1>1. /\ sync' \in SyncVal /\ sync'.spec = spec /\ sync'.old = status
      /\ \/ sync'.new.state = UpdateClusterStatus(status.state, spec.replicas, status.ready)[1]
         \/ sync'.new.state = "Ready" /\ spec.replicas # 0
    BY SyncWithType
<1>2. sync'.new.state \in {status.state} \cup Phase!Verdicts(Look(spec, status.state))
    <2>1. spec.replicas # 0 => "Ready" \in Phase!Verdicts(Look(spec, status.state))
        BY DEF Phase!Verdicts, Look
    <2> QED
        BY <1>1, <2>1, SizesNat, UpdateJustified DEF Look
<1> QED
    BY <1>1, <1>2, NilAssumption DEF SyncJustified

LEMMA JustifiedStep == ASSUME TypeOK, SyncJustified, [Next]_vars PROVE SyncJustified'
<1>1. CASE SyncPods \/ SyncPodsUnreached
    <2>1. PICK list \in PodLists, up \in SUBSET UpPods, slave \in BOOLEAN : SyncWith(list, up, slave)
        BY <1>1 DEF SyncPods, SyncPodsUnreached
    <2> QED
        BY <2>1, SyncWithJustified
<1>2. CASE SyncNodes \/ SyncNodesUnreached \/ Lost
    <2>1. sync' = Nil
        BY <1>2 DEF SyncNodes, SyncNodesUnreached, Lost, NodesWith
    <2> QED
        BY <2>1 DEF SyncJustified
<1>3. CASE UNCHANGED sync
    BY <1>3 DEF SyncJustified, Look, Phase!Verdicts
<1>4. CASE World \/ Updating \/ SyncListFails \/ UNCHANGED vars
    <2>1. UNCHANGED sync
        BY <1>4 DEF World, EditSpec, Kubernetes, PodLife, CreatePod, PodProgress, ScaleInPod, PodGone,
           SqlRecovers, ScaleReadOnly, LabelPod, PodFails, Elect, Updating, StartUpdate,
           PatchUpdating, SyncListFails, vars
    <2> QED
        BY <1>3, <2>1
<1> QED
    BY <1>1, <1>2, <1>4 DEF Next, Sync

(* A step of the detailed specification is one of the abstract one.        *)
LEMMA PhaseStep ==
    ASSUME TypeOK, SyncJustified, [Next]_vars
    PROVE  [Phase!Next]_(Phase!vars)
<1> DEFINE AbsStutter == status'.state = status.state /\ spec' = spec /\ sync' = sync
<1>1. ASSUME AbsStutter PROVE [Phase!Next]_(Phase!vars)
    BY <1>1 DEF Phase!vars
<1>2. CASE EditSpec
    <2>1. status' = status /\ sync' = sync
        BY <1>2 DEF EditSpec
    <2>2. spec'.replicas \in Sizes
        BY <1>2 DEF EditSpec, TypeOK
    <2> QED
        BY <2>1, <2>2 DEF Phase!Next, Phase!Ask
<1>3. CASE World /\ ~EditSpec
    <2>1. UNCHANGED <<status, spec, sync>>
        BY <1>3 DEF World, Kubernetes, PodLife, CreatePod, PodProgress, ScaleInPod, PodGone,
           SqlRecovers, ScaleReadOnly, LabelPod, PodFails, Elect
    <2> QED
        BY <1>1, <2>1
<1>4. CASE StartUpdate \/ UNCHANGED vars
    <2>1. UNCHANGED <<status, spec, sync>>
        BY <1>4 DEF StartUpdate, vars
    <2> QED
        BY <1>1, <2>1
<1>5. CASE PatchUpdating
    <2>1. UNCHANGED <<spec, sync>>
        BY <1>5 DEF PatchUpdating, world
    <2>2. status' = status \/ status'.state = "Updating"
        BY <1>5 DEF PatchUpdating, TypeOK, Status
    <2>3. CASE status' = status
        BY <1>1, <2>1, <2>3
    <2>4. CASE status'.state = "Updating"
        BY <2>1, <2>4 DEF Phase!Next, Phase!Announce
    <2> QED
        BY <2>2, <2>3, <2>4
<1>6. CASE SyncPods \/ SyncPodsUnreached
    <2>1. PICK list \in PodLists, up \in SUBSET UpPods, slave \in BOOLEAN : SyncWith(list, up, slave)
        BY <1>6 DEF SyncPods, SyncPodsUnreached
    <2>2. sync = Nil /\ UNCHANGED <<spec, status>>
        BY <1>6 DEF SyncPods, SyncPodsUnreached
    <2>3. sync' # Nil /\ sync'.spec = spec /\ sync'.old = status
        BY <2>1, SyncWithJustified
    <2> QED
        BY <2>2, <2>3 DEF Phase!Next, Phase!Look
<1>7. CASE SyncListFails
    <2>1. sync = Nil /\ UNCHANGED <<spec, sync>>
        BY <1>7 DEF SyncListFails, world
    <2>2. status'.state = UpdateClusterStatus(status.state, spec.replicas, status.ready)[1]
        BY <1>7 DEF SyncListFails, TypeOK, Status
    <2>3. status'.state \in {status.state} \cup Phase!Verdicts([size |-> spec.replicas, phase |-> status.state])
        BY <2>2, SizesNat, UpdateJustified
    <2>4. CASE status'.state = status.state
        BY <1>1, <2>1, <2>4
    <2>5. CASE status'.state \in Phase!Verdicts([size |-> spec.replicas, phase |-> status.state])
        BY <2>1, <2>5 DEF Phase!Next, Phase!Report
    <2> QED
        BY <2>3, <2>4, <2>5
<1>8. ASSUME sync # Nil, sync' = Nil, spec' = spec,
             status'.state \in {status.state} \cup Phase!Verdicts(Look(sync.spec, sync.old.state))
      PROVE  [Phase!Next]_(Phase!vars)
    <2>1. Look(sync.spec, sync.old.state) # Nil
        <3>1. sync \in SyncVal
            BY <1>8 DEF TypeOK
        <3>2. sync.spec.replicas \in Sizes /\ sync.old.state \in States
            BY <3>1 DEF SyncVal, Status
        <3> QED
            BY <3>2, NilAssumption DEF Look
    <2> QED
        BY <1>8, <2>1 DEF Phase!Next, Phase!Say, Look
<1>9. CASE SyncNodes \/ SyncNodesUnreached
    <2>1. PICK up \in SUBSET UpPods : NodesWith(up)
        BY <1>9 DEF SyncNodes, SyncNodesUnreached
    <2>2. sync # Nil /\ spec' = spec
        BY <1>9 DEF SyncNodes, SyncNodesUnreached
    <2>3. /\ sync' = Nil /\ status'.state \in {sync.new.state, status.state}
          /\ status'.state # status.state => sync.new.state # sync.old.state
        BY <2>1, <2>2, NodesWithType
    <2> QED
        BY <1>8, <2>2, <2>3 DEF SyncJustified
<1>10. CASE Lost
    BY <1>8, <1>10 DEF Lost, world
<1> QED
    BY <1>2, <1>3, <1>4, <1>5, <1>6, <1>7, <1>9, <1>10 DEF Next, Updating, Sync

(***************************************************************************)
(* The state field refines ClusterPhase for any sizes: whatever two        *)
(* controllers patch from copies of different times, a change is a verdict *)
(* on a size that was asked for and a state that was stored when the sync  *)
(* fetched the resource, or an update announced (Sync,                     *)
(* updateClusterStatus, applyNWait).                                       *)
(***************************************************************************)
THEOREM StateRefinesPhase == Spec => ImplementsPhase
<1>1. Init => TypeOK /\ SyncJustified
    BY InitType DEF Init, SyncJustified
<1>2. Init => Phase!Init
    <2> SUFFICES ASSUME Init PROVE Phase!Init
        OBVIOUS
    <2>1. status.state = "" /\ sync = Nil /\ spec.replicas \in Sizes
        BY DEF Init, NoStatus
    <2> QED
        BY <2>1 DEF Phase!Init
<1>3. TypeOK /\ SyncJustified /\ [Next]_vars => (TypeOK /\ SyncJustified)'
    BY TypeStep, JustifiedStep
<1>4. TypeOK /\ SyncJustified /\ [Next]_vars => [Phase!Next]_(Phase!vars)
    BY PhaseStep
<1> QED
    BY <1>1, <1>2, <1>3, <1>4, PTL DEF Spec, ImplementsPhase, Phase!Spec
=============================================================================
