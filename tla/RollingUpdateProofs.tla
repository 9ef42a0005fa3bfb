------------------------ MODULE RollingUpdateProofs ------------------------
(***************************************************************************)
(* Proofs of the safety properties of RollingUpdate, for any number of     *)
(* pods, images, config revisions, edits, backups and faults.              *)
(***************************************************************************)
EXTENDS RollingUpdate, FiniteSetTheorems, TLAPS

(* The counts in the status of the StatefulSet never exceed MaxReplicas.   *)
LEMMA PodCount ==
    ASSUME NEW S \in SUBSET Pods
    PROVE  Cardinality(S) \in 0 .. MaxReplicas
<1>1. IsFiniteSet(Pods) /\ Cardinality(Pods) = MaxReplicas
  BY FS_Interval, ReplicasAssumption DEF Pods
<1>2. IsFiniteSet(S) /\ Cardinality(S) <= Cardinality(Pods)
  BY <1>1, FS_Subset
<1>3. Cardinality(S) \in Nat
  BY <1>2, FS_CardinalityType
<1> QED
  BY <1>1, <1>2, <1>3, ReplicasAssumption

(* The initial values are of the right type.                               *)
LEMMA TypeInit == Init => TypeOK
<1> SUFFICES ASSUME NEW s \in Starts, InitWith(s) PROVE TypeOK
  BY DEF Init
<1>0. s \in Start
  BY StartsAssumption
<1> USE ReplicasAssumption, BoundsAssumption, <1>0 DEF InitWith, InitLocal, Start
<1>1. FirstTemplate(s) \in Revision /\ NoTemplate \in Revision
  BY DEF FirstTemplate, Revision, Template
<1>2. NoPod \in PodRecord
  BY <1>1 DEF NoPod, PodRecord, Phase
<1>3. SettledPods(s) \in [Pods -> PodRecord]
  BY <1>1, <1>2 DEF SettledPods, PodRecord, Phase
<1>4. 0 \in Pods
  BY DEF Pods
<1>5. spec \in SpecVal /\ snap \in SpecVal
  BY DEF SpecVal, NoSpec
<1>6. sfs \in [exists : BOOLEAN, replicas : 0 .. MaxReplicas,
               template : Revision, needUpdate : BOOLEAN]
  BY <1>1
<1>7. status \in StatusVal
  BY <1>1, <1>6 DEF StatusVal
<1>8. pods \in [Pods -> PodRecord]
  BY <1>3
<1>9. leader \in Pods \cup {None} /\ pvc \in [Pods -> {"none", "bound", "deleting"}]
  BY <1>4
<1>10. copy \in [Pods -> PodRecord]
  BY <1>2
<1> QED
  BY <1>1, <1>5, <1>6, <1>7, <1>8, <1>9, <1>10 DEF TypeOK, PcVal

(* Every step keeps the types.                                             *)
LEMMA TypeNext == TypeOK /\ [Next]_vars => TypeOK'
<1> SUFFICES ASSUME TypeOK, [Next]_vars PROVE TypeOK'
  OBVIOUS
<1> USE ReplicasAssumption, BoundsAssumption
        DEF TypeOK, PcVal, objects, external, local
<1>1. NoTemplate \in Revision /\ NoPod \in PodRecord /\ NoSpec \in SpecVal
  BY DEF NoPod, PodRecord, Phase, Revision, NoSpec, SpecVal
<1>2. MutatedTemplate \in Revision /\ NeedUpdate \in BOOLEAN
  BY DEF MutatedTemplate, NeedUpdate, Revision, Template, SpecVal
<1>3. \A p \in Pods : Fetched(p) \in PodRecord
  BY DEF Fetched
<1>4. CASE EditImage
  BY <1>4 DEF EditImage, SpecVal
<1>5. CASE EditConfig
  BY <1>5 DEF EditConfig, SpecVal
<1>6. CASE BackupStart
  BY <1>6 DEF BackupStart
<1>7. CASE BackupDone
  BY <1>7 DEF BackupDone
<1>8. CASE StsStatus
  <2> SUFFICES ASSUME StsStatus PROVE status' \in StatusVal
    BY <1>8 DEF StsStatus
  <2>1. /\ Cardinality({p \in Pods : Exists(p)}) \in 0 .. MaxReplicas
        /\ Cardinality({p \in Pods : Ready(p)}) \in 0 .. MaxReplicas
        /\ Cardinality({p \in Pods : Live(p) /\ pods[p].rev = sfs.template}) \in 0 .. MaxReplicas
    BY PodCount
  <2> QED
    BY <2>1 DEF StsStatus, StatusVal
<1>9. CASE CreateSfs
  BY <1>9, <1>2 DEF CreateSfs, Mutated, SpecVal
<1>10. CASE AllUpdated
  BY <1>10 DEF AllUpdated
<1>11. CASE ContinueUpdate
  BY <1>11 DEF ContinueUpdate, ListFails, Fault, EnterUpdatePod, Goto, StatusVal
<1>12. CASE UpdateSfs
  BY <1>12, <1>2 DEF UpdateSfs, Mutated, EnterUpdatePod, Goto, SpecVal, StatusVal
<1>13. CASE RefuseDuringBackup
  BY <1>13, <1>1 DEF RefuseDuringBackup, Finish
<1>14. CASE ListPods
  BY <1>14 DEF ListPods, ListFails, Fault, Goto
<1>15. CASE UpdateLeader
  BY <1>15 DEF UpdateLeader, ApplyNWait, Goto
<1>16. CASE NoLeaderToUpdate
  BY <1>16 DEF NoLeaderToUpdate, Goto
<1>17. CASE EmptyRevision
  BY <1>17, <1>1 DEF EmptyRevision, Finish
<1>18. CASE DeletePod
  BY <1>18, <1>3 DEF DeletePod, Live, Exists, Get, PodRecord, Phase
<1>19. CASE PodReplaced
  BY <1>19, <1>3 DEF PodReplaced, Exists, Live, Get, Goto
<1>20. CASE DeleteTimeout
  BY <1>20, <1>1 DEF DeleteTimeout, Finish
<1>21. CASE WaitDone
  BY <1>21, <1>3 DEF WaitDone, Get, Goto
<1>22. CASE WaitError
  BY <1>22, <1>1 DEF WaitError, Finish
<1>23. CASE UpdatePvcDone
  BY <1>23, <1>1 DEF UpdatePvcDone, Finish
<1>24. CASE OperatorFails
  BY <1>24, <1>1 DEF OperatorFails, Finish, Fault
<1>25. CASE \E r \in 0 .. MaxReplicas : EditReplicas(r)
  BY <1>25 DEF EditReplicas, SpecVal
<1>26. ASSUME NEW p \in Pods, StsCreate(p) PROVE TypeOK'
  BY <1>26 DEF StsCreate, NewPod, PodRecord, Phase
<1>27. ASSUME NEW p \in Pods, StsScaleDown(p) PROVE TypeOK'
  BY <1>27 DEF StsScaleDown, PodRecord, Phase
<1>28. ASSUME NEW p \in Pods, StsReplaceFailed(p) PROVE TypeOK'
  BY <1>28 DEF StsReplaceFailed, PodRecord, Phase
<1>29. ASSUME NEW p \in Pods, PodReady(p) PROVE TypeOK'
  BY <1>29 DEF PodReady, PodRecord, Phase
<1>30. ASSUME NEW p \in Pods, PodGone(p) PROVE TypeOK'
  BY <1>30, <1>1 DEF PodGone
<1>31. ASSUME NEW p \in Pods, PodCrash(p) PROVE TypeOK'
  BY <1>31 DEF PodCrash, Fault, PodRecord, Phase
<1>32. ASSUME NEW p \in Pods, PvcGone(p) PROVE TypeOK'
  BY <1>32 DEF PvcGone
<1>33. ASSUME NEW p \in Pods, Elect(p) PROVE TypeOK'
  BY <1>33 DEF Elect
<1>34. ASSUME NEW p \in Pods, UpdatePodLabel(p) PROVE TypeOK'
  <2>1. Ready(p) \in BOOLEAN /\ (leader = p /\ Live(p)) \in BOOLEAN
    BY DEF Ready
  <2>2. Relabelled(p) \in PodRecord
    BY <2>1 DEF PodRecord, Relabelled
  <2> QED
    BY <1>34, <2>2 DEF UpdatePodLabel
<1>35. ASSUME NEW p \in Pods, PollHealthy(p) PROVE TypeOK'
  BY <1>35, <1>3 DEF PollHealthy, Get, ApplyNWait, Goto
<1>36. ASSUME NEW p \in Pods, PollUnhealthy(p) PROVE TypeOK'
  BY <1>36, <1>1 DEF PollUnhealthy, Finish
<1>37. ASSUME NEW p \in Pods, DeletePvc(p) PROVE TypeOK'
  BY <1>37 DEF DeletePvc
<1>38. CASE UNCHANGED vars
  BY <1>38 DEF vars
<1> QED
  BY <1>4, <1>5, <1>6, <1>7, <1>8, <1>9, <1>10, <1>11, <1>12, <1>13, <1>14, <1>15, <1>16, <1>17, <1>18, <1>19, <1>20, <1>21, <1>22, <1>23, <1>24, <1>25, <1>26, <1>27, <1>28, <1>29, <1>30, <1>31, <1>32, <1>33, <1>34, <1>35, <1>36, <1>37, <1>38 DEF Next, User, Kubernetes, Operator

(* The user and Kubernetes never touch the reconcile in progress, nor the
   StatefulSet the operator wrote.                                         *)
LEMMA OutsideStep ==
    User \/ Kubernetes => UNCHANGED <<pc, local, sfs>>
BY DEF User, Kubernetes, local, objects, EditImage, EditConfig, EditReplicas, BackupStart,
       BackupDone, StsStatus, StsCreate, StsScaleDown, StsReplaceFailed, PodReady, PodGone,
       PodCrash, PvcGone, Elect, UpdatePodLabel

(* Steps at the end of which the operator holds nothing.                   *)
Ending == RefuseDuringBackup \/ EmptyRevision \/ DeleteTimeout \/ WaitError
          \/ UpdatePvcDone \/ OperatorFails \/ \E p \in Pods : PollUnhealthy(p)

LEMMA EndingStep ==
    Ending => SnapshotApplied' /\ LoopOrder' /\ DownInv' /\ HandledInv'
<1> SUFFICES ASSUME Ending PROVE SnapshotApplied' /\ LoopOrder' /\ DownInv' /\ HandledInv'
  OBVIOUS
<1>1. Finish
  BY DEF Ending, RefuseDuringBackup, EmptyRevision, DeleteTimeout, WaitError, UpdatePvcDone,
         OperatorFails, PollUnhealthy
<1> QED
  BY <1>1 DEF Finish, SnapshotApplied, LoopOrder, DownInv, HandledInv

(* The steps of the operator that go on with a reconcile.                  *)
Continuing ==
    \/ CreateSfs \/ AllUpdated \/ ContinueUpdate \/ UpdateSfs \/ ListPods
    \/ UpdateLeader \/ NoLeaderToUpdate \/ DeletePod \/ PodReplaced \/ WaitDone
    \/ \E p \in Pods : PollHealthy(p) \/ DeletePvc(p)

LEMMA NextCases == Next => User \/ Kubernetes \/ Ending \/ Continuing
BY DEF Next, Operator, Ending, Continuing

LEMMA SnapshotNext == IndInv /\ [Next]_vars => SnapshotApplied'
<1> SUFFICES ASSUME IndInv, [Next]_vars PROVE SnapshotApplied'
  OBVIOUS
<1> USE DEF IndInv, SnapshotApplied
<1>1. CASE User \/ Kubernetes
  BY <1>1, OutsideStep DEF local
<1>2. CASE Ending
  BY <1>2, EndingStep
<1>3. CASE Continuing
  <2>1. CASE CreateSfs \/ AllUpdated
    BY <2>1 DEF CreateSfs, AllUpdated, local
  <2>2. CASE ContinueUpdate \/ UpdateSfs
    BY <2>2 DEF ContinueUpdate, UpdateSfs, EnterUpdatePod, SfsUpdated, Mutated, objects
  <2>3. CASE ListPods \/ UpdateLeader \/ NoLeaderToUpdate \/ DeletePod \/ PodReplaced \/ WaitDone
    BY <2>3 DEF ListPods, UpdateLeader, NoLeaderToUpdate, DeletePod, PodReplaced, WaitDone,
                objects, local
  <2>4. CASE \E p \in Pods : PollHealthy(p) \/ DeletePvc(p)
    BY <2>4 DEF PollHealthy, DeletePvc, objects, local
  <2> QED
    BY <1>3, <2>1, <2>2, <2>3, <2>4 DEF Continuing
<1>4. CASE UNCHANGED vars
  BY <1>4 DEF vars, objects, local
<1> QED
  BY <1>1, <1>2, <1>3, <1>4, NextCases

LEMMA LoopOrderNext == IndInv /\ [Next]_vars => LoopOrder'
<1> SUFFICES ASSUME IndInv, [Next]_vars PROVE LoopOrder'
  OBVIOUS
<1> USE DEF IndInv, LoopOrder
<1>1. CASE User \/ Kubernetes
  BY <1>1, OutsideStep DEF local
<1>2. CASE Ending
  BY <1>2, EndingStep
<1>3. CASE Continuing
  <2>1. CASE CreateSfs \/ AllUpdated
    BY <2>1 DEF CreateSfs, AllUpdated, local
  <2>2. CASE ContinueUpdate \/ UpdateSfs
    BY <2>2 DEF ContinueUpdate, UpdateSfs, EnterUpdatePod, Goto
  <2>3. CASE ListPods
    <3>1. leaderPod = None
      BY <2>3 DEF ListPods
    <3> QED
      BY <2>3, <3>1 DEF ListPods, Goto, Pods, None
  <2>4. CASE UpdateLeader
    BY <2>4 DEF UpdateLeader, ApplyNWait, Goto
  <2>5. CASE NoLeaderToUpdate
    BY <2>5 DEF NoLeaderToUpdate, Goto, local
  <2>6. CASE DeletePod \/ PodReplaced \/ WaitDone
    BY <2>6 DEF DeletePod, PodReplaced, WaitDone, Goto
  <2>7. ASSUME NEW p \in Pods, PollHealthy(p) PROVE LoopOrder'
    <3>1. p # None /\ p \in todo /\ todo' = todo \ {p}
      BY <2>7 DEF PollHealthy, Pods, None
    <3>2. CASE Deferred(p)
      <4>1. leaderPod' = p /\ firstLeader' = p /\ pc' = pc /\ pc = "poll"
        BY <2>7, <3>2 DEF PollHealthy, Deferred
      <4> QED
        BY <3>1, <4>1
    <3>3. CASE ~Deferred(p)
      <4>1. /\ leaderPod' = leaderPod /\ firstLeader' = firstLeader
            /\ cur' = p /\ pc' \in {"wait", "delete"}
        BY <2>7, <3>3 DEF PollHealthy, Deferred, ApplyNWait, Goto
      <4> QED
        BY <3>1, <4>1
    <3> QED
      BY <3>2, <3>3
  <2>8. ASSUME NEW p \in Pods, DeletePvc(p) PROVE LoopOrder'
    BY <2>8 DEF DeletePvc, local
  <2> QED
    BY <1>3, <2>1, <2>2, <2>3, <2>4, <2>5, <2>6, <2>7, <2>8 DEF Continuing
<1>4. CASE UNCHANGED vars
  BY <1>4 DEF vars, local
<1> QED
  BY <1>1, <1>2, <1>3, <1>4, NextCases

LEMMA HandledNext == IndInv /\ [Next]_vars => HandledInv'
<1> SUFFICES ASSUME IndInv, [Next]_vars PROVE HandledInv'
  OBVIOUS
<1> USE DEF IndInv, HandledInv, Handled
<1>1. CASE User \/ Kubernetes
  BY <1>1, OutsideStep DEF local
<1>2. CASE Ending
  BY <1>2, EndingStep
<1>3. CASE Continuing
  <2>1. CASE CreateSfs \/ AllUpdated \/ ContinueUpdate \/ UpdateSfs \/ NoLeaderToUpdate
    BY <2>1 DEF CreateSfs, AllUpdated, ContinueUpdate, UpdateSfs, EnterUpdatePod,
                NoLeaderToUpdate, Goto, local
  <2>2. CASE ListPods
    BY <2>2 DEF ListPods, Goto, Exists
  <2>3. CASE UpdateLeader
    BY <2>3 DEF UpdateLeader, ApplyNWait, Goto
  <2>4. CASE DeletePod
    BY <2>4 DEF DeletePod, Get, TypeOK
  <2>5. CASE PodReplaced
    BY <2>5 DEF PodReplaced, Get, Goto, TypeOK
  <2>6. CASE WaitDone
    <3>1. /\ pc = "wait" /\ copy' = [copy EXCEPT ![cur] = Fetched(cur)]
          /\ UNCHANGED <<snap, updateRev, todo, cur, leaderPod>>
          /\ pc' = IF cur = leaderPod THEN "pvc" ELSE "poll"
      BY <2>6 DEF WaitDone, Get, Goto
    <3>2. cur < snap.replicas => Fetched(cur).healthy /\ Fetched(cur).rev = updateRev
      BY <2>6 DEF WaitDone, Removed, Healthy, Updated, TypeOK, Pods, SpecVal
    <3>3. copy'[cur] = Fetched(cur) /\ \A q \in Pods \ {cur} : copy'[q] = copy[q]
      BY <3>1 DEF TypeOK
    <3> QED
      BY <3>1, <3>2, <3>3 DEF TypeOK
  <2>7. ASSUME NEW p \in Pods, PollHealthy(p) PROVE HandledInv'
    <3>1. /\ pc = "poll" /\ copy' = [copy EXCEPT ![p] = Fetched(p)] /\ todo' = todo \ {p}
          /\ UNCHANGED <<snap, updateRev>>
      BY <2>7 DEF PollHealthy, Get
    <3>2. \A q \in Pods \ {p} : copy'[q] = copy[q]
      BY <3>1
    <3>3. CASE Deferred(p)
      <4>1. leaderPod' = p /\ leaderPod = None /\ pc' = "poll"
        BY <2>7, <3>1, <3>3 DEF PollHealthy, Deferred
      <4>2. \A q \in Pods : q # None
        BY DEF Pods, None
      <4> QED
        BY <3>1, <3>2, <4>1, <4>2
    <3>4. CASE ~Deferred(p)
      <4>1. leaderPod' = leaderPod /\ cur' = p /\ pc' \in {"wait", "delete"}
        BY <2>7, <3>4 DEF PollHealthy, ApplyNWait, Goto
      <4> QED
        BY <3>1, <3>2, <4>1
    <3> QED
      BY <3>3, <3>4
  <2>8. ASSUME NEW p \in Pods, DeletePvc(p) PROVE HandledInv'
    BY <2>8 DEF DeletePvc, local
  <2> QED
    BY <1>3, <2>1, <2>2, <2>3, <2>4, <2>5, <2>6, <2>7, <2>8 DEF Continuing
<1>4. CASE UNCHANGED vars
  BY <1>4 DEF vars, local
<1> QED
  BY <1>1, <1>2, <1>3, <1>4, NextCases

(* What the outside does to a pod that is down leaves it unsettled or lifts
   it out of down; nothing else enters down.                               *)
LEMMA DownOutside ==
    ASSUME IndInv, User \/ Kubernetes
    PROVE  down' \subseteq down /\ \A d \in down' : DownPod(d)'
<1> USE DEF IndInv, TypeOK, DownInv, DownPod, Unsettled
<1>0. UNCHANGED <<pc, snap, updateRev, sfs>>
  BY OutsideStep DEF local
<1>1. CASE UNCHANGED <<pods, down>>
  BY <1>0, <1>1
<1>2. ASSUME NEW p \in Pods, StsCreate(p)
      PROVE  down' \subseteq down /\ \A d \in down' : DownPod(d)'
  <2>1. pods' = [pods EXCEPT ![p] = NewPod] /\ down' = down /\ p < sfs.replicas
    BY <1>2 DEF StsCreate
  <2>2. NewPod.phase = "starting" /\ ~NewPod.healthy
    BY DEF NewPod
  <2>3. p \in down => p < snap.replicas
    BY <2>1 DEF SnapshotApplied
  <2> QED
    BY <1>0, <2>1, <2>2, <2>3
<1>3. ASSUME NEW p \in Pods, StsScaleDown(p) \/ StsReplaceFailed(p)
      PROVE  down' \subseteq down /\ \A d \in down' : DownPod(d)'
  <2>1. pods' = [pods EXCEPT ![p] = [pods[p] EXCEPT !.phase = "terminating"]] /\ down' = down
    BY <1>3 DEF StsScaleDown, StsReplaceFailed
  <2>2. pods'[p].phase = "terminating" /\ pods'[p].healthy = pods[p].healthy
        /\ pods'[p].rev = pods[p].rev
    BY <2>1 DEF PodRecord
  <2>3. p \in down => ~pods[p].healthy \/ Unsettled(pods[p])
    <3>1. pods[p].phase # "none"
      BY <1>3 DEF StsScaleDown, StsReplaceFailed, Live, Exists
    <3> QED
      BY <3>1
  <2> QED
    BY <1>0, <2>1, <2>2, <2>3
<1>4. ASSUME NEW p \in Pods, PodReady(p)
      PROVE  down' \subseteq down /\ \A d \in down' : DownPod(d)'
  BY <1>0, <1>4 DEF PodReady
<1>5. ASSUME NEW p \in Pods, PodGone(p)
      PROVE  down' \subseteq down /\ \A d \in down' : DownPod(d)'
  BY <1>0, <1>5 DEF PodGone, NoPod
<1>6. ASSUME NEW p \in Pods, PodCrash(p)
      PROVE  down' \subseteq down /\ \A d \in down' : DownPod(d)'
  <2>1. p \notin down
    BY <1>6 DEF PodCrash, Ready
  <2> QED
    BY <1>0, <1>6, <2>1 DEF PodCrash
<1>7. ASSUME NEW p \in Pods, UpdatePodLabel(p)
      PROVE  down' \subseteq down /\ \A d \in down' : DownPod(d)'
  <2>1. pods' = [pods EXCEPT ![p] = Relabelled(p)] /\ down' = down
    BY <1>7 DEF UpdatePodLabel, objects
  <2>2. pods'[p].phase = pods[p].phase /\ (p \in down => ~pods'[p].healthy)
    BY <2>1 DEF Relabelled, Ready
  <2> QED
    BY <1>0, <2>1, <2>2
<1>8. CASE \E p \in Pods : PvcGone(p) \/ Elect(p)
  BY <1>1, <1>8 DEF PvcGone, Elect, objects
<1>9. CASE StsStatus \/ User
  BY <1>1, <1>9 DEF StsStatus, User, EditImage, EditConfig, EditReplicas, BackupStart, BackupDone
<1> QED
  BY <1>2, <1>3, <1>4, <1>5, <1>6, <1>7, <1>8, <1>9 DEF Kubernetes

LEMMA DownNext == IndInv /\ [Next]_vars => DownInv'
<1> SUFFICES ASSUME IndInv, [Next]_vars PROVE DownInv'
  OBVIOUS
<1> USE DEF IndInv, DownInv
<1>1. CASE User \/ Kubernetes
  <2>1. UNCHANGED <<pc, local, sfs>>
    BY <1>1, OutsideStep
  <2>2. down' \subseteq down /\ \A d \in down' : DownPod(d)'
    BY <1>1, DownOutside
  <2> QED
    BY <2>1, <2>2 DEF local, Unsettled
<1>2. CASE Ending
  BY <1>2, EndingStep
<1>3. CASE Continuing
  <2>1. CASE CreateSfs \/ AllUpdated \/ ContinueUpdate \/ UpdateSfs \/ ListPods
              \/ UpdateLeader \/ NoLeaderToUpdate
    BY <2>1 DEF CreateSfs, AllUpdated, ContinueUpdate, UpdateSfs, EnterUpdatePod, ListPods,
                UpdateLeader, NoLeaderToUpdate, Goto, local
  <2>2. CASE DeletePod
    <3>1. /\ pc = "delete" /\ pc' = pc /\ cur' = cur /\ cur \in Pods /\ snap.replicas # 0
          /\ UNCHANGED <<snap, updateRev>>
          /\ pods[cur].rev # updateRev /\ down' = down \cup {cur}
          /\ pods' = [pods EXCEPT ![cur] = [pods[cur] EXCEPT !.phase = "terminating"]]
      BY <2>2 DEF DeletePod, TypeOK
    <3>2. down' = {cur}
      BY <3>1
    <3>3. pods'[cur].phase = "terminating" /\ pods'[cur].rev = pods[cur].rev
      BY <3>1 DEF TypeOK, PodRecord
    <3>4. DownPod(cur)'
      BY <3>1, <3>3 DEF DownPod, Unsettled
    <3> QED
      BY <3>1, <3>2, <3>4
  <2>3. CASE PodReplaced
    <3>1. /\ pc = "delete" /\ pc' = "wait" /\ cur' = cur /\ cur \in Pods
          /\ UNCHANGED <<snap, updateRev, pods, down>>
          /\ copy' = [copy EXCEPT ![cur] = Fetched(cur)]
          /\ pods[cur].phase # "none"
          /\ snap.replicas # 0 => pods[cur].phase # "terminating"
      BY <2>3 DEF PodReplaced, Goto, Get, TypeOK, objects, Live, Exists, Terminating
    <3>2. copy'[cur] = pods[cur]
      BY <3>1 DEF Fetched, Exists, TypeOK
    <3>3. ASSUME cur \in down PROVE Unsettled(copy[cur])' /\ cur < snap.replicas
      <4>1. pods[cur].phase = "starting"
        BY <3>1, <3>3 DEF DownPod
      <4> QED
        BY <3>1, <3>2, <3>3, <4>1 DEF DownPod, Unsettled
    <3> QED
      BY <3>1, <3>3 DEF DownPod, Unsettled
  <2>4. CASE WaitDone
    <3>1. /\ pc = "wait" /\ cur' = cur /\ cur \in Pods /\ pc' \in {"pvc", "poll"}
          /\ UNCHANGED <<snap, updateRev, pods, down>>
          /\ \/ cur >= snap.replicas
             \/ Fetched(cur).healthy /\ Fetched(cur).rev = updateRev
      BY <2>4 DEF WaitDone, Goto, TypeOK, objects, Removed, Healthy, Updated
    <3>2. ASSUME cur \in down PROVE FALSE
      <4>1. cur < snap.replicas /\ Unsettled(copy[cur]) /\ DownPod(cur)
        BY <3>1, <3>2
      <4>2. ~(cur >= snap.replicas)
        BY <4>1, <3>1 DEF TypeOK, SpecVal, Pods
      <4>3. ~Unsettled(Fetched(cur))
        BY <3>1, <4>2 DEF Unsettled
      <4> QED
        BY <4>1, <4>3 DEF Fetched, Exists, DownPod, Unsettled
    <3>3. down = {}
      BY <3>2
    <3> QED
      BY <3>1, <3>3
  <2>5. ASSUME NEW p \in Pods, PollHealthy(p) \/ DeletePvc(p) PROVE DownInv'
    <3>1. down = {} /\ down' = {}
      BY <2>5 DEF PollHealthy, DeletePvc
    <3> QED
      BY <3>1
  <2> QED
    BY <1>3, <2>1, <2>2, <2>3, <2>4, <2>5 DEF Continuing
<1>4. CASE UNCHANGED vars
  BY <1>4 DEF vars, objects, local, DownPod, Unsettled
<1> QED
  BY <1>1, <1>2, <1>3, <1>4, NextCases

LEMMA IndInit == Init => IndInv
<1> SUFFICES ASSUME Init PROVE IndInv
  OBVIOUS
<1>1. TypeOK
  BY TypeInit
<1>2. InitLocal
  BY DEF Init, InitWith
<1> QED
  BY <1>1, <1>2 DEF InitLocal, IndInv, SnapshotApplied, LoopOrder, DownInv, HandledInv

(* The inductive invariant holds of every behaviour.                       *)
LEMMA Inductive == Spec => []IndInv
<1>1. IndInv /\ [Next]_vars => IndInv'
  BY TypeNext, SnapshotNext, LoopOrderNext, DownNext, HandledNext DEF IndInv
<1> QED
  BY IndInit, <1>1, PTL DEF Spec

(* The state of the controller and what it holds are of the types that the
   code gives them, whatever is edited or fails.                           *)
THEOREM TypeCorrect == Spec => []TypeOK
<1>1. IndInv => TypeOK
  BY DEF IndInv
<1> QED
  BY Inductive, <1>1, PTL

(* updatePod never has two pods down at once.                              *)
THEOREM RestartsOneAtATime == Spec => []OneRestartAtATime
<1>1. IndInv => OneRestartAtATime
  BY DEF IndInv, DownInv, OneRestartAtATime
<1> QED
  BY Inductive, <1>1, PTL

(* updatePod deletes the leader it saw first only after the followers.     *)
THEOREM LeaderRestartsLast == Spec => FollowersFirst
<1> DEFINE Order == DeletePod /\ cur = firstLeader =>
                      \A q \in Pods \ {cur} :
                         copy[q].phase # "none" /\ q < snap.replicas =>
                             copy[q].healthy /\ copy[q].rev = updateRev
<1>1. IndInv => Order
  BY DEF IndInv, LoopOrder, HandledInv, Handled, DeletePod
<1>2. IndInv /\ [Next]_vars => [Order]_vars
  BY <1>1
<1> QED
  BY Inductive, <1>2, PTL DEF Spec, FollowersFirst

(* updatePVC only ever deletes claims that the StatefulSet does not want.  *)
THEOREM ClaimsKept == Spec => WantedClaimsKept
<1> DEFINE Kept == \A p \in Pods : pvc[p] = "bound" /\ pvc'[p] = "deleting"
                                     => p >= sfs.replicas
<1>1. IndInv /\ [Next]_vars => [Kept]_vars
  <2> SUFFICES ASSUME IndInv, Next PROVE Kept
    BY DEF Kept
  <2>1. ASSUME NEW d \in Pods, DeletePvc(d) PROVE Kept
    BY <2>1 DEF DeletePvc, Extra, IndInv, TypeOK, SnapshotApplied
  <2>2. ASSUME NEW d \in Pods, StsCreate(d) \/ PvcGone(d) PROVE Kept
    BY <2>2 DEF StsCreate, PvcGone, IndInv, TypeOK
  <2>3. CASE UNCHANGED pvc
    BY <2>3
  <2> QED
    BY <2>1, <2>2, <2>3 DEF Next, User, Kubernetes, Operator, objects, EditImage, EditConfig,
       EditReplicas, BackupStart, BackupDone, StsStatus, StsScaleDown, StsReplaceFailed, PodReady,
       PodGone, PodCrash, Elect, UpdatePodLabel, CreateSfs, AllUpdated, ContinueUpdate, UpdateSfs,
       RefuseDuringBackup, ListPods, UpdateLeader, NoLeaderToUpdate, EmptyRevision, DeletePod,
       PodReplaced, DeleteTimeout, WaitDone, WaitError, UpdatePvcDone, PollHealthy, PollUnhealthy,
       OperatorFails
<1> QED
  BY Inductive, <1>1, PTL DEF Spec, WantedClaimsKept

=============================================================================
