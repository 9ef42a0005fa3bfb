-------------------------- MODULE MysqlUserProofs --------------------------
(***************************************************************************)
(* Proofs of the safety properties of MysqlUser, for any set of hosts and  *)
(* any number of edits, passwords, drops and faults.                       *)
(***************************************************************************)
EXTENDS MysqlUser, TLAPS

(* The initial values are of the right type.                               *)
LEMMA TypeInit == Init => TypeOK
<1> SUFFICES ASSUME Init PROVE TypeOK
  OBVIOUS
<1> USE HostsAssumption, BoundsAssumption
<1>1. NoRevision \in Revision /\ NoStatus \in StatusVal /\ NoCr \in CrVal
  BY DEF Revision, NoStatus, StatusVal, NoCr, CrVal
<1>2. cr \in CrVal /\ (cr.deleting => cr.finalizer) /\ (cr.finalizer => cr.exists)
  BY DEF Init, CrVal
<1>3. status \in StatusVal /\ obj \in CrVal /\ st \in StatusVal /\ old \in StatusVal
  BY <1>1 DEF Init
<1>4. /\ secret \in 0 .. MaxPassword /\ pw \in 0 .. MaxPassword
      /\ budget \in [edits : 0 .. MaxEdits, drops : 0 .. MaxDrops, faults : 0 .. MaxFaults]
  BY DEF Init
<1>5. db \in [Hosts -> Account \cup {NoAccount}] /\ pc \in PcVal /\ todo \subseteq Hosts
  BY DEF Init, PcVal
<1>6. cluster \in BOOLEAN /\ stale \in BOOLEAN /\ (pc # "idle" /\ ~stale => cr.exists)
  BY DEF Init
<1> QED
  BY <1>2, <1>3, <1>4, <1>5, <1>6 DEF TypeOK

(* Every step keeps the types.                                             *)
LEMMA TypeNext == TypeOK /\ [Next]_vars => TypeOK'
<1> SUFFICES ASSUME TypeOK, [Next]_vars PROVE TypeOK'
  OBVIOUS
<1> USE HostsAssumption, BoundsAssumption DEF TypeOK, PcVal, server, local, Goto
<1>1. NoRevision \in Revision /\ NoStatus \in StatusVal /\ NoCr \in CrVal
  BY DEF Revision, NoStatus, StatusVal, NoCr, CrVal
<1>2. CASE UNCHANGED vars
  BY <1>2 DEF vars
<1>3. CASE World
  <2>1. CASE \E hosts \in SUBSET Hosts : EditHosts(hosts)
    BY <2>1 DEF EditHosts, CrVal
  <2>2. CASE EditSecret
    BY <2>2 DEF EditSecret
  <2>3. CASE DeleteCr
    BY <1>1, <2>3 DEF DeleteCr, CrVal, NoCr
  <2>4. CASE DeleteCluster
    BY <2>4 DEF DeleteCluster
  <2>5. CASE \E h \in Hosts : DropInMysql(h)
    BY <2>5 DEF DropInMysql
  <2> QED
    BY <1>3, <2>1, <2>2, <2>3, <2>4, <2>5 DEF World
<1>4. Finish => /\ pc' = "idle" /\ obj' \in CrVal /\ st' \in StatusVal
                /\ old' \in StatusVal /\ stale' \in BOOLEAN
                /\ pw' \in 0 .. MaxPassword /\ todo' \subseteq Hosts
  <2> SUFFICES ASSUME Finish PROVE /\ pc' = "idle" /\ obj' \in CrVal /\ st' \in StatusVal
                /\ old' \in StatusVal /\ stale' \in BOOLEAN
                /\ pw' \in 0 .. MaxPassword /\ todo' \subseteq Hosts
    OBVIOUS
  <2>1. pw' \in 0 .. MaxPassword
    BY DEF Finish
  <2>2. obj' \in CrVal /\ st' \in StatusVal /\ old' \in StatusVal
    BY <1>1 DEF Finish
  <2>3. stale' \in BOOLEAN
    BY DEF Finish
  <2>4. todo' \subseteq Hosts
    BY DEF Finish
  <2> QED
    BY <2>1, <2>2, <2>3, <2>4 DEF Finish
<1>5. Fail => /\ pc' = "status" /\ st' \in StatusVal
              /\ UNCHANGED <<obj, old, stale, pw, todo>>
  BY DEF Fail, StatusVal
<1>6. CASE Reconcile
  <2>1. CASE Fetch
    BY <2>1 DEF Fetch, DroppedOnDelete, StatusVal
  <2>2. CASE CheckUser
    BY <1>1, <2>2 DEF CheckUser, StatusVal
  <2>3. CASE ClusterMissing \/ SqlFails \/ AddFinalizerConflict
    BY <1>5, <2>3 DEF ClusterMissing, SqlFails, AddFinalizerConflict
  <2>4. CASE CompareHash
    BY <2>4 DEF CompareHash
  <2>5. CASE CreateUser
    BY <2>5 DEF CreateUser, Account
  <2>6. CASE AlterUser
    <3>1. \A h \in obj.hosts : h \in Hosts /\ db[h] \in Account
      BY <2>6 DEF AlterUser, AllExist, CrVal
    <3> QED
      BY <2>6, <3>1 DEF AlterUser, Account
  <2>7. CASE Grant
    <3>1. \A h \in obj.hosts : h \in Hosts /\ db[h] \in Account
      BY <2>7 DEF Grant, AllExist, CrVal
    <3>2. SqlHash \in Revision
      BY DEF SqlHash, Hash, Revision, CrVal
    <3>3. st' \in StatusVal
      BY <2>7, <3>2 DEF Grant, Recorded, StatusVal
    <3> QED
      BY <2>7, <3>1, <3>3 DEF Grant, Account
  <2>8. CASE FinalizerPresent
    BY <2>8 DEF FinalizerPresent, Provisioned, StatusVal, CrVal
  <2>9. CASE AddFinalizer
    BY <2>9 DEF AddFinalizer, Provisioned, StatusVal, CrVal
  <2>10. CASE UpdateStatus \/ UpdateStatusConflict \/ DropFails \/ RemoveFinalizerConflict
    BY <1>4, <2>10 DEF UpdateStatus, UpdateStatusConflict, DropFails, RemoveFinalizerConflict
  <2>11. CASE ConnectToDrop
    BY <2>11 DEF ConnectToDrop
  <2>12. CASE RemoveFinalizer
    BY <1>1, <1>4, <2>12 DEF RemoveFinalizer, NoCr
  <2>13. CASE \E h \in Hosts : DropHost(h)
    BY <2>13 DEF DropHost
  <2> QED
    BY <1>6, <2>1, <2>2, <2>3, <2>4, <2>5, <2>6, <2>7, <2>8, <2>9, <2>10, <2>11, <2>12, <2>13
       DEF Reconcile
<1>7. CASE CallFails \/ ReconcileDies
  BY <1>4, <1>5, <1>7 DEF CallFails, ReconcileDies, Fault
<1> QED
  BY <1>2, <1>3, <1>6, <1>7 DEF Next

(* A resource that was not written by another is the copy, and its status  *)
(* is the one the reconcile began with.                                    *)
LEMMA FreshNext == IndInv /\ [Next]_vars => CopiesFresh'
<1> SUFFICES ASSUME IndInv, [Next]_vars PROVE CopiesFresh'
  OBVIOUS
<1> USE DEF IndInv, CopiesFresh, server, local, Goto
<1>1. CASE UNCHANGED vars
  BY <1>1 DEF vars
<1>2. CASE World
  BY <1>2 DEF World, EditHosts, EditSecret, DeleteCr, DeleteCluster, DropInMysql
<1>3. CASE Reconcile
  <2>1. CASE Fetch
    BY <2>1 DEF Fetch
  <2>2. CASE CheckUser \/ CompareHash \/ CreateUser \/ AlterUser \/ Grant
             \/ FinalizerPresent \/ ConnectToDrop \/ \E h \in Hosts : DropHost(h)
    BY <2>2 DEF CheckUser, CompareHash, CreateUser, AlterUser, Grant, FinalizerPresent,
                ConnectToDrop, DropHost
  <2>3. CASE ClusterMissing \/ SqlFails \/ AddFinalizerConflict
    BY <2>3 DEF ClusterMissing, SqlFails, AddFinalizerConflict, Fail
  <2>4. CASE AddFinalizer
    BY <2>4 DEF AddFinalizer
  <2>5. CASE UpdateStatus \/ UpdateStatusConflict \/ DropFails \/ RemoveFinalizer
             \/ RemoveFinalizerConflict
    BY <2>5 DEF UpdateStatus, UpdateStatusConflict, DropFails, RemoveFinalizer,
                RemoveFinalizerConflict, Finish
  <2> QED
    BY <1>3, <2>1, <2>2, <2>3, <2>4, <2>5 DEF Reconcile
<1>4. CASE CallFails \/ ReconcileDies
  BY <1>4 DEF CallFails, ReconcileDies, Fault, Fail, Finish
<1> QED
  BY <1>1, <1>2, <1>3, <1>4 DEF Next

(* Hosts are recorded only after the finalizer is on the stored resource.  *)
LEMMA GuardedNext ==
    IndInv /\ [Next]_vars => RecordedUsersGuarded' /\ CopyGuarded'
<1> SUFFICES ASSUME IndInv, [Next]_vars PROVE RecordedUsersGuarded' /\ CopyGuarded'
  OBVIOUS
<1> USE DEF IndInv, RecordedUsersGuarded, CopyGuarded, server, local, Goto
<1>1. CASE UNCHANGED vars
  BY <1>1 DEF vars
<1>2. CASE World
  BY <1>2 DEF World, EditHosts, EditSecret, DeleteCr, DeleteCluster, DropInMysql,
              NoStatus, TypeOK, CrVal
<1>3. CASE Reconcile
  <2>1. CASE Fetch
    BY <2>1 DEF Fetch
  <2>2. CASE CheckUser
    BY <2>2 DEF CheckUser, TypeOK, StatusVal
  <2>3. CASE CompareHash \/ CreateUser \/ AlterUser \/ ConnectToDrop
             \/ \E h \in Hosts : DropHost(h)
    BY <2>3 DEF CompareHash, CreateUser, AlterUser, ConnectToDrop, DropHost
  <2>4. CASE Grant
    BY <2>4 DEF Grant, Recorded, TypeOK, StatusVal
  <2>5. CASE ClusterMissing \/ SqlFails \/ AddFinalizerConflict
    BY <2>5 DEF ClusterMissing, SqlFails, AddFinalizerConflict, Fail, TypeOK, StatusVal
  <2>6. CASE FinalizerPresent
    BY <2>6 DEF FinalizerPresent, CopiesFresh
  <2>7. CASE AddFinalizer
    BY <2>7 DEF AddFinalizer, TypeOK, CrVal
  <2>8. CASE UpdateStatus
    BY <2>8 DEF UpdateStatus, Finish
  <2>9. CASE RemoveFinalizer
    BY <2>9 DEF RemoveFinalizer, Finish, NoStatus
  <2>10. CASE UpdateStatusConflict \/ DropFails \/ RemoveFinalizerConflict
    BY <2>10 DEF UpdateStatusConflict, DropFails, RemoveFinalizerConflict, Finish
  <2> QED
    BY <1>3, <2>1, <2>2, <2>3, <2>4, <2>5, <2>6, <2>7, <2>8, <2>9, <2>10 DEF Reconcile
<1>4. CASE CallFails \/ ReconcileDies
  BY <1>4 DEF CallFails, ReconcileDies, Fault, Fail, Finish, TypeOK, StatusVal
<1> QED
  BY <1>1, <1>2, <1>3, <1>4 DEF Next

(* Accounts appear only while the cluster exists and no removal is under   *)
(* way, so that a removal never loses ground.                              *)
LEMMA DropNext ==
    IndInv /\ [Next]_vars => NoClusterNoAccount' /\ DropProgress'
<1> SUFFICES ASSUME IndInv, [Next]_vars PROVE NoClusterNoAccount' /\ DropProgress'
  OBVIOUS
<1> USE DEF IndInv, NoClusterNoAccount, DropProgress, server, local, Goto
<1>1. CASE UNCHANGED vars
  BY <1>1 DEF vars
<1>2. CASE World
  <2>1. CASE (\E hosts \in SUBSET Hosts : EditHosts(hosts)) \/ EditSecret \/ DeleteCr
    BY <2>1 DEF EditHosts, EditSecret, DeleteCr
  <2>2. CASE DeleteCluster
    BY <2>2 DEF DeleteCluster, TypeOK, StatusVal
  <2>3. CASE \E h \in Hosts : DropInMysql(h)
    BY <2>3 DEF DropInMysql, TypeOK, StatusVal
  <2> QED
    BY <1>2, <2>1, <2>2, <2>3 DEF World
<1>3. CASE Reconcile
  <2>1. CASE Fetch
    BY <2>1 DEF Fetch, DroppedOnDelete
  <2>2. CASE CheckUser \/ CompareHash \/ FinalizerPresent \/ AddFinalizer
    BY <2>2 DEF CheckUser, CompareHash, FinalizerPresent, AddFinalizer
  <2>3. CASE CreateUser \/ AlterUser \/ Grant
    BY <2>3 DEF CreateUser, AlterUser, Grant
  <2>4. CASE ClusterMissing \/ SqlFails \/ AddFinalizerConflict
    BY <2>4 DEF ClusterMissing, SqlFails, AddFinalizerConflict, Fail
  <2>5. CASE ConnectToDrop
    BY <2>5 DEF ConnectToDrop, TypeOK, StatusVal
  <2>6. CASE \E h \in Hosts : DropHost(h)
    BY <2>6 DEF DropHost, TypeOK, StatusVal
  <2>7. CASE UpdateStatus \/ UpdateStatusConflict \/ DropFails \/ RemoveFinalizer
             \/ RemoveFinalizerConflict
    BY <2>7 DEF UpdateStatus, UpdateStatusConflict, DropFails, RemoveFinalizer,
                RemoveFinalizerConflict, Finish
  <2> QED
    BY <1>3, <2>1, <2>2, <2>3, <2>4, <2>5, <2>6, <2>7 DEF Reconcile
<1>4. CASE CallFails \/ ReconcileDies
  BY <1>4 DEF CallFails, ReconcileDies, Fault, Fail, Finish
<1> QED
  BY <1>1, <1>2, <1>3, <1>4 DEF Next

(* The strengthened invariant holds in every reachable state.              *)
LEMMA Inductive == Spec => []IndInv
<1>1. Init => IndInv
  BY TypeInit DEF Init, IndInv, RecordedUsersGuarded, CopiesFresh, CopyGuarded,
                  NoClusterNoAccount, DropProgress, NoStatus
<1>2. IndInv /\ [Next]_vars => IndInv'
  BY TypeNext, FreshNext, GuardedNext, DropNext DEF IndInv
<1> QED
  BY <1>1, <1>2, PTL DEF Spec

(* The variables keep their types (type invariant of the controller).      *)
THEOREM TypeCorrect == Spec => []TypeOK
BY Inductive, PTL DEF IndInv

(* The finalizer guards every recorded host (reconcileUserInCluster).      *)
THEOREM UsersGuarded == Spec => []RecordedUsersGuarded
BY Inductive, PTL DEF IndInv

(* The resource goes only after the accounts it recorded (removeUser).     *)
THEOREM UsersDropped == Spec => RecordedUsersDropped
<1> DEFINE Drop == cr.exists /\ ~cr'.exists => \A h \in status.allowed : db[h] = NoAccount
<1>1. IndInv /\ [Next]_vars => [Drop]_vars
  <2> SUFFICES ASSUME IndInv, Next PROVE Drop
    OBVIOUS
  <2> USE DEF IndInv, server, local
  <2>1. CASE World
    BY <2>1 DEF World, EditHosts, EditSecret, DeleteCr, DeleteCluster, DropInMysql,
                RecordedUsersGuarded, TypeOK, CrVal
  <2>2. CASE RemoveFinalizer
    BY <2>2 DEF RemoveFinalizer, CopiesFresh, DropProgress
  <2>3. CASE AddFinalizer
    BY <2>3 DEF AddFinalizer, TypeOK, CrVal
  <2>4. CASE Next /\ ~World /\ ~RemoveFinalizer /\ ~AddFinalizer
    <3>1. cr' = cr
      BY <2>4 DEF Next, Reconcile, Fetch, CheckUser, ClusterMissing, CompareHash, CreateUser,
                  AlterUser, Grant, SqlFails, FinalizerPresent, AddFinalizerConflict,
                  UpdateStatus, UpdateStatusConflict, ConnectToDrop, DropFails,
                  RemoveFinalizerConflict, DropHost, CallFails, ReconcileDies, Fault
    <3> QED
      BY <3>1
  <2> QED
    BY <2>1, <2>2, <2>3, <2>4
<1> QED
  BY Inductive, <1>1, PTL DEF Spec, RecordedUsersDropped

=============================================================================
