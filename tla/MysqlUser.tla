----------------------------- MODULE MysqlUser -----------------------------
(***************************************************************************)
(* The MysqlUser controller (controllers/mysqluser_controller.go): one     *)
(* MysqlUser resource and the accounts user@host it stands for in the      *)
(* MySQL leader.                                                           *)
(*                                                                         *)
(* A reconcile works on a copy of the resource and makes its changes one   *)
(* call at a time: SQL on the leader, the finalizer (Update), the status   *)
(* (Status().Update).  Nothing ties these stores together.  The user may   *)
(* edit or delete the resource, change the secret or drop an account       *)
(* between any two calls, a call may fail and the operator may restart.    *)
(* The API server refuses a write based on an old resourceVersion: stale   *)
(* is set when somebody else wrote the resource since it was fetched.      *)
(***************************************************************************)
EXTENDS Integers, FiniteSets

CONSTANTS
    Hosts,       \* host patterns an account may be given
    FirstHosts,  \* Spec.Hosts when the resource is created
    MaxEdits,    \* bound: edits of Spec.Hosts
    MaxPassword, \* bound: passwords 0 .. MaxPassword in the secret
    MaxDrops,    \* bound: accounts dropped directly in MySQL
    MaxFaults    \* bound: failed calls and operator restarts

ASSUME HostsAssumption == IsFiniteSet(Hosts) /\ FirstHosts \in (SUBSET Hosts) \ {{}}
ASSUME BoundsAssumption ==
    MaxEdits \in Nat /\ MaxPassword \in Nat /\ MaxDrops \in Nat /\ MaxFaults \in Nat

(* An account: its password, and whether the permissions are granted.      *)
Account == [pw : 0 .. MaxPassword, granted : BOOLEAN]
NoAccount == [pw |-> -1, granted |-> FALSE]

(* Status.Revision is the hash of the SQL: the hosts and the password, the *)
(* user name and the permissions being fixed.                              *)
Hash(hosts, password) == [hosts |-> hosts, pw |-> password]
NoRevision == [hosts |-> {}, pw |-> -1]
Revision == [hosts : SUBSET Hosts, pw : 0 .. MaxPassword] \cup {NoRevision}

VARIABLES
    cr,       \* the MysqlUser: exists, deleting, finalizer, hosts (Spec.Hosts)
    status,   \* its status subresource: allowed (AllowedHosts), revision, ready
    secret,   \* the password in the secret
    cluster,  \* the MysqlCluster exists
    db,       \* accounts of the user in the leader, by host
    budget,   \* [edits, drops, faults] used so far
    (* the reconcile *)
    pc,       \* where it is
    obj,      \* the copy of cr it works on
    st,       \* the copy of status it works on
    old,      \* oldStatus
    stale,    \* the resource was written by another since it was fetched
    pw,       \* the password it read
    todo      \* hosts still to drop

server == <<cr, status, secret, cluster, db, budget>>
local  == <<obj, st, old, pw, todo>>
vars   == <<server, pc, local, stale>>

CrVal == [exists : BOOLEAN, deleting : BOOLEAN, finalizer : BOOLEAN, hosts : SUBSET Hosts]
StatusVal == [allowed : SUBSET Hosts, revision : Revision,
              ready : {"unknown", "true", "false"}]
PcVal == {"idle", "check", "remove", "create", "alter", "grant", "finalizer",
          "status", "connect", "drop"}

TypeOK ==
    /\ cr \in CrVal /\ status \in StatusVal
    /\ cr.deleting => cr.finalizer
    /\ cr.finalizer => cr.exists
    /\ pc # "idle" /\ ~stale => cr.exists
    /\ secret \in 0 .. MaxPassword /\ cluster \in BOOLEAN
    /\ db \in [Hosts -> Account \cup {NoAccount}]
    /\ budget \in [edits : 0 .. MaxEdits, drops : 0 .. MaxDrops, faults : 0 .. MaxFaults]
    /\ pc \in PcVal
    /\ obj \in CrVal /\ st \in StatusVal /\ old \in StatusVal
    /\ stale \in BOOLEAN /\ pw \in 0 .. MaxPassword /\ todo \subseteq Hosts

NoCr == [exists |-> FALSE, deleting |-> FALSE, finalizer |-> FALSE, hosts |-> {}]
NoStatus == [allowed |-> {}, revision |-> NoRevision, ready |-> "unknown"]

Init ==
    /\ cr = [exists |-> TRUE, deleting |-> FALSE, finalizer |-> FALSE, hosts |-> FirstHosts]
    /\ status = NoStatus
    /\ secret = 0 /\ cluster = TRUE
    /\ db = [h \in Hosts |-> NoAccount]
    /\ budget = [edits |-> 0, drops |-> 0, faults |-> 0]
    /\ pc = "idle" /\ obj = NoCr /\ st = NoStatus /\ old = NoStatus
    /\ stale = FALSE /\ pw = 0 /\ todo = {}

-----------------------------------------------------------------------------
(* The user and the rest of the world.                                     *)
EditHosts(hosts) ==
    /\ cr.exists
    /\ hosts \notin {{}, cr.hosts} /\ budget.edits < MaxEdits
    /\ cr' = [cr EXCEPT !.hosts = hosts]
    /\ stale' = TRUE
    /\ budget' = [budget EXCEPT !.edits = @ + 1]
    /\ UNCHANGED <<status, secret, cluster, db, pc, local>>

EditSecret ==
    /\ secret < MaxPassword
    /\ secret' = secret + 1
    /\ UNCHANGED <<cr, status, cluster, db, budget, pc, local, stale>>

(* kubectl delete: without a finalizer the resource is gone at once.       *)
DeleteCr ==
    /\ cr.exists /\ ~cr.deleting
    /\ cr' = IF cr.finalizer THEN [cr EXCEPT !.deleting = TRUE] ELSE NoCr
    /\ status' = IF cr.finalizer THEN status ELSE NoStatus
    /\ stale' = TRUE
    /\ UNCHANGED <<secret, cluster, db, budget, pc, local>>

DeleteCluster ==
    /\ cluster
    /\ cluster' = FALSE
    /\ db' = [h \in Hosts |-> NoAccount]
    /\ UNCHANGED <<cr, status, secret, budget, pc, local, stale>>

DropInMysql(h) ==
    /\ db[h] # NoAccount /\ budget.drops < MaxDrops
    /\ db' = [db EXCEPT ![h] = NoAccount]
    /\ budget' = [budget EXCEPT !.drops = @ + 1]
    /\ UNCHANGED <<cr, status, secret, cluster, pc, local, stale>>

-----------------------------------------------------------------------------
(* The reconcile.                                                          *)
Goto(l) == pc' = l

(* Nothing of a finished reconcile is kept.                                *)
Finish ==
    /\ pc' = "idle" /\ obj' = NoCr /\ st' = NoStatus /\ old' = NoStatus
    /\ stale' = FALSE /\ pw' = 0 /\ todo' = {}

(* The hosts dropUserFromDB goes through.                                  *)
DroppedOnDeleteBySpec(user, recorded) == user.hosts
DroppedOnDelete(user, recorded) == recorded.allowed

Fetch ==
    /\ pc = "idle" /\ cr.exists
    /\ obj' = cr /\ st' = status /\ old' = status /\ stale' = FALSE
    /\ todo' = IF cr.deleting THEN DroppedOnDelete(cr, status) ELSE {}
    /\ Goto(IF cr.deleting THEN "connect" ELSE "check")
    /\ UNCHANGED <<server, pw>>

(* reconcileUserInCluster ends in an error: setFailedStatus.               *)
Fail ==
    /\ st' = [st EXCEPT !.ready = "false"]
    /\ Goto("status")
    /\ UNCHANGED <<obj, old, pw, todo, stale>>

(***************************************************************************)
(* Connect to the leader, read the secret, see whether MySQL knows the     *)
(* user name, with any host, and find the recorded hosts the spec dropped. *)
(***************************************************************************)
UserExists == \E h \in Hosts : db[h] # NoAccount

CheckUser ==
    /\ pc = "check" /\ cluster
    /\ pw' = secret
    /\ st' = [st EXCEPT !.revision = IF UserExists THEN @ ELSE NoRevision]
    /\ todo' = st.allowed \ obj.hosts
    /\ Goto("remove")
    /\ UNCHANGED <<server, obj, old, stale>>

ClusterMissing ==
    /\ pc = "check" /\ ~cluster
    /\ Fail
    /\ UNCHANGED server

DropHostStrict(h) ==
    /\ pc \in {"remove", "drop"} /\ cluster /\ h \in todo /\ db[h] # NoAccount
    /\ db' = [db EXCEPT ![h] = NoAccount]
    /\ todo' = todo \ {h}
    /\ UNCHANGED <<cr, status, secret, cluster, budget, pc, obj, st, old, pw, stale>>

(* DROP USER IF EXISTS, one host at a time, in both loops.                 *)
DropHost(h) ==
    /\ pc \in {"remove", "drop"} /\ cluster /\ h \in todo
    /\ db' = [db EXCEPT ![h] = NoAccount]
    /\ todo' = todo \ {h}
    /\ UNCHANGED <<cr, status, secret, cluster, budget, pc, obj, st, old, pw, stale>>

SqlHashOfHosts == Hash(obj.hosts, 0)
SqlHash == Hash(obj.hosts, pw)

CompareHash ==
    /\ pc = "remove" /\ todo = {}
    /\ Goto(IF SqlHash = st.revision THEN "finalizer" ELSE "create")
    /\ UNCHANGED <<server, local, stale>>

(***************************************************************************)
(* The management SQL.  It says BEGIN ... COMMIT, but CREATE USER, ALTER   *)
(* USER and GRANT commit on their own, so each is a step.                  *)
(***************************************************************************)
CreateUser ==
    /\ pc = "create" /\ cluster
    /\ db' = [h \in Hosts |-> IF h \in obj.hosts /\ db[h] = NoAccount
                              THEN [pw |-> pw, granted |-> FALSE] ELSE db[h]]
    /\ Goto("alter")
    /\ UNCHANGED <<cr, status, secret, cluster, budget, local, stale>>

AllExist == \A h \in obj.hosts : db[h] # NoAccount

AlterUser ==
    /\ pc = "alter" /\ cluster /\ AllExist
    /\ db' = [h \in Hosts |-> IF h \in obj.hosts
                              THEN [pw |-> pw, granted |-> db[h].granted] ELSE db[h]]
    /\ Goto("grant")
    /\ UNCHANGED <<cr, status, secret, cluster, budget, local, stale>>

RecordedNever == st' = st
Recorded == st' = [st EXCEPT !.revision = SqlHash]

Grant ==
    /\ pc = "grant" /\ cluster /\ AllExist
    /\ db' = [h \in Hosts |-> IF h \in obj.hosts
                              THEN [pw |-> db[h].pw, granted |-> TRUE] ELSE db[h]]
    /\ Recorded
    /\ Goto("finalizer")
    /\ UNCHANGED <<cr, status, secret, cluster, budget, obj, old, pw, todo, stale>>

(* The cluster is gone, or an account was dropped between two statements.  *)
SqlFails ==
    /\ \/ pc = "remove" /\ todo # {} /\ ~cluster
       \/ pc = "create" /\ ~cluster
       \/ pc \in {"alter", "grant"} /\ ~(cluster /\ AllExist)
    /\ Fail
    /\ UNCHANGED server

Provisioned(s) == [s EXCEPT !.allowed = obj.hosts, !.ready = "true"]

FinalizerPresent ==
    /\ pc = "finalizer" /\ obj.finalizer
    /\ st' = Provisioned(st)
    /\ Goto("status")
    /\ UNCHANGED <<server, obj, old, pw, todo, stale>>

AddFinalizerLocally ==
    /\ pc = "finalizer" /\ ~obj.finalizer /\ ~stale
    /\ obj' = [obj EXCEPT !.finalizer = TRUE]
    /\ st' = Provisioned(status)
    /\ Goto("status")
    /\ UNCHANGED <<server, old, pw, todo, stale>>

AddFinalizerUnchecked ==
    /\ pc = "finalizer" /\ ~obj.finalizer
    /\ cr' = [cr EXCEPT !.finalizer = TRUE]
    /\ obj' = [obj EXCEPT !.finalizer = TRUE]
    /\ st' = Provisioned(status)
    /\ Goto("status")
    /\ UNCHANGED <<status, secret, cluster, db, budget, old, pw, todo, stale>>

(***************************************************************************)
(* Update writes everything but the status and decodes the answer into the *)
(* object: its status is the stored one again, so the new revision is lost *)
(* and the next reconcile runs the SQL once more.                          *)
(***************************************************************************)
AddFinalizer ==
    /\ pc = "finalizer" /\ ~obj.finalizer /\ ~stale
    /\ cr' = [cr EXCEPT !.finalizer = TRUE]
    /\ obj' = [obj EXCEPT !.finalizer = TRUE]
    /\ st' = Provisioned(status)
    /\ Goto("status")
    /\ UNCHANGED <<status, secret, cluster, db, budget, old, pw, todo, stale>>

AddFinalizerConflict ==
    /\ pc = "finalizer" /\ ~obj.finalizer /\ stale
    /\ Fail
    /\ UNCHANGED server

(* updateStatusAndErr                                                      *)
UpdateStatus ==
    /\ pc = "status" /\ (st = old \/ ~stale)
    /\ status' = IF st = old THEN status ELSE st
    /\ Finish
    /\ UNCHANGED <<cr, secret, cluster, db, budget>>

UpdateStatusConflict ==
    /\ pc = "status" /\ st # old /\ stale
    /\ Finish
    /\ UNCHANGED server

(* dropUserFromDB: without a cluster there is nothing to drop.             *)
ConnectToDrop ==
    /\ pc = "connect"
    /\ todo' = IF cluster THEN todo ELSE {}
    /\ Goto("drop")
    /\ UNCHANGED <<server, obj, st, old, pw, stale>>

DropFails ==
    /\ pc = "drop" /\ todo # {} /\ ~cluster
    /\ Finish
    /\ UNCHANGED server

(* removeUser, when every host is dropped.                                 *)
RemoveFinalizer ==
    /\ pc = "drop" /\ todo = {} /\ ~stale
    /\ cr' = NoCr /\ status' = NoStatus
    /\ Finish
    /\ UNCHANGED <<secret, cluster, db, budget>>

RemoveFinalizerConflict ==
    /\ pc = "drop" /\ todo = {} /\ stale
    /\ Finish
    /\ UNCHANGED server

(***************************************************************************)
(* Any call may fail: the error ends the provisioning, and the status is   *)
(* written before the reconcile returns; the other errors, and a restart   *)
(* of the operator, end the reconcile on the spot.                         *)
(***************************************************************************)
Fault ==
    /\ budget.faults < MaxFaults
    /\ budget' = [budget EXCEPT !.faults = @ + 1]
    /\ UNCHANGED <<cr, status, secret, cluster, db>>

CallFails == Fault /\ pc \notin {"idle", "status", "connect", "drop"} /\ Fail
ReconcileDies == Fault /\ pc # "idle" /\ Finish

-----------------------------------------------------------------------------
World ==
    \/ \E hosts \in SUBSET Hosts : EditHosts(hosts)
    \/ EditSecret \/ DeleteCr \/ DeleteCluster
    \/ \E h \in Hosts : DropInMysql(h)

Reconcile ==
    \/ Fetch \/ CheckUser \/ ClusterMissing \/ CompareHash
    \/ CreateUser \/ AlterUser \/ Grant \/ SqlFails
    \/ FinalizerPresent \/ AddFinalizer \/ AddFinalizerConflict
    \/ UpdateStatus \/ UpdateStatusConflict
    \/ ConnectToDrop \/ DropFails \/ RemoveFinalizer \/ RemoveFinalizerConflict
    \/ \E h \in Hosts : DropHost(h)

Next == World \/ Reconcile \/ CallFails \/ ReconcileDies

Spec == Init /\ [][Next]_vars

(* The resource is requeued two minutes after a success and, with back-off,
   after an error; calls that do not fail return.                          *)
FairSpec == Spec /\ WF_vars(Reconcile)

-----------------------------------------------------------------------------
(* What the controller promises.                                           *)

(***************************************************************************)
(* "Make sure mysqluser has finalizer set": hosts recorded in the status   *)
(* are protected by the finalizer, so that deleting the resource cannot    *)
(* leave their accounts behind (reconcileUserInCluster, updateStatusAndErr). *)
(***************************************************************************)
RecordedUsersGuarded == status.allowed # {} => cr.finalizer

(***************************************************************************)
(* The resource disappears only when no recorded host has an account any   *)
(* more, whatever was edited, dropped or failed since (removeUser and the  *)
(* resourceVersion check of its Update).                                   *)
(***************************************************************************)
RecordedUsersDropped ==
    [][cr.exists /\ ~cr'.exists => \A h \in status.allowed : db[h] = NoAccount]_vars

(***************************************************************************)
(* Every host of the spec has an account with the password of the secret   *)
(* and the permissions.                                                    *)
(***************************************************************************)
UpToDate == [pw |-> secret, granted |-> TRUE]
Settled ==
    cr.exists /\ ~cr.deleting /\ cluster => \A h \in cr.hosts : db[h] = UpToDate

(***************************************************************************)
(* The user is provisioned once the edits and the faults are over, if      *)
(* nobody drops accounts in MySQL and Spec.Hosts is not edited twice: with *)
(* a second edit the recorded revision may be that of older SQL, undone    *)
(* since (reconcileUserInDB, updateStatusAndErr).                          *)
(***************************************************************************)
Undisturbed == budget.drops = 0 /\ budget.edits <= 1
EventuallyProvisioned == <>[](Undisturbed => Settled)

(***************************************************************************)
(* The two-minute resync of an unchanged resource ends up running no SQL   *)
(* and writing nothing to the resource, although the first revision is     *)
(* lost when the finalizer is added ("If the user has not been changed,    *)
(* then skip the following steps", reconcileUserInDB).                     *)
(***************************************************************************)
EventuallyQuiet == <>[][~CreateUser /\ UNCHANGED <<cr, status>>]_vars

(***************************************************************************)
(* A deleted resource goes away, also when its cluster is gone or some of  *)
(* its accounts were already dropped (removeUser, dropUserFromDB).         *)
(***************************************************************************)
DeletionEnds == cr.deleting ~> ~cr.exists

(***************************************************************************)
(* The inductive strengthening of RecordedUsersGuarded and                 *)
(* RecordedUsersDropped.                                                   *)
(***************************************************************************)

(* Unless somebody else wrote the resource, the copies are its last value. *)
CopiesFresh == pc # "idle" /\ ~stale => obj = cr /\ old = status

(* The status about to be written records hosts only under the finalizer.  *)
CopyGuarded == pc # "idle" /\ ~stale => (st.allowed # {} => cr.finalizer)

(* Without a cluster there are no accounts.                                *)
NoClusterNoAccount == ~cluster => \A h \in Hosts : db[h] = NoAccount

(* A removal has dropped the recorded hosts it is past.                    *)
DropProgress ==
    pc \in {"connect", "drop"} =>
       st = old /\ \A h \in st.allowed \ todo : db[h] = NoAccount

IndInv ==
    /\ TypeOK
    /\ RecordedUsersGuarded /\ CopiesFresh /\ CopyGuarded
    /\ NoClusterNoAccount /\ DropProgress

=============================================================================
