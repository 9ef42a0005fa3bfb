-------------------------- MODULE BackupCronProofs --------------------------
(***************************************************************************)
(* Proofs about BackupCron, for any clusters, field values and bounds: its *)
(* types, its registry and what the runs of the entries delete.            *)
(***************************************************************************)
EXTENDS BackupCron, FiniteSetTheorems, TLAPS

-----------------------------------------------------------------------------
(* What the operations on the registry return.                             *)

(* Cron.Remove and ClearBothS3NFS only remove.                             *)
LEMMA RemoveShrinks ==
    ASSUME NEW E, NEW c, NEW t, NEW F \in Remove(E, c, t)
    PROVE  F \subseteq E
  BY DEF Remove

LEMMA ClearShrinks ==
    ASSUME NEW E, NEW c, NEW F \in ClearBothS3NFS(E, c)
    PROVE  F \subseteq E
  BY RemoveShrinks DEF ClearBothS3NFS

(* An entry a cluster asks for has the type of an entry.                   *)
LEMMA NewEntryType ==
    ASSUME NEW c \in Clusters, NEW s \in ClusterSpec, NEW t \in Asked(s),
           ScheduleOf(s, t) # Bad
    PROVE  NewEntry(c, s, t) \in Entry
<1>1. t \in Types /\ ScheduleOf(s, t) \in Schedules
  BY DEF Asked, Types, ScheduleOf, ClusterSpec, BothVal
<1>2. AddressOf(s, t) \in Addresses \cup {None} /\ s.image \in Images /\ s.limit \in Limits \cup {None}
  BY DEF AddressOf, ClusterSpec
<1> QED
  BY <1>1, <1>2 DEF NewEntry, Entry

(* updateClusterSchedule keeps the type of the registry.                   *)
LEMMA UpdateType ==
    ASSUME NEW E \in SUBSET Entry, NEW c \in Clusters, NEW s \in ClusterSpec,
           NEW t \in Asked(s), ScheduleOf(s, t) # Bad,
           NEW F \in UpdateClusterSchedule(E, c, s, t)
    PROVE  F \subseteq Entry
<1>1. NewEntry(c, s, t) \in Entry
  BY NewEntryType
<1>2. CASE EntriesOf(E, c, t) = {}
  BY <1>1, <1>2 DEF UpdateClusterSchedule
<1>3. CASE EntriesOf(E, c, t) # {}
  <2>1. PICK e \in EntriesOf(E, c, t) :
           IF Outdated(e, s, t)
           THEN \E G \in Remove(E, c, t) : F = G \cup {NewEntry(c, s, t)}
           ELSE F = (E \ {e}) \cup {[e EXCEPT !.image = s.image]}
    BY <1>3 DEF UpdateClusterSchedule
  <2>2. [e EXCEPT !.image = s.image] \in Entry
    BY <2>1 DEF EntriesOf, Entry, ClusterSpec
  <2> QED
    BY <1>1, <2>1, <2>2, RemoveShrinks
<1> QED
  BY <1>2, <1>3

(* With distinct names, Cron.Remove removes exactly the cluster's entry.   *)
LEMMA RemoveOwn ==
    ASSUME NamesDistinct, NEW E \in SUBSET Entry, OneEach(E),
           NEW c \in Clusters, NEW t, NEW F \in Remove(E, c, t)
    PROVE  F = E \ EntriesOf(E, c, t)
<1>1. \A e \in E : NameOf(e.cluster) = NameOf(c) <=> e.cluster = c
  BY DEF NamesDistinct, Entry
<1> QED
  BY <1>1 DEF Remove, EntriesOf, OneEach

(* ... and ClearBothS3NFS leaves other clusters and the auto entry alone.  *)
LEMMA ClearOwn ==
    ASSUME NamesDistinct, NEW E \in SUBSET Entry, OneEach(E),
           NEW c \in Clusters, NEW F \in ClearBothS3NFS(E, c),
           NEW d, NEW u, d # c \/ u = "auto"
    PROVE  EntriesOf(F, d, u) = EntriesOf(E, d, u)
<1>1. CASE F = E
  BY <1>1
<1>2. CASE \E e \in EntriesOf(E, c, "nfs") \cup EntriesOf(E, c, "s3") : F \in Remove(E, c, e.type)
  <2>1. PICK e \in EntriesOf(E, c, "nfs") \cup EntriesOf(E, c, "s3") : F \in Remove(E, c, e.type)
    BY <1>2
  <2>2. F = E \ EntriesOf(E, c, e.type) /\ e.type # "auto"
    BY <2>1, RemoveOwn DEF EntriesOf
  <2> QED
    BY <2>2 DEF EntriesOf
<1> QED
  BY <1>1, <1>2 DEF ClearBothS3NFS

(* updateClusterSchedule leaves one entry of the type, with the fields of  *)
(* the cluster, and changes no other entry.                                *)
LEMMA UpdateOwn ==
    ASSUME NamesDistinct, NEW E \in SUBSET Entry, OneEach(E),
           S3Bare(E),
           NEW c \in Clusters, NEW s \in ClusterSpec, NEW t \in Asked(s),
           NEW F \in UpdateClusterSchedule(E, c, s, t)
    PROVE  \E e : /\ F = (E \ EntriesOf(E, c, t)) \cup {e}
                  /\ e.cluster = c /\ e.type = t /\ Serves(e, s, t)
<1> DEFINE new == NewEntry(c, s, t)
<1>1. new.cluster = c /\ new.type = t /\ Serves(new, s, t)
  BY DEF NewEntry, Serves
<1>2. CASE EntriesOf(E, c, t) = {}
  BY <1>1, <1>2 DEF UpdateClusterSchedule
<1>3. CASE EntriesOf(E, c, t) # {}
  <2>1. PICK e \in EntriesOf(E, c, t) :
           IF Outdated(e, s, t)
           THEN \E G \in Remove(E, c, t) : F = G \cup {new}
           ELSE F = (E \ {e}) \cup {[e EXCEPT !.image = s.image]}
    BY <1>3 DEF UpdateClusterSchedule
  <2>2. CASE Outdated(e, s, t)
    BY <1>1, <2>1, <2>2, RemoveOwn
  <2>3. CASE ~Outdated(e, s, t)
    <3> DEFINE f == [e EXCEPT !.image = s.image]
    <3>1. e \in E /\ e \in Entry /\ e.cluster = c /\ e.type = t /\ EntriesOf(E, c, t) = {e}
      BY <2>1 DEF EntriesOf, OneEach
    <3>2. /\ f.cluster = c /\ f.type = t /\ f.schedule = e.schedule
          /\ f.address = e.address /\ f.image = s.image
      BY <3>1 DEF Entry
    <3>3. e.schedule = ScheduleOf(s, t) /\ e.address = s.address
      BY <2>3 DEF Outdated
    <3>4. t # "s3"
      BY <3>1, <3>3 DEF S3Bare, Asked, ClusterSpec
    <3> QED
      BY <2>1, <2>3, <3>1, <3>2, <3>3, <3>4 DEF Serves, AddressOf
  <2> QED
    BY <2>2, <2>3
<1> QED
  BY <1>2, <1>3

(* The same, seen from the other entries.                                  *)
LEMMA UpdateResult ==
    ASSUME NamesDistinct, NEW E \in SUBSET Entry, OneEach(E), S3Bare(E),
           NEW c \in Clusters, NEW s \in ClusterSpec, NEW t \in Asked(s),
           NEW F \in UpdateClusterSchedule(E, c, s, t)
    PROVE  /\ OneEach(F) /\ S3Bare(F) /\ RegisteredAs(F, c, s, t)
           /\ \A d, u : d # c \/ u # t => EntriesOf(F, d, u) = EntriesOf(E, d, u)
<1>1. PICK e : /\ F = (E \ EntriesOf(E, c, t)) \cup {e}
               /\ e.cluster = c /\ e.type = t /\ Serves(e, s, t)
  BY UpdateOwn
<1>2. OneEach(F)
  BY <1>1 DEF OneEach, EntriesOf
<1>3. S3Bare(F)
  BY <1>1 DEF S3Bare, Serves, AddressOf
<1>4. EntriesOf(F, c, t) = {e}
  BY <1>1 DEF EntriesOf
<1>5. RegisteredAs(F, c, s, t)
  BY <1>1, <1>4 DEF RegisteredAs
<1>6. \A d, u : d # c \/ u # t => EntriesOf(F, d, u) = EntriesOf(E, d, u)
  BY <1>1 DEF EntriesOf
<1> QED
  BY <1>2, <1>3, <1>5, <1>6

-----------------------------------------------------------------------------
(* Types.                                                                  *)

(* The step a reconcile is at asks for an entry of its type.               *)
StepAsked ==
    rec # Idle =>
       /\ rec.step \in {"nfs", "s3"} => Branch(rec.spec) = "nfs"
       /\ rec.step = "auto" => Branch(rec.spec) = "auto"

TypeInv == TypeOK /\ StepAsked

LEMMA TypeInit == Init => TypeInv
<1> SUFFICES ASSUME Init PROVE TypeInv
  OBVIOUS
<1>1. rec \in RecVal /\ run \in [Runs -> RunVal]
  BY DEF Init, RecVal, RunVal
<1>2. budget \in [edits : 0 .. MaxEdits, made : 0 .. MaxBackups, faults : 0 .. MaxFaults]
  BY BoundsAssumption DEF Init
<1> QED
  BY <1>1, <1>2 DEF Init, TypeOK, TypeInv, StepAsked

(* The reconcile keeps the types.                                          *)
LEMMA TypeReconcile == TypeInv /\ Reconcile => TypeInv'
<1> SUFFICES ASSUME TypeInv, Reconcile PROVE TypeInv'
  OBVIOUS
<1> USE DEF TypeInv
<1>1. rec # Idle => rec.cluster \in Clusters /\ rec.spec \in ClusterSpec
  BY DEF TypeOK, RecVal
<1>2. ASSUME rec # Idle, NEW step \in RecSteps, Goto(step)
      PROVE  /\ rec' \in RecVal /\ rec' # Idle
             /\ rec'.step = step /\ rec'.cluster = rec.cluster /\ rec'.spec = rec.spec
  BY <1>2 DEF TypeOK, RecVal, Goto, RecSteps, Idle
<1>3. ASSUME NEW c \in Clusters, Fetch(c) PROVE TypeInv'
  <2>1. CASE spec[c] = None
    BY <1>3, <2>1 DEF Fetch, TypeOK, StepAsked, RecVal
  <2>2. CASE spec[c] # None
    <3>1. spec[c] \in ClusterSpec /\ Branch(spec[c]) \in {"deactivate", "nfs", "auto"}
      BY <2>2 DEF TypeOK, Branch
    <3>2. rec' \in RecVal /\ rec'.spec = spec[c] /\ rec'.step \in {"zero", Branch(spec[c])}
      BY <1>3, <2>2, <3>1 DEF Fetch, RecVal, RecSteps
    <3>3. StepAsked'
      BY <3>1, <3>2 DEF StepAsked, Branch
    <3> QED
      BY <1>3, <3>2, <3>3 DEF Fetch, TypeOK
  <2> QED
    BY <2>1, <2>2
<1>4. CASE CloseCluster
  <2>1. rec # Idle /\ Goto(Branch(rec.spec)) /\ Branch(rec.spec) \in {"deactivate", "nfs", "auto"}
    BY <1>4 DEF CloseCluster, At, Branch
  <2>2. rec' \in RecVal /\ rec'.step = Branch(rec.spec) /\ rec'.spec = rec.spec
    BY <1>2, <2>1 DEF RecSteps
  <2>3. entries' \subseteq Entry
    <3>1. PICK E \in Remove(entries, rec.cluster, "auto") :
             entries' \in ClearBothS3NFS(E, rec.cluster)
      BY <1>4 DEF CloseCluster
    <3> QED
      BY <3>1, RemoveShrinks, ClearShrinks DEF TypeOK
  <2>4. StepAsked'
    BY <2>1, <2>2 DEF StepAsked
  <2> QED
    BY <1>4, <2>2, <2>3, <2>4 DEF CloseCluster, TypeOK
<1>5. CASE Deactivate
  <2>1. entries' \subseteq Entry /\ rec' = Idle
    BY <1>5, RemoveShrinks DEF Deactivate, TypeOK
  <2> QED
    BY <1>5, <2>1 DEF Deactivate, TypeOK, RecVal, StepAsked
<1>6. ASSUME NEW t \in {"nfs", "s3"}, RegisterBoth(t) PROVE TypeInv'
  <2>1. rec # Idle /\ t \in Asked(rec.spec) /\ Branch(rec.spec) = "nfs"
    BY <1>6 DEF RegisterBoth, At, StepAsked, Branch, Asked
  <2>2. entries' \subseteq Entry
    <3>1. CASE Parses(t)
      BY <1>1, <1>6, <2>1, <3>1, UpdateType DEF RegisterBoth, Parses, TypeOK
    <3>2. CASE ~Parses(t)
      BY <1>6, <3>2 DEF RegisterBoth, TypeOK
    <3> QED
      BY <3>1, <3>2
  <2>3. rec' \in RecVal /\ StepAsked'
    <3>1. CASE rec' = Idle
      BY <3>1 DEF RecVal, StepAsked
    <3>2. CASE Goto("s3")
      BY <1>2, <2>1, <3>2 DEF RecSteps, StepAsked
    <3> QED
      BY <1>6, <3>1, <3>2 DEF RegisterBoth, ParseError
  <2>4. pending' \subseteq Clusters
    BY <1>1, <1>6, <2>1 DEF RegisterBoth, ParseError, TypeOK
  <2> QED
    BY <1>6, <2>2, <2>3, <2>4 DEF RegisterBoth, TypeOK
<1>7. CASE RegisterAuto
  <2>1. rec # Idle /\ "auto" \in Asked(rec.spec)
    BY <1>7 DEF RegisterAuto, At, StepAsked, Branch, Asked
  <2>2. entries' \subseteq Entry
    <3>1. PICK E \in ClearBothS3NFS(entries, rec.cluster) :
             IF Parses("auto")
             THEN entries' \in UpdateClusterSchedule(E, rec.cluster, rec.spec, "auto")
             ELSE entries' = E
      BY <1>7 DEF RegisterAuto
    <3>2. E \in SUBSET Entry
      BY <3>1, ClearShrinks DEF TypeOK
    <3> QED
      BY <1>1, <2>1, <3>1, <3>2, UpdateType DEF Parses
  <2>3. rec' = Idle /\ pending' \subseteq Clusters
    BY <1>1, <1>7, <2>1 DEF RegisterAuto, ParseError, TypeOK
  <2> QED
    BY <1>7, <2>2, <2>3 DEF RegisterAuto, TypeOK, RecVal, StepAsked
<1> QED
  BY <1>3, <1>4, <1>5, <1>6, <1>7 DEF Reconcile

(* A run keeps the types and touches neither registry nor reconcile.       *)
LEMMA TypeRun ==
    ASSUME TypeOK, NEW r \in Runs, RunStep(r)
    PROVE  TypeOK' /\ UNCHANGED <<spec, pending, rec, entries>>
<1> USE BoundsAssumption
<1>1. run[r] # Idle => run[r] \in [step : RunSteps, entry : Entry, extra : SUBSET (1 .. MaxBackups)]
  BY DEF TypeOK, RunVal
<1>2. ASSUME run[r] # Idle, NEW step \in RunSteps, GotoRun(r, step)
      PROVE  run' \in [Runs -> RunVal]
  BY <1>1, <1>2 DEF GotoRun, TypeOK, RunVal, RunSteps
<1>3. ASSUME run[r] # Idle, Return(r) PROVE run' \in [Runs -> RunVal]
  BY <1>1, <1>3 DEF Return, TypeOK, RunVal, RunSteps
<1>4. Fault => budget' \in [edits : 0 .. MaxEdits, made : 0 .. MaxBackups, faults : 0 .. MaxFaults]
               /\ budget'.made = budget.made
  BY DEF Fault, TypeOK
<1>5. ASSUME run[r] # Idle, NEW extra \in SUBSET (1 .. MaxBackups), Delete(r, extra)
      PROVE  run' \in [Runs -> RunVal]
  BY <1>1, <1>5 DEF Delete, TypeOK, RunVal, RunSteps
<1>15. CASE Fire(r)
  <2>1. run' \in [Runs -> RunVal]
    BY <1>15 DEF Fire, TypeOK, RunVal, RunSteps
  <2> QED
    BY <1>15, <2>1 DEF Fire, TypeOK
<1>6. CASE NeedRun(r) \/ CountRunning(r) \/ CreateFails(r)
  <2>1. run' \in [Runs -> RunVal]
    BY <1>2, <1>3, <1>6 DEF NeedRun, CountRunning, CreateFails, Running, RunSteps
  <2> QED
    BY <1>6, <2>1 DEF NeedRun, CountRunning, CreateFails, TypeOK
<1>7. CASE NeedFails(r) \/ CountFails(r)
  <2>1. run' \in [Runs -> RunVal]
    BY <1>2, <1>3, <1>7 DEF NeedFails, CountFails, Running, RunSteps
  <2> QED
    BY <1>4, <1>7, <2>1 DEF NeedFails, CountFails, TypeOK
<1>8. CASE CreateBackup(r)
  <2>1. run' \in [Runs -> RunVal]
    BY <1>3, <1>8 DEF CreateBackup, Running
  <2>2. /\ budget' \in [edits : 0 .. MaxEdits, made : 0 .. MaxBackups, faults : 0 .. MaxFaults]
        /\ budget'.made = budget.made + 1 /\ budget.made \in 0 .. MaxBackups
    BY <1>8 DEF CreateBackup, TypeOK
  <2> DEFINE b == [cluster |-> run[r].entry.cluster, n |-> budget.made + 1, completed |-> FALSE]
  <2>3. run[r].entry.cluster \in Clusters
    BY <1>1, <1>8 DEF CreateBackup, Running, Entry
  <2>4. b \in Backup
    BY <1>8, <2>2, <2>3 DEF CreateBackup, Backup
  <2>5. backups' = backups \cup {b} /\ seen' = seen
    BY <1>8 DEF CreateBackup
  <2>6. \A x \in backups \cup seen : x.n \in 1 .. MaxBackups /\ x.n <= budget.made
    BY DEF TypeOK, Backup
  <2>7. b.n = budget.made + 1
    OBVIOUS
  <2>8. \A x \in backups' \cup seen' : x.n <= budget'.made
    BY <2>2, <2>5, <2>6, <2>7
  <2> QED
    BY <1>8, <2>1, <2>2, <2>4, <2>5, <2>8 DEF CreateBackup, TypeOK
<1>9. CASE BackupGC(r)
  <2>1. run[r] # Idle
    BY <1>9 DEF BackupGC, Running
  <2> DEFINE list == Extra(seen, run[r].entry.cluster, run[r].entry.limit)
             extra == {b.n : b \in list}
  <2>2. Delete(r, extra)
    BY <1>9 DEF BackupGC
  <2>3. list \subseteq Backup
    BY DEF Extra, TypeOK
  <2> HIDE DEF list
  <2>4. extra \in SUBSET (1 .. MaxBackups)
    BY <2>3 DEF Backup
  <2> HIDE DEF extra
  <2>5. run' \in [Runs -> RunVal]
    BY <1>5, <2>1, <2>2, <2>4
  <2> QED
    BY <1>9, <2>5 DEF BackupGC, TypeOK
<1>10. CASE GCFails(r)
  <2>1. run' \in [Runs -> RunVal]
    BY <1>10 DEF GCFails, TypeOK, RunVal
  <2> QED
    BY <1>4, <1>10, <2>1 DEF GCFails, TypeOK
<1>11. ASSUME NEW n \in 1 .. MaxBackups, DeleteTurn(r, n)
       PROVE  run' \in [Runs -> RunVal]
  <2>1. run[r] # Idle /\ run[r].extra \in SUBSET (1 .. MaxBackups)
    BY <1>1, <1>11 DEF DeleteTurn, Running
  <2> QED
    BY <1>5, <1>11, <2>1 DEF DeleteTurn
<1>12. ASSUME NEW n \in 1 .. MaxBackups, DeleteBackup(r, n)
       PROVE  TypeOK' /\ UNCHANGED <<spec, pending, rec, entries>>
  BY <1>11, <1>12 DEF DeleteBackup, DeleteTurn, TypeOK
<1>13. ASSUME NEW n \in 1 .. MaxBackups, DeleteFails(r, n)
       PROVE  TypeOK' /\ UNCHANGED <<spec, pending, rec, entries>>
  BY <1>4, <1>11, <1>13 DEF DeleteFails, DeleteTurn, TypeOK
<1>14. (Fire(r) \/ NeedRun(r) \/ CountRunning(r) \/ CreateFails(r) \/ NeedFails(r)
        \/ CountFails(r) \/ CreateBackup(r) \/ BackupGC(r) \/ GCFails(r)) => UNCHANGED <<spec, pending, rec, entries>>
  BY DEF Fire, NeedRun, CountRunning, CreateFails, NeedFails, CountFails, CreateBackup,
         BackupGC, GCFails
<1> QED
  BY <1>6, <1>7, <1>8, <1>9, <1>10, <1>12, <1>13, <1>14, <1>15 DEF RunStep

(* So do the world and a failed fetch.                                     *)
LEMMA TypeWorld ==
    ASSUME TypeOK, World \/ (\E c \in Clusters : FetchFails(c))
    PROVE  TypeOK' /\ (rec' = rec \/ rec' = Idle)
<1> USE BoundsAssumption
<1>1. Fault => budget' \in [edits : 0 .. MaxEdits, made : 0 .. MaxBackups, faults : 0 .. MaxFaults]
               /\ budget'.made = budget.made
  BY DEF Fault, TypeOK
<1>2. ASSUME NEW c \in Clusters, EditCluster(c) PROVE TypeOK' /\ rec' = rec
  <2>1. spec' \in [Clusters -> ClusterSpec \cup {None}]
    BY <1>2 DEF EditCluster, TypeOK
  <2>2. /\ budget' \in [edits : 0 .. MaxEdits, made : 0 .. MaxBackups, faults : 0 .. MaxFaults]
        /\ budget'.made = budget.made
    BY <1>2 DEF EditCluster, TypeOK
  <2> QED
    BY <1>2, <2>1, <2>2 DEF EditCluster, TypeOK
<1>3. CASE SyncCache
  BY <1>3 DEF SyncCache, TypeOK
<1>4. ASSUME NEW b \in backups, Complete(b) PROVE TypeOK' /\ rec' = rec
  <2> DEFINE d == [b EXCEPT !.completed = TRUE]
  <2>1. d \in Backup /\ d.n = b.n
    BY DEF TypeOK, Backup
  <2> QED
    BY <1>4, <2>1 DEF Complete, TypeOK
<1>5. CASE Restart
  <2>1. rec' \in RecVal /\ run' \in [Runs -> RunVal] /\ rec' = Idle
    BY <1>5 DEF Restart, RecVal, RunVal
  <2> QED
    BY <1>1, <1>5, <2>1 DEF Restart, TypeOK
<1>6. ASSUME NEW c \in Clusters, FetchFails(c) PROVE TypeOK' /\ rec' = rec
  BY <1>1, <1>6 DEF FetchFails, TypeOK
<1> QED
  BY <1>2, <1>3, <1>4, <1>5, <1>6 DEF World, SyncCache

LEMMA TypeNext == TypeInv /\ [Next]_vars => TypeInv'
<1> SUFFICES ASSUME TypeInv, [Next]_vars PROVE TypeInv'
  OBVIOUS
<1>1. CASE Reconcile
  BY <1>1, TypeReconcile
<1>2. CASE World \/ \E c \in Clusters : FetchFails(c)
  BY <1>2, TypeWorld DEF TypeInv, StepAsked
<1>3. CASE \E r \in Runs : RunStep(r)
  BY <1>3, TypeRun DEF TypeInv, StepAsked
<1>4. CASE UNCHANGED vars
  BY <1>4 DEF TypeInv, StepAsked, TypeOK, vars
<1> QED
  BY <1>1, <1>2, <1>3, <1>4 DEF Next

(***************************************************************************)
(* Type correctness, for every value of the constants: in particular no    *)
(* entry is registered with a schedule cron.Parse refuses, and backups get *)
(* distinct creation times.                                                *)
(***************************************************************************)
THEOREM TypeCorrect == Spec => []TypeOK
<1>1. Spec => []TypeInv
  BY TypeInit, TypeNext, PTL DEF Spec
<1> QED
  BY <1>1, PTL DEF TypeInv

-----------------------------------------------------------------------------
(* The registry.                                                           *)

(* A cluster that had its entries keeps them if they, its resource and its *)
(* being settled are the same.                                             *)
LEMMA StaysRegistered ==
    ASSUME NEW d \in Clusters, Settled(d), AskedRegistered, spec[d] # None,
           spec'[d] = spec[d], \A u : EntriesOf(entries', d, u) = EntriesOf(entries, d, u)
    PROVE  Registered(d)'
<1>1. \A t \in Asked(spec[d]) : RegisteredAs(entries, d, spec[d], t)
  BY DEF AskedRegistered, Registered
<1>2. \A t : RegisteredAs(entries, d, spec[d], t) => RegisteredAs(entries', d, spec[d], t)
  BY DEF RegisteredAs, EntriesOf
<1> QED
  BY <1>1, <1>2 DEF Registered

(* The registry of the other clusters, in a step of the reconcile of one.  *)
LEMMA OthersStay ==
    ASSUME AskedRegistered, rec # Idle, NEW d \in Clusters, d # rec.cluster,
           pending' = pending \/ pending' = pending \cup {rec.cluster}, spec' = spec,
           \A u : EntriesOf(entries', d, u) = EntriesOf(entries, d, u),
           Settled(d)', spec[d] # None
    PROVE  Registered(d)'
<1>1. Settled(d)
  BY DEF Settled
<1> QED
  BY <1>1, StaysRegistered

LEMMA RegistryReconcile ==
    ASSUME NamesDistinct, IndInv, Reconcile
    PROVE  IndInv'
<1> USE DEF IndInv
<1>1. rec # Idle => rec.cluster \in Clusters /\ rec.spec \in ClusterSpec
  BY DEF TypeOK, RecVal
<1>2. StepAsked
  BY DEF StepAsked, BranchTaken
<1>3. TypeOK'
  BY <1>2, TypeReconcile DEF TypeInv
<1>4. ASSUME NEW step \in RecSteps, rec # Idle, Goto(step)
      PROVE  /\ rec' # Idle /\ rec'.step = step
             /\ rec'.cluster = rec.cluster /\ rec'.spec = rec.spec
  BY <1>4 DEF TypeOK, RecVal, Goto, RecSteps, Idle
<1>5. ASSUME NEW c \in Clusters, Fetch(c) PROVE IndInv'
  <2>1. /\ entries' = entries /\ spec' = spec /\ rec = Idle /\ pending' = pending \ {c}
        /\ OneEach(entries)' /\ S3Bare(entries)'
    BY <1>5 DEF Fetch, OneEach, S3Bare
  <2>2. CASE spec[c] = None
    <3>1. rec' = Idle
      BY <1>5, <2>2 DEF Fetch
    <3>2. ASSUME NEW d \in Clusters, Settled(d)', spec[d] # None PROVE Registered(d)'
      <4>1. Settled(d)
        BY <2>1, <2>2, <3>1, <3>2 DEF Settled
      <4> QED
        BY <2>1, <3>2, <4>1, StaysRegistered
    <3> QED
      BY <1>3, <2>1, <3>1, <3>2 DEF CopyCurrent, BranchTaken, AskedRegistered
  <2>3. CASE spec[c] # None
    <3>1. /\ rec' # Idle /\ rec'.cluster = c /\ rec'.spec = spec[c]
          /\ rec'.step = (IF spec[c].up THEN Branch(spec[c]) ELSE "zero")
      BY <1>5, <2>3 DEF Fetch, Idle
    <3>2. ASSUME NEW d \in Clusters, Settled(d)', spec[d] # None PROVE Registered(d)'
      <4>1. Settled(d)
        BY <2>1, <3>1, <3>2 DEF Settled
      <4> QED
        BY <2>1, <3>2, <4>1, StaysRegistered
    <3>3. CopyCurrent' /\ BranchTaken'
      BY <2>1, <3>1 DEF CopyCurrent, BranchTaken, Branch
    <3> QED
      BY <1>3, <2>1, <3>2, <3>3 DEF AskedRegistered
  <2> QED
    BY <2>2, <2>3
<1>6. CASE CloseCluster
  <2>1. /\ rec # Idle /\ pending' = pending /\ spec' = spec
        /\ Goto(Branch(rec.spec)) /\ Branch(rec.spec) \in {"nfs", "auto", "deactivate"}
    BY <1>6 DEF CloseCluster, At, Branch
  <2>2. /\ rec' # Idle /\ rec'.step = Branch(rec.spec)
        /\ rec'.cluster = rec.cluster /\ rec'.spec = rec.spec
    BY <1>4, <2>1 DEF RecSteps
  <2>3. PICK E \in Remove(entries, rec.cluster, "auto") :
           entries' \in ClearBothS3NFS(E, rec.cluster)
    BY <1>6 DEF CloseCluster
  <2>4. /\ E \subseteq entries /\ entries' \subseteq E
        /\ E = entries \ EntriesOf(entries, rec.cluster, "auto")
    BY <1>1, <2>1, <2>3, RemoveShrinks, ClearShrinks, RemoveOwn DEF TypeOK
  <2>5. E \in SUBSET Entry /\ OneEach(E) /\ OneEach(entries)' /\ S3Bare(entries)'
    BY <2>4 DEF OneEach, S3Bare, TypeOK
  <2>6. ASSUME NEW d \in Clusters, d # rec.cluster, NEW u
        PROVE  EntriesOf(entries', d, u) = EntriesOf(entries, d, u)
    <3>1. EntriesOf(entries', d, u) = EntriesOf(E, d, u)
      BY <1>1, <2>1, <2>3, <2>5, <2>6, ClearOwn
    <3> QED
      BY <2>4, <2>6, <3>1 DEF EntriesOf
  <2>7. ASSUME NEW d \in Clusters, Settled(d)', spec[d] # None PROVE Registered(d)'
    <3>1. d # rec.cluster
      BY <2>2, <2>7 DEF Settled
    <3> QED
      BY <2>1, <2>6, <2>7, <3>1, OthersStay
  <2>8. CopyCurrent' /\ BranchTaken'
    BY <2>1, <2>2 DEF CopyCurrent, BranchTaken
  <2> QED
    BY <1>3, <2>1, <2>5, <2>7, <2>8 DEF AskedRegistered
<1>7. CASE Deactivate
  <2>1. rec # Idle /\ rec' = Idle /\ pending' = pending /\ spec' = spec /\ Asked(rec.spec) = {}
    BY <1>7 DEF Deactivate, At, BranchTaken, Branch, Asked
  <2>2. entries' = entries \ EntriesOf(entries, rec.cluster, "auto")
    BY <1>1, <1>7, <2>1, RemoveOwn DEF Deactivate, TypeOK
  <2>3. OneEach(entries)' /\ S3Bare(entries)'
    BY <2>2 DEF OneEach, S3Bare
  <2>4. ASSUME NEW d \in Clusters, Settled(d)', spec[d] # None PROVE Registered(d)'
    <3>1. CASE d = rec.cluster
      <4>1. spec[d] = rec.spec
        BY <2>1, <2>4, <3>1 DEF Settled, CopyCurrent
      <4> QED
        BY <2>1, <4>1 DEF Registered
    <3>2. CASE d # rec.cluster
      <4>1. \A u : EntriesOf(entries', d, u) = EntriesOf(entries, d, u)
        BY <2>2, <3>2 DEF EntriesOf
      <4> QED
        BY <2>1, <2>4, <3>2, <4>1, OthersStay
    <3> QED
      BY <3>1, <3>2
  <2> QED
    BY <1>3, <2>1, <2>3, <2>4 DEF CopyCurrent, BranchTaken, AskedRegistered
<1>8. ASSUME NEW t \in {"nfs", "s3"}, RegisterBoth(t) PROVE IndInv'
  <2>1. /\ rec # Idle /\ rec.step = t /\ spec' = spec
        /\ Asked(rec.spec) = {"nfs", "s3"} /\ Branch(rec.spec) = "nfs"
    BY <1>2, <1>8 DEF RegisterBoth, At, StepAsked, Branch, Asked
  <2>2. CASE ~Parses(t)
    <3>1. rec' = Idle /\ pending' = pending \cup {rec.cluster} /\ entries' = entries
      BY <1>8, <2>2 DEF RegisterBoth, ParseError
    <3>2. ASSUME NEW d \in Clusters, Settled(d)', spec[d] # None PROVE Registered(d)'
      <4>1. d # rec.cluster
        BY <3>1, <3>2 DEF Settled
      <4> QED
        BY <2>1, <3>1, <3>2, <4>1, OthersStay
    <3> QED
      BY <1>3, <2>1, <3>1, <3>2 DEF CopyCurrent, BranchTaken, AskedRegistered, OneEach, S3Bare
  <2>3. CASE Parses(t)
    <3>1. /\ entries' \in UpdateClusterSchedule(entries, rec.cluster, rec.spec, t)
          /\ pending' = pending /\ (IF t = "nfs" THEN Goto("s3") ELSE rec' = Idle)
      BY <1>8, <2>3 DEF RegisterBoth
    <3>2. /\ OneEach(entries') /\ S3Bare(entries')
          /\ RegisteredAs(entries', rec.cluster, rec.spec, t)
          /\ \A d, u : d # rec.cluster \/ u # t =>
                EntriesOf(entries', d, u) = EntriesOf(entries, d, u)
      BY <1>1, <2>1, <3>1, UpdateResult DEF TypeOK
    <3>3. OneEach(entries)' /\ S3Bare(entries)'
      BY <3>2 DEF OneEach, S3Bare
    <3>4. CASE t = "nfs"
      <4>1. /\ rec' # Idle /\ rec'.step = "s3"
            /\ rec'.cluster = rec.cluster /\ rec'.spec = rec.spec
        BY <1>4, <2>1, <3>1, <3>4 DEF RecSteps
      <4>2. ASSUME NEW d \in Clusters, Settled(d)', spec[d] # None PROVE Registered(d)'
        <5>1. d # rec.cluster
          BY <4>1, <4>2 DEF Settled
        <5> QED
          BY <2>1, <3>1, <3>2, <4>2, <5>1, OthersStay
      <4>3. CopyCurrent' /\ BranchTaken'
        BY <2>1, <3>1, <3>2, <3>4, <4>1 DEF CopyCurrent, BranchTaken
      <4> QED
        BY <1>3, <2>1, <3>3, <4>2, <4>3 DEF AskedRegistered
    <3>5. CASE t = "s3"
      <4>1. rec' = Idle
        BY <3>1, <3>5
      <4>2. RegisteredAs(entries, rec.cluster, rec.spec, "nfs")
        BY <2>1, <3>5 DEF BranchTaken
      <4>3. EntriesOf(entries', rec.cluster, "nfs") = EntriesOf(entries, rec.cluster, "nfs")
        BY <3>2, <3>5
      <4>4. RegisteredAs(entries', rec.cluster, rec.spec, "nfs")
        BY <4>2, <4>3 DEF RegisteredAs, EntriesOf
      <4>5. ASSUME NEW d \in Clusters, Settled(d)', spec[d] # None PROVE Registered(d)'
        <5>1. CASE d = rec.cluster
          <6>1. spec[d] = rec.spec /\ spec'[d] = rec.spec
            BY <2>1, <3>1, <4>5, <5>1 DEF Settled, CopyCurrent
          <6> QED
            BY <2>1, <3>2, <3>5, <4>4, <5>1, <6>1 DEF Registered
        <5>2. CASE d # rec.cluster
          BY <2>1, <3>1, <3>2, <4>5, <5>2, OthersStay
        <5> QED
          BY <5>1, <5>2
      <4> QED
        BY <1>3, <2>1, <3>3, <4>1, <4>5 DEF CopyCurrent, BranchTaken, AskedRegistered
    <3> QED
      BY <3>4, <3>5
  <2> QED
    BY <2>2, <2>3
<1>9. CASE RegisterAuto
  <2>1. rec # Idle /\ rec' = Idle /\ spec' = spec /\ Asked(rec.spec) = {"auto"}
    BY <1>2, <1>9 DEF RegisterAuto, ParseError, At, StepAsked, Branch, Asked
  <2>2. PICK E \in ClearBothS3NFS(entries, rec.cluster) :
           IF Parses("auto")
           THEN /\ entries' \in UpdateClusterSchedule(E, rec.cluster, rec.spec, "auto")
                /\ pending' = pending
           ELSE entries' = E /\ pending' = pending \cup {rec.cluster}
    BY <1>9 DEF RegisterAuto, ParseError
  <2>3. E \subseteq entries /\ E \in SUBSET Entry /\ OneEach(E) /\ S3Bare(E)
    <3>1. E \subseteq entries
      BY <2>2, ClearShrinks
    <3> QED
      BY <3>1 DEF OneEach, S3Bare, TypeOK
  <2>4. \A d, u : d # rec.cluster => EntriesOf(E, d, u) = EntriesOf(entries, d, u)
    BY <1>1, <2>1, <2>2, ClearOwn DEF TypeOK
  <2>5. Parses("auto") =>
           /\ OneEach(entries') /\ S3Bare(entries')
           /\ RegisteredAs(entries', rec.cluster, rec.spec, "auto")
           /\ \A d, u : d # rec.cluster \/ u # "auto" => EntriesOf(entries', d, u) = EntriesOf(E, d, u)
    BY <1>1, <2>1, <2>2, <2>3, UpdateResult
  <2>6. OneEach(entries)' /\ S3Bare(entries)'
    BY <2>2, <2>3, <2>5 DEF OneEach, S3Bare
  <2>7. ASSUME NEW d \in Clusters, Settled(d)', spec[d] # None PROVE Registered(d)'
    <3>1. CASE d = rec.cluster
      <4>1. Parses("auto") /\ d \notin pending
        BY <2>2, <2>7, <3>1 DEF Settled
      <4>2. spec[d] = rec.spec /\ spec'[d] = rec.spec
        BY <2>1, <3>1, <4>1 DEF CopyCurrent
      <4> QED
        BY <2>1, <2>5, <3>1, <4>1, <4>2 DEF Registered
    <3>2. CASE d # rec.cluster
      <4>1. \A u : EntriesOf(entries', d, u) = EntriesOf(entries, d, u)
        BY <2>2, <2>4, <2>5, <3>2
      <4> QED
        BY <2>1, <2>2, <2>7, <3>2, <4>1, OthersStay
    <3> QED
      BY <3>1, <3>2
  <2> QED
    BY <1>3, <2>1, <2>6, <2>7 DEF CopyCurrent, BranchTaken, AskedRegistered
<1> QED
  BY <1>5, <1>6, <1>7, <1>8, <1>9 DEF Reconcile

(* The world and the runs leave the registry of settled clusters alone.    *)
LEMMA RegistryNext ==
    ASSUME NamesDistinct, IndInv, [Next]_vars
    PROVE  IndInv'
<1> USE DEF IndInv
<1>1. CASE Reconcile
  BY <1>1, RegistryReconcile
<1>2. ASSUME TypeOK', UNCHANGED <<spec, pending, rec, entries>> PROVE IndInv'
  BY <1>2 DEF OneEach, S3Bare, CopyCurrent, BranchTaken, AskedRegistered, Settled, Registered
<1>3. ASSUME NEW c \in Clusters, EditCluster(c) PROVE IndInv'
  <2>1. TypeOK'
    BY <1>3, TypeWorld DEF World
  <2>2. /\ entries' = entries /\ rec' = rec /\ pending' = pending \cup {c}
        /\ \A d \in Clusters : d # c => spec'[d] = spec[d]
    BY <1>3 DEF EditCluster, TypeOK
  <2>3. ASSUME NEW d \in Clusters, Settled(d)', spec'[d] # None PROVE Registered(d)'
    <3>1. d # c /\ Settled(d)
      BY <2>2, <2>3 DEF Settled
    <3> QED
      BY <2>2, <2>3, <3>1, StaysRegistered
  <2>4. CopyCurrent'
    <3>1. rec # Idle => rec.cluster \in Clusters
      BY DEF TypeOK, RecVal
    <3> QED
      BY <2>2, <3>1 DEF CopyCurrent
  <2> QED
    BY <2>1, <2>2, <2>3, <2>4 DEF OneEach, S3Bare, BranchTaken, AskedRegistered
<1>4. CASE SyncCache \/ (\E b \in backups : Complete(b)) \/ (\E c \in Clusters : FetchFails(c))
  <2>1. TypeOK'
    BY <1>4, TypeWorld DEF World
  <2>2. UNCHANGED <<spec, pending, rec, entries>>
    BY <1>4 DEF SyncCache, Complete, FetchFails
  <2> QED
    BY <1>2, <2>1, <2>2
<1>5. CASE Restart
  <2>1. TypeOK'
    BY <1>5, TypeWorld DEF World
  <2>2. entries' = {} /\ rec' = Idle /\ spec' = spec /\ pending' = {c \in Clusters : spec[c] # None}
    BY <1>5 DEF Restart
  <2> QED
    BY <2>1, <2>2 DEF OneEach, S3Bare, CopyCurrent, BranchTaken, AskedRegistered, Settled
<1>6. CASE \E r \in Runs : RunStep(r)
  BY <1>2, <1>6, TypeRun
<1>7. CASE UNCHANGED vars
  BY <1>2, <1>7 DEF vars, TypeOK
<1> QED
  BY <1>1, <1>3, <1>4, <1>5, <1>6, <1>7 DEF Next, World

(***************************************************************************)
(* For any clusters with distinct names, any edits, restarts and faults: a *)
(* settled cluster has exactly one entry for every schedule it asks for,   *)
(* with the schedule, address and image of its resource.                   *)
(***************************************************************************)
THEOREM SchedulesRegistered == NamesDistinct => (Spec => []AskedRegistered)
<1> SUFFICES ASSUME NamesDistinct PROVE Spec => []AskedRegistered
  OBVIOUS
<1>1. Init => IndInv
  <2> SUFFICES ASSUME Init PROVE IndInv
    OBVIOUS
  <2>1. TypeOK
    BY TypeInit DEF TypeInv
  <2> QED
    BY <2>1 DEF Init, IndInv, OneEach, S3Bare, CopyCurrent, BranchTaken, AskedRegistered
<1>2. IndInv /\ [Next]_vars => IndInv'
  BY RegistryNext
<1>3. IndInv => AskedRegistered
  BY DEF IndInv
<1> QED
  BY <1>1, <1>2, <1>3, PTL DEF Spec

-----------------------------------------------------------------------------
(* The history limit.                                                      *)

(***************************************************************************)
(* The inductive invariant of KeepsLast.  A run decides what to delete     *)
(* from the backups the cache shows, and deletes it one at a time, later:  *)
(* what it still has to delete must go on having enough newer backups      *)
(* while other runs delete too, and so must what the cache shows.  It      *)
(* does, because what they delete has itself enough backups that are newer *)
(* still.                                                                  *)
(***************************************************************************)
NewerIn(S, c, k) == {a \in S : a.cluster = c /\ a.n > k}
Enough(c, k) == \E l \in Limits : Cardinality(NewerIn(backups, c, k)) >= l

Distinct == \A a, b \in backups : a.n = b.n => a = b
Agree == \A a \in seen, b \in backups : a.n = b.n => a.cluster = b.cluster
SeenEnough ==
    \A c \in Clusters, k \in Nat, l \in Limits :
        Cardinality(NewerIn(seen, c, k)) >= l => Enough(c, k)

Spares(v) ==
    v # Idle =>
        /\ v.step = "gc" => v.entry.limit # None
        /\ \A n \in v.extra : n <= budget.made
        /\ \A b \in backups : b.n \in v.extra => Enough(b.cluster, b.n)

HistoryInv ==
    /\ TypeOK /\ IsFiniteSet(backups) /\ IsFiniteSet(seen)
    /\ Distinct /\ Agree /\ SeenEnough
    /\ \A r \in Runs : Spares(run[r])

LEMMA BackupFields ==
    ASSUME TypeOK
    PROVE  /\ \A b \in backups \cup seen : /\ b \in Backup /\ b.cluster \in Clusters
                                           /\ b.n \in Nat /\ b.n <= budget.made
           /\ budget.made \in Nat
  BY BoundsAssumption DEF TypeOK, Backup

LEMMA NewerFinite ==
    ASSUME NEW S, IsFiniteSet(S), NEW c, NEW k
    PROVE  IsFiniteSet(NewerIn(S, c, k)) /\ Cardinality(NewerIn(S, c, k)) \in Nat
<1>1. NewerIn(S, c, k) \in SUBSET S
  BY DEF NewerIn
<1> QED
  BY <1>1, FS_Subset, FS_CardinalityType

(* A larger set of newer backups is enough if a smaller one is.            *)
LEMMA MoreIsEnough ==
    ASSUME NEW S, NEW T, IsFiniteSet(T), NEW c, NEW j, NEW k, NEW l \in Limits,
           NewerIn(S, c, j) \subseteq NewerIn(T, c, k), Cardinality(NewerIn(S, c, j)) >= l
    PROVE  Cardinality(NewerIn(T, c, k)) >= l
<1>1. IsFiniteSet(NewerIn(T, c, k)) /\ Cardinality(NewerIn(T, c, k)) \in Nat
  BY NewerFinite
<1>2. IsFiniteSet(NewerIn(S, c, j)) /\ Cardinality(NewerIn(S, c, j)) <= Cardinality(NewerIn(T, c, k))
  BY <1>1, FS_Subset
<1>3. Cardinality(NewerIn(S, c, j)) \in Nat /\ l \in Nat
  BY <1>2, FS_CardinalityType, LimitsAssumption
<1> QED
  BY <1>1, <1>2, <1>3

(* Creating a backup, completing one and deleting one with enough newer    *)
(* backups takes nothing from the others.                                  *)
LEMMA CreateSpares ==
    ASSUME IsFiniteSet(backups), NEW b, backups' = backups \cup {b}
    PROVE  IsFiniteSet(backups') /\ \A c, k : Enough(c, k) => Enough(c, k)'
<1>1. IsFiniteSet(backups')
  BY FS_AddElement
<1>2. ASSUME NEW c, NEW k, Enough(c, k) PROVE Enough(c, k)'
  <2>1. PICK l \in Limits : Cardinality(NewerIn(backups, c, k)) >= l
    BY <1>2 DEF Enough
  <2>2. NewerIn(backups, c, k) \subseteq NewerIn(backups', c, k)
    BY DEF NewerIn
  <2>3. Cardinality(NewerIn(backups', c, k)) >= l
    BY <1>1, <2>1, <2>2, MoreIsEnough
  <2> QED
    BY <2>3 DEF Enough, NewerIn
<1> QED
  BY <1>1, <1>2

LEMMA CompleteSpares ==
    ASSUME TypeOK, IsFiniteSet(backups), Distinct, NEW b \in backups, Complete(b)
    PROVE  /\ IsFiniteSet(backups') /\ \A c, k : Enough(c, k) => Enough(c, k)'
           /\ \A a \in backups' : \E d \in backups : a.n = d.n /\ a.cluster = d.cluster
           /\ \A a \in backups : \E d \in backups' : a.n = d.n
           /\ Distinct'
<1> DEFINE done == [b EXCEPT !.completed = TRUE]
<1>1. done.n = b.n /\ done.cluster = b.cluster /\ done.completed = TRUE /\ ~b.completed
  BY DEF Complete, TypeOK, Backup
<1>2. backups' = (backups \ {b}) \cup {done}
  BY DEF Complete
<1>3. done \notin backups
  BY <1>1 DEF Distinct
<1> HIDE DEF done
<1>4. IsFiniteSet(backups')
  BY <1>2, FS_RemoveElement, FS_AddElement
<1>5. ASSUME NEW c, NEW k, Enough(c, k) PROVE Enough(c, k)'
  <2> DEFINE X == NewerIn(backups, c, k)
  <2>1. IsFiniteSet(X) /\ Cardinality(X) \in Nat
    BY NewerFinite
  <2>2. Cardinality(NewerIn(backups', c, k)) = Cardinality(X)
    <3>1. CASE b \in X
      <4>1. NewerIn(backups', c, k) = (X \ {b}) \cup {done}
        BY <1>1, <1>2, <3>1 DEF NewerIn
      <4>2. IsFiniteSet(X \ {b}) /\ Cardinality(X \ {b}) = Cardinality(X) - 1
        BY <2>1, <3>1, FS_RemoveElement
      <4>3. done \notin X \ {b}
        BY <1>3 DEF NewerIn
      <4>4. Cardinality((X \ {b}) \cup {done}) = Cardinality(X \ {b}) + 1
        BY <4>2, <4>3, FS_AddElement
      <4> QED
        BY <2>1, <4>1, <4>2, <4>4
    <3>2. CASE b \notin X
      <4>1. NewerIn(backups', c, k) = X
        BY <1>1, <1>2, <3>2 DEF NewerIn
      <4> QED
        BY <4>1
    <3> QED
      BY <3>1, <3>2
  <2> QED
    BY <1>5, <2>2 DEF Enough, NewerIn
<1>6. Distinct'
  BY <1>1, <1>2 DEF Distinct
<1> QED
  BY <1>1, <1>2, <1>4, <1>5, <1>6

LEMMA DeleteSpares ==
    ASSUME TypeOK, IsFiniteSet(backups), NEW n \in Nat,
           backups' = {b \in backups : b.n # n}, \A b \in backups : b.n = n => Enough(b.cluster, n)
    PROVE  IsFiniteSet(backups') /\ \A c : \A k \in Nat : Enough(c, k) => Enough(c, k)'
<1>1. IsFiniteSet(backups')
  BY FS_Subset
<1>2. ASSUME NEW c, NEW k \in Nat, Enough(c, k) PROVE Enough(c, k)'
  <2>1. CASE \E b \in NewerIn(backups, c, k) : b.n = n
    <3>1. Enough(c, n) /\ k < n
      BY <2>1 DEF NewerIn
    <3>2. PICK l \in Limits : Cardinality(NewerIn(backups, c, n)) >= l
      BY <3>1 DEF Enough
    <3>3. NewerIn(backups, c, n) \subseteq NewerIn(backups', c, k)
      BY <3>1, BackupFields DEF NewerIn
    <3>4. Cardinality(NewerIn(backups', c, k)) >= l
      BY <1>1, <3>2, <3>3, MoreIsEnough
    <3> QED
      BY <3>4 DEF Enough, NewerIn
  <2>2. CASE \A b \in NewerIn(backups, c, k) : b.n # n
    <3>1. NewerIn(backups', c, k) = NewerIn(backups, c, k)
      BY <2>2 DEF NewerIn
    <3> QED
      BY <1>2, <3>1 DEF Enough, NewerIn
  <2> QED
    BY <2>1, <2>2
<1> QED
  BY <1>1, <1>2


(* What a run still has to delete is decided at gc, from the cache.        *)
LEMMA OneRun ==
    ASSUME HistoryInv, NEW r \in Runs, NEW v, Spares(v), run' = [run EXCEPT ![r] = v]
    PROVE  \A q \in Runs : Spares(run'[q])
<1>1. ASSUME NEW q \in Runs PROVE run'[q] = v \/ run'[q] = run[q]
  BY DEF HistoryInv, TypeOK
<1>2. \A q \in Runs : Spares(run[q])
  BY DEF HistoryInv
<1> HIDE DEF Spares
<1> QED
  BY <1>1, <1>2

LEMMA RunSpares ==
    ASSUME HistoryInv, NEW r \in Runs, RunStep(r)
    PROVE  \A q \in Runs : Spares(run'[q])
<1>1. /\ TypeOK /\ IsFiniteSet(seen) /\ Agree /\ SeenEnough /\ Spares(run[r])
      /\ run[r] # Idle => run[r] \in [step : RunSteps, entry : Entry, extra : SUBSET (1 .. MaxBackups)]
  BY DEF HistoryInv, TypeOK, RunVal
<1>2. Spares(Idle)
  BY DEF Spares
<1>3. ASSUME run[r] # Idle, NEW step, step # "gc", GotoRun(r, step)
      PROVE  \A q \in Runs : Spares(run'[q])
  <2> DEFINE v == [run[r] EXCEPT !.step = step]
  <2>1. v.step = step /\ v.extra = run[r].extra /\ run' = [run EXCEPT ![r] = v]
    BY <1>1, <1>3 DEF GotoRun
  <2> HIDE DEF v
  <2>2. Spares(v)
    BY <1>1, <1>3, <2>1 DEF Spares
  <2> QED
    BY <2>1, <2>2, OneRun
<1>4. ASSUME run[r] # Idle, Return(r) PROVE \A q \in Runs : Spares(run'[q])
  <2> DEFINE v == IF run[r].entry.limit = None THEN Idle ELSE [run[r] EXCEPT !.step = "gc"]
  <2>1. run' = [run EXCEPT ![r] = v]
    BY <1>4 DEF Return
  <2>2. v = Idle \/ (v.extra = run[r].extra /\ v.entry = run[r].entry /\ run[r].entry.limit # None)
    BY <1>1, <1>4
  <2> HIDE DEF v
  <2>3. Spares(v)
    BY <1>1, <1>2, <1>4, <2>2 DEF Spares
  <2> QED
    BY <2>1, <2>3, OneRun
<1>5. ASSUME NEW extra, \A n \in extra : n <= budget.made /\ \A b \in backups : b.n = n => Enough(b.cluster, n),
             Delete(r, extra)
      PROVE  \A q \in Runs : Spares(run'[q])
  <2> DEFINE v == IF extra = {} THEN Idle ELSE [step |-> "delete", entry |-> run[r].entry, extra |-> extra]
  <2>1. run' = [run EXCEPT ![r] = v]
    BY <1>5 DEF Delete
  <2>2. v = Idle \/ (v.step = "delete" /\ v.extra = extra)
    OBVIOUS
  <2> HIDE DEF v
  <2>3. Spares(v)
    BY <1>2, <1>5, <2>2 DEF Spares
  <2> QED
    BY <2>1, <2>3, OneRun
<1>6. CASE Fire(r)
  <2>1. PICK e \in entries : run' = [run EXCEPT ![r] = [step |-> "need", entry |-> e, extra |-> {}]]
    BY <1>6 DEF Fire
  <2>2. Spares([step |-> "need", entry |-> e, extra |-> {}])
    BY DEF Spares
  <2> QED
    BY <2>1, <2>2, OneRun
<1>7. CASE NeedRun(r) \/ NeedFails(r) \/ CountRunning(r) \/ CountFails(r) \/ CreateBackup(r) \/ CreateFails(r)
  BY <1>3, <1>4, <1>7 DEF NeedRun, NeedFails, CountRunning, CountFails, CreateBackup, CreateFails, Running
<1>8. CASE BackupGC(r)
  <2>1. run[r] # Idle /\ run[r].step = "gc"
    BY <1>8 DEF BackupGC, Running
  <2>2. PICK e \in Entry : e = run[r].entry /\ e.limit \in Limits /\ e.cluster \in Clusters
    BY <1>1, <2>1 DEF Spares, Entry
  <2> DEFINE extra == {b.n : b \in Extra(seen, e.cluster, e.limit)}
  <2>3. Delete(r, extra)
    BY <1>8, <2>2 DEF BackupGC
  <2>4. ASSUME NEW b \in Extra(seen, e.cluster, e.limit), NEW d \in backups, d.n = b.n
        PROVE  Enough(d.cluster, b.n)
    <3>1. b \in seen /\ b.cluster = e.cluster /\ b.n \in Nat
      BY <1>1, BackupFields DEF Extra
    <3>2. Cardinality(NewerIn(seen, e.cluster, b.n)) >= e.limit
      <4>1. {a \in seen : a.cluster = e.cluster /\ BeforeInOrder(a, b)} = NewerIn(seen, e.cluster, b.n)
        BY DEF NewerIn, BeforeInOrder
      <4> QED
        BY <4>1 DEF Extra
    <3>3. Enough(e.cluster, b.n)
      BY <1>1, <2>2, <3>1, <3>2 DEF SeenEnough
    <3>4. d.cluster = e.cluster
      BY <1>1, <2>4, <3>1 DEF Agree
    <3> QED
      BY <3>3, <3>4
  <2>5. \A n \in extra : n <= budget.made /\ \A b \in backups : b.n = n => Enough(b.cluster, n)
    BY <1>1, <2>4, BackupFields DEF Extra
  <2> QED
    BY <1>5, <2>3, <2>5
<1>9. CASE GCFails(r)
  BY <1>2, <1>9, OneRun DEF GCFails
<1>10. ASSUME NEW n \in 1 .. MaxBackups, DeleteBackup(r, n) \/ DeleteFails(r, n)
       PROVE  \A q \in Runs : Spares(run'[q])
  <2>1. run[r] # Idle /\ Delete(r, run[r].extra \ {n})
    BY <1>10 DEF DeleteBackup, DeleteFails, DeleteTurn, Running
  <2>2. \A m \in run[r].extra \ {n} : m <= budget.made /\ \A b \in backups : b.n = m => Enough(b.cluster, m)
    BY <1>1, <2>1 DEF Spares
  <2> QED
    BY <1>5, <2>1, <2>2
<1> QED
  BY <1>6, <1>7, <1>8, <1>9, <1>10 DEF RunStep, RunSteps

LEMMA HistoryFrame ==
    ASSUME HistoryInv, TypeOK', IsFiniteSet(backups'), Distinct',
           \A c : \A k \in Nat : Enough(c, k) => Enough(c, k)',
           \A a \in backups' : a.n > budget.made \/ \E d \in backups : a.n = d.n /\ a.cluster = d.cluster,
           seen' = seen \/ seen' = backups',
           budget.made <= budget'.made, \A q \in Runs : Spares(run'[q])
    PROVE  HistoryInv'
<1>1. /\ TypeOK /\ IsFiniteSet(seen) /\ Agree /\ SeenEnough
      /\ \A b \in backups \cup seen : /\ b \in Backup /\ b.cluster \in Clusters
                                      /\ b.n \in Nat /\ b.n <= budget.made
      /\ budget.made \in Nat /\ budget'.made \in Nat
  BY BackupFields, BoundsAssumption DEF HistoryInv, TypeOK
<1>2. IsFiniteSet(seen')
  BY <1>1
<1>3. Agree'
  <2>1. CASE seen' = backups'
    BY <2>1 DEF Distinct, Agree
  <2>2. CASE seen' = seen
    BY <1>1, <2>2 DEF Agree
  <2> QED
    BY <2>1, <2>2
<1>4. SeenEnough'
  <2>1. CASE seen' = backups'
    BY <2>1 DEF SeenEnough, Enough
  <2>2. CASE seen' = seen
    <3> SUFFICES ASSUME NEW c \in Clusters, NEW k \in Nat, NEW l \in Limits,
                        Cardinality(NewerIn(seen, c, k)) >= l
                 PROVE  Enough(c, k)'
      BY <2>2 DEF SeenEnough, NewerIn
    <3>1. Enough(c, k)
      BY <1>1 DEF SeenEnough
    <3> QED
      BY <3>1
  <2> QED
    BY <2>1, <2>2
<1>5. ASSUME NEW q \in Runs PROVE Spares(run[q])'
  <2> SUFFICES ASSUME run'[q] # Idle
               PROVE  /\ run'[q].step = "gc" => run'[q].entry.limit # None
                      /\ \A n \in run'[q].extra : n <= budget'.made
                      /\ \A b \in backups' : b.n \in run'[q].extra => Enough(b.cluster, b.n)'
    BY DEF Spares
  <2>1. /\ run'[q].step = "gc" => run'[q].entry.limit # None
        /\ \A n \in run'[q].extra : n <= budget.made
        /\ \A b \in backups : b.n \in run'[q].extra => Enough(b.cluster, b.n)
    BY DEF Spares
  <2>2. run'[q].extra \subseteq Nat
    BY DEF TypeOK, RunVal
  <2>3. ASSUME NEW b \in backups', b.n \in run'[q].extra PROVE Enough(b.cluster, b.n)'
    <3>1. PICK d \in backups : b.n = d.n /\ b.cluster = d.cluster
      BY <1>1, <2>1, <2>2, <2>3
    <3>2. b.cluster \in Clusters /\ b.n \in Nat /\ Enough(b.cluster, b.n)
      BY <1>1, <2>1, <2>3, <3>1
    <3> QED
      BY <3>2
  <2> QED
    BY <1>1, <2>1, <2>2, <2>3
<1> QED
  BY <1>2, <1>3, <1>4, <1>5 DEF HistoryInv


LEMMA HistoryInit == Init => HistoryInv
<1> SUFFICES ASSUME Init PROVE HistoryInv
  OBVIOUS
<1>1. TypeOK
  BY TypeInit DEF TypeInv
<1>2. backups = {} /\ seen = {} /\ \A r \in Runs : run[r] = Idle
  BY DEF Init
<1>3. IsFiniteSet(backups) /\ IsFiniteSet(seen)
  BY <1>2, FS_EmptySet
<1>4. SeenEnough
  BY <1>2 DEF SeenEnough, Enough
<1> QED
  BY <1>1, <1>2, <1>3, <1>4 DEF HistoryInv, Distinct, Agree, Spares

(* The steps that leave the backups alone.                                 *)
LEMMA HistorySame ==
    ASSUME HistoryInv, TypeOK', backups' = backups, seen' = seen \/ seen' = backups',
           budget'.made = budget.made, \A q \in Runs : Spares(run'[q])
    PROVE  HistoryInv'
<1>1. IsFiniteSet(backups') /\ Distinct'
  BY DEF HistoryInv, Distinct
<1>2. \A c : \A k \in Nat : Enough(c, k) => Enough(c, k)'
  BY DEF Enough, NewerIn
<1>3. budget.made \in Nat
  BY BackupFields DEF HistoryInv
<1> QED
  BY <1>1, <1>2, <1>3, HistoryFrame

(* What a run deletes has enough newer backups.                            *)
LEMMA DeletedEnough ==
    ASSUME HistoryInv, NEW r \in Runs, NEW n \in 1 .. MaxBackups, DeleteBackup(r, n)
    PROVE  /\ backups' = {b \in backups : b.n # n}
           /\ \A b \in backups : b.n = n => Enough(b.cluster, n)
<1>1. backups' = {b \in backups : b.n # n} /\ run[r] # Idle /\ n \in run[r].extra
  BY DEF DeleteBackup, DeleteTurn, Running
<1>2. Spares(run[r])
  BY DEF HistoryInv
<1> QED
  BY <1>1, <1>2 DEF Spares

LEMMA HistoryRun ==
    ASSUME HistoryInv, NEW r \in Runs, RunStep(r)
    PROVE  HistoryInv'
<1>1. TypeOK /\ TypeOK' /\ \A q \in Runs : Spares(run'[q])
  BY TypeRun, RunSpares DEF HistoryInv
<1>2. CASE CreateBackup(r)
  <2>1. PICK b : /\ backups' = backups \cup {b} /\ b.n = budget.made + 1
                 /\ seen' = seen /\ budget'.made = budget.made + 1
    <3> DEFINE b == [cluster |-> run[r].entry.cluster, n |-> budget.made + 1, completed |-> FALSE]
    <3>1. backups' = backups \cup {b} /\ seen' = seen /\ budget'.made = budget.made + 1
      BY <1>1, <1>2 DEF CreateBackup, TypeOK
    <3>2. b.n = budget.made + 1
      OBVIOUS
    <3> HIDE DEF b
    <3> QED
      BY <3>1, <3>2
  <2>2. /\ budget.made \in Nat
        /\ \A a \in backups : a.n \in Nat /\ a.n <= budget.made
    BY <1>1, BackupFields
  <2>3. IsFiniteSet(backups') /\ \A c, k : Enough(c, k) => Enough(c, k)'
    BY <2>1, CreateSpares DEF HistoryInv
  <2>4. Distinct'
    BY <2>1, <2>2 DEF HistoryInv, Distinct
  <2>5. \A a \in backups' : a.n > budget.made \/ \E d \in backups : a.n = d.n /\ a.cluster = d.cluster
    BY <2>1, <2>2
  <2> QED
    BY <1>1, <2>1, <2>2, <2>3, <2>4, <2>5, HistoryFrame
<1>3. ASSUME NEW n \in 1 .. MaxBackups, DeleteBackup(r, n) PROVE HistoryInv'
  <2>1. seen' = seen /\ budget' = budget
    BY <1>3 DEF DeleteBackup, DeleteTurn
  <2>2. backups' = {b \in backups : b.n # n} /\ \A b \in backups : b.n = n => Enough(b.cluster, n)
    BY <1>3, DeletedEnough
  <2>3. IsFiniteSet(backups') /\ \A c : \A k \in Nat : Enough(c, k) => Enough(c, k)'
    BY <1>1, <2>2, DeleteSpares DEF HistoryInv
  <2>4. Distinct' /\ \A a \in backups' : \E d \in backups : a.n = d.n /\ a.cluster = d.cluster
    BY <2>2 DEF HistoryInv, Distinct
  <2>5. budget.made \in Nat
    BY <1>1, BackupFields
  <2> QED
    BY <1>1, <2>1, <2>3, <2>4, <2>5, HistoryFrame
<1>4. CASE \/ Fire(r) \/ NeedRun(r) \/ NeedFails(r) \/ CountRunning(r) \/ CountFails(r)
           \/ CreateFails(r) \/ BackupGC(r) \/ GCFails(r)
           \/ \E n \in 1 .. MaxBackups : DeleteFails(r, n)
  <2>1. backups' = backups /\ seen' = seen /\ budget'.made = budget.made
    BY <1>1, <1>4 DEF Fire, NeedRun, NeedFails, CountRunning, CountFails, CreateFails, BackupGC, GCFails,
                      DeleteFails, DeleteTurn, Fault, TypeOK
  <2> QED
    BY <1>1, <2>1, HistorySame
<1> QED
  BY <1>2, <1>3, <1>4 DEF RunStep

LEMMA HistoryNext == HistoryInv /\ TypeInv /\ [Next]_vars => HistoryInv'
<1> SUFFICES ASSUME HistoryInv, TypeInv, [Next]_vars PROVE HistoryInv'
  OBVIOUS
<1>1. TypeOK /\ TypeOK' /\ budget.made \in Nat /\ \A q \in Runs : Spares(run[q])
  BY TypeNext, BackupFields DEF HistoryInv, TypeInv
<1>2. ASSUME run' = run, backups' = backups, seen' = seen \/ seen' = backups', budget'.made = budget.made
      PROVE  HistoryInv'
  BY <1>1, <1>2, HistorySame
<1>3. CASE Reconcile
  BY <1>2, <1>3 DEF Reconcile, Fetch, CloseCluster, Deactivate, RegisterAuto, RegisterBoth
<1>4. CASE (\E c \in Clusters : EditCluster(c)) \/ SyncCache \/ \E c \in Clusters : FetchFails(c)
  <2>1. run' = run /\ backups' = backups /\ (seen' = seen \/ seen' = backups') /\ budget'.made = budget.made
    BY <1>1, <1>4 DEF EditCluster, SyncCache, FetchFails, Fault, TypeOK
  <2> QED
    BY <1>2, <2>1
<1>5. CASE Restart
  <2>1. /\ backups' = backups /\ seen' = backups' /\ budget'.made = budget.made
        /\ \A q \in Runs : run'[q] = Idle
    BY <1>1, <1>5 DEF Restart, Fault, TypeOK
  <2>2. \A q \in Runs : Spares(run'[q])
    BY <2>1 DEF Spares
  <2> QED
    BY <1>1, <2>1, <2>2, HistorySame
<1>6. ASSUME NEW b \in backups, Complete(b) PROVE HistoryInv'
  <2>1. run' = run /\ seen' = seen /\ budget' = budget
    BY <1>6 DEF Complete
  <2>2. /\ IsFiniteSet(backups') /\ \A c, k : Enough(c, k) => Enough(c, k)'
        /\ \A a \in backups' : \E d \in backups : a.n = d.n /\ a.cluster = d.cluster
        /\ Distinct'
    BY <1>6, CompleteSpares DEF HistoryInv
  <2> QED
    BY <1>1, <2>1, <2>2, HistoryFrame
<1>7. CASE UNCHANGED vars
  BY <1>2, <1>7 DEF vars
<1> QED
  BY <1>3, <1>4, <1>5, <1>6, <1>7, HistoryRun DEF Next, World

(***************************************************************************)
(* However many runs overlap, from caches however old and with whatever    *)
(* limits they were registered: what a run deletes has as many newer       *)
(* backups of its cluster as one of the limits (backupGC).                 *)
(***************************************************************************)
Kept(b) ==
    (\A a \in backups' : a.n # b.n) => \E l \in Limits : Cardinality(Newer(b)) >= l

THEOREM LastKept == Spec => KeepsLast
<1>1. HistoryInv /\ [Next]_vars => [\A b \in backups : Kept(b)]_vars
  <2> SUFFICES ASSUME HistoryInv, Next, NEW b \in backups, \A a \in backups' : a.n # b.n
               PROVE  \E l \in Limits : Cardinality(Newer(b)) >= l
    BY DEF Kept
  <2>1. b \in backups'  => FALSE
    OBVIOUS
  <2>2. PICK r \in Runs, n \in 1 .. MaxBackups : DeleteBackup(r, n)
    <3>1. Reconcile \/ (\E c \in Clusters : EditCluster(c) \/ FetchFails(c)) \/ SyncCache \/ Restart
              => backups' = backups
      BY DEF Reconcile, Fetch, CloseCluster, Deactivate, RegisterAuto, RegisterBoth, EditCluster, FetchFails,
             SyncCache, Restart
    <3>2. ASSUME NEW d \in backups, Complete(d) PROVE FALSE
      BY <3>2, CompleteSpares DEF HistoryInv
    <3>3. ASSUME NEW r \in Runs, RunStep(r), \A n \in 1 .. MaxBackups : ~DeleteBackup(r, n)
          PROVE  b \in backups'
      BY <3>3 DEF RunStep, Fire, NeedRun, NeedFails, CountRunning, CountFails, CreateBackup, CreateFails,
                  BackupGC, GCFails, DeleteFails, DeleteTurn
    <3> QED
      BY <2>1, <3>1, <3>2, <3>3 DEF Next, World
  <2>3. b.n = n /\ Enough(b.cluster, b.n)
    BY <2>1, <2>2, DeletedEnough
  <2> QED
    BY <2>3 DEF Enough, NewerIn, Newer
<1>2. [\A b \in backups : Kept(b)]_vars <=>
          [\A b \in backups : (\A a \in backups' : a.n # b.n) =>
              \E l \in Limits : Cardinality(Newer(b)) >= l]_vars
  BY DEF Kept
<1>3. Init => HistoryInv /\ TypeInv
  BY HistoryInit, TypeInit
<1>4. HistoryInv /\ TypeInv /\ [Next]_vars => HistoryInv' /\ TypeInv'
  BY HistoryNext, TypeNext
<1> QED
  BY <1>1, <1>2, <1>3, <1>4, PTL DEF Spec, KeepsLast
=============================================================================
