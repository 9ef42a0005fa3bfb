--------------------------- MODULE ClusterObjects ---------------------------
(***************************************************************************)
(* The MysqlCluster controller (controllers/mysqlcluster_controller.go):   *)
(* one worker takes the clusters of its queue in turn, reads a cluster,    *)
(* and runs the syncers of its objects in a fixed order; the first one     *)
(* that fails ends the pass and queues the cluster again. The clusters     *)
(* share a namespace, and two helpers delete services of the whole         *)
(* namespace. Larger volumes are had by deleting the StatefulSet and       *)
(* resizing its claims; the read-only StatefulSet is kept from inside the  *)
(* StatefulSet's syncer.                                                   *)
(*                                                                         *)
(* What is abstracted: objects to what tells two of them apart (the roles  *)
(* a service selects, the peers of xenon, replicas and volume size of a    *)
(* StatefulSet, the memory settings of my.cnf). Pods and their rolling     *)
(* update are in RollingUpdate; the API server, the StatefulSet controller *)
(* and the garbage collector are taken in the form the operator sees them. *)
(***************************************************************************)
EXTENDS Integers, Sequences, FiniteSets

CONSTANTS
    Clusters,   \* clusters of one namespace
    Starts,     \* which of them may be there at the start, and events used up already
    First,      \* [Clusters -> the specification a cluster is made with]
    Edits,      \* [Clusters -> specifications a user may change it to]
    Deletable,  \* clusters a user may delete
    Names,      \* the passwords and the remote clusters that specifications give
    Secrets,    \* those of the remote clusters whose secret there is
    MaxEvents,  \* bound on edits, deletions, refused calls and restarts of the operator
    None        \* no object, no pass

ASSUME BoundsAssumption ==
    IsFiniteSet(Clusters) /\ MaxEvents \in Nat /\ Secrets \subseteq Names
    /\ Starts \subseteq [live : SUBSET Clusters, events : 0..MaxEvents]

\* What a user specifies; sizes of volumes in GiB, of memory in MiB. Some are refused
\* by Validate (valid), some name a template for my.cnf that there is not (template).
Specification ==
    [replicas : Nat, maintain : BOOLEAN, ro : Nat, size : Nat, mem : Nat, pool : Nat, cpus : Nat,
     roMem : Nat, root : Names \cup {""}, localRoot : BOOLEAN, min : Nat, remote : Names \cup {""},
     metrics : BOOLEAN, leaderAsFollower : BOOLEAN, valid : BOOLEAN, template : BOOLEAN]

ASSUME SpecsAssumption ==
    First \in [Clusters -> Specification] /\ Edits \in [Clusters -> SUBSET Specification]

VARIABLES
    phase,    \* [Clusters -> "live", "deleting" (with its finalizer) or "gone"]
    spec,     \* [Clusters -> specification]
    ready,    \* clusters whose status says Ready
    objs,     \* [Clusters -> [Kinds -> content or None]]
    claims,   \* [Clusters -> [{"sfs", "roSfs"} -> [ordinals that exist -> size]]]
    backups,  \* clusters that have backups
    queue,    \* clusters the controller has to look at
    job,      \* the pass at work: cluster, specification and status read, what is left
    events,   \* edits, deletions and faults so far
    torn      \* history: StatefulSets whose expansion or removal was cut short, or overtaken

vars == <<phase, spec, ready, objs, claims, backups, queue, job, events, torn>>

Kinds == {"mysqlCM", "secret", "role", "roleBinding", "serviceAccount", "headless", "leader",
          "roHeadless", "ro", "follower", "sfs", "pdb", "xenonCM", "remoteCM", "metrics", "roSfs"}
Sets == {"sfs", "roSfs"}
Nodes == {"LEADER", "FOLLOWER", "CANDIDATE"}

\* A pass: the cluster, its specification and its status as read, the steps that are
\* left, and the claims that are still to be resized.
Steps == Kinds \cup {"services", "readOnly"}
Job == [c : Clusters, s : Specification, ready : BOOLEAN, left : SUBSET Nat,
        todo : Seq(Steps) \cup {<<"expand">>, <<"finalizer">>}]

NoClaims == [k \in Sets |-> [o \in {} |-> 0]]

Init ==
    /\ \E s \in Starts :
          /\ phase = [c \in Clusters |-> IF c \in s.live THEN "live" ELSE "gone"]
          /\ backups = s.live /\ queue = s.live /\ events = s.events
    /\ spec = First
    /\ objs = [c \in Clusters |-> [k \in Kinds |-> None]]
    /\ claims = [c \in Clusters |-> NoClaims]
    /\ ready = {} /\ torn = {}
    /\ job = None

----------------------------------------------------------------------------
(* my.cnf: sizes in MiB *)

Least(a, b) == IF a <= b THEN a ELSE b
Most(a, b) == IF a >= b THEN a ELSE b
GiB == 1024
Share(mem, small, large) == (mem * (IF mem <= GiB THEN small ELSE large)) \div 100

\* The redo log by the size of the buffer pool.
LogSize(pool) == IF pool < 8 * GiB THEN 512 ELSE IF pool <= 128 * GiB THEN GiB ELSE 2 * GiB

\* The buffer pool is a share of the memory, at least 128 MiB, or what the user asks
\* for within bounds (0: nothing); a log too large for the volume becomes 1 GiB.
EnsureMysqlConf(s) ==
    LET pool == IF s.pool = 0 THEN Most(Share(s.mem, 45, 60), 128)
                ELSE Least(Most(s.pool, 128), Share(s.mem, 60, 80))
        log == LogSize(pool)
    IN [pool |-> pool,
        inst |-> Most(Least(s.cpus, pool \div GiB), 1),
        log |-> IF (s.size * GiB) \div 2 < log THEN GiB ELSE log]

\* The same for the read-only nodes, from their own memory.
CalcInnodbParam(s) ==
    LET pool == Most(Share(s.roMem, 45, 60), 128)
    IN [pool |-> pool, inst |-> Most(Least(s.cpus, pool \div GiB), 1), log |-> LogSize(pool)]

----------------------------------------------------------------------------
(* The syncers: what each makes of its object *)

\* Defaults and bounds are computed when the object is made, which has no owner yet.
\* Later passes write what the specification gives, as it is given, over what is
\* there, and make the cluster its owner.
NewMysqlCMSyncer(s, old) ==
    IF old = None THEN [conf |-> EnsureMysqlConf(s), owned |-> FALSE]
    ELSE [conf |-> IF s.pool # 0 THEN [old.conf EXCEPT !.pool = s.pool] ELSE old.conf, owned |-> TRUE]

\* Random passwords are added where there is none; a root password that is given is
\* written (for a local root an empty one too), one that is taken away stays.
NewSecretSyncer(s, old) ==
    [root |-> IF s.root # "" \/ s.localRoot THEN s.root
              ELSE IF old = None \/ old = [root |-> ""] THEN "random" ELSE old.root]

NewRoleSyncer == [may |-> {"patch pods", "exec pods", "patch jobs", "get clusters"}]
NewRoleBindingSyncer == [to |-> {"serviceAccount"}]
NewServiceAccountSyncer == [to |-> {}]
NewHeadlessSVCSyncer == [to |-> Nodes]
NewLeaderSVCSyncer == [to |-> {"LEADER"}]
NewHeadlessReadOnlySVCSyncer == [to |-> {"RO"}]
NewReadOnlySVCSyncer == [to |-> {"RO"}]
NewFollowerSVCSyncer(s) == [to |-> IF s.leaderAsFollower THEN Nodes ELSE {"FOLLOWER"}]
NewMetricsSVCSyncer == [to |-> Nodes]

\* The remote cluster; with no replicas it stays as it is.
NewRemoteClusterCMSyncer(s, old) ==
    IF s.replicas = 0 THEN (IF old = None THEN [to |-> {}] ELSE old) ELSE [to |-> {s.remote}]

\* A disruption budget is never changed.
NewPDBSyncer(s, old) == IF old = None THEN [min |-> s.min] ELSE old

\* The peers of xenon; with no replicas they stay as they are.
NewXenonCMSyncer(s, old) ==
    IF s.replicas = 0 THEN (IF old = None THEN [peers |-> {}] ELSE old)
    ELSE [peers |-> 0..(s.replicas - 1)]

Mutate(k, s, old) ==
    CASE k = "mysqlCM" -> NewMysqlCMSyncer(s, old)
      [] k = "secret" -> NewSecretSyncer(s, old)
      [] k = "role" -> NewRoleSyncer
      [] k = "roleBinding" -> NewRoleBindingSyncer
      [] k = "serviceAccount" -> NewServiceAccountSyncer
      [] k = "headless" -> NewHeadlessSVCSyncer
      [] k = "leader" -> NewLeaderSVCSyncer
      [] k = "roHeadless" -> NewHeadlessReadOnlySVCSyncer
      [] k = "ro" -> NewReadOnlySVCSyncer
      [] k = "follower" -> NewFollowerSVCSyncer(s)
      [] k = "pdb" -> NewPDBSyncer(s, old)
      [] k = "xenonCM" -> NewXenonCMSyncer(s, old)
      [] k = "remoteCM" -> NewRemoteClusterCMSyncer(s, old)
      [] k = "metrics" -> NewMetricsSVCSyncer

\* What an object of a kind tells apart.
Conf == [pool : Nat, inst : Nat, log : Nat]
Content(k) ==
    CASE k = "mysqlCM" -> [conf : Conf, owned : BOOLEAN]
      [] k = "secret" -> [root : Names \cup {"", "random"}]
      [] k = "role" -> {NewRoleSyncer}
      [] k = "remoteCM" -> [to : SUBSET (Names \cup {""})]
      [] k = "pdb" -> [min : Nat]
      [] k = "xenonCM" -> [peers : SUBSET Nat]
      [] k = "sfs" -> [replicas : Nat, size : Nat]
      [] k = "roSfs" -> [replicas : Nat, size : Nat, conf : Conf]
      [] OTHER -> [to : SUBSET (Nodes \cup {"RO", "serviceAccount"})]

ASSUME NoneAssumption == None \notin Job /\ \A k \in Kinds : None \notin Content(k)

\* A template that is missing, or the secret of the remote cluster, is an error.
Fails(k, s) ==
    \/ k = "mysqlCM" /\ s.template
    \/ k = "remoteCM" /\ s.replicas > 0 /\ s.remote \notin Secrets

\* The order of a pass; "services" is where services are deleted, "readOnly" what the
\* StatefulSet's syncer does when it has succeeded.
When(b, seq) == IF b THEN seq ELSE <<>>
Syncers(s) ==
    <<"mysqlCM", "secret", "services", "role", "roleBinding", "serviceAccount", "headless">>
    \o When(~s.maintain, <<"leader">>)
    \o When(s.ro > 0, <<"roHeadless", "ro">>)
    \o When(s.replicas # 1, <<"follower">>)
    \o <<"sfs", "readOnly", "pdb", "xenonCM">>
    \o When(s.remote # "", <<"remoteCM">>)
    \o When(s.metrics, <<"metrics">>)

----------------------------------------------------------------------------
(* The pass *)

Event == events < MaxEvents /\ events' = events + 1
At(k) == job # None /\ job.todo # <<>> /\ Head(job.todo) = k
Goto(todo) == job' = [job EXCEPT !.todo = todo]
Done(k) == At(k) /\ Goto(Tail(job.todo))
Existing == {c \in Clusters : phase[c] # "gone"}
Requeue == job' = None /\ queue' = queue \cup {job.c}

\* The controller watches the objects it owns: a cluster is queued when one changes.
HasOwner(k, v) == v # None /\ (k = "mysqlCM" => v.owned)
Owns(new) ==
    queue' = queue \cup {c \in Clusters : \E k \in Kinds :
        new[c][k] # objs[c][k] /\ (HasOwner(k, new[c][k]) \/ HasOwner(k, objs[c][k]))}

Store(new) == objs' = new /\ Owns(new)
With(c, k, v) == [objs EXCEPT ![c][k] = v]

\* Mutant: a cluster whose status says ready is not looked at again.
ReadyIsDone(c) ==
    /\ job = None /\ c \in queue /\ (phase[c] = "gone" \/ spec[c].valid)
    /\ queue' = queue \ {c}
    /\ job' = CASE phase[c] = "live" /\ c \notin ready ->
                       [c |-> c, s |-> spec[c], ready |-> FALSE, todo |-> Syncers(spec[c]), left |-> {}]
                [] phase[c] = "deleting" ->
                       [c |-> c, s |-> spec[c], ready |-> FALSE, todo |-> <<"finalizer">>, left |-> {}]
                [] OTHER -> None
    /\ UNCHANGED <<phase, spec, ready, objs, claims, backups, events, torn>>

\* A cluster is taken from the queue and read, its status too. One that Validate refuses
\* goes back to the queue, whether it is being deleted or not.
Reconcile(c) ==
    /\ job = None /\ c \in queue /\ (phase[c] = "gone" \/ spec[c].valid)
    /\ queue' = queue \ {c}
    /\ job' = CASE phase[c] = "live" ->
                       [c |-> c, s |-> spec[c], ready |-> c \in ready, todo |-> Syncers(spec[c]), left |-> {}]
                [] phase[c] = "deleting" ->
                       [c |-> c, s |-> spec[c], ready |-> FALSE, todo |-> <<"finalizer">>, left |-> {}]
                [] OTHER -> None
    /\ UNCHANGED <<phase, spec, ready, objs, claims, backups, events, torn>>

\* The ordinary objects at the head of the list, which no other process changes, as far
\* as their syncers succeed.
Ordinary == {i \in 1..Len(job.todo) : \A j \in 1..i :
                job.todo[j] \in Kinds \ Sets /\ ~Fails(job.todo[j], job.s)}
Synced(n) ==
    [objs EXCEPT ![job.c] = [k \in Kinds |->
        IF \E i \in 1..n : job.todo[i] = k THEN Mutate(k, job.s, objs[job.c][k]) ELSE objs[job.c][k]]]

\* CreateOrUpdate of them, one after the other.
SyncObjects ==
    /\ job # None /\ Ordinary # {}
    /\ Store(Synced(Cardinality(Ordinary)))
    /\ Goto(SubSeq(job.todo, Cardinality(Ordinary) + 1, Len(job.todo)))
    /\ UNCHANGED <<phase, spec, ready, claims, backups, events, torn>>

\* A syncer that can not succeed ends the pass.
SyncRefused ==
    /\ job # None /\ job.todo # <<>> /\ Fails(Head(job.todo), job.s)
    /\ Requeue
    /\ UNCHANGED <<phase, spec, ready, objs, claims, backups, events, torn>>

\* One of the calls fails: the objects before it are written, and the cluster is
\* queued again; the operator may be restarted instead and look at everything.
SyncFails ==
    /\ job # None /\ Event
    /\ \E n \in {i - 1 : i \in Ordinary} : objs' = Synced(n)
    /\ job' = None
    /\ queue' \in {queue \cup {job.c}, Existing}
    /\ UNCHANGED <<phase, spec, ready, claims, backups, torn>>

\* Services of the namespace, whosever they are: the followers' for a single node,
\* the leaders' for a cluster in maintenance. Errors are dropped.
Unwanted(s) == (IF s.maintain THEN {"leader"} ELSE {}) \cup (IF s.replicas = 1 THEN {"follower"} ELSE {})

DeleteServices ==
    /\ Done("services")
    /\ Store([c \in Clusters |-> [k \in Kinds |-> IF k \in Unwanted(job.s) THEN None ELSE objs[c][k]]])
    /\ UNCHANGED <<phase, spec, ready, claims, backups, events, torn>>

\* Mutant: a changed volume size does not count as a change of the StatefulSet.
KeepsSize(s, old) == [replicas |-> s.replicas, size |-> IF old = None THEN s.size ELSE old.size]

\* The StatefulSet a specification asks for.
NewStatefulSet(s, old) == [replicas |-> s.replicas, size |-> s.size]

\* It is created, or updated unless the volume size differs, which the API refuses.
CreateOrUpdate ==
    LET old == objs[job.c]["sfs"]
        new == NewStatefulSet(job.s, old)
    IN /\ Done("sfs")
       /\ old # None => old.size = new.size
       /\ Store(With(job.c, "sfs", new))
       /\ UNCHANGED <<phase, spec, ready, claims, backups, events, torn>>

Refused == At("sfs") /\ objs[job.c]["sfs"] # None
           /\ objs[job.c]["sfs"].size # NewStatefulSet(job.s, objs[job.c]["sfs"]).size

\* A refused update: with a smaller volume the pass ends in the error, ...
CanNotExpand ==
    /\ Refused /\ objs[job.c]["sfs"].size > job.s.size
    /\ Requeue
    /\ UNCHANGED <<phase, spec, ready, objs, claims, backups, events, torn>>

\* Mutant: the claims of all the replicas are taken, those that are still to be made too.
ExpandWanted ==
    /\ Refused /\ objs[job.c]["sfs"].size < job.s.size
    /\ job' = [job EXCEPT !.todo = <<"expand">>, !.left = 0..(job.s.replicas - 1)]
    /\ Store(With(job.c, "sfs", None))
    /\ ready' = ready \ {job.c}
    /\ UNCHANGED <<phase, spec, claims, backups, events, torn>>

\* ... with a larger one the StatefulSet is deleted and its claims are listed.
ExpandPVCs ==
    /\ Refused /\ objs[job.c]["sfs"].size < job.s.size
    /\ job' = [job EXCEPT !.todo = <<"expand">>, !.left = DOMAIN claims[job.c]["sfs"]]
    /\ Store(With(job.c, "sfs", None))
    /\ ready' = ready \ {job.c}
    /\ UNCHANGED <<phase, spec, claims, backups, events, torn>>

\* Mutant: a claim of the list is passed over.
SkipClaim ==
    /\ At("expand")
    /\ \E o \in job.left : job' = [job EXCEPT !.left = @ \ {o}]
    /\ UNCHANGED <<phase, spec, ready, objs, claims, backups, queue, events, torn>>

\* A claim is resized and its resizing awaited.
DoExpandPVCs ==
    /\ At("expand")
    /\ \E o \in job.left :
          /\ claims[job.c]["sfs"][o] <= job.s.size
          /\ job' = [job EXCEPT !.left = @ \ {o}]
          /\ claims' = [claims EXCEPT ![job.c]["sfs"][o] = job.s.size]
    /\ UNCHANGED <<phase, spec, ready, objs, backups, queue, events, torn>>

\* A claim that is larger already can not shrink: the pass ends in the error, with the
\* StatefulSet deleted.
ShrinkRefused ==
    /\ At("expand")
    /\ \E o \in job.left : claims[job.c]["sfs"][o] > job.s.size
    /\ Requeue
    /\ torn' = torn \cup {<<job.c, "sfs">>}
    /\ UNCHANGED <<phase, spec, ready, objs, claims, backups, events>>

\* The StatefulSet is created again from the object that was read: the API refuses
\* its resource version, and the next pass, on a specification read anew, makes it.
Recreate ==
    /\ At("expand") /\ job.left = {}
    /\ Requeue
    /\ torn' = IF spec[job.c].size > job.s.size THEN torn \cup {<<job.c, "sfs">>} ELSE torn
    /\ UNCHANGED <<phase, spec, ready, objs, claims, backups, events>>

\* A call of the StatefulSet's syncer fails, or the operator is restarted there.
PassFails ==
    /\ At("sfs") \/ At("expand") \/ At("readOnly")
    /\ Event
    /\ job' = None
    /\ queue' \in {queue \cup {job.c}, Existing}
    /\ torn' = IF At("expand") THEN torn \cup {<<job.c, "sfs">>} ELSE torn
    /\ UNCHANGED <<phase, spec, ready, objs, claims, backups>>

EndPass ==
    /\ job # None /\ job.todo = <<>>
    /\ job' = None
    /\ UNCHANGED <<phase, spec, ready, objs, claims, backups, queue, events, torn>>

----------------------------------------------------------------------------
(* Read-only nodes: the error of SfsReadOnly is dropped *)

GetReadonlyStatefulSet(s) == [replicas |-> s.ro, size |-> s.size, conf |-> CalcInnodbParam(s)]

\* No read-only nodes: the StatefulSet, its claims and the two services go.
RemoveReadOnly ==
    /\ Done("readOnly") /\ job.s.ro = 0
    /\ Store([objs EXCEPT ![job.c]["roSfs"] = None, ![job.c]["roHeadless"] = None, ![job.c]["ro"] = None])
    /\ claims' = IF objs[job.c]["roSfs"] = None THEN claims
                 ELSE [claims EXCEPT ![job.c]["roSfs"] = NoClaims["roSfs"]]
    /\ UNCHANGED <<phase, spec, ready, backups, events, torn>>

\* After the deletion of the StatefulSet the claims can not be listed, or not all be
\* deleted. No later pass looks at them: it finds no StatefulSet.
RemoveStops ==
    /\ Done("readOnly") /\ job.s.ro = 0 /\ objs[job.c]["roSfs"] # None
    /\ Event
    /\ Store(With(job.c, "roSfs", None))
    /\ \E some \in SUBSET DOMAIN claims[job.c]["roSfs"] :
          claims' = [claims EXCEPT ![job.c]["roSfs"] = [o \in some |-> @[o]]]
    /\ torn' = torn \cup {<<job.c, "roSfs">>}
    /\ UNCHANGED <<phase, spec, ready, backups>>

\* Of a ready cluster: the StatefulSet is created; a later pass updates it and deletes
\* the claims beyond its replicas.
SfsReadOnly ==
    LET old == objs[job.c]["roSfs"]
        new == GetReadonlyStatefulSet(job.s)
    IN /\ Done("readOnly") /\ job.s.ro > 0
       /\ \/ ~job.ready /\ UNCHANGED <<objs, queue, claims>>
          \/ job.ready /\ old = None /\ Store(With(job.c, "roSfs", new)) /\ UNCHANGED claims
          \/ /\ job.ready /\ old # None /\ old.size = new.size
             /\ Store(With(job.c, "roSfs", new))
             /\ claims' = [claims EXCEPT ![job.c]["roSfs"] =
                              [o \in (DOMAIN @) \cap (0..(new.replicas - 1)) |-> @[o]]]
       /\ UNCHANGED <<phase, spec, ready, backups, events, torn>>

\* A larger volume: the StatefulSet is deleted, its claims resized, and it is created;
\* the claims beyond its replicas are deleted.
ExtendReadOnlyPVCs ==
    LET old == objs[job.c]["roSfs"]
        new == GetReadonlyStatefulSet(job.s)
    IN /\ Done("readOnly") /\ job.s.ro > 0 /\ job.ready /\ old # None /\ old.size # new.size
       /\ IF new.size > old.size
          THEN /\ \A o \in DOMAIN claims[job.c]["roSfs"] : claims[job.c]["roSfs"][o] <= new.size
               /\ Store(With(job.c, "roSfs", new))
               /\ claims' = [claims EXCEPT ![job.c]["roSfs"] =
                                [o \in (DOMAIN @) \cap (0..(new.replicas - 1)) |-> new.size]]
          ELSE UNCHANGED <<objs, queue, claims>>
       /\ UNCHANGED <<phase, spec, ready, backups, events, torn>>

\* It stops after the deletion, by a fault or at a claim that is larger already: some
\* claims are resized, and nothing is created.
ExtendStops ==
    LET old == objs[job.c]["roSfs"]
        Larger(o) == claims[job.c]["roSfs"][o] > job.s.size
    IN /\ Done("readOnly") /\ job.s.ro > 0 /\ job.ready /\ old # None /\ old.size < job.s.size
       /\ \/ Event
          \/ UNCHANGED events /\ \E o \in DOMAIN claims[job.c]["roSfs"] : Larger(o)
       /\ Store(With(job.c, "roSfs", None))
       /\ \E some \in SUBSET {o \in DOMAIN claims[job.c]["roSfs"] : ~Larger(o)} :
             claims' = [claims EXCEPT ![job.c]["roSfs"] =
                           [o \in DOMAIN @ |-> IF o \in some THEN job.s.size ELSE @[o]]]
       /\ torn' = torn \cup {<<job.c, "roSfs">>}
       /\ UNCHANGED <<phase, spec, ready, backups>>

ReadOnly == RemoveReadOnly \/ SfsReadOnly \/ ExtendReadOnlyPVCs \/ ExtendStops

----------------------------------------------------------------------------
(* Deletion *)

\* Mutant: without a backup to delete the handler returns before it takes the finalizer off.
ReturnsEarly ==
    /\ Done("finalizer")
    /\ \/ job.c \in backups /\ phase' = [phase EXCEPT ![job.c] = "gone"] /\ UNCHANGED events
       \/ Event /\ UNCHANGED phase
       \/ job.c \notin backups /\ UNCHANGED <<phase, events>>
    /\ backups' = backups \ {job.c}
    /\ UNCHANGED <<spec, ready, objs, claims, queue, torn>>

\* The backups are deleted and the finalizer is taken off, whatever failed before;
\* when the update of the finalizer fails, nothing queues the cluster again.
DeleteAllBackup ==
    /\ Done("finalizer")
    /\ \/ backups' = backups \ {job.c} /\ phase' = [phase EXCEPT ![job.c] = "gone"] /\ UNCHANGED events
       \/ Event /\ UNCHANGED backups /\ phase' = [phase EXCEPT ![job.c] = "gone"]
       \/ Event /\ backups' = backups \ {job.c} /\ UNCHANGED phase
    /\ UNCHANGED <<spec, ready, objs, claims, queue, torn>>

----------------------------------------------------------------------------
(* Users, Kubernetes and the other controllers, as this one sees them *)

Edit(c, s) ==
    /\ phase[c] = "live" /\ s # spec[c] /\ Event
    /\ spec' = [spec EXCEPT ![c] = s]
    /\ queue' = queue \cup {c}
    /\ torn' = IF objs[c]["sfs"] = None /\ DOMAIN claims[c]["sfs"] # {} /\ s.size > spec[c].size
               THEN torn \cup {<<c, "sfs">>} ELSE torn
    /\ UNCHANGED <<phase, ready, objs, claims, backups, job>>

DeleteCluster(c) ==
    /\ c \in Deletable /\ phase[c] = "live" /\ Event
    /\ phase' = [phase EXCEPT ![c] = "deleting"]
    /\ queue' = queue \cup {c}
    /\ UNCHANGED <<spec, ready, objs, claims, backups, job, torn>>

\* From time to time, between two passes, every cluster is queued again.
Resync ==
    /\ job = None
    /\ queue' = queue \cup Existing
    /\ UNCHANGED <<phase, spec, ready, objs, claims, backups, job, events, torn>>

\* The StatefulSet controller makes the claims of the replicas.
MakeClaims(c, k) ==
    /\ phase[c] = "live" /\ objs[c][k] # None
    /\ ~(0..(objs[c][k].replicas - 1) \subseteq DOMAIN claims[c][k])
    /\ claims' = [claims EXCEPT ![c][k] =
                     [o \in (DOMAIN @) \cup (0..(objs[c][k].replicas - 1)) |->
                         IF o \in DOMAIN @ THEN @[o] ELSE objs[c][k].size]]
    /\ UNCHANGED <<phase, spec, ready, objs, backups, queue, job, events, torn>>

\* The status controller finds the cluster ready, and its patch queues it.
BecomesReady(c) ==
    /\ phase[c] = "live" /\ c \notin ready /\ objs[c]["sfs"] # None
    /\ 0..(objs[c]["sfs"].replicas - 1) \subseteq DOMAIN claims[c]["sfs"]
    /\ ready' = ready \cup {c}
    /\ queue' = queue \cup {c}
    /\ UNCHANGED <<phase, spec, objs, claims, backups, job, events, torn>>

\* What a cluster that is gone owned is collected.
Collect(c) ==
    /\ phase[c] = "gone"
    /\ objs' = [objs EXCEPT ![c] = [k \in Kinds |-> IF HasOwner(k, @[k]) THEN None ELSE @[k]]]
    /\ claims' = [claims EXCEPT ![c] = NoClaims]
    /\ ready' = ready \ {c}
    /\ UNCHANGED <<phase, spec, backups, queue, job, events, torn>>

----------------------------------------------------------------------------
Pass ==
    \/ SyncObjects \/ SyncRefused \/ DeleteServices \/ CreateOrUpdate \/ CanNotExpand
    \/ ExpandPVCs \/ DoExpandPVCs \/ ShrinkRefused \/ Recreate \/ ReadOnly
    \/ DeleteAllBackup \/ EndPass

Kubernetes(c) == (\E k \in Sets : MakeClaims(c, k)) \/ BecomesReady(c) \/ Collect(c)

Next ==
    \/ Pass \/ SyncFails \/ PassFails \/ RemoveStops \/ Resync
    \/ \E c \in Clusters : \/ Reconcile(c) \/ DeleteCluster(c) \/ Kubernetes(c)
                           \/ \E s \in Edits[c] : Edit(c, s)

\* A pass goes on, every cluster of the queue has its turn, clusters are queued again
\* from time to time; edits, deletions and faults are not forced.
Spec ==
    /\ Init /\ [][Next]_vars /\ WF_vars(Pass) /\ SF_vars(Resync)
    /\ \A c \in Clusters : SF_vars(Reconcile(c)) /\ WF_vars(Kubernetes(c))

----------------------------------------------------------------------------
(* Properties *)

\* Every variable has its type, and the claims a pass has still to resize exist.
TypeOK ==
    /\ phase \in [Clusters -> {"live", "deleting", "gone"}]
    /\ spec \in [Clusters -> Specification]
    /\ DOMAIN objs = Clusters /\ DOMAIN claims = Clusters
    /\ \A c \in Clusters :
          /\ DOMAIN objs[c] = Kinds /\ DOMAIN claims[c] = Sets
          /\ \A k \in Kinds : objs[c][k] \in Content(k) \cup {None}
          /\ \A k \in Sets : /\ DOMAIN claims[c][k] \subseteq Nat
                            /\ claims[c][k] \in [DOMAIN claims[c][k] -> Nat]
    /\ job \in Job \cup {None}
    /\ job # None => job.left \subseteq DOMAIN claims[job.c]["sfs"]
    /\ ready \subseteq Clusters /\ backups \subseteq Clusters
    /\ queue \subseteq Clusters /\ torn \subseteq Clusters \X Sets
    /\ events \in 0..MaxEvents

\* No claim is smaller than the StatefulSet that mounts it says, although the two are
\* changed one after the other: unless an expansion of that StatefulSet, or the removal
\* of the read-only one, was cut short, or an expansion was overtaken by a further one,
\* in which cases the claims stay behind.
ClaimsKeepUp ==
    \A c \in Clusters, k \in Sets :
        objs[c][k] # None /\ <<c, k>> \notin torn =>
            \A o \in DOMAIN claims[c][k] : claims[c][k][o] >= objs[c][k].size

\* The objects of a live cluster that only its own passes touch are as it asks, as far
\* as a pass can get: not past a missing template or secret, nor a smaller volume.
Shrunk(c, k) == objs[c][k] # None /\ objs[c][k].size > spec[c].size
AsAsked(c) ==
    LET s == spec[c] IN
    s.valid /\ ~s.template =>
        /\ \A k \in {"mysqlCM", "secret", "role", "roleBinding", "serviceAccount", "headless"} : objs[c][k] # None
        /\ objs[c]["mysqlCM"].owned /\ (s.pool # 0 => objs[c]["mysqlCM"].conf.pool = s.pool)
        /\ s.root # "" \/ s.localRoot => objs[c]["secret"].root = s.root
        /\ ~Shrunk(c, "sfs") =>
              /\ objs[c]["sfs"] = [replicas |-> s.replicas, size |-> s.size]
              /\ objs[c]["pdb"] # None
              /\ s.replicas > 0 => objs[c]["xenonCM"] = [peers |-> 0..(s.replicas - 1)]
              /\ IF s.ro = 0 THEN objs[c]["roSfs"] = None
                 ELSE ~Shrunk(c, "roSfs") => objs[c]["roSfs"] = GetReadonlyStatefulSet(s)
              /\ s.remote = "" \/ ~Fails("remoteCM", s) =>
                    /\ s.remote # "" /\ s.replicas > 0 => objs[c]["remoteCM"] = [to |-> {s.remote}]
                    /\ s.metrics => objs[c]["metrics"] # None

\* Whatever is edited and wherever passes fail, every live cluster ends with its
\* objects as it asks, and what is gone leaves nothing but a my.cnf of its first pass.
EventuallyAsAsked ==
    <>[](\A c \in Clusters :
            /\ phase[c] = "live" => AsAsked(c)
            /\ phase[c] = "gone" => \A k \in Kinds : ~HasOwner(k, objs[c][k]))

\* A service that a neighbour's pass deleted comes back, as often as it happens.
Served(c) ==
    /\ ~spec[c].maintain => objs[c]["leader"] # None
    /\ spec[c].replicas # 1 => objs[c]["follower"] # None
    /\ spec[c].ro > 0 => objs[c]["ro"] # None
ServicesComeBack ==
    \A c \in Clusters : []<>(phase[c] = "live" /\ spec[c].valid /\ ~spec[c].template => Served(c))

\* A deleted cluster gets rid of its finalizer, even after a failed update, unless
\* Validate refuses its specification, which is asked before.
EventuallyGone == \A c \in Clusters : <>[](phase[c] = "deleting" => ~spec[c].valid)
=============================================================================
