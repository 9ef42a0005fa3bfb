------------------------------ MODULE PodInit ------------------------------
(***************************************************************************)
(* How a pod of the cluster gets its data directory: the init-sidecar      *)
(* container (sidecar/init.go, sidecar/config.go) chooses a donor, copies  *)
(* or restores the data and writes the configuration; the init-mysql       *)
(* container (container/init_mysql.go) runs the entry point and the        *)
(* scripts the sidecar left; the status syncer rebuilds a labelled pod by  *)
(* deleting it and its claim (AutoRebuild, DoRoRebuild).                   *)
(*                                                                         *)
(* What is abstracted: the contents of a data directory are reduced to     *)
(* where they come from and how far they are prepared; the generated files *)
(* to the server id, the place of extra.cnf and the scripts present.       *)
(* Leader election, the StatefulSet controller and the Percona entry point *)
(* are external. A pod's server answers whenever the pod is up.            *)
(***************************************************************************)
EXTENDS Integers, FiniteSets

CONSTANTS
    Pods,         \* pod names, the read-only ones included
    ReadOnly,     \* the pods of the read-only StatefulSet
    Ordinal,      \* [Pods -> Nat], the ordinal in the pod's name
    Configs,      \* the cluster specifications considered
    MaxFaults,    \* bound on failing steps, crashes and evictions
    MaxRebuilds   \* bound on rebuild requests

ASSUME PodsAssumption ==
    /\ ReadOnly \subseteq Pods
    /\ Ordinal \in [Pods -> Nat]
    /\ \A p, q \in Pods : Ordinal[p] = Ordinal[q] /\ (p \in ReadOnly <=> q \in ReadOnly) => p = q
    /\ \A p \in Pods \ ReadOnly : Ordinal[p] < 100
    /\ Pods \cap {"none", "foreign", "true", "follower", "leader", "fresh", "nfs", "s3", "source", "remote"} = {}
    /\ MaxFaults \in Nat /\ MaxRebuilds \in Nat

VARIABLES
    cfg,       \* the specification: what the environment of the init container says
    pod,       \* [Pods -> where its containers are, and the sidecar's local state]
    disk,      \* [Pods -> the data directory on its claim; "used": mysqld served it]
    files,     \* [Pods -> the emptyDir volumes: scripts, extra.cnf, the server id;
               \*   "kept": the pod was made on a claim that was in use before]
    labelled,  \* pods that carry rebuild-from=true; "foreign": one of another cluster
    leader,    \* the pod labelled leader, or "none"
    rebuild,   \* [Pods -> value of the rebuild label, or "none"]
    pending,   \* pods deleted for a rebuild whose claim is still to be deleted
    doomed,    \* claims being deleted while a pod still uses them
    faults,    \* faults so far
    rebuilds,  \* rebuild requests so far
    torn,      \* history: pods one of whose data steps failed half way
    unsaved,   \* history: pods whose configuration a step failed to save, unnoticed
    asked      \* history: [Pods -> the donor its rebuild asked for, or "none"]

vars == <<cfg, pod, disk, files, labelled, leader, rebuild, pending, doomed,
          faults, rebuilds, torn, unsaved, asked>>

Services == {"follower", "leader"}
Donors == Pods \cup Services \cup {"none", "foreign"}
Origins == Pods \cup {"none", "fresh", "nfs", "s3", "source", "remote"}

\* The states of a data directory: "part" half extracted, "raw" extracted and not
\* prepared, "applied" prepared with --apply-log-only only, "ok" fit to be served.
States == {"empty", "part", "raw", "applied", "ok"}
Phases == {"down", "clone", "fetch", "conf", "restore", "prepare", "entry",
           "scripts", "hung", "crash", "up"}

\* The environment variables of the init-sidecar container that choose what it does,
\* the pods that the numbers of replicas ask for, and the faults its bound leaves out.
Config == [major: {5, 8}, restore: {"none", "nfs", "s3"}, point: BOOLEAN, remote: BOOLEAN,
           source: BOOLEAN, upgrade: BOOLEAN, offset: Nat, pods: SUBSET Pods, spent: 0..MaxFaults]

ASSUME ConfigsAssumption == Configs \subseteq Config

Empty == [dir |-> FALSE, state |-> "empty", from |-> "none", used |-> FALSE]
NoFiles == [scripts |-> {}, server |-> "none", extra |-> "none", id |-> 0, kept |-> FALSE]
Data(state, from) == [dir |-> TRUE, state |-> state, from |-> from, used |-> FALSE]
Down == [phase |-> "down", donor |-> "none", xfrom |-> "none", had |-> FALSE]

Init ==
    /\ cfg \in Configs
    /\ pod = [p \in Pods |-> Down]
    /\ disk = [p \in Pods |-> Empty]
    /\ files = [p \in Pods |-> NoFiles]
    /\ labelled = {} /\ pending = {} /\ doomed = {} /\ torn = {} /\ unsaved = {}
    /\ leader = "none"
    /\ rebuild = [p \in Pods |-> "none"]
    /\ asked = [p \in Pods |-> "none"]
    /\ faults = cfg.spent /\ rebuilds = 0

----------------------------------------------------------------------------
(* Helpers *)

Up(p) == pod[p].phase = "up"

\* The pods that answer at an address: the ready ones a service selects, or one pod.
Behind(d) ==
    CASE d = "follower" -> {q \in Pods \ ReadOnly : Up(q) /\ q # leader}
      [] d = "leader"   -> {q \in Pods \ ReadOnly : Up(q) /\ q = leader}
      [] OTHER          -> {q \in Pods : Up(q) /\ q = d}

Fault == faults < MaxFaults /\ faults' = faults + 1

\* A fault voids the expectation that the named donor is used.
Void == asked' = [q \in Pods |-> "none"]

Goto(p, phase) == pod' = [pod EXCEPT ![p].phase = phase]

----------------------------------------------------------------------------
(* runCloneAndInit *)

\* The only pod labelled rebuild-from in the namespace, of whatever cluster; none when
\* there is none or more than one.
GetPod == IF Cardinality(labelled) = 1 THEN CHOOSE q \in labelled : TRUE ELSE "none"

CheckServiceExist(s) == Behind(s) # {}

\* Mutant: a healthy service is preferred to the labelled pod.
ServiceFirst(found) ==
    IF CheckServiceExist("follower") THEN "follower"
    ELSE IF CheckServiceExist("leader") THEN "leader" ELSE found

\* The address to copy from: the labelled pod, else a service that is healthy.
ChooseDonor(found) ==
    IF found # "none" THEN found
    ELSE IF CheckServiceExist("follower") THEN "follower"
    ELSE IF CheckServiceExist("leader") THEN "leader" ELSE "none"

\* A found pod clears RESTORE_FROM: a rebuild never restores a backup.
RestoreFrom(found) == IF found # "none" \/ cfg.restore = "none" THEN "none" ELSE "env"

\* Mutant: the clone script is written over an initialised directory too.
CloneAnyway(p, d, x) == d # "none" /\ cfg.major = 8 /\ x = "none"

\* MySQL 8 clones from the init-mysql container, by a script.
DoCLone(p, d, x) == ~disk[p].dir /\ d # "none" /\ cfg.major = 8 /\ x = "none"

\* An initialised directory is upgraded by a script, when the spec asks for it.
UpgradeShGen(p) == disk[p].dir /\ cfg.upgrade

Choose(p, found, d) ==
    LET x == RestoreFrom(found)
        clone == DoCLone(p, d, x)
        more == {s \in {"clone", "upgrade"} : \/ s = "clone" /\ clone
                                              \/ s = "upgrade" /\ UpgradeShGen(p)}
    IN /\ pod' = [pod EXCEPT ![p] =
                    [phase |-> IF d = "none" \/ disk[p].dir \/ clone THEN "conf" ELSE "fetch",
                     donor |-> d, xfrom |-> x, had |-> disk[p].dir]]
       /\ files' = [files EXCEPT ![p].scripts = @ \cup more,
                                 ![p].server = IF clone THEN d ELSE @]

\* The donor is chosen and the label of a rebuild taken off it, by whichever pod
\* comes first; the others are then not rebuilt from the pod they named.
RunCloneAndInit(p) ==
    /\ pod[p].phase = "clone"
    /\ Choose(p, GetPod, ChooseDonor(GetPod))
    /\ labelled' = labelled \ {GetPod}
    /\ asked' = [q \in Pods |-> IF q # p /\ asked[q] = GetPod THEN "none" ELSE asked[q]]
    /\ UNCHANGED <<cfg, disk, leader, rebuild, pending, doomed, faults, rebuilds, torn, unsaved>>

\* The label stays when removing it fails: the error is only logged.
RemoveRebuildFromFails(p) ==
    /\ pod[p].phase = "clone" /\ GetPod # "none" /\ Fault
    /\ Choose(p, GetPod, GetPod)
    /\ Void
    /\ UNCHANGED <<cfg, disk, labelled, leader, rebuild, pending, doomed, rebuilds, torn, unsaved>>

\* A health request or the list of pods fails: the pod sees no donor.
NoServiceSeen(p) ==
    /\ pod[p].phase = "clone" /\ ChooseDonor(GetPod) # "none" /\ Fault
    /\ Choose(p, "none", "none")
    /\ Void
    /\ UNCHANGED <<cfg, disk, labelled, leader, rebuild, pending, doomed, rebuilds, torn, unsaved>>

\* The copy is streamed into the data directory. xbstream replaces no file.
Download(p) ==
    /\ pod[p].phase = "fetch" /\ disk[p].state = "empty"
    /\ \E q \in Behind(pod[p].donor) :
          disk' = [disk EXCEPT ![p] = Data("raw", q)]
    /\ pod' = [pod EXCEPT ![p].phase = "conf", ![p].xfrom = "clone"]
    /\ UNCHANGED <<cfg, files, labelled, leader, rebuild, pending, doomed, faults, rebuilds,
                   torn, unsaved, asked>>

\* Nothing answers, or the directory is not empty: the error is only logged and the
\* pod goes on with what it has.
DownloadRefused(p) ==
    /\ pod[p].phase = "fetch"
    /\ Behind(pod[p].donor) = {} \/ disk[p].state # "empty"
    /\ Goto(p, "conf")
    /\ UNCHANGED <<cfg, disk, files, labelled, leader, rebuild, pending, doomed, faults,
                   rebuilds, torn, unsaved, asked>>

\* The stream breaks, before or after the mysql directory was written. Only curl's own
\* status counts: it may not tell.
DownloadBreaks(p) ==
    /\ pod[p].phase = "fetch" /\ disk[p].state = "empty" /\ Fault
    /\ \E b \in BOOLEAN :
          disk' = [disk EXCEPT ![p] = [Data("part", "none") EXCEPT !.dir = b]]
    /\ \E x \in {pod[p].xfrom, "clone"} :
          pod' = [pod EXCEPT ![p].phase = "conf", ![p].xfrom = x]
    /\ torn' = torn \cup {p}
    /\ Void
    /\ UNCHANGED <<cfg, files, labelled, leader, rebuild, pending, doomed, rebuilds, unsaved>>

\* The donor answers with an error, which curl takes for the data: nothing is extracted.
DownloadsNothing(p) ==
    /\ pod[p].phase = "fetch" /\ disk[p].state = "empty" /\ Fault
    /\ pod' = [pod EXCEPT ![p].phase = "conf", ![p].xfrom = "clone"]
    /\ Void
    /\ UNCHANGED <<cfg, disk, files, labelled, leader, rebuild, pending, doomed, rebuilds,
                   torn, unsaved>>

----------------------------------------------------------------------------
(* runInitCommand *)

\* Mutant: read-only pods start at the same server id.
SameStart(p) == (IF cfg.offset <= 0 THEN 100 ELSE cfg.offset) + Ordinal[p]

\* buildExtraConfig: the first server id, from the spec or 100; +100 in a standby
\* cluster without one, +100 for a read-only pod.
ServerID(p) ==
    LET start == IF cfg.offset <= 0 THEN 100 ELSE cfg.offset
        remote == IF cfg.remote /\ cfg.offset <= 0 THEN 100 ELSE 0
        ro == IF p \in ReadOnly THEN 100 ELSE 0
    IN start + remote + ro + Ordinal[p]

\* Mutant: the directory is looked at after the download.
LooksAfter(p) == ~disk[p].dir /\ (cfg.remote \/ pod[p].xfrom # "none" \/ cfg.source)

\* Mutant: the restore runs whatever is in the directory.
RestoresAlways(p) == cfg.remote \/ pod[p].xfrom # "none" \/ cfg.source

\* A directory that was not there before runCloneAndInit is filled: from the remote
\* cluster, from the copy or the backup, or from the remote source.
NeedsRestore(p) ==
    ~pod[p].had /\ (cfg.remote \/ pod[p].xfrom # "none" \/ cfg.source)

\* Where runInitCommand goes from the configuration files: a copy from a donor is in
\* place and is prepared next.
AfterConfigure(p) ==
    Goto(p, IF ~NeedsRestore(p) THEN "entry"
            ELSE IF cfg.remote \/ pod[p].xfrom # "clone" THEN "restore" ELSE "prepare")

\* plugin.sh is left for the entry point before the first initialisation of a MySQL 8.
PluginConfigsSh(p) ==
    IF pod[p].had \/ cfg.major = 5 THEN files[p].scripts ELSE files[p].scripts \cup {"plugin"}

\* The configuration files are saved: where mysqld reads them, or beside plugin.sh.
Configure(p) ==
    /\ pod[p].phase = "conf"
    /\ files' = [files EXCEPT
            ![p].id = ServerID(p),
            ![p].extra = IF pod[p].had \/ cfg.major = 5 THEN "conf.d" ELSE "initdb",
            ![p].scripts = PluginConfigsSh(p)]
    /\ AfterConfigure(p)
    /\ unsaved' = unsaved \ {p}
    /\ UNCHANGED <<cfg, disk, labelled, leader, rebuild, pending, doomed, faults, rebuilds,
                   torn, asked>>

\* saveCnfTo fails: its error is discarded, and the container goes on without extra.cnf.
SaveCnfFails(p) ==
    /\ pod[p].phase = "conf" /\ Fault
    /\ files' = [files EXCEPT ![p].scripts = PluginConfigsSh(p)]
    /\ AfterConfigure(p)
    /\ unsaved' = unsaved \cup {p}
    /\ Void
    /\ UNCHANGED <<cfg, disk, labelled, leader, rebuild, pending, doomed, rebuilds, torn>>

\* The script of a standby cluster copies the remote leader's data and applies the
\* log; its second prepare has a misspelt option and never runs, its status is lost.
RunClusterScript(p) ==
    /\ pod[p].phase = "restore" /\ cfg.remote
    /\ \E reached \in BOOLEAN :
          disk' = [disk EXCEPT ![p] =
              CASE @.state = "empty" /\ reached ->
                       Data("applied", "remote")
                [] @.state = "raw" -> [@ EXCEPT !.state = "applied"]
                [] OTHER -> @]
    /\ Goto(p, "entry")
    /\ UNCHANGED <<cfg, files, labelled, leader, rebuild, pending, doomed, faults, rebuilds,
                   torn, unsaved, asked>>

\* restore.sh replays the binlogs kept with the backup up to the restore point.
BuildScript(p) == [files EXCEPT ![p].scripts = @ \cup {"restore"}]

\* The backup on the NFS is prepared there and copied back. Without a restore point,
\* or without binlogs, the restore then counts as failed, the S3 restore is tried
\* and fails, and the container starts over with the data in place.
NFSRestore(p) ==
    /\ pod[p].phase = "restore" /\ ~cfg.remote /\ pod[p].xfrom = "env" /\ cfg.restore = "nfs"
    /\ disk' = [disk EXCEPT ![p] =
            IF @.state = "empty" THEN Data("ok", "nfs") ELSE @]
    /\ IF cfg.point /\ disk[p].state = "empty"
         THEN /\ files' = BuildScript(p)
              /\ pod' = [pod EXCEPT ![p].phase = "entry", ![p].had = TRUE]
         ELSE Goto(p, "clone") /\ UNCHANGED files
    /\ UNCHANGED <<cfg, labelled, leader, rebuild, pending, doomed, faults, rebuilds, torn, unsaved, asked>>

\* A stream is extracted into an empty directory; else the container starts over.
Extract(p, from) ==
    /\ IF disk[p].state = "empty"
         THEN disk' = [disk EXCEPT ![p] = Data("raw", from)] /\ Goto(p, "prepare")
         ELSE Goto(p, "clone") /\ UNCHANGED disk
    /\ UNCHANGED <<cfg, files, labelled, leader, rebuild, pending, doomed, faults, rebuilds,
                   torn, unsaved, asked>>

S3Restore(p) ==
    /\ pod[p].phase = "restore" /\ ~cfg.remote /\ pod[p].xfrom = "env" /\ cfg.restore = "s3"
    /\ Extract(p, "s3")

RemoteSource(p) ==
    /\ pod[p].phase = "restore" /\ ~cfg.remote /\ pod[p].xfrom = "none" /\ cfg.source
    /\ Extract(p, "source")

\* xtrabackup --prepare twice, chown; a point in time restore leaves restore.sh. The
\* directory is looked at again, except after a remote source.
Prepare(p) ==
    /\ pod[p].phase = "prepare" /\ disk[p].state = "raw"
    /\ disk' = [disk EXCEPT ![p].state = "ok"]
    /\ files' = IF pod[p].xfrom = "env" /\ cfg.point THEN BuildScript(p) ELSE files
    /\ pod' = [pod EXCEPT ![p].phase = "entry", ![p].had = pod[p].xfrom # "none"]
    /\ UNCHANGED <<cfg, labelled, leader, rebuild, pending, doomed, faults, rebuilds, torn, unsaved, asked>>

\* xtrabackup refuses a directory without a whole copy: the container starts over.
PrepareRefused(p) ==
    /\ pod[p].phase = "prepare" /\ disk[p].state # "raw"
    /\ Goto(p, "clone")
    /\ UNCHANGED <<cfg, disk, files, labelled, leader, rebuild, pending, doomed, faults,
                   rebuilds, torn, unsaved, asked>>

\* buildInitSql: the accounts every start of mysqld makes.
InitSql == {"root", "replication", "metrics", "operator", "user"}
           \cup (IF cfg.major = 8 THEN {"donor"} ELSE {})

\* A step fails or the container is killed: it starts over. A restore cut short
\* leaves what it extracted.
InitFails(p) ==
    /\ pod[p].phase \in {"conf", "restore", "prepare"} /\ Fault
    /\ Goto(p, "clone")
    /\ torn' = IF disk[p].state \in {"raw", "part"} THEN torn \cup {p} ELSE torn
    /\ Void
    /\ UNCHANGED <<cfg, disk, files, labelled, leader, rebuild, pending, doomed, rebuilds, unsaved>>

----------------------------------------------------------------------------
(* The init-mysql and mysql containers *)

\* The entry point initialises an empty directory; its status is ignored.
Initialised(p) ==
    disk' = [disk EXCEPT ![p] = IF @.state = "empty" THEN Data("ok", "fresh") ELSE @]

\* plugin.sh copies the files saved beside it.
Installed(p) ==
    [files EXCEPT ![p].extra = IF @ = "initdb" /\ "plugin" \in files[p].scripts THEN "conf.d" ELSE @]

EntryPoint(p) ==
    /\ pod[p].phase = "entry"
    /\ Initialised(p)
    /\ files' = Installed(p)
    /\ Goto(p, "scripts")
    /\ UNCHANGED <<cfg, labelled, leader, rebuild, pending, doomed, faults, rebuilds,
                   torn, unsaved, asked>>

\* The cp of plugin.sh fails: neither it nor the container looks at its status.
PluginFails(p) ==
    /\ pod[p].phase = "entry" /\ Installed(p) # files /\ Fault
    /\ Initialised(p)
    /\ Goto(p, "scripts")
    /\ unsaved' = unsaved \cup {p}
    /\ Void
    /\ UNCHANGED <<cfg, files, labelled, leader, rebuild, pending, doomed, rebuilds, torn>>

\* clone.sh while it is there, upgrade.sh and restore.sh. The clone needs the donor
\* account on the other side and replaces the whole directory. Then mysqld serves a
\* directory that has a mysql subdirectory, else it crash-loops.
RunScripts(p) ==
    /\ pod[p].phase = "scripts"
    /\ IF "clone" \in files[p].scripts /\ disk[p].state = "ok"
         THEN \E q \in Behind(files[p].server) :
                 /\ "donor" \in InitSql
                 /\ disk' = [disk EXCEPT ![p] = [Data("ok", q) EXCEPT !.used = TRUE]]
         ELSE disk' = [disk EXCEPT ![p].used = disk[p].dir]
    /\ Goto(p, IF disk[p].dir THEN "up" ELSE "crash")
    /\ UNCHANGED <<cfg, files, labelled, leader, rebuild, pending, doomed, faults, rebuilds,
                   torn, unsaved, asked>>

\* The clone is refused, by a donor that does not answer, or because one of the two
\* runs without its configuration (plugin.cnf loads the clone plugin, init.sql makes the
\* donor account): mysqld goes on running and clone.sh waits for it for ever.
CloneRefused(p) ==
    /\ pod[p].phase = "scripts" /\ "clone" \in files[p].scripts /\ disk[p].state = "ok"
    /\ Behind(files[p].server) = {} \/ ({p} \cup Behind(files[p].server)) \cap unsaved # {}
    /\ Goto(p, "hung")
    /\ UNCHANGED <<cfg, disk, files, labelled, leader, rebuild, pending, doomed, faults,
                   rebuilds, torn, unsaved, asked>>

\* restore.sh exits 1, or the init-mysql container is killed, while a clone replaces the
\* data perhaps: only that container starts over.
ScriptsFail(p) ==
    /\ pod[p].phase = "scripts" /\ Fault
    /\ \/ UNCHANGED <<disk, torn>>
       \/ /\ "clone" \in files[p].scripts /\ disk[p].state = "ok"
          /\ disk' = [disk EXCEPT ![p] = Data("part", "none")]
          /\ torn' = torn \cup {p}
    /\ Goto(p, "entry")
    /\ Void
    /\ UNCHANGED <<cfg, files, labelled, leader, rebuild, pending, doomed, rebuilds, unsaved>>

----------------------------------------------------------------------------
(* StatefulSet controller, election and faults *)

SameSet(p, q) == (p \in ReadOnly) <=> (q \in ReadOnly)

\* Pods are made in order, each when the ones before it are up. Making one whose
\* claim is about to be deleted is the operator being overtaken: a fault.
Create(p) ==
    /\ pod[p].phase = "down" /\ p \in cfg.pods
    /\ \A q \in Pods : SameSet(p, q) /\ Ordinal[q] < Ordinal[p] => Up(q)
    /\ IF p \in pending THEN Fault /\ Void ELSE UNCHANGED <<faults, asked>>
    /\ Goto(p, "clone")
    /\ files' = [files EXCEPT ![p].kept = disk[p].used]
    /\ UNCHANGED <<cfg, disk, labelled, leader, rebuild, pending, doomed, rebuilds, torn, unsaved>>

\* The pod object goes: its emptyDir volumes, labels and, if marked, its claim go too.
Deleted(p) ==
    /\ pod' = [pod EXCEPT ![p] = Down]
    /\ files' = [files EXCEPT ![p] = NoFiles]
    /\ rebuild' = [rebuild EXCEPT ![p] = "none"]
    /\ disk' = IF p \in doomed THEN [disk EXCEPT ![p] = Empty] ELSE disk
    /\ doomed' = doomed \ {p}
    /\ leader' = IF leader = p THEN "none" ELSE leader
    /\ unsaved' = unsaved \ {p}

Elect(p) ==
    /\ leader = "none" /\ Up(p) /\ p \notin ReadOnly
    /\ leader' = p
    /\ UNCHANGED <<cfg, pod, disk, files, labelled, rebuild, pending, doomed, faults, rebuilds,
                   torn, unsaved, asked>>

\* The node reboots: every container of the pod starts again, the init containers
\* too, and the emptyDir volumes are kept.
Reboot(p) ==
    /\ Up(p) /\ Fault
    /\ Goto(p, "clone")
    /\ leader' = IF leader = p THEN "none" ELSE leader
    /\ Void
    /\ UNCHANGED <<cfg, disk, files, labelled, rebuild, pending, doomed, rebuilds, torn, unsaved>>

Evict(p) ==
    /\ Up(p) /\ Fault
    /\ Deleted(p)
    /\ labelled' = labelled \ {p}
    /\ Void
    /\ UNCHANGED <<cfg, pending, rebuilds, torn>>

\* Another cluster of the namespace rebuilds a pod: the pod to copy is labelled, or the
\* one that is made takes the label that is there, whose ever it is.
OtherCluster ==
    /\ Fault
    /\ labelled' = labelled \cup {"foreign"} \/ labelled' = labelled \ {GetPod}
    /\ Void
    /\ UNCHANGED <<cfg, pod, disk, files, leader, rebuild, pending, doomed, rebuilds, torn, unsaved>>

----------------------------------------------------------------------------
(* AutoRebuild and DoRoRebuild of the status syncer *)

AskRebuild(p, from) ==
    /\ Up(p) /\ rebuild[p] = "none" /\ rebuilds < MaxRebuilds
    /\ rebuilds' = rebuilds + 1
    /\ rebuild' = [rebuild EXCEPT ![p] = from]
    /\ UNCHANGED <<cfg, pod, disk, files, labelled, leader, pending, doomed, faults, torn, unsaved, asked>>

\* The pods whose claim goes with them: read-only ones always, others before 8.0.
ClaimGoes(p) == p \in ReadOnly \/ cfg.major # 8

\* Mutant: the value of the label is taken for a pod.
NamedAnything(p) == {rebuild[p]} \ {"none"}

\* The pod whose ordinal the label gives, if it is in the list.
Named(p) == {q \in Pods : q = rebuild[p] /\ pod[q].phase # "down"}

\* The rebuild of p takes away the pod that q is to copy, or labels another one before
\* q has chosen: with two labels a pod sees none.
Overtaken(q, p) ==
    /\ ~Up(q)
    /\ \/ asked[q] = p
       \/ pod[q].phase \in {"down", "clone"} /\ Named(p) \ {asked[q]} # {}

\* The named donor is labelled, the pod marked unhealthy and deleted.
AutoRebuild(p) ==
    /\ Up(p) /\ rebuild[p] # "none"
    /\ labelled' = (labelled \ {p}) \cup Named(p)
    /\ Deleted(p)
    /\ pending' = IF ClaimGoes(p) THEN pending \cup {p} ELSE pending
    /\ asked' = [q \in Pods |->
            IF q # p THEN IF Overtaken(q, p) THEN "none" ELSE asked[q]
            ELSE IF ClaimGoes(p) /\ Behind(rebuild[p]) # {} /\ labelled' = {rebuild[p]}
                 THEN rebuild[p] ELSE "none"]
    /\ UNCHANGED <<cfg, faults, rebuilds, torn>>

\* Only the donor's label is written: the next pass tries again.
AutoRebuildFails(p) ==
    /\ Up(p) /\ Named(p) # {} /\ Fault
    /\ labelled' = labelled \cup Named(p)
    /\ Void
    /\ UNCHANGED <<cfg, pod, disk, files, leader, rebuild, pending, doomed, rebuilds, torn, unsaved>>

\* The claim is deleted: at once when no pod uses it.
DeleteClaim(p) ==
    /\ p \in pending
    /\ pending' = pending \ {p}
    /\ IF pod[p].phase = "down"
         THEN /\ disk' = [disk EXCEPT ![p] = Empty]
              /\ torn' = torn \ {p}
              /\ UNCHANGED doomed
         ELSE doomed' = doomed \cup {p} /\ UNCHANGED <<disk, torn>>
    /\ UNCHANGED <<cfg, pod, files, labelled, leader, rebuild, faults, rebuilds, unsaved, asked>>

\* The operator stops or the request fails: nothing deletes the claim any more.
DeleteClaimFails(p) ==
    /\ p \in pending /\ Fault
    /\ pending' = pending \ {p}
    /\ Void
    /\ UNCHANGED <<cfg, pod, disk, files, labelled, leader, rebuild, doomed, rebuilds, torn, unsaved>>

----------------------------------------------------------------------------
Step(p) ==
    \/ Create(p) \/ RunCloneAndInit(p)
    \/ Download(p) \/ DownloadRefused(p)
    \/ Configure(p)
    \/ RunClusterScript(p) \/ NFSRestore(p) \/ S3Restore(p) \/ RemoteSource(p)
    \/ Prepare(p) \/ PrepareRefused(p)
    \/ EntryPoint(p) \/ RunScripts(p) \/ CloneRefused(p)

Operator(p) == AutoRebuild(p) \/ DeleteClaim(p)

Fails(p) ==
    \/ RemoveRebuildFromFails(p) \/ NoServiceSeen(p) \/ DownloadBreaks(p) \/ DownloadsNothing(p)
    \/ SaveCnfFails(p) \/ InitFails(p) \/ PluginFails(p) \/ ScriptsFail(p)
    \/ Reboot(p) \/ Evict(p) \/ AutoRebuildFails(p) \/ DeleteClaimFails(p)

Next ==
    \/ \E p \in Pods :
           \/ Step(p)
           \/ Operator(p)
           \/ Elect(p)
           \/ \E from \in {"true"} \cup (Pods \ (ReadOnly \cup {p})) : AskRebuild(p, from)
           \/ Fails(p)
    \/ OtherCluster

\* The kubelet goes on with a container, the operator with a reconcile, xenon with an
\* election; users and faults are never forced.
Fairness == \A p \in Pods : WF_vars(Step(p)) /\ WF_vars(Operator(p)) /\ WF_vars(Elect(p))
Spec == Init /\ [][Next]_vars /\ Fairness

----------------------------------------------------------------------------
(* Properties *)

\* Every variable has its type.
TypeOK ==
    /\ cfg \in Config
    /\ pod \in [Pods -> [phase: Phases, donor: Donors, xfrom: {"none", "env", "clone"}, had: BOOLEAN]]
    /\ disk \in [Pods -> [dir: BOOLEAN, state: States, from: Origins, used: BOOLEAN]]
    /\ files \in [Pods -> [scripts: SUBSET {"clone", "upgrade", "restore", "plugin"},
                           server: Donors, extra: {"none", "initdb", "conf.d"}, id: Nat,
                           kept: BOOLEAN]]
    /\ labelled \subseteq Pods \cup {"foreign"} /\ pending \subseteq Pods /\ doomed \subseteq Pods
    /\ torn \subseteq Pods /\ unsaved \subseteq Pods /\ leader \in Pods \cup {"none"}
    /\ rebuild \in [Pods -> Pods \cup {"none", "true"}] /\ asked \in [Pods -> Pods \cup {"none"}]
    /\ faults \in 0..MaxFaults /\ rebuilds \in 0..MaxRebuilds

\* Outside a standby cluster a pod serves only data that was initialised, or copied
\* or restored and then prepared, unless a data step of its own was cut short: the
\* sidecar takes a directory that exists for one that is finished.
ServedPrepared ==
    \A p \in Pods : Up(p) /\ ~cfg.remote /\ p \notin torn => disk[p].state = "ok"

\* No two pods that are up read the same server id, and one that reads none is one whose
\* files a step failed to save, whichever container placed the others' and however often
\* the init containers ran.
Identified ==
    /\ \A p, q \in Pods : Up(p) /\ Up(q) /\ p # q /\ files[p].extra = "conf.d" /\ files[q].extra = "conf.d"
           => files[p].id # files[q].id
    /\ \A p \in Pods : Up(p) /\ files[p].extra # "conf.d" => p \in unsaved

\* A pod that was rebuilt from a named pod holds a copy of that pod's data, when that
\* pod was up, no step failed meanwhile, and no other rebuild took the label or the
\* named pod away, or labelled another: however many pods are rebuilt at a time. (A
\* read-only pod of an 8.0 standby cluster may take the remote cluster's data.)
RebuiltFromAsked ==
    \A p \in Pods : Up(p) /\ asked[p] # "none" /\ ~(cfg.remote /\ cfg.major = 8) => disk[p].from = asked[p]

\* A pod made again on its own claim goes on with the data it served, whatever runs
\* in its init containers: only a rebuild replaces it.
RemadeKeepsData ==
    [][\A p \in Pods : files[p].kept /\ disk[p].used /\ disk'[p].from # disk[p].from
            => p \in pending \cup doomed]_vars

\* A pod whose start needs a hand: its directory was cut short, its configuration not
\* saved or its clone refused.
Stuck(p) == p \in torn \cup unsaved \/ pod[p].phase = "hung"

\* However its data is obtained and whichever steps fail, every pod comes up in the
\* end, except one that is stuck and the ones made only after it.
EventuallyUp ==
    <>[](\A p \in cfg.pods : Up(p) \/ \E q \in cfg.pods :
            SameSet(p, q) /\ Ordinal[q] <= Ordinal[p] /\ Stuck(q))
=============================================================================
