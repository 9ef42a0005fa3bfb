---------------------------- MODULE PodInitProofs ----------------------------
(***************************************************************************)
(* Proofs about PodInit, for any pods, specifications and numbers of       *)
(* faults and rebuilds: the types, that what a pod serves was prepared,    *)
(* that pods have their configuration and server ids of their own, that a  *)
(* pod made again keeps its data, and that a rebuild copies the named pod. *)
(***************************************************************************)
EXTENDS PodInit, FiniteSetTheorems, TLAPS

PodRec == [phase : Phases, donor : Donors, xfrom : {"none", "env", "clone"}, had : BOOLEAN]
Disk == [dir : BOOLEAN, state : States, from : Origins, used : BOOLEAN]
Scripts == {"clone", "upgrade", "restore", "plugin"}
Files == [scripts : SUBSET Scripts, server : Donors, extra : {"none", "initdb", "conf.d"}, id : Nat,
          kept : BOOLEAN]

-----------------------------------------------------------------------------
(***************************************************************************)
(* The inductive invariant, pod by pod. What can be said of the data       *)
(* directory depends on how far the init containers are, and on whether    *)
(* the directory was there when the sidecar looked (had): the two are read *)
(* at different times.                                                     *)
(***************************************************************************)
Bare(p) == disk[p].state = "empty" /\ ~disk[p].dir
Clean(p) == disk[p].state = "ok" /\ disk[p].dir

\* An extra.cnf has the pod's server id. Once the sidecar has written the configuration,
\* it is where mysqld reads it, or plugin.sh is there to bring it, unless it was not saved.
Written(p) ==
    /\ files[p].extra # "none" => files[p].id = ServerID(p)
    /\ p \notin unsaved /\ pod[p].phase \in {"restore", "prepare", "entry"} =>
           files[p].extra = "conf.d" \/ (files[p].extra = "initdb" /\ "plugin" \in files[p].scripts)
    /\ p \notin unsaved /\ pod[p].phase \in {"scripts", "hung", "crash", "up"} => files[p].extra = "conf.d"

\* A directory that was served is not empty, and the pod made again on it has no
\* script that would clone over it.
Held(p) ==
    /\ disk[p].dir => disk[p].state # "empty"
    /\ disk[p].used => disk[p].dir
    /\ files[p].kept => disk[p].used /\ "clone" \notin files[p].scripts
    /\ "clone" \in files[p].scripts => cfg.major = 8
    /\ pod[p].phase = "down" => files[p] = NoFiles

\* Outside a standby cluster, and unless a data step was cut short, the directory is
\* empty or finished wherever the containers may start over, and a copy that is not
\* prepared is known to be one.
Prepared(p) ==
    ~cfg.remote /\ p \notin torn =>
        /\ pod[p].phase \in {"down", "clone", "entry"} => Clean(p) \/ Bare(p)
        /\ pod[p].phase = "fetch" => Bare(p) /\ ~pod[p].had /\ pod[p].xfrom # "clone"
        /\ pod[p].phase = "conf" =>
               \/ pod[p].xfrom = "clone" /\ disk[p].state = "raw" /\ disk[p].dir /\ ~pod[p].had
               \/ pod[p].xfrom # "clone" /\ Clean(p) /\ pod[p].had
               \/ Bare(p) /\ ~pod[p].had
        /\ pod[p].phase = "restore" => Bare(p)
        /\ pod[p].phase = "prepare" => Bare(p) \/ (disk[p].state = "raw" /\ disk[p].dir)
        /\ pod[p].phase \in {"scripts", "hung", "up"} => Clean(p)

Local(p) == Written(p) /\ Held(p) /\ Prepared(p)

\* A rebuild that asked for a donor: the donor is up and its label the only one until
\* the pod has chosen, and then the copy is on its way. Before 8.0 the sidecar fetches
\* it, from 8.0 on a script clones it when mysqld runs.
Fetched(p) ==
    /\ pod[p].phase = "fetch" => pod[p].donor = asked[p] /\ Bare(p) /\ ~pod[p].had
    /\ pod[p].phase \in {"conf", "restore", "prepare"} =>
           disk[p].from = asked[p] /\ disk[p].state = "raw" /\ pod[p].xfrom = "clone"
    /\ pod[p].phase \in {"entry", "scripts", "up"} => disk[p].from = asked[p] /\ disk[p].state # "empty"

Cloned(p) ==
    /\ pod[p].phase # "fetch"
    /\ pod[p].phase \in {"conf", "restore", "prepare", "entry", "scripts"} =>
           "clone" \in files[p].scripts /\ files[p].server = asked[p] /\ pod[p].xfrom = "none"
    /\ pod[p].phase \in {"conf", "restore"} => Bare(p)
    /\ pod[p].phase = "prepare" => disk[p].state = "raw"
    /\ pod[p].phase = "entry" => Bare(p) \/ disk[p].state = "ok"
    /\ pod[p].phase = "scripts" => disk[p].state = "ok"
    /\ pod[p].phase = "up" => disk[p].from = asked[p]

AskedFor(p) ==
    /\ rebuild[p] # p
    /\ asked[p] # "none" /\ ~(cfg.remote /\ cfg.major = 8) =>
        /\ asked[p] # p
        /\ pod[p].phase \notin {"up", "crash"} => Up(asked[p])
        /\ pod[p].phase = "down" => labelled = {asked[p]} /\ (p \in pending \/ Bare(p))
        /\ pod[p].phase = "clone" => labelled = {asked[p]} /\ Bare(p)
        /\ pod[p].phase = "conf" => ~pod[p].had
        /\ IF cfg.major = 8 THEN Cloned(p) ELSE Fetched(p)

PodInv == TypeOK /\ \A p \in Pods : Local(p) /\ AskedFor(p)

-----------------------------------------------------------------------------
(* What the parts of a step do to the types.                               *)
PodType == pod \in [Pods -> PodRec]
DiskType == disk \in [Pods -> Disk]
FilesType == files \in [Pods -> Files]
RestType ==
    /\ cfg \in Config
    /\ labelled \subseteq Pods \cup {"foreign"} /\ pending \subseteq Pods /\ doomed \subseteq Pods
    /\ torn \subseteq Pods /\ unsaved \subseteq Pods /\ leader \in Pods \cup {"none"}
    /\ rebuild \in [Pods -> Pods \cup {"none", "true"}] /\ asked \in [Pods -> Pods \cup {"none"}]
    /\ faults \in 0..MaxFaults /\ rebuilds \in 0..MaxRebuilds

LEMMA TypeParts ==
    /\ TypeOK => PodType /\ DiskType /\ FilesType /\ RestType
    /\ PodType' /\ DiskType' /\ FilesType' /\ RestType' => TypeOK'
    BY DEF TypeOK, PodType, DiskType, FilesType, RestType, PodRec, Disk, Files, Scripts

PodIs(p, v) == pod' = [pod EXCEPT ![p] = v]
DiskIs(p, v) == disk' = [disk EXCEPT ![p] = v]
FilesIs(p, v) == files' = [files EXCEPT ![p] = v]

LEMMA PodFacts ==
    ASSUME PodType, NEW p \in Pods, NEW v \in PodRec, PodIs(p, v)
    PROVE  PodType' /\ pod'[p] = v /\ \A q \in Pods \ {p} : pod'[q] = pod[q]
    BY DEF PodType, PodIs

LEMMA DiskFacts ==
    ASSUME DiskType, NEW p \in Pods, NEW v \in Disk, DiskIs(p, v)
    PROVE  DiskType' /\ disk'[p] = v /\ \A q \in Pods \ {p} : disk'[q] = disk[q]
    BY DEF DiskType, DiskIs

LEMMA FilesFacts ==
    ASSUME FilesType, NEW p \in Pods, NEW v \in Files, FilesIs(p, v)
    PROVE  FilesType' /\ files'[p] = v /\ \A q \in Pods \ {p} : files'[q] = files[q]
    BY DEF FilesType, FilesIs

LEMMA GotoFacts ==
    ASSUME PodType, NEW p \in Pods, NEW x \in Phases, Goto(p, x)
    PROVE  /\ PodType' /\ \A q \in Pods \ {p} : pod'[q] = pod[q]
           /\ pod'[p].phase = x /\ pod'[p].donor = pod[p].donor
           /\ pod'[p].xfrom = pod[p].xfrom /\ pod'[p].had = pod[p].had
<1>1. pod[p] \in PodRec
    BY DEF PodType
<1> DEFINE v == [pod[p] EXCEPT !.phase = x]
<1>2. v \in PodRec /\ v.phase = x /\ v.donor = pod[p].donor /\ v.xfrom = pod[p].xfrom /\ v.had = pod[p].had
    BY <1>1 DEF PodRec
<1>3. PodIs(p, v)
    BY DEF Goto, PodIs
<1> HIDE DEF v
<1> QED
    BY <1>2, <1>3, PodFacts

LEMMA DataFacts ==
    ASSUME NEW s \in States, NEW f \in Origins
    PROVE  /\ Data(s, f) \in Disk /\ Data(s, f).state = s /\ Data(s, f).dir = TRUE
           /\ Data(s, f).from = f /\ Data(s, f).used = FALSE
    BY DEF Data, Disk

LEMMA EmptyFacts ==
    Empty \in Disk /\ Empty.state = "empty" /\ Empty.dir = FALSE /\ Empty.used = FALSE
    BY DEF Empty, Disk, States, Origins

LEMMA NoFilesFacts ==
    NoFiles \in Files /\ NoFiles.scripts = {} /\ NoFiles.extra = "none" /\ NoFiles.kept = FALSE
    BY DEF NoFiles, Files, Scripts, Donors

LEMMA DownFacts == Down \in PodRec /\ Down.phase = "down"
    BY DEF Down, PodRec, Phases, Donors

LEMMA PodNames ==
    ASSUME NEW q \in Pods
    PROVE  /\ q # "none" /\ q # "foreign" /\ q # "true" /\ q # "follower" /\ q # "leader" /\ q \in Donors /\ q \in Origins
    BY PodsAssumption DEF Donors, Origins

LEMMA FaultCount == ASSUME faults \in 0 .. MaxFaults, Fault PROVE faults' \in 0 .. MaxFaults
    BY PodsAssumption DEF Fault

LEMMA GetPodFacts ==
    ASSUME labelled \subseteq Pods \cup {"foreign"}
    PROVE  GetPod \in Pods \cup {"none", "foreign"} /\ \A r \in Pods : labelled = {r} => GetPod = r
<1>1. CASE Cardinality(labelled) = 1
    <2>1. labelled # {}
        BY <1>1, FS_EmptySet
    <2>2. (CHOOSE q \in labelled : TRUE) \in labelled
        BY <2>1
    <2>3. GetPod \in labelled
        BY <1>1, <2>2 DEF GetPod
    <2> QED
        BY <2>3
<1>2. CASE Cardinality(labelled) # 1
    <2>1. \A r : Cardinality({r}) = 1
        BY FS_Singleton
    <2> QED
        BY <1>2, <2>1 DEF GetPod
<1> QED
    BY <1>1, <1>2

LEMMA BehindFacts ==
    /\ \A d : Behind(d) \subseteq Pods
    /\ \A d \in Pods : Behind(d) = IF Up(d) THEN {d} ELSE {}
    /\ Behind("true") = {} /\ Behind("none") = {}
<1>1. \A d : Behind(d) \subseteq Pods
    BY DEF Behind
<1>2. ASSUME NEW d \in Pods PROVE Behind(d) = IF Up(d) THEN {d} ELSE {}
    <2>1. d # "follower" /\ d # "leader"
        BY PodNames
    <2> QED
        BY <2>1 DEF Behind
<1>3. "true" \notin Pods /\ "none" \notin Pods
    BY PodNames
<1>4. Behind("true") = {} /\ Behind("none") = {}
    BY <1>3 DEF Behind
<1> QED
    BY <1>1, <1>2, <1>4

LEMMA ChooseDonorType ==
    ASSUME labelled \subseteq Pods \cup {"foreign"}
    PROVE  ChooseDonor(GetPod) \in Donors /\ GetPod \in Donors
           /\ (GetPod # "none" => ChooseDonor(GetPod) = GetPod)
<1>1. GetPod \in Donors
    BY GetPodFacts DEF Donors
<1> QED
    BY <1>1 DEF ChooseDonor, CheckServiceExist, Donors, Services

-----------------------------------------------------------------------------
(* Frames.                                                                 *)
\* A step at one pod: the others are as they were.
OnlyPod(p) ==
    /\ UNCHANGED cfg
    /\ \A q \in Pods \ {p} : pod'[q] = pod[q] /\ disk'[q] = disk[q] /\ files'[q] = files[q]
    /\ \A q \in Pods \ {p} : (q \in torn' <=> q \in torn) /\ (q \in unsaved' <=> q \in unsaved)

LEMMA LocalOthers ==
    ASSUME NEW p \in Pods, OnlyPod(p), NEW q \in Pods, q # p, Local(q)
    PROVE  Local(q)'
<1>1. /\ cfg' = cfg /\ pod'[q] = pod[q] /\ disk'[q] = disk[q] /\ files'[q] = files[q]
      /\ (q \in torn' <=> q \in torn) /\ (q \in unsaved' <=> q \in unsaved)
    BY DEF OnlyPod
<1>2. ServerID(q)' = ServerID(q)
    BY <1>1 DEF ServerID
<1>3. Written(q)'
    BY <1>1, <1>2 DEF Local, Written
<1>4. Held(q)'
    BY <1>1 DEF Local, Held
<1>5. Prepared(q)'
    BY <1>1 DEF Local, Prepared, Clean, Bare
<1> QED
    BY <1>3, <1>4, <1>5 DEF Local

\* A step of a pod that leaves its files alone and goes no further than its configuration.
LEMMA WrittenSame ==
    ASSUME NEW p \in Pods, Written(p), cfg' = cfg, files'[p].id = files[p].id, files'[p].extra = files[p].extra,
           p \in unsaved' <=> p \in unsaved,
           \/ pod'[p].phase \in {"clone", "fetch", "conf"}
           \/ /\ pod[p].phase \in {"restore", "prepare", "entry"}
              /\ pod'[p].phase \in {"restore", "prepare", "entry"}
              /\ "plugin" \in files[p].scripts => "plugin" \in files'[p].scripts
           \/ /\ pod[p].phase \in {"scripts", "hung", "crash", "up"}
              /\ pod'[p].phase \in {"scripts", "hung", "crash", "up", "entry"}
    PROVE  Written(p)'
<1>1. ServerID(p)' = ServerID(p)
    BY DEF ServerID
<1> QED
    BY <1>1 DEF Written

\* What a step at p owes to the expectation of another pod.
LEMMA AskedOthers ==
    ASSUME NEW p \in Pods, OnlyPod(p), NEW q \in Pods, q # p, AskedFor(q), asked[q] \in Pods \cup {"none"},
           rebuild'[q] = rebuild[q], asked'[q] = asked[q] \/ asked'[q] = "none",
           asked'[q] # "none" => /\ Up(asked[q]) /\ ~Up(q) => pod'[asked[q]].phase = "up"
                                 /\ pod[q].phase \in {"down", "clone"} /\ labelled = {asked[q]} => labelled' = labelled
                                 /\ q \in pending => q \in pending'
    PROVE  AskedFor(q)'
<1>1. /\ cfg' = cfg /\ pod'[q] = pod[q] /\ disk'[q] = disk[q] /\ files'[q] = files[q]
    BY DEF OnlyPod
<1>2. CASE asked'[q] = "none"
    BY <1>2 DEF AskedFor
<1>3. CASE asked'[q] # "none"
    <2>1. asked'[q] = asked[q] /\ asked[q] # "none"
        BY <1>3
    <2>2. rebuild'[q] # q
        BY DEF AskedFor
    <2>3. Cloned(q) => Cloned(q)'
        BY <1>1, <2>1 DEF Cloned, Bare
    <2>4. Fetched(q) => Fetched(q)'
        BY <1>1, <2>1 DEF Fetched, Bare
    <2>5. ASSUME ~(cfg.remote /\ cfg.major = 8)
          PROVE  /\ asked[q] # q
                 /\ pod[q].phase \notin {"up", "crash"} => pod'[asked[q]].phase = "up"
                 /\ pod[q].phase = "down" => labelled' = {asked[q]} /\ (q \in pending' \/ Bare(q)')
                 /\ pod[q].phase = "clone" => labelled' = {asked[q]} /\ Bare(q)'
                 /\ pod[q].phase = "conf" => ~pod[q].had
                 /\ IF cfg.major = 8 THEN Cloned(q)' ELSE Fetched(q)'
        BY <1>1, <1>3, <2>1, <2>3, <2>4, <2>5 DEF AskedFor, Up, Bare
    <2> QED
        BY <1>1, <2>1, <2>2, <2>5 DEF AskedFor, Up
<1> QED
    BY <1>2, <1>3

LEMMA VoidedAll ==
    ASSUME PodInv, Void, \A q \in Pods : rebuild'[q] # q
    PROVE  \A q \in Pods : AskedFor(q)' /\ asked'[q] = "none" /\ asked' \in [Pods -> Pods \cup {"none"}]
    BY DEF Void, AskedFor

LEMMA Conclude ==
    ASSUME PodInv, NEW p \in Pods, OnlyPod(p), PodType', DiskType', FilesType', RestType',
           Local(p)', \A q \in Pods : AskedFor(q)'
    PROVE  PodInv'
<1>1. \A q \in Pods : Local(q)'
    BY LocalOthers DEF PodInv
<1> QED
    BY <1>1, TypeParts DEF PodInv

-----------------------------------------------------------------------------
(* runCloneAndInit.                                                        *)
LEMMA ChooseFacts ==
    ASSUME PodInv, NEW p \in Pods, NEW found, NEW d \in Donors, Choose(p, found, d)
    PROVE  /\ PodType' /\ FilesType'
           /\ \A q \in Pods \ {p} : pod'[q] = pod[q] /\ files'[q] = files[q]
           /\ pod'[p].phase = IF d = "none" \/ disk[p].dir \/ DoCLone(p, d, RestoreFrom(found)) THEN "conf" ELSE "fetch"
           /\ pod'[p].donor = d /\ pod'[p].xfrom = RestoreFrom(found) /\ pod'[p].had = disk[p].dir
           /\ "clone" \in files'[p].scripts <=> "clone" \in files[p].scripts \/ DoCLone(p, d, RestoreFrom(found))
           /\ files'[p].server = IF DoCLone(p, d, RestoreFrom(found)) THEN d ELSE files[p].server
           /\ files'[p].kept = files[p].kept /\ files'[p].extra = files[p].extra /\ files'[p].id = files[p].id
<1> DEFINE x == RestoreFrom(found)
           clone == DoCLone(p, d, x)
           more == {s \in {"clone", "upgrade"} : \/ s = "clone" /\ clone
                                                 \/ s = "upgrade" /\ UpgradeShGen(p)}
           v == [phase |-> IF d = "none" \/ disk[p].dir \/ clone THEN "conf" ELSE "fetch",
                 donor |-> d, xfrom |-> x, had |-> disk[p].dir]
           f == [files[p] EXCEPT !.scripts = files[p].scripts \cup more,
                                 !.server = IF clone THEN d ELSE files[p].server]
<1>1. PodType /\ DiskType /\ FilesType /\ files[p] \in Files /\ disk[p].dir \in BOOLEAN
    BY TypeParts DEF PodInv, FilesType, DiskType, Disk
<1>2. PodIs(p, v)
    BY DEF Choose, PodIs
<1>3. FilesIs(p, f)
    <2>1. files' = [files EXCEPT ![p] = [[files[p] EXCEPT !.scripts = files[p].scripts \cup more]
                                           EXCEPT !.server = IF clone THEN d ELSE files[p].server]]
        BY <1>1 DEF Choose, FilesType
    <2> HIDE DEF more, clone
    <2> QED
        BY <2>1 DEF FilesIs
<1>4. x \in {"none", "env"}
    BY DEF RestoreFrom
<1>5. v \in PodRec
    <2> HIDE DEF clone, x
    <2> QED
        BY <1>1, <1>4 DEF PodRec, Phases
<1>6. more \subseteq Scripts /\ ("clone" \in more <=> clone)
    <2> HIDE DEF clone
    <2> QED
        BY DEF Scripts
<1> HIDE DEF clone, more, x
<1>7. /\ f \in Files /\ f.scripts = files[p].scripts \cup more
      /\ f.server = (IF clone THEN d ELSE files[p].server) /\ f.kept = files[p].kept
      /\ f.extra = files[p].extra /\ f.id = files[p].id
    BY <1>1, <1>6 DEF Files
<1>8. /\ v.phase = (IF d = "none" \/ disk[p].dir \/ clone THEN "conf" ELSE "fetch")
      /\ v.donor = d /\ v.xfrom = x /\ v.had = disk[p].dir
    OBVIOUS
<1> HIDE DEF v, f
<1>9. PodType' /\ pod'[p] = v /\ \A q \in Pods \ {p} : pod'[q] = pod[q]
    BY <1>1, <1>2, <1>5, PodFacts
<1>10. FilesType' /\ files'[p] = f /\ \A q \in Pods \ {p} : files'[q] = files[q]
    BY <1>1, <1>3, <1>7, FilesFacts
<1> QED
    BY <1>6, <1>7, <1>8, <1>9, <1>10 DEF clone, x

LEMMA ChooseLocal ==
    ASSUME PodInv, NEW p \in Pods, NEW found, NEW d \in Donors, Choose(p, found, d),
           UNCHANGED <<cfg, disk, torn, unsaved>>, pod[p].phase = "clone"
    PROVE  Local(p)'
<1> DEFINE x == RestoreFrom(found)
           clone == DoCLone(p, d, x)
<1>1. Local(p)
    BY DEF PodInv
<1>2. /\ pod'[p].phase = (IF d = "none" \/ disk[p].dir \/ clone THEN "conf" ELSE "fetch")
      /\ pod'[p].xfrom = x /\ pod'[p].had = disk[p].dir
      /\ "clone" \in files'[p].scripts <=> "clone" \in files[p].scripts \/ clone
      /\ files'[p].kept = files[p].kept /\ files'[p].extra = files[p].extra /\ files'[p].id = files[p].id
    BY ChooseFacts
<1>3. x \in {"none", "env"} /\ (clone => ~disk[p].dir /\ cfg.major = 8)
    BY DEF RestoreFrom, DoCLone
<1> HIDE DEF x, clone
<1>4. Written(p)'
    BY <1>1, <1>2, WrittenSame DEF Local
<1>5. Held(p)'
    BY <1>1, <1>2, <1>3 DEF Local, Held
<1>6. Prepared(p)'
    BY <1>1, <1>2, <1>3 DEF Local, Prepared, Clean, Bare
<1> QED
    BY <1>4, <1>5, <1>6 DEF Local

LEMMA RunCloneAndInitKeeps ==
    ASSUME PodInv, NEW p \in Pods, RunCloneAndInit(p)
    PROVE  PodInv'
<1>1. PodType /\ DiskType /\ FilesType /\ RestType /\ AskedFor(p)
    BY TypeParts DEF PodInv
<1>2. /\ pod[p].phase = "clone" /\ Choose(p, GetPod, ChooseDonor(GetPod))
      /\ labelled' = labelled \ {GetPod}
      /\ asked' = [q \in Pods |-> IF q # p /\ asked[q] = GetPod THEN "none" ELSE asked[q]]
      /\ UNCHANGED <<cfg, disk, leader, rebuild, pending, doomed, faults, rebuilds, torn, unsaved>>
    BY DEF RunCloneAndInit
<1>3. ChooseDonor(GetPod) \in Donors /\ (GetPod # "none" => ChooseDonor(GetPod) = GetPod)
    BY <1>1, ChooseDonorType DEF RestType
<1>4. GetPod \in Pods \cup {"none", "foreign"} /\ \A r \in Pods : labelled = {r} => GetPod = r
    BY <1>1, GetPodFacts DEF RestType
<1>5. PICK d \in Donors : d = ChooseDonor(GetPod)
    BY <1>3
<1>6. Local(p)'
    BY <1>2, <1>5, ChooseLocal
<1>7. /\ PodType' /\ FilesType'
      /\ \A q \in Pods \ {p} : pod'[q] = pod[q] /\ files'[q] = files[q]
      /\ pod'[p].phase = IF d = "none" \/ disk[p].dir \/ DoCLone(p, d, RestoreFrom(GetPod)) THEN "conf" ELSE "fetch"
      /\ pod'[p].donor = d /\ pod'[p].xfrom = RestoreFrom(GetPod) /\ pod'[p].had = disk[p].dir
      /\ "clone" \in files'[p].scripts <=> "clone" \in files[p].scripts \/ DoCLone(p, d, RestoreFrom(GetPod))
      /\ files'[p].server = IF DoCLone(p, d, RestoreFrom(GetPod)) THEN d ELSE files[p].server
    BY <1>2, <1>5, ChooseFacts
<1>8. OnlyPod(p) /\ DiskType' /\ RestType'
    BY <1>1, <1>2, <1>7 DEF OnlyPod, DiskType, RestType
<1>9. AskedFor(p)'
    <2>1. asked'[p] = asked[p] /\ rebuild'[p] # p
        BY <1>1, <1>2 DEF AskedFor
    <2> SUFFICES ASSUME asked[p] # "none", ~(cfg.remote /\ cfg.major = 8) PROVE AskedFor(p)'
        BY <1>2, <2>1 DEF AskedFor
    <2>2. asked[p] \in Pods /\ asked[p] # p /\ Up(asked[p]) /\ labelled = {asked[p]} /\ Bare(p)
        BY <1>1, <1>2 DEF AskedFor, RestType
    <2>3. GetPod = asked[p] /\ d = asked[p] /\ RestoreFrom(GetPod) = "none"
        BY <1>3, <1>4, <1>5, <2>2, PodNames DEF RestoreFrom
    <2>4. DoCLone(p, d, RestoreFrom(GetPod)) <=> cfg.major = 8
        BY <2>2, <2>3 DEF DoCLone, Bare
    <2>5. pod'[asked[p]].phase = "up"
        BY <1>7, <2>2 DEF Up
    <2>6. CASE cfg.major = 8
        BY <1>2, <1>7, <2>1, <2>2, <2>3, <2>4, <2>5, <2>6 DEF AskedFor, Cloned, Bare, Up
    <2>7. CASE cfg.major # 8
        BY <1>2, <1>7, <2>1, <2>2, <2>3, <2>4, <2>5, <2>7 DEF AskedFor, Fetched, Bare, Up
    <2> QED
        BY <2>6, <2>7
<1>10. ASSUME NEW q \in Pods, q # p PROVE AskedFor(q)'
    <2>1. AskedFor(q) /\ asked[q] \in Pods \cup {"none"}
        BY <1>1 DEF PodInv, RestType
    <2>2. asked'[q] = IF asked[q] = GetPod THEN "none" ELSE asked[q]
        BY <1>2, <1>10
    <2>3. CASE asked'[q] = "none"
        BY <1>2, <2>1, <2>3 DEF AskedFor
    <2>4. CASE asked'[q] # "none"
        <3>1. asked'[q] = asked[q] /\ asked[q] \in Pods /\ asked[q] # GetPod
            BY <2>1, <2>2, <2>4
        <3>2. Up(asked[q]) => pod'[asked[q]].phase = "up"
            BY <1>2, <1>7, <3>1 DEF Up
        <3>3. labelled = {asked[q]} => labelled' = labelled
            BY <1>4, <3>1
        <3> QED
            BY <1>2, <1>8, <1>10, <2>1, <3>1, <3>2, <3>3, AskedOthers
    <2> QED
        BY <2>3, <2>4
<1> QED
    BY <1>6, <1>7, <1>8, <1>9, <1>10, Conclude

LEMMA ChoosesInFaultKeeps ==
    ASSUME PodInv, NEW p \in Pods, RemoveRebuildFromFails(p) \/ NoServiceSeen(p)
    PROVE  PodInv'
<1>1. PodType /\ DiskType /\ FilesType /\ RestType
    BY TypeParts DEF PodInv
<1>2. PICK found, d \in Donors : Choose(p, found, d)
    <2>1. GetPod \in Donors /\ "none" \in Donors
        BY <1>1, ChooseDonorType DEF RestType, Donors
    <2> QED
        BY <2>1 DEF RemoveRebuildFromFails, NoServiceSeen
<1>3. /\ pod[p].phase = "clone" /\ Fault /\ Void
      /\ UNCHANGED <<cfg, disk, labelled, leader, rebuild, pending, doomed, rebuilds, torn, unsaved>>
    BY DEF RemoveRebuildFromFails, NoServiceSeen
<1>4. Local(p)'
    BY <1>2, <1>3, ChooseLocal
<1>5. PodType' /\ FilesType' /\ \A q \in Pods \ {p} : pod'[q] = pod[q] /\ files'[q] = files[q]
    BY <1>2, ChooseFacts
<1>6. \A q \in Pods : AskedFor(q)' /\ asked' \in [Pods -> Pods \cup {"none"}]
    BY <1>3, VoidedAll DEF PodInv, AskedFor
<1>7. OnlyPod(p) /\ DiskType'
    BY <1>1, <1>3, <1>5 DEF OnlyPod, DiskType
<1>8. RestType'
    BY <1>1, <1>3, <1>6, FaultCount DEF RestType, Void
<1> QED
    BY <1>4, <1>5, <1>6, <1>7, <1>8, Conclude

LEMMA ConfFacts ==
    ASSUME PodType, NEW p \in Pods, NEW x \in {"none", "env", "clone"},
           pod' = [pod EXCEPT ![p].phase = "conf", ![p].xfrom = x]
    PROVE  /\ PodType' /\ \A r \in Pods \ {p} : pod'[r] = pod[r]
           /\ pod'[p].phase = "conf" /\ pod'[p].xfrom = x /\ pod'[p].had = pod[p].had
<1> DEFINE v == [[pod[p] EXCEPT !.phase = "conf"] EXCEPT !.xfrom = x]
<1>1. pod[p] \in PodRec
    BY DEF PodType
<1>2. PodIs(p, v)
    BY DEF PodIs, PodType
<1>3. v \in PodRec /\ v.phase = "conf" /\ v.xfrom = x /\ v.had = pod[p].had
    BY <1>1 DEF PodRec, Phases
<1> HIDE DEF v
<1> QED
    BY <1>2, <1>3, PodFacts

\* The copy fetched from the donor.
LEMMA DownloadKeeps ==
    ASSUME PodInv, NEW p \in Pods, Download(p)
    PROVE  PodInv'
<1>1. PodType /\ DiskType /\ FilesType /\ RestType /\ AskedFor(p) /\ Local(p)
    BY TypeParts DEF PodInv
<1>2. /\ pod[p].phase = "fetch" /\ disk[p].state = "empty"
      /\ pod' = [pod EXCEPT ![p].phase = "conf", ![p].xfrom = "clone"]
      /\ UNCHANGED <<cfg, files, labelled, leader, rebuild, pending, doomed, faults, rebuilds, torn, unsaved, asked>>
    BY DEF Download
<1>3. PICK q \in Behind(pod[p].donor) : disk' = [disk EXCEPT ![p] = Data("raw", q)]
    BY DEF Download
<1>4. q \in Pods /\ q \in Origins
    BY BehindFacts, PodNames
<1>5. /\ DiskType' /\ disk'[p] = Data("raw", q) /\ \A r \in Pods \ {p} : disk'[r] = disk[r]
      /\ disk'[p].state = "raw" /\ disk'[p].dir = TRUE /\ disk'[p].from = q /\ disk'[p].used = FALSE
    <2>1. "raw" \in States
        BY DEF States
    <2>2. /\ Data("raw", q) \in Disk /\ Data("raw", q).state = "raw" /\ Data("raw", q).dir = TRUE
          /\ Data("raw", q).from = q /\ Data("raw", q).used = FALSE
        BY <1>4, <2>1, DataFacts
    <2>3. DiskIs(p, Data("raw", q))
        BY <1>3 DEF DiskIs
    <2> QED
        BY <1>1, <2>2, <2>3, DiskFacts
<1>6. /\ PodType' /\ \A r \in Pods \ {p} : pod'[r] = pod[r]
      /\ pod'[p].phase = "conf" /\ pod'[p].xfrom = "clone" /\ pod'[p].had = pod[p].had
    BY <1>1, <1>2, ConfFacts
<1>7. OnlyPod(p) /\ FilesType' /\ RestType'
    BY <1>1, <1>2, <1>5, <1>6 DEF OnlyPod, FilesType, RestType
<1>8. Local(p)'
    <2>1. Written(p)'
        BY <1>1, <1>2, <1>6, WrittenSame DEF Local
    <2>2. Held(p)'
        BY <1>1, <1>2, <1>5, <1>6 DEF Local, Held
    <2>3. Prepared(p)'
        BY <1>1, <1>2, <1>5, <1>6 DEF Local, Prepared
    <2> QED
        BY <2>1, <2>2, <2>3 DEF Local
<1>9. AskedFor(p)'
    <2> SUFFICES ASSUME asked[p] # "none", ~(cfg.remote /\ cfg.major = 8) PROVE AskedFor(p)'
        BY <1>1, <1>2 DEF AskedFor
    <2>1. /\ cfg.major # 8 /\ pod[p].donor = asked[p] /\ asked[p] \in Pods /\ asked[p] # p /\ Up(asked[p])
          /\ rebuild[p] # p
        BY <1>1, <1>2 DEF AskedFor, Cloned, Fetched, RestType
    <2>2. q = asked[p]
        BY <1>3, <2>1, BehindFacts
    <2>3. ~pod[p].had
        BY <1>1, <1>2, <2>1 DEF AskedFor, Fetched
    <2>4. pod'[asked[p]].phase = "up"
        BY <1>6, <2>1 DEF Up
    <2> QED
        BY <1>2, <1>5, <1>6, <2>1, <2>2, <2>3, <2>4 DEF AskedFor, Fetched, Up
<1>10. ASSUME NEW r \in Pods, r # p PROVE AskedFor(r)'
    <2>1. AskedFor(r) /\ asked[r] \in Pods \cup {"none"}
        BY <1>1 DEF PodInv, RestType
    <2>2. asked[r] # "none" /\ Up(asked[r]) => pod'[asked[r]].phase = "up"
        BY <1>2, <1>6, <2>1 DEF Up
    <2> QED
        BY <1>2, <1>7, <1>10, <2>1, <2>2, AskedOthers
<1> QED
    BY <1>5, <1>6, <1>7, <1>8, <1>9, <1>10, Conclude

\* A step of a pod that is not up, which leaves the labels and the claims alone.
LEMMA OwnStep ==
    ASSUME PodInv, NEW p \in Pods, OnlyPod(p), PodType', DiskType', FilesType', ~Up(p),
           UNCHANGED <<labelled, leader, rebuild, pending, doomed, faults, rebuilds, torn, asked>>,
           unsaved' \subseteq unsaved,
           Local(p)', AskedFor(p)'
    PROVE  PodInv'
<1>1. RestType
    BY TypeParts DEF PodInv
<1>2. RestType'
    BY <1>1 DEF RestType, OnlyPod
<1>3. ASSUME NEW r \in Pods, r # p PROVE AskedFor(r)'
    <2>1. AskedFor(r) /\ asked[r] \in Pods \cup {"none"}
        BY <1>1 DEF PodInv, RestType
    <2>2. asked[r] # "none" /\ Up(asked[r]) => pod'[asked[r]].phase = "up"
        BY <2>1 DEF Up, OnlyPod
    <2> QED
        BY <1>3, <2>1, <2>2, AskedOthers
<1> QED
    BY <1>2, <1>3, Conclude

LEMMA DiskData ==
    ASSUME DiskType, NEW p \in Pods, NEW s \in States, NEW f \in Origins, disk' = [disk EXCEPT ![p] = Data(s, f)]
    PROVE  /\ DiskType' /\ \A r \in Pods \ {p} : disk'[r] = disk[r]
           /\ disk'[p].state = s /\ disk'[p].dir = TRUE /\ disk'[p].from = f /\ disk'[p].used = FALSE
<1>1. /\ Data(s, f) \in Disk /\ Data(s, f).state = s /\ Data(s, f).dir = TRUE
      /\ Data(s, f).from = f /\ Data(s, f).used = FALSE
    BY DataFacts
<1>2. DiskIs(p, Data(s, f))
    BY DEF DiskIs
<1> QED
    BY <1>1, <1>2, DiskFacts

LEMMA DiskState ==
    ASSUME DiskType, NEW p \in Pods, NEW s \in States, disk' = [disk EXCEPT ![p] = [disk[p] EXCEPT !.state = s]]
    PROVE  /\ DiskType' /\ \A r \in Pods \ {p} : disk'[r] = disk[r]
           /\ disk'[p].state = s /\ disk'[p].dir = disk[p].dir /\ disk'[p].from = disk[p].from
           /\ disk'[p].used = disk[p].used
<1> DEFINE v == [disk[p] EXCEPT !.state = s]
<1>1. disk[p] \in Disk
    BY DEF DiskType
<1>2. v \in Disk /\ v.state = s /\ v.dir = disk[p].dir /\ v.from = disk[p].from /\ v.used = disk[p].used
    BY <1>1 DEF Disk
<1>3. DiskIs(p, v)
    BY DEF DiskIs
<1> HIDE DEF v
<1> QED
    BY <1>2, <1>3, DiskFacts

LEMMA DownloadRefusedKeeps ==
    ASSUME PodInv, NEW p \in Pods, DownloadRefused(p)
    PROVE  PodInv'
<1>1. PodType /\ DiskType /\ FilesType /\ RestType /\ AskedFor(p) /\ Local(p)
    BY TypeParts DEF PodInv
<1>2. /\ pod[p].phase = "fetch" /\ Goto(p, "conf") /\ "conf" \in Phases
      /\ Behind(pod[p].donor) = {} \/ disk[p].state # "empty"
      /\ UNCHANGED <<cfg, disk, files, labelled, leader, rebuild, pending, doomed, faults, rebuilds, torn, unsaved, asked>>
    BY DEF DownloadRefused, Phases
<1>3. /\ PodType' /\ \A q \in Pods \ {p} : pod'[q] = pod[q]
      /\ pod'[p].phase = "conf" /\ pod'[p].xfrom = pod[p].xfrom /\ pod'[p].had = pod[p].had
    BY <1>1, <1>2, GotoFacts
<1>4. OnlyPod(p) /\ DiskType' /\ FilesType' /\ ~Up(p)
    BY <1>1, <1>2, <1>3 DEF OnlyPod, DiskType, FilesType, Up
<1>5. Local(p)'
    <2>1. Written(p)'
        BY <1>1, <1>2, <1>3, WrittenSame DEF Local
    <2>2. Held(p)'
        BY <1>1, <1>2, <1>3 DEF Local, Held
    <2>3. Prepared(p)'
        BY <1>1, <1>2, <1>3 DEF Local, Prepared, Bare, Clean
    <2> QED
        BY <2>1, <2>2, <2>3 DEF Local
<1>6. AskedFor(p)'
    <2>1. asked[p] = "none" \/ (cfg.remote /\ cfg.major = 8)
        <3> SUFFICES ASSUME asked[p] # "none", ~(cfg.remote /\ cfg.major = 8) PROVE FALSE
            OBVIOUS
        <3>1. asked[p] \in Pods /\ Up(asked[p]) /\ pod[p].donor = asked[p] /\ disk[p].state = "empty"
            BY <1>1, <1>2 DEF AskedFor, Cloned, Fetched, Bare, RestType
        <3> QED
            BY <1>2, <3>1, BehindFacts
    <2> QED
        BY <1>1, <1>2, <2>1 DEF AskedFor
<1> QED
    BY <1>2, <1>3, <1>4, <1>5, <1>6, OwnStep

LEMMA DownloadBreaksKeeps ==
    ASSUME PodInv, NEW p \in Pods, DownloadBreaks(p)
    PROVE  PodInv'
<1>1. PodType /\ DiskType /\ FilesType /\ RestType /\ Local(p)
    BY TypeParts DEF PodInv
<1>2. /\ pod[p].phase = "fetch" /\ disk[p].state = "empty"
      /\ Fault /\ Void /\ torn' = torn \cup {p}
      /\ UNCHANGED <<cfg, files, labelled, leader, rebuild, pending, doomed, rebuilds, unsaved>>
    BY DEF DownloadBreaks
<1>3. PICK b \in BOOLEAN : disk' = [disk EXCEPT ![p] = [Data("part", "none") EXCEPT !.dir = b]]
    BY DEF DownloadBreaks
<1>4. /\ DiskType' /\ \A q \in Pods \ {p} : disk'[q] = disk[q]
      /\ disk'[p].state = "part" /\ disk'[p].used = FALSE
    <2> DEFINE v == [Data("part", "none") EXCEPT !.dir = b]
    <2>1. v \in Disk /\ v.state = "part" /\ v.used = FALSE
        BY DEF Data, Disk, States, Origins
    <2>2. DiskIs(p, v)
        BY <1>3 DEF DiskIs
    <2> HIDE DEF v
    <2> QED
        BY <1>1, <2>1, <2>2, DiskFacts
<1>5. /\ PodType' /\ \A q \in Pods \ {p} : pod'[q] = pod[q]
      /\ pod'[p].phase = "conf"
    <2>1. PICK x \in {pod[p].xfrom, "clone"} : pod' = [pod EXCEPT ![p].phase = "conf", ![p].xfrom = x]
        BY DEF DownloadBreaks
    <2>2. x \in {"none", "env", "clone"}
        BY <1>1 DEF PodType, PodRec
    <2> QED
        BY <1>1, <2>1, <2>2, ConfFacts
<1>6. Local(p)'
    <2>1. disk[p].used = FALSE
        <3>1. disk[p].used \in BOOLEAN
            BY <1>1 DEF DiskType, Disk
        <3> QED
            BY <1>1, <1>2, <3>1 DEF Local, Held
    <2>2. Held(p)'
        BY <1>1, <1>2, <1>4, <1>5, <2>1 DEF Local, Held
    <2>3. Written(p)'
        BY <1>1, <1>2, <1>5, WrittenSame DEF Local
    <2>4. Prepared(p)'
        BY <1>2 DEF Prepared
    <2> QED
        BY <2>2, <2>3, <2>4 DEF Local
<1>7. \A q \in Pods : AskedFor(q)' /\ asked' \in [Pods -> Pods \cup {"none"}]
    BY <1>2, VoidedAll DEF PodInv, AskedFor
<1>8. OnlyPod(p) /\ FilesType'
    BY <1>1, <1>2, <1>4, <1>5 DEF OnlyPod, FilesType
<1>9. RestType'
    BY <1>1, <1>2, <1>7, FaultCount DEF RestType, Void
<1> QED
    BY <1>4, <1>5, <1>6, <1>7, <1>8, <1>9, Conclude

LEMMA DownloadsNothingKeeps ==
    ASSUME PodInv, NEW p \in Pods, DownloadsNothing(p)
    PROVE  PodInv'
<1>1. PodType /\ DiskType /\ FilesType /\ RestType /\ Local(p)
    BY TypeParts DEF PodInv
<1>2. /\ pod[p].phase = "fetch" /\ pod' = [pod EXCEPT ![p].phase = "conf", ![p].xfrom = "clone"]
      /\ Fault /\ Void
      /\ UNCHANGED <<cfg, disk, files, labelled, leader, rebuild, pending, doomed, rebuilds, torn, unsaved>>
    BY DEF DownloadsNothing
<1>3. /\ PodType' /\ \A q \in Pods \ {p} : pod'[q] = pod[q]
      /\ pod'[p].phase = "conf" /\ pod'[p].xfrom = "clone" /\ pod'[p].had = pod[p].had
    BY <1>1, <1>2, ConfFacts
<1>4. OnlyPod(p) /\ DiskType' /\ FilesType'
    BY <1>1, <1>2, <1>3 DEF OnlyPod, DiskType, FilesType
<1>5. Local(p)'
    <2>1. Written(p)'
        BY <1>1, <1>2, <1>3, WrittenSame DEF Local
    <2>2. Held(p)'
        BY <1>1, <1>2, <1>3 DEF Local, Held
    <2>3. Prepared(p)'
        BY <1>1, <1>2, <1>3 DEF Local, Prepared, Bare
    <2> QED
        BY <2>1, <2>2, <2>3 DEF Local
<1>6. \A q \in Pods : AskedFor(q)' /\ asked' \in [Pods -> Pods \cup {"none"}]
    BY <1>2, VoidedAll DEF PodInv, AskedFor
<1>7. RestType'
    BY <1>1, <1>2, <1>6, FaultCount DEF RestType, Void
<1> QED
    BY <1>3, <1>4, <1>5, <1>6, <1>7, Conclude

LEMMA InitFailsKeeps ==
    ASSUME PodInv, NEW p \in Pods, InitFails(p)
    PROVE  PodInv'
<1>1. PodType /\ DiskType /\ FilesType /\ RestType /\ Local(p)
    BY TypeParts DEF PodInv
<1>2. /\ pod[p].phase \in {"conf", "restore", "prepare"} /\ Goto(p, "clone") /\ "clone" \in Phases
      /\ Fault /\ Void /\ torn' = IF disk[p].state \in {"raw", "part"} THEN torn \cup {p} ELSE torn
      /\ UNCHANGED <<cfg, disk, files, labelled, leader, rebuild, pending, doomed, rebuilds, unsaved>>
    BY DEF InitFails, Phases
<1>3. /\ PodType' /\ \A q \in Pods \ {p} : pod'[q] = pod[q]
      /\ pod'[p].phase = "clone" /\ pod'[p].xfrom = pod[p].xfrom /\ pod'[p].had = pod[p].had
    BY <1>1, <1>2, GotoFacts
<1>4. OnlyPod(p) /\ DiskType' /\ FilesType'
    BY <1>1, <1>2, <1>3 DEF OnlyPod, DiskType, FilesType
<1>5. Local(p)'
    <2>1. Written(p)'
        BY <1>1, <1>2, <1>3, WrittenSame DEF Local
    <2>2. Held(p)'
        BY <1>1, <1>2, <1>3 DEF Local, Held
    <2>3. Prepared(p)'
        BY <1>1, <1>2, <1>3 DEF Local, Prepared, Bare, Clean
    <2> QED
        BY <2>1, <2>2, <2>3 DEF Local
<1>6. \A q \in Pods : AskedFor(q)' /\ asked' \in [Pods -> Pods \cup {"none"}]
    BY <1>2, VoidedAll DEF PodInv, AskedFor
<1>7. RestType'
    BY <1>1, <1>2, <1>6, FaultCount DEF RestType, Void
<1> QED
    BY <1>3, <1>4, <1>5, <1>6, <1>7, Conclude

-----------------------------------------------------------------------------
(* runInitCommand.                                                         *)
LEMMA ServerIDType == ASSUME RestType, NEW p \in Pods PROVE ServerID(p) \in Nat
    BY PodsAssumption DEF ServerID, RestType, Config

LEMMA PluginFacts ==
    ASSUME FilesType, NEW p \in Pods
    PROVE  /\ PluginConfigsSh(p) \subseteq Scripts
           /\ "clone" \in PluginConfigsSh(p) <=> "clone" \in files[p].scripts
<1>1. files[p].scripts \subseteq Scripts
    BY DEF FilesType, Files
<1> QED
    BY <1>1 DEF PluginConfigsSh, Scripts

LEMMA ConfigureFiles ==
    ASSUME FilesType, RestType, NEW p \in Pods, Written(p), Configure(p) \/ SaveCnfFails(p)
    PROVE  /\ FilesType' /\ \A q \in Pods \ {p} : files'[q] = files[q]
           /\ files'[p].extra # "none" => files'[p].id = ServerID(p)
           /\ Configure(p) => \/ files'[p].extra = "conf.d"
                              \/ files'[p].extra = "initdb" /\ "plugin" \in files'[p].scripts
           /\ "clone" \in files'[p].scripts <=> "clone" \in files[p].scripts
           /\ files'[p].server = files[p].server /\ files'[p].kept = files[p].kept
<1>1. ServerID(p) \in Nat /\ files[p] \in Files
    BY ServerIDType DEF FilesType
<1>2. PICK id \in Nat : id = ServerID(p)
    BY <1>1
<1>3. PICK s \in SUBSET Scripts : s = PluginConfigsSh(p) /\ ("clone" \in s <=> "clone" \in files[p].scripts)
    BY PluginFacts
<1>4. CASE Configure(p)
    <2> DEFINE b == pod[p].had \/ cfg.major = 5
               e == IF b THEN "conf.d" ELSE "initdb"
               v == [[[files[p] EXCEPT !.id = id] EXCEPT !.extra = e] EXCEPT !.scripts = s]
    <2>1. FilesIs(p, v)
        <3>1. files' = [files EXCEPT ![p].id = id, ![p].extra = e, ![p].scripts = s]
            BY <1>2, <1>3, <1>4 DEF Configure
        <3> HIDE DEF b, e
        <3> QED
            BY <3>1 DEF FilesIs, FilesType
    <2>2. e = "conf.d" \/ (e = "initdb" /\ "plugin" \in s)
        BY <1>3 DEF PluginConfigsSh
    <2> HIDE DEF e
    <2>3. /\ v \in Files /\ v.id = id /\ v.extra = e /\ v.scripts = s
          /\ v.server = files[p].server /\ v.kept = files[p].kept
        BY <1>1, <2>2 DEF Files
    <2> HIDE DEF v
    <2>4. FilesType' /\ files'[p] = v /\ \A q \in Pods \ {p} : files'[q] = files[q]
        BY <2>1, <2>3, FilesFacts
    <2> QED
        BY <1>2, <1>3, <2>2, <2>3, <2>4
<1>5. CASE SaveCnfFails(p)
    <2> DEFINE v == [files[p] EXCEPT !.scripts = s]
    <2>1. FilesIs(p, v) /\ ~Configure(p)
        <3>1. files' = [files EXCEPT ![p].scripts = s] /\ faults' # faults
            BY <1>3, <1>5 DEF SaveCnfFails, Fault, RestType
        <3> QED
            BY <3>1 DEF FilesIs, FilesType, Configure
    <2>2. /\ v \in Files /\ v.id = files[p].id /\ v.extra = files[p].extra /\ v.scripts = s
          /\ v.server = files[p].server /\ v.kept = files[p].kept
        BY <1>1 DEF Files
    <2> HIDE DEF v
    <2>3. FilesType' /\ files'[p] = v /\ \A q \in Pods \ {p} : files'[q] = files[q]
        BY <2>1, <2>2, FilesFacts
    <2> QED
        BY <1>3, <2>1, <2>2, <2>3 DEF Written
<1> QED
    BY <1>4, <1>5

LEMMA ConfigureLocal ==
    ASSUME PodInv, NEW p \in Pods, Configure(p) \/ SaveCnfFails(p)
    PROVE  /\ OnlyPod(p) /\ PodType' /\ DiskType' /\ FilesType' /\ ~Up(p) /\ Local(p)'
           /\ \A q \in Pods \ {p} : pod'[q] = pod[q]
           /\ pod'[p].phase \in {"entry", "restore", "prepare"}
           /\ pod'[p].phase = IF ~NeedsRestore(p) THEN "entry"
                              ELSE IF cfg.remote \/ pod[p].xfrom # "clone" THEN "restore" ELSE "prepare"
           /\ pod'[p].xfrom = pod[p].xfrom
           /\ "clone" \in files'[p].scripts <=> "clone" \in files[p].scripts
           /\ files'[p].server = files[p].server
<1>1. PodType /\ DiskType /\ FilesType /\ RestType /\ Local(p)
    BY TypeParts DEF PodInv
<1>2. PICK x \in {"entry", "restore", "prepare"} :
          /\ Goto(p, x) /\ x \in Phases
          /\ x = IF ~NeedsRestore(p) THEN "entry"
                 ELSE IF cfg.remote \/ pod[p].xfrom # "clone" THEN "restore" ELSE "prepare"
    BY DEF Configure, SaveCnfFails, AfterConfigure, Phases
<1>3. /\ pod[p].phase = "conf" /\ UNCHANGED <<cfg, disk, torn>>
      /\ unsaved' = unsaved \ {p} \/ unsaved' = unsaved \cup {p}
      /\ Configure(p) \/ p \in unsaved'
    BY DEF Configure, SaveCnfFails
<1>4. /\ PodType' /\ \A q \in Pods \ {p} : pod'[q] = pod[q]
      /\ pod'[p].phase = x /\ pod'[p].donor = pod[p].donor
      /\ pod'[p].xfrom = pod[p].xfrom /\ pod'[p].had = pod[p].had
    BY <1>1, <1>2, GotoFacts
<1>5. /\ FilesType' /\ \A q \in Pods \ {p} : files'[q] = files[q]
      /\ files'[p].extra # "none" => files'[p].id = ServerID(p)
      /\ Configure(p) => \/ files'[p].extra = "conf.d"
                         \/ files'[p].extra = "initdb" /\ "plugin" \in files'[p].scripts
      /\ "clone" \in files'[p].scripts <=> "clone" \in files[p].scripts
      /\ files'[p].server = files[p].server /\ files'[p].kept = files[p].kept
    BY <1>1, ConfigureFiles DEF Local
<1>6. OnlyPod(p) /\ DiskType' /\ ~Up(p)
    BY <1>1, <1>3, <1>4, <1>5 DEF OnlyPod, DiskType, Up
<1>7. Local(p)'
    <2>1. ServerID(p)' = ServerID(p)
        BY <1>3 DEF ServerID
    <2>2. Written(p)'
        BY <1>2, <1>3, <1>4, <1>5, <2>1 DEF Written
    <2>3. Held(p)'
        BY <1>1, <1>2, <1>3, <1>4, <1>5 DEF Local, Held
    <2>4. Prepared(p)'
        BY <1>1, <1>2, <1>3, <1>4 DEF Local, Prepared, Bare, Clean, NeedsRestore
    <2> QED
        BY <2>2, <2>3, <2>4 DEF Local
<1> QED
    BY <1>2, <1>4, <1>5, <1>6, <1>7

LEMMA ConfigureKeeps ==
    ASSUME PodInv, NEW p \in Pods, Configure(p)
    PROVE  PodInv'
<1>1. RestType /\ AskedFor(p)
    BY TypeParts DEF PodInv
<1>2. /\ pod[p].phase = "conf" /\ unsaved' \subseteq unsaved
      /\ UNCHANGED <<cfg, disk, labelled, leader, rebuild, pending, doomed, faults, rebuilds, torn, asked>>
    BY DEF Configure
<1>3. PICK x \in {"entry", "restore", "prepare"} :
          x = IF ~NeedsRestore(p) THEN "entry"
              ELSE IF cfg.remote \/ pod[p].xfrom # "clone" THEN "restore" ELSE "prepare"
    OBVIOUS
<1>4. /\ OnlyPod(p) /\ PodType' /\ DiskType' /\ FilesType' /\ ~Up(p) /\ Local(p)'
      /\ \A q \in Pods \ {p} : pod'[q] = pod[q]
      /\ pod'[p].phase = x /\ pod'[p].xfrom = pod[p].xfrom
      /\ "clone" \in files'[p].scripts <=> "clone" \in files[p].scripts
      /\ files'[p].server = files[p].server
    BY <1>3, ConfigureLocal
<1>5. AskedFor(p)'
    <2> SUFFICES ASSUME asked[p] # "none", ~(cfg.remote /\ cfg.major = 8) PROVE AskedFor(p)'
        BY <1>1, <1>2 DEF AskedFor
    <2>1. asked[p] # p /\ rebuild[p] # p /\ asked[p] \in Pods /\ Up(asked[p]) /\ ~pod[p].had
        BY <1>1, <1>2 DEF AskedFor, RestType
    <2>2. pod'[asked[p]].phase = "up"
        BY <1>4, <2>1 DEF Up
    <2>3. CASE cfg.major = 8
        <3>1. /\ "clone" \in files[p].scripts /\ files[p].server = asked[p] /\ pod[p].xfrom = "none" /\ Bare(p)
            BY <1>1, <1>2, <2>3 DEF AskedFor, Cloned
        <3>2. x # "prepare"
            BY <1>3, <3>1
        <3>3. Cloned(p)'
            BY <1>2, <1>3, <1>4, <3>1, <3>2 DEF Cloned, Bare
        <3> QED
            BY <1>2, <1>3, <1>4, <2>1, <2>2, <2>3, <3>3 DEF AskedFor, Up
    <2>4. CASE cfg.major # 8
        <3>1. disk[p].from = asked[p] /\ disk[p].state = "raw" /\ pod[p].xfrom = "clone"
            BY <1>1, <1>2, <2>4 DEF AskedFor, Fetched
        <3>2. x # "entry"
            BY <1>3, <2>1, <3>1 DEF NeedsRestore
        <3>3. Fetched(p)'
            BY <1>2, <1>3, <1>4, <3>1, <3>2 DEF Fetched
        <3> QED
            BY <1>2, <1>3, <1>4, <2>1, <2>2, <2>4, <3>3 DEF AskedFor, Up
    <2> QED
        BY <2>3, <2>4
<1> QED
    BY <1>2, <1>4, <1>5, OwnStep

LEMMA SaveCnfFailsKeeps ==
    ASSUME PodInv, NEW p \in Pods, SaveCnfFails(p)
    PROVE  PodInv'
<1>1. RestType
    BY TypeParts DEF PodInv
<1>2. /\ Fault /\ Void /\ unsaved' = unsaved \cup {p}
      /\ UNCHANGED <<cfg, disk, labelled, leader, rebuild, pending, doomed, rebuilds, torn>>
    BY DEF SaveCnfFails
<1>3. OnlyPod(p) /\ PodType' /\ DiskType' /\ FilesType' /\ Local(p)'
    BY ConfigureLocal
<1>4. \A q \in Pods : AskedFor(q)' /\ asked' \in [Pods -> Pods \cup {"none"}]
    BY <1>2, VoidedAll DEF PodInv, AskedFor
<1>5. RestType'
    BY <1>1, <1>2, <1>4, FaultCount DEF RestType, Void
<1> QED
    BY <1>3, <1>4, <1>5, Conclude

LEMMA RunClusterScriptKeeps ==
    ASSUME PodInv, NEW p \in Pods, RunClusterScript(p)
    PROVE  PodInv'
<1>1. PodType /\ DiskType /\ FilesType /\ RestType /\ AskedFor(p) /\ Local(p)
    BY TypeParts DEF PodInv
<1>2. /\ pod[p].phase = "restore" /\ cfg.remote /\ Goto(p, "entry") /\ "entry" \in Phases
      /\ UNCHANGED <<cfg, files, labelled, leader, rebuild, pending, doomed, faults, rebuilds, torn, unsaved, asked>>
    BY DEF RunClusterScript, Phases
<1>3. /\ PodType' /\ \A q \in Pods \ {p} : pod'[q] = pod[q]
      /\ pod'[p].phase = "entry" /\ pod'[p].xfrom = pod[p].xfrom /\ pod'[p].had = pod[p].had
    BY <1>1, <1>2, GotoFacts
<1>4. /\ DiskType' /\ \A q \in Pods \ {p} : disk'[q] = disk[q]
      /\ \/ disk[p].state = "empty" /\ disk'[p].state = "applied" /\ disk'[p].dir /\ disk'[p].used = FALSE
         \/ /\ disk[p].state = "raw" /\ disk'[p].state = "applied" /\ disk'[p].dir = disk[p].dir
            /\ disk'[p].from = disk[p].from /\ disk'[p].used = disk[p].used
         \/ disk[p].state # "raw" /\ disk'[p] = disk[p]
    <2>1. PICK reached \in BOOLEAN :
              disk' = [disk EXCEPT ![p] =
                  CASE disk[p].state = "empty" /\ reached -> Data("applied", "remote")
                    [] disk[p].state = "raw" -> [disk[p] EXCEPT !.state = "applied"]
                    [] OTHER -> disk[p]]
        BY DEF RunClusterScript
    <2>2. "applied" \in States /\ "remote" \in Origins
        BY DEF States, Origins
    <2>3. CASE disk[p].state = "empty" /\ reached
        <3>1. disk' = [disk EXCEPT ![p] = Data("applied", "remote")]
            BY <2>1, <2>3
        <3> QED
            BY <1>1, <2>2, <2>3, <3>1, DiskData
    <2>4. CASE disk[p].state = "raw"
        <3>1. disk' = [disk EXCEPT ![p] = [disk[p] EXCEPT !.state = "applied"]]
            BY <2>1, <2>4
        <3> QED
            BY <1>1, <2>2, <2>4, <3>1, DiskState
    <2>5. CASE ~(disk[p].state = "empty" /\ reached) /\ disk[p].state # "raw"
        <3>1. disk' = [disk EXCEPT ![p] = disk[p]]
            BY <2>1, <2>5
        <3> QED
            BY <1>1, <2>5, <3>1 DEF DiskType
    <2> QED
        BY <2>3, <2>4, <2>5
<1>5. OnlyPod(p) /\ FilesType' /\ ~Up(p)
    BY <1>1, <1>2, <1>3, <1>4 DEF OnlyPod, FilesType, Up
<1>6. Local(p)'
    <2>1. ServerID(p)' = ServerID(p)
        BY <1>2 DEF ServerID
    <2>2. Written(p)'
        BY <1>1, <1>2, <1>3, <2>1 DEF Local, Written
    <2>3. Held(p)'
        BY <1>1, <1>2, <1>3, <1>4 DEF Local, Held
    <2>4. Prepared(p)'
        BY <1>2 DEF Prepared
    <2> QED
        BY <2>2, <2>3, <2>4 DEF Local
<1>7. AskedFor(p)'
    <2> SUFFICES ASSUME asked[p] # "none", cfg.major # 8 PROVE AskedFor(p)'
        BY <1>1, <1>2 DEF AskedFor
    <2>1. /\ asked[p] # p /\ rebuild[p] # p /\ asked[p] \in Pods /\ Up(asked[p])
          /\ disk[p].from = asked[p] /\ disk[p].state = "raw"
        BY <1>1, <1>2 DEF AskedFor, Fetched, RestType
    <2>2. pod'[asked[p]].phase = "up"
        BY <1>3, <2>1 DEF Up
    <2>3. Fetched(p)'
        BY <1>2, <1>3, <1>4, <2>1 DEF Fetched
    <2> QED
        BY <1>2, <1>3, <2>1, <2>2, <2>3 DEF AskedFor, Up
<1> QED
    BY <1>2, <1>3, <1>4, <1>5, <1>6, <1>7, OwnStep

LEMMA BuildScriptFacts ==
    ASSUME FilesType, NEW p \in Pods, files' = BuildScript(p)
    PROVE  /\ FilesType' /\ \A q \in Pods \ {p} : files'[q] = files[q]
           /\ files'[p].scripts = files[p].scripts \cup {"restore"}
           /\ files'[p].id = files[p].id /\ files'[p].extra = files[p].extra
           /\ files'[p].server = files[p].server /\ files'[p].kept = files[p].kept
<1> DEFINE v == [files[p] EXCEPT !.scripts = files[p].scripts \cup {"restore"}]
<1>1. files[p] \in Files
    BY DEF FilesType
<1>2. FilesIs(p, v)
    BY DEF BuildScript, FilesIs
<1>3. /\ v \in Files /\ v.scripts = files[p].scripts \cup {"restore"} /\ v.id = files[p].id
      /\ v.extra = files[p].extra /\ v.server = files[p].server /\ v.kept = files[p].kept
    BY <1>1 DEF Files, Scripts
<1> HIDE DEF v
<1> QED
    BY <1>2, <1>3, FilesFacts

LEMMA EntryHadFacts ==
    ASSUME PodType, NEW p \in Pods, NEW h \in BOOLEAN, pod' = [pod EXCEPT ![p].phase = "entry", ![p].had = h]
    PROVE  /\ PodType' /\ \A q \in Pods \ {p} : pod'[q] = pod[q]
           /\ pod'[p].phase = "entry" /\ pod'[p].xfrom = pod[p].xfrom /\ pod'[p].had = h
<1> DEFINE v == [[pod[p] EXCEPT !.phase = "entry"] EXCEPT !.had = h]
<1>1. pod[p] \in PodRec
    BY DEF PodType
<1>2. PodIs(p, v)
    BY DEF PodIs, PodType
<1>3. v \in PodRec /\ v.phase = "entry" /\ v.had = h /\ v.xfrom = pod[p].xfrom
    BY <1>1 DEF PodRec, Phases
<1> HIDE DEF v
<1> QED
    BY <1>2, <1>3, PodFacts

LEMMA NFSRestoreKeeps ==
    ASSUME PodInv, NEW p \in Pods, NFSRestore(p)
    PROVE  PodInv'
<1>1. PodType /\ DiskType /\ FilesType /\ RestType /\ AskedFor(p) /\ Local(p)
    BY TypeParts DEF PodInv
<1>2. /\ pod[p].phase = "restore" /\ ~cfg.remote /\ pod[p].xfrom = "env" /\ "clone" \in Phases
      /\ UNCHANGED <<cfg, labelled, leader, rebuild, pending, doomed, faults, rebuilds, torn, unsaved, asked>>
    BY DEF NFSRestore, Phases
<1>3. /\ DiskType' /\ \A q \in Pods \ {p} : disk'[q] = disk[q]
      /\ disk[p].state = "empty" => disk'[p].state = "ok" /\ disk'[p].dir /\ disk'[p].used = FALSE
      /\ disk[p].state # "empty" => disk'[p] = disk[p]
    <2>1. "ok" \in States /\ "nfs" \in Origins
        BY DEF States, Origins
    <2>2. CASE disk[p].state = "empty"
        <3>1. disk' = [disk EXCEPT ![p] = Data("ok", "nfs")]
            BY <2>2 DEF NFSRestore
        <3> QED
            BY <1>1, <2>1, <2>2, <3>1, DiskData
    <2>3. CASE disk[p].state # "empty"
        <3>1. disk' = [disk EXCEPT ![p] = disk[p]]
            BY <2>3 DEF NFSRestore
        <3> QED
            BY <1>1, <2>3, <3>1 DEF DiskType
    <2> QED
        BY <2>2, <2>3
<1>4. /\ PodType' /\ \A q \in Pods \ {p} : pod'[q] = pod[q]
      /\ FilesType' /\ \A q \in Pods \ {p} : files'[q] = files[q]
      /\ (pod'[p].phase = "entry" /\ disk[p].state = "empty") \/ pod'[p].phase = "clone"
      /\ "clone" \in files'[p].scripts <=> "clone" \in files[p].scripts
      /\ "plugin" \in files[p].scripts => "plugin" \in files'[p].scripts
      /\ files'[p].id = files[p].id /\ files'[p].extra = files[p].extra /\ files'[p].kept = files[p].kept
    <2>1. CASE cfg.point /\ disk[p].state = "empty"
        <3>1. files' = BuildScript(p) /\ pod' = [pod EXCEPT ![p].phase = "entry", ![p].had = TRUE]
            BY <2>1 DEF NFSRestore
        <3>2. /\ FilesType' /\ \A q \in Pods \ {p} : files'[q] = files[q]
              /\ files'[p].scripts = files[p].scripts \cup {"restore"}
              /\ files'[p].id = files[p].id /\ files'[p].extra = files[p].extra
              /\ files'[p].kept = files[p].kept
            BY <1>1, <3>1, BuildScriptFacts
        <3>3. PodType' /\ pod'[p].phase = "entry" /\ \A q \in Pods \ {p} : pod'[q] = pod[q]
            BY <1>1, <3>1, EntryHadFacts
        <3> QED
            BY <2>1, <3>2, <3>3
    <2>2. CASE ~(cfg.point /\ disk[p].state = "empty")
        <3>1. Goto(p, "clone") /\ files' = files
            BY <2>2 DEF NFSRestore
        <3>2. FilesType'
            BY <1>1, <3>1 DEF FilesType
        <3> QED
            BY <1>1, <1>2, <3>1, <3>2, GotoFacts
    <2> QED
        BY <2>1, <2>2
<1>5. OnlyPod(p) /\ ~Up(p)
    BY <1>2, <1>3, <1>4 DEF OnlyPod, Up
<1>6. Local(p)'
    <2>1. ServerID(p)' = ServerID(p)
        BY <1>2 DEF ServerID
    <2>2. Written(p)'
        BY <1>1, <1>2, <1>4, <2>1 DEF Local, Written
    <2>3. Held(p)'
        BY <1>1, <1>2, <1>3, <1>4 DEF Local, Held
    <2>4. Prepared(p)'
        BY <1>1, <1>2, <1>3, <1>4 DEF Local, Prepared, Bare, Clean
    <2> QED
        BY <2>2, <2>3, <2>4 DEF Local
<1>7. AskedFor(p)'
    <2>1. asked[p] = "none"
        BY <1>1, <1>2 DEF AskedFor, Cloned, Fetched
    <2> QED
        BY <1>1, <1>2, <2>1 DEF AskedFor
<1> QED
    BY <1>2, <1>3, <1>4, <1>5, <1>6, <1>7, OwnStep

\* The stream of the S3 restore and that of a remote source.
LEMMA ExtractKeeps ==
    ASSUME PodInv, NEW p \in Pods, S3Restore(p) \/ RemoteSource(p)
    PROVE  PodInv'
<1>1. PodType /\ DiskType /\ FilesType /\ RestType /\ AskedFor(p) /\ Local(p)
    BY TypeParts DEF PodInv
<1>2. PICK f \in {"s3", "source"} : Extract(p, f) /\ f \in Origins
    BY DEF S3Restore, RemoteSource, Origins
<1>3. /\ pod[p].phase = "restore" /\ ~cfg.remote /\ pod[p].xfrom # "clone"
      /\ "clone" \in Phases /\ "prepare" \in Phases /\ "raw" \in States
      /\ UNCHANGED <<cfg, files, labelled, leader, rebuild, pending, doomed, faults, rebuilds, torn, unsaved, asked>>
    BY DEF S3Restore, RemoteSource, Extract, Phases, States
<1>4. /\ PodType' /\ \A q \in Pods \ {p} : pod'[q] = pod[q]
      /\ DiskType' /\ \A q \in Pods \ {p} : disk'[q] = disk[q]
      /\ pod'[p].xfrom = pod[p].xfrom
      /\ \/ /\ disk[p].state = "empty" /\ disk'[p].state = "raw" /\ disk'[p].dir /\ disk'[p].used = FALSE
            /\ pod'[p].phase = "prepare"
         \/ disk[p].state # "empty" /\ disk'[p] = disk[p] /\ pod'[p].phase = "clone"
    <2>1. CASE disk[p].state = "empty"
        <3>1. disk' = [disk EXCEPT ![p] = Data("raw", f)] /\ Goto(p, "prepare")
            BY <1>2, <2>1 DEF Extract
        <3> QED
            BY <1>1, <1>2, <1>3, <2>1, <3>1, DiskData, GotoFacts
    <2>2. CASE disk[p].state # "empty"
        <3>1. disk' = disk /\ Goto(p, "clone")
            BY <1>2, <2>2 DEF Extract
        <3>2. DiskType'
            BY <1>1, <3>1 DEF DiskType
        <3> QED
            BY <1>1, <1>3, <2>2, <3>1, <3>2, GotoFacts
    <2> QED
        BY <2>1, <2>2
<1>5. OnlyPod(p) /\ ~Up(p) /\ FilesType'
    BY <1>1, <1>3, <1>4 DEF OnlyPod, Up, FilesType
<1>6. Local(p)'
    <2>1. ServerID(p)' = ServerID(p)
        BY <1>3 DEF ServerID
    <2>2. Written(p)'
        BY <1>1, <1>3, <1>4, <2>1 DEF Local, Written
    <2>3. Held(p)'
        BY <1>1, <1>3, <1>4 DEF Local, Held
    <2>4. Prepared(p)'
        BY <1>1, <1>3, <1>4 DEF Local, Prepared, Bare, Clean
    <2> QED
        BY <2>2, <2>3, <2>4 DEF Local
<1>7. AskedFor(p)'
    <2> SUFFICES ASSUME asked[p] # "none" PROVE AskedFor(p)'
        BY <1>1, <1>3 DEF AskedFor
    <2>1. /\ asked[p] # p /\ rebuild[p] # p /\ asked[p] \in Pods /\ Up(asked[p]) /\ cfg.major = 8
          /\ "clone" \in files[p].scripts /\ files[p].server = asked[p] /\ pod[p].xfrom = "none" /\ Bare(p)
        BY <1>1, <1>3 DEF AskedFor, Cloned, Fetched, RestType
    <2>2. pod'[asked[p]].phase = "up"
        BY <1>4, <2>1 DEF Up
    <2>3. Cloned(p)' /\ pod'[p].phase = "prepare"
        BY <1>3, <1>4, <2>1 DEF Cloned, Bare
    <2> QED
        BY <1>3, <2>1, <2>2, <2>3 DEF AskedFor, Up
<1> QED
    BY <1>3, <1>4, <1>5, <1>6, <1>7, OwnStep

LEMMA PrepareKeeps ==
    ASSUME PodInv, NEW p \in Pods, Prepare(p)
    PROVE  PodInv'
<1>1. PodType /\ DiskType /\ FilesType /\ RestType /\ AskedFor(p) /\ Local(p)
    BY TypeParts DEF PodInv
<1>2. /\ pod[p].phase = "prepare" /\ disk[p].state = "raw" /\ "ok" \in States
      /\ disk' = [disk EXCEPT ![p] = [disk[p] EXCEPT !.state = "ok"]]
      /\ UNCHANGED <<cfg, labelled, leader, rebuild, pending, doomed, faults, rebuilds, torn, unsaved, asked>>
    BY DEF Prepare, States
<1>3. /\ DiskType' /\ \A q \in Pods \ {p} : disk'[q] = disk[q]
      /\ disk'[p].state = "ok" /\ disk'[p].dir = disk[p].dir /\ disk'[p].from = disk[p].from
      /\ disk'[p].used = disk[p].used
    BY <1>1, <1>2, DiskState
<1>4. /\ PodType' /\ \A q \in Pods \ {p} : pod'[q] = pod[q]
      /\ pod'[p].phase = "entry" /\ pod'[p].xfrom = pod[p].xfrom
    <2>1. PICK h \in BOOLEAN : pod' = [pod EXCEPT ![p].phase = "entry", ![p].had = h]
        BY DEF Prepare
    <2> QED
        BY <1>1, <2>1, EntryHadFacts
<1>5. /\ FilesType' /\ \A q \in Pods \ {p} : files'[q] = files[q]
      /\ "clone" \in files'[p].scripts <=> "clone" \in files[p].scripts
      /\ "plugin" \in files[p].scripts => "plugin" \in files'[p].scripts
      /\ files'[p].id = files[p].id /\ files'[p].extra = files[p].extra
      /\ files'[p].server = files[p].server /\ files'[p].kept = files[p].kept
    <2>1. files' = BuildScript(p) \/ files' = files
        BY DEF Prepare
    <2>2. CASE files' = files
        BY <1>1, <2>2 DEF FilesType
    <2>3. CASE files' = BuildScript(p)
        BY <1>1, <2>3, BuildScriptFacts
    <2> QED
        BY <2>1, <2>2, <2>3
<1>6. OnlyPod(p) /\ ~Up(p)
    BY <1>2, <1>3, <1>4, <1>5 DEF OnlyPod, Up
<1>7. Local(p)'
    <2>1. ServerID(p)' = ServerID(p)
        BY <1>2 DEF ServerID
    <2>2. Written(p)'
        BY <1>1, <1>2, <1>4, <1>5, <2>1 DEF Local, Written
    <2>3. Held(p)'
        BY <1>1, <1>2, <1>3, <1>4, <1>5 DEF Local, Held
    <2>4. Prepared(p)'
        BY <1>1, <1>2, <1>3, <1>4 DEF Local, Prepared, Bare, Clean
    <2> QED
        BY <2>2, <2>3, <2>4 DEF Local
<1>8. AskedFor(p)'
    <2> SUFFICES ASSUME asked[p] # "none", ~(cfg.remote /\ cfg.major = 8) PROVE AskedFor(p)'
        BY <1>1, <1>2 DEF AskedFor
    <2>1. asked[p] # p /\ rebuild[p] # p /\ asked[p] \in Pods /\ Up(asked[p])
        BY <1>1, <1>2 DEF AskedFor, RestType
    <2>2. pod'[asked[p]].phase = "up"
        BY <1>4, <2>1 DEF Up
    <2>3. CASE cfg.major = 8
        <3>1. Cloned(p)'
            BY <1>1, <1>2, <1>3, <1>4, <1>5, <2>3 DEF AskedFor, Cloned
        <3> QED
            BY <1>2, <1>4, <2>1, <2>2, <2>3, <3>1 DEF AskedFor, Up
    <2>4. CASE cfg.major # 8
        <3>1. Fetched(p)'
            BY <1>1, <1>2, <1>3, <1>4, <2>4 DEF AskedFor, Fetched
        <3> QED
            BY <1>2, <1>4, <2>1, <2>2, <2>4, <3>1 DEF AskedFor, Up
    <2> QED
        BY <2>3, <2>4
<1> QED
    BY <1>2, <1>3, <1>4, <1>5, <1>6, <1>7, <1>8, OwnStep

LEMMA PrepareRefusedKeeps ==
    ASSUME PodInv, NEW p \in Pods, PrepareRefused(p)
    PROVE  PodInv'
<1>1. PodType /\ DiskType /\ FilesType /\ RestType /\ AskedFor(p) /\ Local(p)
    BY TypeParts DEF PodInv
<1>2. /\ pod[p].phase = "prepare" /\ disk[p].state # "raw" /\ Goto(p, "clone") /\ "clone" \in Phases
      /\ UNCHANGED <<cfg, disk, files, labelled, leader, rebuild, pending, doomed, faults, rebuilds,
                     torn, unsaved, asked>>
    BY DEF PrepareRefused, Phases
<1>3. /\ PodType' /\ \A q \in Pods \ {p} : pod'[q] = pod[q]
      /\ pod'[p].phase = "clone" /\ pod'[p].xfrom = pod[p].xfrom /\ pod'[p].had = pod[p].had
    BY <1>1, <1>2, GotoFacts
<1>4. OnlyPod(p) /\ ~Up(p) /\ DiskType' /\ FilesType'
    BY <1>1, <1>2, <1>3 DEF OnlyPod, Up, DiskType, FilesType
<1>5. Local(p)'
    <2>1. Written(p)'
        BY <1>1, <1>2, <1>3, WrittenSame DEF Local
    <2>2. Held(p)'
        BY <1>1, <1>2, <1>3 DEF Local, Held
    <2>3. Prepared(p)'
        BY <1>1, <1>2, <1>3 DEF Local, Prepared, Bare, Clean
    <2> QED
        BY <2>1, <2>2, <2>3 DEF Local
<1>6. AskedFor(p)'
    <2>1. asked[p] = "none" \/ (cfg.remote /\ cfg.major = 8)
        BY <1>1, <1>2 DEF AskedFor, Cloned, Fetched
    <2> QED
        BY <1>1, <1>2, <2>1 DEF AskedFor
<1> QED
    BY <1>2, <1>3, <1>4, <1>5, <1>6, OwnStep

-----------------------------------------------------------------------------
(* The init-mysql and mysql containers.                                    *)
\* What the entry point does to the directory, whether plugin.sh copies the files or not.
LEMMA EntryPointDisk ==
    ASSUME PodInv, NEW p \in Pods, Initialised(p), Goto(p, "scripts")
    PROVE  /\ PodType' /\ \A q \in Pods \ {p} : pod'[q] = pod[q]
           /\ pod'[p].phase = "scripts" /\ pod'[p].xfrom = pod[p].xfrom /\ pod'[p].had = pod[p].had
           /\ DiskType' /\ \A q \in Pods \ {p} : disk'[q] = disk[q]
           /\ disk[p].state = "empty" => disk'[p].state = "ok" /\ disk'[p].dir /\ disk'[p].used = FALSE
           /\ disk[p].state # "empty" => disk'[p] = disk[p]
<1>1. PodType /\ DiskType /\ "scripts" \in Phases /\ "ok" \in States /\ "fresh" \in Origins
    BY TypeParts DEF PodInv, Phases, States, Origins
<1>2. /\ PodType' /\ \A q \in Pods \ {p} : pod'[q] = pod[q]
      /\ pod'[p].phase = "scripts" /\ pod'[p].xfrom = pod[p].xfrom /\ pod'[p].had = pod[p].had
    BY <1>1, GotoFacts
<1>3. CASE disk[p].state = "empty"
    <2>1. disk' = [disk EXCEPT ![p] = Data("ok", "fresh")]
        BY <1>3 DEF Initialised
    <2> QED
        BY <1>1, <1>2, <1>3, <2>1, DiskData
<1>4. CASE disk[p].state # "empty"
    <2>1. disk' = [disk EXCEPT ![p] = disk[p]]
        BY <1>4 DEF Initialised
    <2> QED
        BY <1>1, <1>2, <1>4, <2>1 DEF DiskType
<1> QED
    BY <1>3, <1>4

LEMMA InstalledFacts ==
    ASSUME FilesType, NEW p \in Pods, files' = Installed(p), Written(p), pod[p].phase = "entry"
    PROVE  /\ FilesType' /\ \A q \in Pods \ {p} : files'[q] = files[q]
           /\ p \notin unsaved => files'[p].extra = "conf.d"
           /\ files'[p].extra # "none" => files[p].extra # "none"
           /\ files'[p].id = files[p].id /\ files'[p].scripts = files[p].scripts
           /\ files'[p].server = files[p].server /\ files'[p].kept = files[p].kept
<1> DEFINE e == IF files[p].extra = "initdb" /\ "plugin" \in files[p].scripts THEN "conf.d" ELSE files[p].extra
           v == [files[p] EXCEPT !.extra = e]
<1>1. /\ files[p] \in Files /\ e \in {"none", "initdb", "conf.d"}
      /\ p \notin unsaved => e = "conf.d"
      /\ e # "none" => files[p].extra # "none"
    BY DEF FilesType, Files, Written
<1>2. FilesIs(p, v)
    BY DEF Installed, FilesIs
<1> HIDE DEF e
<1>3. /\ v \in Files /\ v.scripts = files[p].scripts /\ v.id = files[p].id
      /\ v.extra = e /\ v.server = files[p].server /\ v.kept = files[p].kept
    BY <1>1 DEF Files
<1> HIDE DEF v
<1> QED
    BY <1>1, <1>2, <1>3, FilesFacts

LEMMA EntryPointKeeps ==
    ASSUME PodInv, NEW p \in Pods, EntryPoint(p)
    PROVE  PodInv'
<1>1. PodType /\ DiskType /\ FilesType /\ RestType /\ AskedFor(p) /\ Local(p)
    BY TypeParts DEF PodInv
<1>2. /\ pod[p].phase = "entry" /\ Initialised(p) /\ Goto(p, "scripts") /\ files' = Installed(p)
      /\ UNCHANGED <<cfg, labelled, leader, rebuild, pending, doomed, faults, rebuilds, torn, unsaved, asked>>
    BY DEF EntryPoint
<1>3. /\ PodType' /\ \A q \in Pods \ {p} : pod'[q] = pod[q]
      /\ pod'[p].phase = "scripts" /\ pod'[p].xfrom = pod[p].xfrom /\ pod'[p].had = pod[p].had
      /\ DiskType' /\ \A q \in Pods \ {p} : disk'[q] = disk[q]
      /\ disk[p].state = "empty" => disk'[p].state = "ok" /\ disk'[p].dir /\ disk'[p].used = FALSE
      /\ disk[p].state # "empty" => disk'[p] = disk[p]
    BY <1>2, EntryPointDisk
<1>4. /\ FilesType' /\ \A q \in Pods \ {p} : files'[q] = files[q]
      /\ p \notin unsaved => files'[p].extra = "conf.d"
      /\ files'[p].extra # "none" => files[p].extra # "none"
      /\ files'[p].id = files[p].id /\ files'[p].scripts = files[p].scripts
      /\ files'[p].server = files[p].server /\ files'[p].kept = files[p].kept
    BY <1>1, <1>2, InstalledFacts DEF Local
<1>5. OnlyPod(p) /\ ~Up(p)
    BY <1>2, <1>3, <1>4 DEF OnlyPod, Up
<1>6. Local(p)'
    <2>1. ServerID(p)' = ServerID(p)
        BY <1>2 DEF ServerID
    <2>2. Written(p)'
        BY <1>1, <1>2, <1>3, <1>4, <2>1 DEF Local, Written
    <2>3. Held(p)'
        BY <1>1, <1>2, <1>3, <1>4 DEF Local, Held
    <2>4. Prepared(p)'
        BY <1>1, <1>2, <1>3 DEF Local, Prepared, Bare, Clean
    <2> QED
        BY <2>2, <2>3, <2>4 DEF Local
<1>7. AskedFor(p)'
    <2> SUFFICES ASSUME asked[p] # "none", ~(cfg.remote /\ cfg.major = 8) PROVE AskedFor(p)'
        BY <1>1, <1>2 DEF AskedFor
    <2>1. asked[p] # p /\ rebuild[p] # p /\ asked[p] \in Pods /\ Up(asked[p])
        BY <1>1, <1>2 DEF AskedFor, RestType
    <2>2. pod'[asked[p]].phase = "up"
        BY <1>3, <2>1 DEF Up
    <2>3. CASE cfg.major = 8
        <3>1. Cloned(p)'
            BY <1>1, <1>2, <1>3, <1>4, <2>3 DEF AskedFor, Cloned, Bare
        <3> QED
            BY <1>2, <1>3, <2>1, <2>2, <2>3, <3>1 DEF AskedFor, Up
    <2>4. CASE cfg.major # 8
        <3>1. Fetched(p)'
            BY <1>1, <1>2, <1>3, <2>4 DEF AskedFor, Fetched
        <3> QED
            BY <1>2, <1>3, <2>1, <2>2, <2>4, <3>1 DEF AskedFor, Up
    <2> QED
        BY <2>3, <2>4
<1> QED
    BY <1>2, <1>3, <1>4, <1>5, <1>6, <1>7, OwnStep

LEMMA PluginFailsKeeps ==
    ASSUME PodInv, NEW p \in Pods, PluginFails(p)
    PROVE  PodInv'
<1>1. PodType /\ DiskType /\ FilesType /\ RestType /\ Local(p)
    BY TypeParts DEF PodInv
<1>2. /\ pod[p].phase = "entry" /\ Initialised(p) /\ Goto(p, "scripts") /\ Fault /\ Void
      /\ unsaved' = unsaved \cup {p}
      /\ UNCHANGED <<cfg, files, labelled, leader, rebuild, pending, doomed, rebuilds, torn>>
    BY DEF PluginFails
<1>3. /\ PodType' /\ \A q \in Pods \ {p} : pod'[q] = pod[q]
      /\ pod'[p].phase = "scripts"
      /\ DiskType' /\ \A q \in Pods \ {p} : disk'[q] = disk[q]
      /\ disk[p].state = "empty" => disk'[p].state = "ok" /\ disk'[p].dir /\ disk'[p].used = FALSE
      /\ disk[p].state # "empty" => disk'[p] = disk[p]
    BY <1>2, EntryPointDisk
<1>4. OnlyPod(p) /\ FilesType'
    BY <1>1, <1>2, <1>3 DEF OnlyPod, FilesType
<1>5. Local(p)'
    <2>1. ServerID(p)' = ServerID(p)
        BY <1>2 DEF ServerID
    <2>2. Written(p)'
        BY <1>1, <1>2, <1>3, <2>1 DEF Local, Written
    <2>3. Held(p)'
        BY <1>1, <1>2, <1>3 DEF Local, Held
    <2>4. Prepared(p)'
        BY <1>1, <1>2, <1>3 DEF Local, Prepared, Bare, Clean
    <2> QED
        BY <2>2, <2>3, <2>4 DEF Local
<1>6. \A q \in Pods : AskedFor(q)' /\ asked' \in [Pods -> Pods \cup {"none"}]
    BY <1>2, VoidedAll DEF PodInv, AskedFor
<1>7. RestType'
    BY <1>1, <1>2, <1>6, FaultCount DEF RestType, Void
<1> QED
    BY <1>3, <1>4, <1>5, <1>6, <1>7, Conclude

LEMMA RunScriptsKeeps ==
    ASSUME PodInv, NEW p \in Pods, RunScripts(p)
    PROVE  PodInv'
<1>1. PodType /\ DiskType /\ FilesType /\ RestType /\ AskedFor(p) /\ Local(p)
    BY TypeParts DEF PodInv
<1>2. /\ pod[p].phase = "scripts"
      /\ UNCHANGED <<cfg, files, labelled, leader, rebuild, pending, doomed, faults, rebuilds, torn, unsaved, asked>>
    BY DEF RunScripts
<1>3. PICK x \in {"up", "crash"} : Goto(p, x) /\ x \in Phases /\ (x = "up" => disk[p].dir)
    BY DEF RunScripts, Phases
<1>4. /\ PodType' /\ \A q \in Pods \ {p} : pod'[q] = pod[q]
      /\ pod'[p].phase = x /\ pod'[p].xfrom = pod[p].xfrom /\ pod'[p].had = pod[p].had
    BY <1>1, <1>3, GotoFacts
<1>5. FilesType'
    BY <1>1, <1>2 DEF FilesType
<1>6. /\ DiskType' /\ \A q \in Pods \ {p} : disk'[q] = disk[q]
      /\ \/ /\ "clone" \in files[p].scripts /\ disk'[p].state = "ok" /\ disk'[p].dir
            /\ disk'[p].from \in Behind(files[p].server)
         \/ /\ ~("clone" \in files[p].scripts /\ disk[p].state = "ok")
            /\ disk'[p].state = disk[p].state /\ disk'[p].dir = disk[p].dir
            /\ disk'[p].from = disk[p].from /\ disk'[p].used = disk[p].dir
    <2>1. CASE "clone" \in files[p].scripts /\ disk[p].state = "ok"
        <3>1. PICK q \in Behind(files[p].server) :
                  disk' = [disk EXCEPT ![p] = [Data("ok", q) EXCEPT !.used = TRUE]]
            BY <2>1 DEF RunScripts
        <3>2. q \in Origins
            BY BehindFacts, PodNames
        <3> DEFINE v == [Data("ok", q) EXCEPT !.used = TRUE]
        <3>3. v \in Disk /\ v.state = "ok" /\ v.dir = TRUE /\ v.from = q
            BY <3>2 DEF Data, Disk, States
        <3>4. DiskIs(p, v)
            BY <3>1 DEF DiskIs
        <3> HIDE DEF v
        <3> QED
            BY <1>1, <2>1, <3>1, <3>3, <3>4, DiskFacts
    <2>2. CASE ~("clone" \in files[p].scripts /\ disk[p].state = "ok")
        <3> DEFINE v == [disk[p] EXCEPT !.used = disk[p].dir]
        <3>1. disk[p] \in Disk
            BY <1>1 DEF DiskType
        <3>2. /\ v \in Disk /\ v.state = disk[p].state /\ v.dir = disk[p].dir /\ v.from = disk[p].from
              /\ v.used = disk[p].dir
            BY <3>1 DEF Disk
        <3>3. DiskIs(p, v)
            BY <2>2 DEF RunScripts, DiskIs
        <3> HIDE DEF v
        <3> QED
            BY <1>1, <2>2, <3>2, <3>3, DiskFacts
    <2> QED
        BY <2>1, <2>2
<1>7. OnlyPod(p) /\ ~Up(p)
    BY <1>2, <1>4, <1>5, <1>6 DEF OnlyPod, Up
<1>8. Local(p)'
    <2>1. Written(p)'
        BY <1>1, <1>2, <1>4, WrittenSame DEF Local
    <2>2. Held(p)'
        BY <1>1, <1>2, <1>3, <1>4, <1>6 DEF Local, Held
    <2>3. Prepared(p)'
        BY <1>1, <1>2, <1>3, <1>4, <1>6 DEF Local, Prepared, Clean
    <2> QED
        BY <2>1, <2>2, <2>3 DEF Local
<1>9. AskedFor(p)'
    <2> SUFFICES ASSUME asked[p] # "none", ~(cfg.remote /\ cfg.major = 8) PROVE AskedFor(p)'
        BY <1>1, <1>2 DEF AskedFor
    <2>1. asked[p] # p /\ rebuild[p] # p /\ asked[p] \in Pods /\ Up(asked[p])
        BY <1>1, <1>2 DEF AskedFor, RestType
    <2>2. CASE cfg.major = 8
        <3>1. "clone" \in files[p].scripts /\ files[p].server = asked[p] /\ disk[p].state = "ok"
            BY <1>1, <1>2, <2>2 DEF AskedFor, Cloned
        <3>2. disk'[p].from = asked[p]
            BY <1>6, <2>1, <3>1, BehindFacts
        <3>3. Cloned(p)'
            BY <1>2, <1>3, <1>4, <3>2 DEF Cloned
        <3> QED
            BY <1>2, <1>3, <1>4, <2>1, <2>2, <3>3 DEF AskedFor
    <2>3. CASE cfg.major # 8
        <3>1. "clone" \notin files[p].scripts
            BY <1>1, <2>3 DEF Local, Held
        <3>2. Fetched(p)'
            BY <1>1, <1>2, <1>3, <1>4, <1>6, <2>3, <3>1 DEF AskedFor, Fetched
        <3> QED
            BY <1>2, <1>3, <1>4, <2>1, <2>3, <3>2 DEF AskedFor
    <2> QED
        BY <2>2, <2>3
<1> QED
    BY <1>2, <1>4, <1>5, <1>6, <1>7, <1>8, <1>9, OwnStep

LEMMA CloneRefusedKeeps ==
    ASSUME PodInv, NEW p \in Pods, CloneRefused(p)
    PROVE  PodInv'
<1>1. PodType /\ DiskType /\ FilesType /\ RestType /\ AskedFor(p) /\ Local(p)
    BY TypeParts DEF PodInv
<1>2. /\ pod[p].phase = "scripts" /\ Goto(p, "hung") /\ "hung" \in Phases
      /\ "clone" \in files[p].scripts
      /\ UNCHANGED <<cfg, disk, files, labelled, leader, rebuild, pending, doomed, faults, rebuilds,
                     torn, unsaved, asked>>
    BY DEF CloneRefused, Phases
<1>3. /\ PodType' /\ \A q \in Pods \ {p} : pod'[q] = pod[q]
      /\ pod'[p].phase = "hung" /\ pod'[p].xfrom = pod[p].xfrom /\ pod'[p].had = pod[p].had
    BY <1>1, <1>2, GotoFacts
<1>4. OnlyPod(p) /\ ~Up(p) /\ DiskType' /\ FilesType'
    BY <1>1, <1>2, <1>3 DEF OnlyPod, Up, DiskType, FilesType
<1>5. Local(p)'
    <2>1. Written(p)'
        BY <1>1, <1>2, <1>3, WrittenSame DEF Local
    <2>2. Held(p)'
        BY <1>1, <1>2, <1>3 DEF Local, Held
    <2>3. Prepared(p)'
        BY <1>1, <1>2, <1>3 DEF Local, Prepared, Clean
    <2> QED
        BY <2>1, <2>2, <2>3 DEF Local
<1>6. AskedFor(p)'
    <2> SUFFICES ASSUME asked[p] # "none", ~(cfg.remote /\ cfg.major = 8) PROVE AskedFor(p)'
        BY <1>1, <1>2 DEF AskedFor
    <2>1. asked[p] # p /\ rebuild[p] # p /\ asked[p] \in Pods /\ Up(asked[p])
        BY <1>1, <1>2 DEF AskedFor, RestType
    <2>2. pod'[asked[p]].phase = "up"
        BY <1>3, <2>1 DEF Up
    <2>3. Cloned(p)' /\ Fetched(p)'
        BY <1>3 DEF Cloned, Fetched
    <2> QED
        BY <1>2, <1>3, <2>1, <2>2, <2>3 DEF AskedFor, Up
<1> QED
    BY <1>2, <1>3, <1>4, <1>5, <1>6, OwnStep

LEMMA ScriptsFailKeeps ==
    ASSUME PodInv, NEW p \in Pods, ScriptsFail(p)
    PROVE  PodInv'
<1>1. PodType /\ DiskType /\ FilesType /\ RestType /\ Local(p)
    BY TypeParts DEF PodInv
<1>2. /\ pod[p].phase = "scripts" /\ Goto(p, "entry") /\ "entry" \in Phases /\ Fault /\ Void
      /\ \/ UNCHANGED <<disk, torn>>
         \/ /\ "clone" \in files[p].scripts /\ torn' = torn \cup {p}
            /\ disk' = [disk EXCEPT ![p] = Data("part", "none")]
      /\ UNCHANGED <<cfg, files, labelled, leader, rebuild, pending, doomed, rebuilds, unsaved>>
    BY DEF ScriptsFail, Phases
<1>3. /\ PodType' /\ \A q \in Pods \ {p} : pod'[q] = pod[q]
      /\ pod'[p].phase = "entry" /\ pod'[p].xfrom = pod[p].xfrom /\ pod'[p].had = pod[p].had
    BY <1>1, <1>2, GotoFacts
<1>4. /\ DiskType' /\ \A q \in Pods \ {p} : disk'[q] = disk[q]
      /\ \/ disk'[p] = disk[p] /\ torn' = torn
         \/ /\ "clone" \in files[p].scripts /\ torn' = torn \cup {p}
            /\ disk'[p].state = "part" /\ disk'[p].dir /\ disk'[p].used = FALSE
    <2>1. CASE UNCHANGED <<disk, torn>>
        BY <1>1, <2>1 DEF DiskType
    <2>2. CASE /\ "clone" \in files[p].scripts /\ torn' = torn \cup {p}
               /\ disk' = [disk EXCEPT ![p] = Data("part", "none")]
        <3>1. "part" \in States /\ "none" \in Origins
            BY DEF States, Origins
        <3> QED
            BY <1>1, <2>2, <3>1, DiskData
    <2> QED
        BY <1>2, <2>1, <2>2
<1>5. OnlyPod(p) /\ FilesType'
    BY <1>1, <1>2, <1>3, <1>4 DEF OnlyPod, FilesType
<1>6. Local(p)'
    <2>1. Written(p)'
        BY <1>1, <1>2, <1>3, WrittenSame DEF Local
    <2>2. Held(p)'
        BY <1>1, <1>2, <1>3, <1>4 DEF Local, Held
    <2>3. Prepared(p)'
        BY <1>1, <1>2, <1>3, <1>4 DEF Local, Prepared, Clean
    <2> QED
        BY <2>1, <2>2, <2>3 DEF Local
<1>7. \A q \in Pods : AskedFor(q)' /\ asked' \in [Pods -> Pods \cup {"none"}]
    BY <1>2, VoidedAll DEF PodInv, AskedFor
<1>8. RestType'
    <2>1. torn' \subseteq Pods
        BY <1>1, <1>2 DEF RestType
    <2> QED
        BY <1>1, <1>2, <1>7, <2>1, FaultCount DEF RestType, Void
<1> QED
    BY <1>3, <1>4, <1>5, <1>6, <1>7, <1>8, Conclude

-----------------------------------------------------------------------------
(* StatefulSet controller, election and faults.                            *)
LEMMA LocalSame ==
    ASSUME PodInv, UNCHANGED <<cfg, pod, disk, files, torn, unsaved>>
    PROVE  /\ PodType' /\ DiskType' /\ FilesType' /\ \A q \in Pods : OnlyPod(q) /\ Local(q)'
<1>1. PodType' /\ DiskType' /\ FilesType'
    BY TypeParts DEF PodInv, PodType, DiskType, FilesType
<1>2. \A q \in Pods : OnlyPod(q)
    BY DEF OnlyPod
<1>3. ASSUME NEW q \in Pods PROVE Local(q)'
    <2>1. Local(q) /\ ServerID(q)' = ServerID(q)
        BY DEF PodInv, ServerID
    <2> QED
        BY <2>1 DEF Local, Written, Held, Prepared, Bare, Clean
<1> QED
    BY <1>1, <1>2, <1>3

LEMMA AskedSame ==
    ASSUME NEW q \in Pods, AskedFor(q), UNCHANGED <<cfg, pod, disk, files, labelled, asked>>,
           q \in pending => q \in pending', rebuild'[q] # q
    PROVE  AskedFor(q)'
<1>1. (Cloned(q) => Cloned(q)') /\ (Fetched(q) => Fetched(q)')
    BY DEF Cloned, Fetched, Bare
<1> QED
    BY <1>1 DEF AskedFor, Up, Bare

LEMMA CreateKeeps ==
    ASSUME PodInv, NEW p \in Pods, Create(p)
    PROVE  PodInv'
<1>1. PodType /\ DiskType /\ FilesType /\ RestType /\ AskedFor(p) /\ Local(p)
    BY TypeParts DEF PodInv
<1>2. /\ pod[p].phase = "down" /\ Goto(p, "clone") /\ "clone" \in Phases
      /\ IF p \in pending THEN Fault /\ Void ELSE UNCHANGED <<faults, asked>>
      /\ files' = [files EXCEPT ![p].kept = disk[p].used]
      /\ UNCHANGED <<cfg, disk, labelled, leader, rebuild, pending, doomed, rebuilds, torn, unsaved>>
    BY DEF Create, Phases
<1>3. /\ PodType' /\ \A q \in Pods \ {p} : pod'[q] = pod[q]
      /\ pod'[p].phase = "clone"
    BY <1>1, <1>2, GotoFacts
<1>4. /\ FilesType' /\ \A q \in Pods \ {p} : files'[q] = files[q]
      /\ files'[p].scripts = {} /\ files'[p].kept = disk[p].used /\ files'[p].extra = "none"
    <2> DEFINE v == [files[p] EXCEPT !.kept = disk[p].used]
    <2>1. disk[p].used \in BOOLEAN
        BY <1>1 DEF DiskType, Disk
    <2>2. files[p] \in Files /\ files[p].scripts = {} /\ files[p].extra = "none"
        BY <1>1, <1>2, NoFilesFacts DEF Local, Held
    <2>3. v \in Files /\ v.scripts = {} /\ v.kept = disk[p].used /\ v.extra = "none"
        BY <2>1, <2>2 DEF Files
    <2>4. FilesIs(p, v)
        BY <1>2 DEF FilesIs
    <2> HIDE DEF v
    <2> QED
        BY <1>1, <2>3, <2>4, FilesFacts
<1>5. OnlyPod(p) /\ ~Up(p) /\ DiskType'
    BY <1>1, <1>2, <1>3, <1>4 DEF OnlyPod, Up, DiskType
<1>6. Local(p)'
    <2>1. Written(p)'
        BY <1>3, <1>4 DEF Written
    <2>2. Held(p)'
        BY <1>1, <1>2, <1>3, <1>4 DEF Local, Held
    <2>3. Prepared(p)'
        BY <1>1, <1>2, <1>3 DEF Local, Prepared, Clean, Bare
    <2> QED
        BY <2>1, <2>2, <2>3 DEF Local
<1>7. CASE p \in pending
    <2>1. Fault /\ Void
        BY <1>2, <1>7
    <2>2. \A q \in Pods : AskedFor(q)' /\ asked' \in [Pods -> Pods \cup {"none"}]
        BY <1>2, <2>1, VoidedAll DEF PodInv, AskedFor
    <2>3. RestType'
        BY <1>1, <1>2, <2>1, <2>2, FaultCount DEF RestType
    <2> QED
        BY <1>3, <1>4, <1>5, <1>6, <2>2, <2>3, Conclude
<1>8. CASE p \notin pending
    <2>1. UNCHANGED <<labelled, leader, rebuild, pending, doomed, faults, rebuilds, torn, unsaved, asked>>
        BY <1>2, <1>8
    <2>2. AskedFor(p)'
        <3> SUFFICES ASSUME asked[p] # "none", ~(cfg.remote /\ cfg.major = 8) PROVE AskedFor(p)'
            BY <1>1, <1>2, <2>1 DEF AskedFor
        <3>1. /\ asked[p] # p /\ rebuild[p] # p /\ asked[p] \in Pods /\ Up(asked[p])
              /\ labelled = {asked[p]} /\ Bare(p)
            BY <1>1, <1>2, <1>8 DEF AskedFor, RestType
        <3>2. pod'[asked[p]].phase = "up"
            BY <1>3, <3>1 DEF Up
        <3>3. Cloned(p)' /\ Fetched(p)' /\ Bare(p)'
            BY <1>2, <1>3, <3>1 DEF Cloned, Fetched, Bare
        <3> QED
            BY <1>2, <1>3, <2>1, <3>1, <3>2, <3>3 DEF AskedFor, Up
    <2> QED
        BY <1>3, <1>4, <1>5, <1>6, <2>1, <2>2, OwnStep
<1> QED
    BY <1>7, <1>8

LEMMA ElectKeeps ==
    ASSUME PodInv, NEW p \in Pods, Elect(p)
    PROVE  PodInv'
<1>1. /\ leader' = p
      /\ UNCHANGED <<cfg, pod, disk, files, labelled, rebuild, pending, doomed, faults, rebuilds, torn, unsaved, asked>>
    BY DEF Elect
<1>2. PodType' /\ DiskType' /\ FilesType' /\ \A q \in Pods : OnlyPod(q) /\ Local(q)'
    BY <1>1, LocalSame
<1>3. RestType'
    BY <1>1, TypeParts DEF PodInv, RestType
<1>4. \A q \in Pods : AskedFor(q)'
    BY <1>1, AskedSame DEF PodInv, AskedFor
<1> QED
    BY <1>2, <1>3, <1>4, Conclude

LEMMA RebootKeeps ==
    ASSUME PodInv, NEW p \in Pods, Reboot(p)
    PROVE  PodInv'
<1>1. PodType /\ DiskType /\ FilesType /\ RestType /\ Local(p)
    BY TypeParts DEF PodInv
<1>2. /\ pod[p].phase = "up" /\ Goto(p, "clone") /\ "clone" \in Phases /\ Fault /\ Void
      /\ leader' = IF leader = p THEN "none" ELSE leader
      /\ UNCHANGED <<cfg, disk, files, labelled, rebuild, pending, doomed, rebuilds, torn, unsaved>>
    BY DEF Reboot, Up, Phases
<1>3. PodType' /\ pod'[p].phase = "clone" /\ \A q \in Pods \ {p} : pod'[q] = pod[q]
    BY <1>1, <1>2, GotoFacts
<1>4. OnlyPod(p) /\ DiskType' /\ FilesType'
    BY <1>1, <1>2, <1>3 DEF OnlyPod, DiskType, FilesType
<1>5. Local(p)'
    <2>1. Written(p)'
        BY <1>1, <1>2, <1>3, WrittenSame DEF Local
    <2>2. Held(p)'
        BY <1>1, <1>2, <1>3 DEF Local, Held
    <2>3. Prepared(p)'
        BY <1>1, <1>2, <1>3 DEF Local, Prepared, Clean, Bare
    <2> QED
        BY <2>1, <2>2, <2>3 DEF Local
<1>6. \A q \in Pods : AskedFor(q)' /\ asked' \in [Pods -> Pods \cup {"none"}]
    BY <1>2, VoidedAll DEF PodInv, AskedFor
<1>7. RestType'
    BY <1>1, <1>2, <1>6, FaultCount DEF RestType
<1> QED
    BY <1>3, <1>4, <1>5, <1>6, <1>7, Conclude

LEMMA DeletedFacts ==
    ASSUME PodInv, NEW p \in Pods, Up(p), Deleted(p), UNCHANGED <<cfg, torn>>
    PROVE  /\ PodType' /\ DiskType' /\ FilesType' /\ OnlyPod(p) /\ Local(p)'
           /\ pod'[p].phase = "down" /\ \A q \in Pods \ {p} : pod'[q] = pod[q]
           /\ rebuild' \in [Pods -> Pods \cup {"none", "true"}] /\ rebuild'[p] = "none"
           /\ \A q \in Pods \ {p} : rebuild'[q] = rebuild[q]
           /\ leader' \in Pods \cup {"none"} /\ doomed' \subseteq Pods /\ unsaved' \subseteq Pods
<1>1. PodType /\ DiskType /\ FilesType /\ RestType /\ Local(p)
    BY TypeParts DEF PodInv
<1>2. PodType' /\ pod'[p] = Down /\ \A q \in Pods \ {p} : pod'[q] = pod[q]
    <2>1. PodIs(p, Down)
        BY DEF Deleted, PodIs
    <2> QED
        BY <1>1, <2>1, DownFacts, PodFacts
<1>3. FilesType' /\ files'[p] = NoFiles /\ \A q \in Pods \ {p} : files'[q] = files[q]
    <2>1. FilesIs(p, NoFiles)
        BY DEF Deleted, FilesIs
    <2> QED
        BY <1>1, <2>1, NoFilesFacts, FilesFacts
<1>4. DiskType' /\ (disk'[p] = disk[p] \/ disk'[p] = Empty) /\ \A q \in Pods \ {p} : disk'[q] = disk[q]
    <2>1. CASE p \in doomed
        <3>1. DiskIs(p, Empty)
            BY <2>1 DEF Deleted, DiskIs
        <3> QED
            BY <1>1, <3>1, EmptyFacts, DiskFacts
    <2>2. CASE p \notin doomed
        BY <1>1, <2>2 DEF Deleted, DiskType
    <2> QED
        BY <2>1, <2>2
<1>5. OnlyPod(p)
    BY <1>2, <1>3, <1>4 DEF OnlyPod, Deleted
<1>6. pod'[p].phase = "down"
    BY <1>2, DownFacts
<1>7. Local(p)'
    <2>1. Written(p)'
        BY <1>3, <1>6, NoFilesFacts DEF Written
    <2>2. Held(p)'
        BY <1>1, <1>3, <1>4, EmptyFacts, NoFilesFacts DEF Local, Held
    <2>3. Prepared(p)'
        BY <1>1, <1>4, <1>6, EmptyFacts DEF Local, Prepared, Clean, Bare, Up
    <2> QED
        BY <2>1, <2>2, <2>3 DEF Local
<1>8. /\ rebuild' \in [Pods -> Pods \cup {"none", "true"}] /\ rebuild'[p] = "none"
      /\ \A q \in Pods \ {p} : rebuild'[q] = rebuild[q]
    BY <1>1 DEF Deleted, RestType
<1>9. leader' \in Pods \cup {"none"} /\ doomed' \subseteq Pods /\ unsaved' \subseteq Pods
    BY <1>1 DEF Deleted, RestType
<1> QED
    BY <1>2, <1>3, <1>4, <1>5, <1>6, <1>7, <1>8, <1>9

LEMMA EvictKeeps ==
    ASSUME PodInv, NEW p \in Pods, Evict(p)
    PROVE  PodInv'
<1>1. RestType
    BY TypeParts DEF PodInv
<1>2. /\ Up(p) /\ Deleted(p) /\ Fault /\ Void /\ labelled' = labelled \ {p}
      /\ UNCHANGED <<cfg, pending, rebuilds, torn>>
    BY DEF Evict
<1>3. /\ PodType' /\ DiskType' /\ FilesType' /\ OnlyPod(p) /\ Local(p)'
      /\ rebuild' \in [Pods -> Pods \cup {"none", "true"}] /\ rebuild'[p] = "none"
      /\ \A q \in Pods \ {p} : rebuild'[q] = rebuild[q]
      /\ leader' \in Pods \cup {"none"} /\ doomed' \subseteq Pods /\ unsaved' \subseteq Pods
    BY <1>2, DeletedFacts
<1>4. \A q \in Pods : rebuild'[q] # q
    BY <1>3, PodNames DEF PodInv, AskedFor
<1>5. \A q \in Pods : AskedFor(q)' /\ asked' \in [Pods -> Pods \cup {"none"}]
    BY <1>2, <1>4, VoidedAll
<1>6. RestType'
    BY <1>1, <1>2, <1>3, <1>5, FaultCount DEF RestType
<1> QED
    BY <1>3, <1>5, <1>6, Conclude

-----------------------------------------------------------------------------
(* AutoRebuild and DoRoRebuild.                                            *)
LEMMA AskRebuildKeeps ==
    ASSUME PodInv, NEW p \in Pods, NEW from \in {"true"} \cup (Pods \ (ReadOnly \cup {p})), AskRebuild(p, from)
    PROVE  PodInv'
<1>1. RestType
    BY TypeParts DEF PodInv
<1>2. /\ rebuilds < MaxRebuilds /\ rebuilds' = rebuilds + 1 /\ rebuild' = [rebuild EXCEPT ![p] = from]
      /\ UNCHANGED <<cfg, pod, disk, files, labelled, leader, pending, doomed, faults, torn, unsaved, asked>>
    BY DEF AskRebuild
<1>3. PodType' /\ DiskType' /\ FilesType' /\ \A q \in Pods : OnlyPod(q) /\ Local(q)'
    BY <1>2, LocalSame
<1>4. rebuilds' \in 0 .. MaxRebuilds
    BY <1>1, <1>2, PodsAssumption DEF RestType
<1>5. RestType'
    BY <1>1, <1>2, <1>4 DEF RestType
<1>6. \A q \in Pods : rebuild'[q] # q
    BY <1>1, <1>2, PodNames DEF PodInv, AskedFor, RestType
<1>7. \A q \in Pods : AskedFor(q)'
    BY <1>2, <1>6, AskedSame DEF PodInv
<1> QED
    BY <1>3, <1>5, <1>7, Conclude

LEMMA AutoRebuildKeeps ==
    ASSUME PodInv, NEW p \in Pods, AutoRebuild(p)
    PROVE  PodInv'
<1>1. RestType /\ AskedFor(p)
    BY TypeParts DEF PodInv
<1>2. /\ Up(p) /\ rebuild[p] # "none" /\ Deleted(p)
      /\ labelled' = (labelled \ {p}) \cup Named(p)
      /\ pending' = IF ClaimGoes(p) THEN pending \cup {p} ELSE pending
      /\ asked' = [q \in Pods |->
            IF q # p THEN IF Overtaken(q, p) THEN "none" ELSE asked[q]
            ELSE IF ClaimGoes(p) /\ Behind(rebuild[p]) # {} /\ labelled' = {rebuild[p]}
                 THEN rebuild[p] ELSE "none"]
      /\ UNCHANGED <<cfg, faults, rebuilds, torn>>
    BY DEF AutoRebuild
<1>3. /\ PodType' /\ DiskType' /\ FilesType' /\ OnlyPod(p) /\ Local(p)'
      /\ pod'[p].phase = "down" /\ \A q \in Pods \ {p} : pod'[q] = pod[q]
      /\ rebuild' \in [Pods -> Pods \cup {"none", "true"}] /\ rebuild'[p] = "none"
      /\ \A q \in Pods \ {p} : rebuild'[q] = rebuild[q]
      /\ leader' \in Pods \cup {"none"} /\ doomed' \subseteq Pods /\ unsaved' \subseteq Pods
    BY <1>2, DeletedFacts
<1>4. Named(p) \subseteq Pods
    BY DEF Named
<1>5. asked'[p] # "none" =>
          /\ asked'[p] = rebuild[p] /\ p \in pending' /\ labelled' = {rebuild[p]}
          /\ rebuild[p] \in Pods /\ rebuild[p] # p /\ pod'[rebuild[p]].phase = "up"
    <2> SUFFICES ASSUME asked'[p] # "none"
                 PROVE  /\ asked'[p] = rebuild[p] /\ p \in pending' /\ labelled' = {rebuild[p]}
                        /\ rebuild[p] \in Pods /\ rebuild[p] # p /\ pod'[rebuild[p]].phase = "up"
        OBVIOUS
    <2>1. asked'[p] = IF ClaimGoes(p) /\ Behind(rebuild[p]) # {} /\ labelled' = {rebuild[p]}
                      THEN rebuild[p] ELSE "none"
        BY <1>2
    <2>2. ClaimGoes(p) /\ Behind(rebuild[p]) # {} /\ labelled' = {rebuild[p]} /\ asked'[p] = rebuild[p]
        BY <2>1
    <2>3. rebuild[p] \in Pods
        BY <1>1, <1>2, <2>2, BehindFacts DEF RestType
    <2>4. Up(rebuild[p]) /\ rebuild[p] # p
        BY <1>1, <2>2, <2>3, BehindFacts DEF AskedFor
    <2> QED
        BY <1>2, <1>3, <2>2, <2>3, <2>4 DEF Up
<1>6. \A q \in Pods \ {p} : asked'[q] = IF Overtaken(q, p) THEN "none" ELSE asked[q]
    BY <1>2
<1>7. asked' \in [Pods -> Pods \cup {"none"}]
    <2>1. \A q \in Pods : asked'[q] \in Pods \cup {"none"}
        BY <1>1, <1>5, <1>6 DEF RestType
    <2>2. asked' = [q \in Pods |-> asked'[q]]
        BY <1>2
    <2> QED
        BY <2>1, <2>2
<1>8. RestType'
    <2>1. labelled' \subseteq Pods \cup {"foreign"} /\ pending' \subseteq Pods
        BY <1>1, <1>2, <1>4 DEF RestType
    <2> QED
        BY <1>1, <1>2, <1>3, <1>7, <2>1 DEF RestType
<1>9. AskedFor(p)'
    <2>1. rebuild'[p] # p
        BY <1>3, PodNames
    <2>2. Cloned(p)' /\ Fetched(p)'
        BY <1>3 DEF Cloned, Fetched
    <2> QED
        BY <1>3, <1>5, <2>1, <2>2 DEF AskedFor, Up
<1>10. ASSUME NEW q \in Pods, q # p PROVE AskedFor(q)'
    <2>1. AskedFor(q) /\ asked[q] \in Pods \cup {"none"} /\ rebuild'[q] = rebuild[q]
        BY <1>1, <1>3, <1>10 DEF PodInv, RestType
    <2>2. asked'[q] = asked[q] \/ asked'[q] = "none"
        BY <1>6, <1>10
    <2>3. asked'[q] # "none" => /\ Up(asked[q]) /\ ~Up(q) => pod'[asked[q]].phase = "up"
                                /\ pod[q].phase \in {"down", "clone"} /\ labelled = {asked[q]} => labelled' = labelled
                                /\ q \in pending => q \in pending'
        <3> SUFFICES ASSUME asked'[q] # "none"
                     PROVE  /\ Up(asked[q]) /\ ~Up(q) => pod'[asked[q]].phase = "up"
                            /\ pod[q].phase \in {"down", "clone"} /\ labelled = {asked[q]} => labelled' = labelled
                            /\ q \in pending => q \in pending'
            OBVIOUS
        <3>1. ~Overtaken(q, p) /\ asked[q] \in Pods
            BY <1>6, <1>10, <2>1
        <3>2. Up(asked[q]) /\ ~Up(q) => pod'[asked[q]].phase = "up"
            BY <1>3, <3>1 DEF Overtaken, Up
        <3>3. ASSUME pod[q].phase \in {"down", "clone"}, labelled = {asked[q]} PROVE labelled' = labelled
            <4>1. asked[q] # p /\ Named(p) \subseteq {asked[q]}
                BY <3>1, <3>3 DEF Overtaken, Up
            <4> QED
                BY <1>2, <3>3, <4>1
        <3> QED
            BY <1>2, <3>2, <3>3
    <2> QED
        BY <1>3, <1>10, <2>1, <2>2, <2>3, AskedOthers
<1> QED
    BY <1>3, <1>8, <1>9, <1>10, Conclude

LEMMA AutoRebuildFailsKeeps ==
    ASSUME PodInv, NEW p \in Pods, AutoRebuildFails(p) \/ DeleteClaimFails(p) \/ OtherCluster
    PROVE  PodInv'
<1>1. RestType
    BY TypeParts DEF PodInv
<1>2. /\ Fault /\ Void /\ UNCHANGED <<cfg, pod, disk, files, leader, rebuild, doomed, rebuilds, torn, unsaved>>
      /\ labelled' \subseteq labelled \cup Named(p) \cup {"foreign"} /\ pending' \subseteq pending
    BY DEF AutoRebuildFails, DeleteClaimFails, OtherCluster
<1>3. PodType' /\ DiskType' /\ FilesType' /\ \A q \in Pods : OnlyPod(q) /\ Local(q)'
    BY <1>2, LocalSame
<1>4. \A q \in Pods : AskedFor(q)' /\ asked' \in [Pods -> Pods \cup {"none"}]
    BY <1>2, VoidedAll DEF PodInv, AskedFor
<1>5. labelled' \subseteq Pods \cup {"foreign"} /\ pending' \subseteq Pods
    BY <1>1, <1>2 DEF RestType, Named
<1>6. RestType'
    BY <1>1, <1>2, <1>4, <1>5, FaultCount DEF RestType
<1> QED
    BY <1>3, <1>4, <1>6, Conclude

LEMMA DeleteClaimKeeps ==
    ASSUME PodInv, NEW p \in Pods, DeleteClaim(p)
    PROVE  PodInv'
<1>1. PodType /\ DiskType /\ FilesType /\ RestType /\ AskedFor(p) /\ Local(p)
    BY TypeParts DEF PodInv
<1>2. /\ pending' = pending \ {p}
      /\ UNCHANGED <<cfg, pod, files, labelled, leader, rebuild, faults, rebuilds, unsaved, asked>>
    BY DEF DeleteClaim
<1>3. ASSUME NEW q \in Pods, q # p, OnlyPod(p) PROVE AskedFor(q)'
    <2>1. AskedFor(q) /\ asked[q] \in Pods \cup {"none"}
        BY <1>1 DEF PodInv, RestType
    <2>2. asked[q] # "none" /\ Up(asked[q]) => pod'[asked[q]].phase = "up"
        BY <1>2 DEF Up
    <2>3. q \in pending => q \in pending'
        BY <1>2, <1>3
    <2> QED
        BY <1>2, <1>3, <2>1, <2>2, <2>3, AskedOthers
<1>4. CASE pod[p].phase = "down"
    <2>1. disk' = [disk EXCEPT ![p] = Empty] /\ torn' = torn \ {p} /\ doomed' = doomed
        BY <1>4 DEF DeleteClaim
    <2>2. DiskType' /\ disk'[p] = Empty /\ \A q \in Pods \ {p} : disk'[q] = disk[q]
        <3>1. DiskIs(p, Empty)
            BY <2>1 DEF DiskIs
        <3> QED
            BY <1>1, <3>1, EmptyFacts, DiskFacts
    <2>3. OnlyPod(p) /\ PodType' /\ FilesType' /\ RestType'
        BY <1>1, <1>2, <2>1, <2>2 DEF OnlyPod, PodType, FilesType, RestType
    <2>4. Local(p)'
        <3>1. Written(p)'
            BY <1>1, <1>2, <1>4, NoFilesFacts DEF Local, Held, Written
        <3>2. Held(p)'
            BY <1>1, <1>2, <1>4, <2>2, EmptyFacts, NoFilesFacts DEF Local, Held
        <3>3. Prepared(p)'
            BY <1>2, <1>4, <2>2, EmptyFacts DEF Prepared, Clean, Bare
        <3> QED
            BY <3>1, <3>2, <3>3 DEF Local
    <2>5. AskedFor(p)'
        <3>1. Bare(p)'
            BY <2>2, EmptyFacts DEF Bare
        <3>2. Cloned(p)' /\ Fetched(p)'
            BY <1>2, <1>4 DEF Cloned, Fetched
        <3> QED
            BY <1>1, <1>2, <1>4, <3>1, <3>2 DEF AskedFor, Up
    <2> QED
        BY <1>3, <2>2, <2>3, <2>4, <2>5, Conclude
<1>5. CASE pod[p].phase # "down"
    <2>1. disk' = disk /\ torn' = torn /\ doomed' = doomed \cup {p}
        BY <1>5 DEF DeleteClaim
    <2>2. PodType' /\ DiskType' /\ FilesType' /\ \A q \in Pods : OnlyPod(q) /\ Local(q)'
        BY <1>2, <2>1, LocalSame
    <2>3. RestType'
        BY <1>1, <1>2, <2>1 DEF RestType
    <2>4. AskedFor(p)'
        <3>1. (Cloned(p) => Cloned(p)') /\ (Fetched(p) => Fetched(p)')
            BY <1>2, <2>1 DEF Cloned, Fetched, Bare
        <3> QED
            BY <1>1, <1>2, <1>5, <2>1, <3>1 DEF AskedFor, Up, Bare
    <2> QED
        BY <1>3, <2>2, <2>3, <2>4, Conclude
<1> QED
    BY <1>4, <1>5

-----------------------------------------------------------------------------
(* The inductive invariant.                                                *)
LEMMA InitHolds == Init => PodInv
<1> SUFFICES ASSUME Init PROVE PodInv
    OBVIOUS
<1>1. /\ cfg \in Config
      /\ pod = [p \in Pods |-> Down] /\ disk = [p \in Pods |-> Empty] /\ files = [p \in Pods |-> NoFiles]
      /\ labelled = {} /\ pending = {} /\ doomed = {} /\ torn = {} /\ unsaved = {} /\ leader = "none"
      /\ rebuild = [p \in Pods |-> "none"] /\ asked = [p \in Pods |-> "none"]
      /\ faults \in 0..MaxFaults /\ rebuilds = 0
    BY ConfigsAssumption DEF Init, Config
<1>2. PodType /\ DiskType /\ FilesType
    BY <1>1, DownFacts, EmptyFacts, NoFilesFacts DEF PodType, DiskType, FilesType
<1>3. RestType
    BY <1>1, PodsAssumption DEF RestType
<1>4. TypeOK
    BY <1>2, <1>3 DEF TypeOK, PodType, DiskType, FilesType, RestType, PodRec, Disk, Files, Scripts
<1>5. ASSUME NEW p \in Pods PROVE Local(p) /\ AskedFor(p)
    <2>1. pod[p].phase = "down" /\ disk[p] = Empty /\ files[p] = NoFiles /\ asked[p] = "none" /\ rebuild[p] = "none"
        BY <1>1, DownFacts
    <2>2. Written(p) /\ Held(p) /\ Prepared(p)
        BY <2>1, EmptyFacts, NoFilesFacts DEF Written, Held, Prepared, Clean, Bare
    <2> QED
        BY <2>1, <2>2, PodNames DEF Local, AskedFor
<1> QED
    BY <1>4, <1>5 DEF PodInv

LEMMA NextKeeps == PodInv /\ [Next]_vars => PodInv'
<1> SUFFICES ASSUME PodInv, [Next]_vars PROVE PodInv'
    OBVIOUS
<1>1. ASSUME NEW p \in Pods, Step(p) PROVE PodInv'
    BY <1>1, CreateKeeps, RunCloneAndInitKeeps, DownloadKeeps, DownloadRefusedKeeps, ConfigureKeeps,
       RunClusterScriptKeeps, NFSRestoreKeeps, ExtractKeeps, PrepareKeeps, PrepareRefusedKeeps, EntryPointKeeps,
       RunScriptsKeeps, CloneRefusedKeeps DEF Step
<1>2. ASSUME NEW p \in Pods, Operator(p) PROVE PodInv'
    BY <1>2, AutoRebuildKeeps, DeleteClaimKeeps DEF Operator
<1>3. ASSUME NEW p \in Pods, Fails(p) PROVE PodInv'
    BY <1>3, ChoosesInFaultKeeps, DownloadBreaksKeeps, DownloadsNothingKeeps, SaveCnfFailsKeeps, InitFailsKeeps,
       PluginFailsKeeps, ScriptsFailKeeps, RebootKeeps, EvictKeeps, AutoRebuildFailsKeeps DEF Fails
<1>4. CASE UNCHANGED vars
    <2>1. UNCHANGED <<cfg, pod, disk, files, labelled, leader, rebuild, pending, doomed, faults, rebuilds, torn, unsaved, asked>>
        BY <1>4 DEF vars
    <2>2. PodType' /\ DiskType' /\ FilesType' /\ \A q \in Pods : Local(q)'
        BY <2>1, LocalSame
    <2>3. RestType'
        BY <2>1, TypeParts DEF PodInv, RestType
    <2>4. \A q \in Pods : AskedFor(q)'
        BY <2>1, AskedSame DEF PodInv, AskedFor
    <2> QED
        BY <2>2, <2>3, <2>4, TypeParts DEF PodInv
<1>5. CASE OtherCluster
    <2>1. CASE Pods = {}
        <3>1. /\ Fault /\ UNCHANGED <<cfg, pod, disk, files, leader, rebuild, pending, doomed, rebuilds, torn, unsaved>>
              /\ labelled' \subseteq labelled \cup {"foreign"} /\ asked' = [q \in Pods |-> "none"]
            BY <1>5 DEF OtherCluster, Void
        <3>2. PodType' /\ DiskType' /\ FilesType'
            BY <3>1, LocalSame
        <3>3. RestType
            BY TypeParts DEF PodInv
        <3>4. RestType'
            BY <3>1, <3>3, FaultCount DEF RestType
        <3> QED
            BY <2>1, <3>2, <3>4, TypeParts DEF PodInv
    <2>2. CASE Pods # {}
        BY <1>5, <2>2, AutoRebuildFailsKeeps
    <2> QED
        BY <2>1, <2>2
<1> QED
    BY <1>1, <1>2, <1>3, <1>4, <1>5, ElectKeeps, AskRebuildKeeps DEF Next

LEMMA Invariant == Spec => []PodInv
    BY InitHolds, NextKeeps, PTL DEF Spec

\* Every variable has its type in every reachable state.
THEOREM TypeCorrect == Spec => []TypeOK
<1>1. PodInv => TypeOK
    BY DEF PodInv
<1> QED
    BY <1>1, Invariant, PTL

\* What a pod serves was initialised, or copied or restored and then prepared, unless
\* one of its data steps was cut short, whatever fails and however often it starts over.
THEOREM ServesPrepared == Spec => []ServedPrepared
<1>1. PodInv => ServedPrepared
    BY DEF PodInv, ServedPrepared, Local, Prepared, Up, Clean
<1> QED
    BY <1>1, Invariant, PTL

LEMMA ServerIDsDiffer ==
    ASSUME RestType, NEW p \in Pods, NEW q \in Pods, p # q
    PROVE  ServerID(p) # ServerID(q)
<1> DEFINE base == (IF cfg.offset <= 0 THEN 100 ELSE cfg.offset) + (IF cfg.remote /\ cfg.offset <= 0 THEN 100 ELSE 0)
<1>1. base \in Nat
    BY DEF RestType, Config
<1>2. Ordinal[p] \in Nat /\ Ordinal[q] \in Nat
    BY PodsAssumption
<1>3. /\ ServerID(p) = base + (IF p \in ReadOnly THEN 100 ELSE 0) + Ordinal[p]
      /\ ServerID(q) = base + (IF q \in ReadOnly THEN 100 ELSE 0) + Ordinal[q]
    BY DEF ServerID
<1> HIDE DEF base
<1>4. CASE p \in ReadOnly <=> q \in ReadOnly
    <2>1. Ordinal[p] # Ordinal[q]
        BY <1>4, PodsAssumption
    <2> QED
        BY <1>1, <1>2, <1>3, <1>4, <2>1
<1>5. CASE p \in ReadOnly /\ q \notin ReadOnly
    <2>1. Ordinal[q] < 100
        BY <1>5, PodsAssumption
    <2> QED
        BY <1>1, <1>2, <1>3, <1>5, <2>1
<1>6. CASE p \notin ReadOnly /\ q \in ReadOnly
    <2>1. Ordinal[p] < 100
        BY <1>6, PodsAssumption
    <2> QED
        BY <1>1, <1>2, <1>3, <1>6, <2>1
<1> QED
    BY <1>4, <1>5, <1>6

\* The pods that are up and read an extra.cnf have server ids of their own (the read-only
\* ones are 100 apart from the others, which are fewer than that), and the others are
\* those whose files a step failed to save.
THEOREM IdentifiesPods == Spec => []Identified
<1>1. PodInv => Identified
    <2> SUFFICES ASSUME PodInv PROVE Identified
        OBVIOUS
    <2>1. RestType
        BY TypeParts DEF PodInv
    <2>2. ASSUME NEW p \in Pods, NEW q \in Pods, p # q, files[p].extra = "conf.d", files[q].extra = "conf.d"
          PROVE  files[p].id # files[q].id
        <3>1. files[p].id = ServerID(p) /\ files[q].id = ServerID(q)
            BY <2>2 DEF PodInv, Local, Written
        <3> QED
            BY <2>1, <2>2, <3>1, ServerIDsDiffer
    <2>3. ASSUME NEW p \in Pods, Up(p), files[p].extra # "conf.d" PROVE p \in unsaved
        BY <2>3 DEF PodInv, Local, Written, Up
    <2> QED
        BY <2>2, <2>3 DEF Identified
<1> QED
    BY <1>1, Invariant, PTL

\* A rebuilt pod holds a copy of the pod it was asked to copy, however many rebuilds
\* go on at a time, as long as none of them and no fault comes between.
THEOREM RebuildsFromAsked == Spec => []RebuiltFromAsked
<1>1. PodInv => RebuiltFromAsked
    BY DEF PodInv, RebuiltFromAsked, AskedFor, Cloned, Fetched, Up
<1> QED
    BY <1>1, Invariant, PTL

\* The data that a pod served is replaced only when its claim is deleted for a rebuild:
\* no init container overwrites it.
Remade(p) ==
    files[p].kept /\ disk[p].used /\ disk'[p].from # disk[p].from => p \in pending \cup doomed

LEMMA StepRemakes ==
    ASSUME PodInv, NEW q \in Pods, NEW p \in Pods, Step(p)
    PROVE  Remade(q)
<1> SUFFICES ASSUME files[q].kept, disk[q].used PROVE disk'[q].from = disk[q].from
    BY DEF Remade
<1>1. DiskType /\ disk[q] \in Disk
    BY TypeParts DEF PodInv, DiskType
<1>2. disk[q].state # "empty" /\ "clone" \notin files[q].scripts
    BY DEF PodInv, Local, Held
<1>3. CASE Create(p) \/ RunCloneAndInit(p) \/ DownloadRefused(p) \/ Configure(p) \/ PrepareRefused(p)
           \/ CloneRefused(p)
    BY <1>3 DEF Create, RunCloneAndInit, DownloadRefused, Configure, PrepareRefused, CloneRefused
<1>4. CASE Download(p)
    BY <1>1, <1>2, <1>4 DEF Download, DiskType
<1>5. CASE RunClusterScript(p)
    <2>1. PICK reached \in BOOLEAN :
              disk' = [disk EXCEPT ![p] =
                  CASE disk[p].state = "empty" /\ reached -> Data("applied", "remote")
                    [] disk[p].state = "raw" -> [disk[p] EXCEPT !.state = "applied"]
                    [] OTHER -> disk[p]]
        BY <1>5 DEF RunClusterScript
    <2>2. CASE q # p
        BY <1>1, <2>1, <2>2 DEF DiskType
    <2>3. CASE q = p
        <3>1. disk'[p] = disk[p] \/ disk'[p] = [disk[p] EXCEPT !.state = "applied"]
            BY <1>1, <1>2, <2>1, <2>3 DEF DiskType
        <3> QED
            BY <1>1, <2>3, <3>1 DEF Disk
    <2> QED
        BY <2>2, <2>3
<1>6. CASE NFSRestore(p)
    BY <1>1, <1>2, <1>6 DEF NFSRestore, DiskType
<1>7. CASE S3Restore(p) \/ RemoteSource(p)
    BY <1>1, <1>2, <1>7 DEF S3Restore, RemoteSource, Extract, DiskType
<1>8. CASE Prepare(p)
    BY <1>1, <1>8 DEF Prepare, DiskType, Disk
<1>9. CASE EntryPoint(p)
    BY <1>1, <1>2, <1>9 DEF EntryPoint, Initialised, DiskType
<1>10. CASE RunScripts(p)
    <2>1. CASE q # p
        BY <1>1, <1>10, <2>1 DEF RunScripts, DiskType
    <2>2. CASE q = p
        <3>1. disk' = [disk EXCEPT ![p].used = disk[p].dir]
            BY <1>2, <1>10, <2>2 DEF RunScripts
        <3> QED
            BY <1>1, <2>2, <3>1 DEF DiskType, Disk
    <2> QED
        BY <2>1, <2>2
<1> QED
    BY <1>3, <1>4, <1>5, <1>6, <1>7, <1>8, <1>9, <1>10 DEF Step

LEMMA OthersRemake ==
    ASSUME PodInv, NEW q \in Pods, NEW p \in Pods, Operator(p) \/ Fails(p)
    PROVE  Remade(q)
<1> SUFFICES ASSUME files[q].kept, disk[q].used, q \notin pending, q \notin doomed
             PROVE  disk'[q].from = disk[q].from
    BY DEF Remade
<1>1. DiskType /\ disk[q] \in Disk
    BY TypeParts DEF PodInv, DiskType
<1>2. disk[q].state # "empty"
    BY DEF PodInv, Local, Held
<1>3. CASE AutoRebuild(p) \/ Evict(p)
    BY <1>1, <1>3 DEF AutoRebuild, Evict, Deleted, DiskType
<1>4. CASE DeleteClaim(p)
    BY <1>1, <1>4 DEF DeleteClaim, DiskType
<1>5. CASE DownloadBreaks(p)
    BY <1>1, <1>2, <1>5 DEF DownloadBreaks, DiskType
<1>6. CASE \/ RemoveRebuildFromFails(p) \/ NoServiceSeen(p) \/ DownloadsNothing(p) \/ SaveCnfFails(p)
           \/ InitFails(p) \/ Reboot(p) \/ AutoRebuildFails(p) \/ DeleteClaimFails(p)
    BY <1>6 DEF RemoveRebuildFromFails, NoServiceSeen, DownloadsNothing, SaveCnfFails, InitFails, Reboot,
                AutoRebuildFails, DeleteClaimFails
<1>7. CASE PluginFails(p)
    BY <1>1, <1>2, <1>7 DEF PluginFails, Initialised, DiskType
<1>8. CASE ScriptsFail(p)
    <2>1. "clone" \notin files[q].scripts
        BY DEF PodInv, Local, Held
    <2> QED
        BY <1>1, <1>8, <2>1 DEF ScriptsFail, DiskType
<1> QED
    BY <1>3, <1>4, <1>5, <1>6, <1>7, <1>8 DEF Operator, Fails

\* No step that a pod made again on its claim goes through replaces the data it served.
THEOREM KeepsData == Spec => RemadeKeepsData
<1>1. PodInv /\ [Next]_vars => [\A p \in Pods : Remade(p)]_vars
    <2> SUFFICES ASSUME PodInv, Next PROVE \A p \in Pods : Remade(p)
        OBVIOUS
    <2>1. \A q, p \in Pods : Elect(p) => Remade(q)
        BY DEF Elect, Remade
    <2>2. \A q, p \in Pods : \A from : AskRebuild(p, from) => Remade(q)
        BY DEF AskRebuild, Remade
    <2>3. \A q \in Pods : OtherCluster => Remade(q)
        BY DEF OtherCluster, Remade
    <2> QED
        BY <2>1, <2>2, <2>3, StepRemakes, OthersRemake DEF Next
<1>2. [\A p \in Pods : Remade(p)]_vars <=>
          [\A p \in Pods : files[p].kept /\ disk[p].used /\ disk'[p].from # disk[p].from
               => p \in pending \cup doomed]_vars
    BY DEF Remade
<1> QED
    BY <1>1, <1>2, Invariant, PTL DEF Spec, RemadeKeepsData
=============================================================================
