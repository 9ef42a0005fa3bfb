------------------------ MODULE ClusterObjectsProofs ------------------------
(***************************************************************************)
(* Proofs about ClusterObjects, for any clusters of a namespace, whatever  *)
(* they specify and are changed to, and any number of faults: the types,   *)
(* and that the claims of a StatefulSet keep up with it.                   *)
(***************************************************************************)
EXTENDS ClusterObjects, FiniteSetTheorems, TLAPS

-----------------------------------------------------------------------------
(* What the syncers make has the type of its object.                       *)
LEMMA ShareNat ==
    ASSUME NEW mem \in Nat, NEW small \in Nat, NEW large \in Nat
    PROVE  (mem * small) \div 100 \in Nat /\ (mem * large) \div 100 \in Nat
<1>1. mem * small \in Nat /\ mem * large \in Nat
    OBVIOUS
<1>2. \A n \in Nat : n \div 100 \in Nat
    OBVIOUS
<1> QED
    BY <1>1, <1>2

LEMMA ConfType ==
    ASSUME NEW s \in Specification
    PROVE  EnsureMysqlConf(s) \in Conf /\ CalcInnodbParam(s) \in Conf
<1>1. /\ s.mem \in Nat /\ s.roMem \in Nat /\ s.pool \in Nat /\ s.cpus \in Nat /\ s.size \in Nat
    BY DEF Specification
<1>2. \A mem \in Nat : Share(mem, 45, 60) \in Nat /\ Share(mem, 60, 80) \in Nat
    BY ShareNat DEF Share
<1>3. \A a, b \in Nat : Least(a, b) \in Nat /\ Most(a, b) \in Nat
    BY DEF Least, Most
<1>4. \A p \in Nat : LogSize(p) \in Nat /\ p \div GiB \in Nat
    BY DEF LogSize, GiB
<1>5. ASSUME NEW p \in Nat PROVE Most(Least(s.cpus, p \div GiB), 1) \in Nat
    BY <1>1, <1>3, <1>4
<1>6. CalcInnodbParam(s) \in Conf
    <2>1. Most(Share(s.roMem, 45, 60), 128) \in Nat
        BY <1>1, <1>2, <1>3
    <2> QED
        BY <2>1, <1>4, <1>5 DEF CalcInnodbParam, Conf
<1>7. EnsureMysqlConf(s) \in Conf
    <2> DEFINE pool == IF s.pool = 0 THEN Most(Share(s.mem, 45, 60), 128)
                       ELSE Least(Most(s.pool, 128), Share(s.mem, 60, 80))
    <2>1. pool \in Nat
        BY <1>1, <1>2, <1>3
    <2>2. GiB \in Nat
        BY DEF GiB
    <2>3. EnsureMysqlConf(s) = [pool |-> pool, inst |-> Most(Least(s.cpus, pool \div GiB), 1),
              log |-> IF (s.size * GiB) \div 2 < LogSize(pool) THEN GiB ELSE LogSize(pool)]
        BY DEF EnsureMysqlConf
    <2> HIDE DEF pool
    <2>4. Most(Least(s.cpus, pool \div GiB), 1) \in Nat /\ LogSize(pool) \in Nat
        BY <2>1, <1>4, <1>5
    <2> QED
        BY <2>1, <2>2, <2>3, <2>4 DEF Conf
<1> QED
    BY <1>6, <1>7

LEMMA MutateType ==
    ASSUME NEW k \in Kinds \ Sets, NEW s \in Specification, NEW old \in Content(k) \cup {None}
    PROVE  Mutate(k, s, old) \in Content(k)
<1> USE DEF Mutate, Content
<1>1. CASE k = "mysqlCM"
    <2>1. s.pool \in Nat /\ EnsureMysqlConf(s) \in Conf /\ old \in [conf : Conf, owned : BOOLEAN] \cup {None}
        BY <1>1, ConfType DEF Specification
    <2>2. ASSUME old # None PROVE old.conf \in Conf /\ [old.conf EXCEPT !.pool = s.pool] \in Conf
        <3>1. old.conf \in Conf
            BY <2>1, <2>2
        <3> QED
            BY <2>1, <3>1 DEF Conf
    <2>3. CASE old = None
        BY <1>1, <2>1, <2>3 DEF NewMysqlCMSyncer
    <2>4. CASE old # None
        <3> PICK f \in Conf : NewMysqlCMSyncer(s, old) = [conf |-> f, owned |-> TRUE]
            BY <2>2, <2>4 DEF NewMysqlCMSyncer
        <3> QED
            BY <1>1
    <2> QED
        BY <2>3, <2>4
<1>2. CASE k = "secret"
    <2>1. s.root \in Names \cup {""} /\ (old # None => old.root \in Names \cup {"", "random"})
        BY <1>2 DEF Specification
    <2> QED
        BY <1>2, <2>1 DEF NewSecretSyncer
<1>3. CASE k = "pdb"
    <2>1. s.min \in Nat
        BY DEF Specification
    <2> QED
        BY <1>3, <2>1 DEF NewPDBSyncer
<1>4. CASE k = "xenonCM"
    BY <1>4 DEF NewXenonCMSyncer
<1>5. CASE k = "remoteCM"
    <2>1. {s.remote} \in SUBSET (Names \cup {""})
        BY DEF Specification
    <2> QED
        BY <1>5, <2>1 DEF NewRemoteClusterCMSyncer
<1>6. CASE k = "role"
    BY <1>6 DEF NewRoleSyncer
<1>7. CASE k \in {"roleBinding", "serviceAccount", "headless", "leader"}
    BY <1>7 DEF NewRoleBindingSyncer, NewServiceAccountSyncer, NewHeadlessSVCSyncer,
       NewLeaderSVCSyncer, Nodes
<1>8. CASE k \in {"roHeadless", "ro", "follower", "metrics"}
    BY <1>8 DEF NewHeadlessReadOnlySVCSyncer, NewReadOnlySVCSyncer, NewFollowerSVCSyncer,
       NewMetricsSVCSyncer, Nodes
<1> QED
    BY <1>1, <1>2, <1>3, <1>4, <1>5, <1>6, <1>7, <1>8 DEF Kinds, Sets

LEMMA SyncersType == ASSUME NEW s \in Specification PROVE Syncers(s) \in Seq(Steps)
<1> DEFINE a == <<"mysqlCM", "secret", "services", "role", "roleBinding", "serviceAccount", "headless">>
           b == <<"sfs", "readOnly", "pdb", "xenonCM">>
<1>1. a \in Seq(Steps) /\ b \in Seq(Steps)
    BY DEF Steps, Kinds
<1>2. /\ When(~s.maintain, <<"leader">>) \in Seq(Steps)
      /\ When(s.ro > 0, <<"roHeadless", "ro">>) \in Seq(Steps)
      /\ When(s.replicas # 1, <<"follower">>) \in Seq(Steps)
      /\ When(s.remote # "", <<"remoteCM">>) \in Seq(Steps)
      /\ When(s.metrics, <<"metrics">>) \in Seq(Steps)
    <2>1. /\ <<"leader">> \in Seq(Steps) /\ <<"roHeadless", "ro">> \in Seq(Steps)
          /\ <<"follower">> \in Seq(Steps) /\ <<"remoteCM">> \in Seq(Steps) /\ <<"metrics">> \in Seq(Steps)
          /\ <<>> \in Seq(Steps)
        BY DEF Steps, Kinds
    <2> HIDE DEF Steps
    <2> QED
        BY <2>1 DEF When
<1>3. \A t, u \in Seq(Steps) : t \o u \in Seq(Steps)
    OBVIOUS
<1>4. Syncers(s) = a \o When(~s.maintain, <<"leader">>) \o When(s.ro > 0, <<"roHeadless", "ro">>)
                   \o When(s.replicas # 1, <<"follower">>) \o b
                   \o When(s.remote # "", <<"remoteCM">>) \o When(s.metrics, <<"metrics">>)
    BY DEF Syncers
<1> HIDE DEF a, b
<1> QED
    <2>1. a \o When(~s.maintain, <<"leader">>) \in Seq(Steps)
        BY <1>1, <1>2, <1>3
    <2>2. a \o When(~s.maintain, <<"leader">>) \o When(s.ro > 0, <<"roHeadless", "ro">>) \in Seq(Steps)
        BY <2>1, <1>2, <1>3
    <2>3. a \o When(~s.maintain, <<"leader">>) \o When(s.ro > 0, <<"roHeadless", "ro">>)
          \o When(s.replicas # 1, <<"follower">>) \in Seq(Steps)
        BY <2>2, <1>2, <1>3
    <2>4. a \o When(~s.maintain, <<"leader">>) \o When(s.ro > 0, <<"roHeadless", "ro">>)
          \o When(s.replicas # 1, <<"follower">>) \o b \in Seq(Steps)
        BY <2>3, <1>1, <1>3
    <2>5. a \o When(~s.maintain, <<"leader">>) \o When(s.ro > 0, <<"roHeadless", "ro">>)
          \o When(s.replicas # 1, <<"follower">>) \o b \o When(s.remote # "", <<"remoteCM">>) \in Seq(Steps)
        BY <2>4, <1>2, <1>3
    <2> QED
        BY <2>5, <1>2, <1>3, <1>4

(***************************************************************************)
(* EnsureMysqlConf keeps the buffer pool between 128 MiB and four fifths   *)
(* of the memory, for every memory of at least 256 MiB and whatever pool   *)
(* is asked for: it is only the later passes that write a pool as it is    *)
(* given (EnsureMysqlConf, NewMysqlCMSyncer).                              *)
(***************************************************************************)
THEOREM PoolBounded ==
    ASSUME NEW s \in Specification, s.mem >= 256
    PROVE  EnsureMysqlConf(s).pool \in 128 .. ((s.mem * 8) \div 10)
<1>1. s.mem \in Nat /\ s.pool \in Nat
    BY DEF Specification
<1>2. /\ 128 <= (s.mem * 8) \div 10 /\ 128 <= Share(s.mem, 60, 80)
      /\ Share(s.mem, 45, 60) <= (s.mem * 8) \div 10
      /\ Share(s.mem, 60, 80) <= (s.mem * 8) \div 10
      /\ Share(s.mem, 45, 60) \in Nat /\ Share(s.mem, 60, 80) \in Nat
    BY <1>1 DEF Share, GiB
<1>3. (s.mem * 8) \div 10 \in Nat
    BY <1>1
<1>4. EnsureMysqlConf(s).pool = IF s.pool = 0 THEN Most(Share(s.mem, 45, 60), 128)
                                ELSE Least(Most(s.pool, 128), Share(s.mem, 60, 80))
    BY DEF EnsureMysqlConf
<1> QED
    BY <1>1, <1>2, <1>3, <1>4 DEF Most, Least

-----------------------------------------------------------------------------
(* The pass.                                                               *)
Todo == Seq(Steps) \cup {<<"expand">>, <<"finalizer">>}
Expanding(c) == job # None /\ job.c = c /\ job.todo = <<"expand">>

LEMMA StepsNotExpand == ASSUME NEW t \in Seq(Steps) PROVE t # <<"expand">> /\ t # <<"finalizer">>
<1>1. "expand" \notin Steps /\ "finalizer" \notin Steps
    BY DEF Steps, Kinds
<1> HIDE DEF Steps
<1> QED
    BY <1>1

LEMMA AtStep ==
    ASSUME TypeOK, NEW k \in Steps, At(k)
    PROVE  /\ job # None /\ job \in Job /\ job.todo \in Seq(Steps) /\ Tail(job.todo) \in Seq(Steps)
           /\ job.todo # <<"expand">> /\ Tail(job.todo) # <<"expand">>
<1>1. job # None /\ job \in Job /\ job.todo # <<>> /\ Head(job.todo) = k
    BY DEF At, TypeOK
<1>2. job.todo \in Todo
    BY <1>1 DEF Job, Todo
<1>3. k # "expand" /\ k # "finalizer"
    BY DEF Steps, Kinds
<1>4. Head(<<"expand">>) = "expand" /\ Head(<<"finalizer">>) = "finalizer"
    OBVIOUS
<1>5. job.todo \in Seq(Steps)
    BY <1>1, <1>2, <1>3, <1>4 DEF Todo
<1>6. Tail(job.todo) \in Seq(Steps)
    <2> HIDE DEF Steps
    <2> QED
        BY <1>1, <1>5
<1> QED
    BY <1>1, <1>5, <1>6, StepsNotExpand

LEMMA AtEnd ==
    ASSUME TypeOK, NEW k \in {"expand", "finalizer"}, At(k)
    PROVE  job # None /\ job \in Job /\ job.todo = <<k>> /\ Tail(job.todo) = <<>>
<1>1. job # None /\ job \in Job /\ job.todo # <<>> /\ Head(job.todo) = k
    BY DEF At, TypeOK
<1>2. job.todo \in Todo
    BY <1>1 DEF Job, Todo
<1>3. job.todo \notin Seq(Steps)
    <2>1. k \notin Steps
        BY DEF Steps, Kinds
    <2> HIDE DEF Steps
    <2> QED
        BY <1>1, <2>1
<1>4. Head(<<"expand">>) = "expand" /\ Head(<<"finalizer">>) = "finalizer"
    OBVIOUS
<1>5. job.todo = <<k>>
    BY <1>1, <1>2, <1>3, <1>4 DEF Todo
<1> QED
    BY <1>1, <1>5

LEMMA GotoFacts ==
    ASSUME job \in Job, NEW t \in Todo, Goto(t)
    PROVE  /\ job' \in Job /\ job'.c = job.c /\ job'.s = job.s /\ job'.left = job.left
           /\ job'.ready = job.ready /\ job'.todo = t
    BY DEF Job, Goto, Todo

(* The ordinary objects are a prefix of what is left to do.                *)
LEMMA OrdinaryPrefix ==
    ASSUME TypeOK, job # None, Ordinary # {}
    PROVE  /\ job.todo \in Seq(Steps) /\ Cardinality(Ordinary) \in 1 .. Len(job.todo)
           /\ \A i \in 1 .. Cardinality(Ordinary) : i \in Ordinary
<1>1. job \in Job /\ job.todo \in Todo
    BY DEF TypeOK, Job, Todo
<1>2. PICK x \in Ordinary : TRUE
    OBVIOUS
<1>3. job.todo[1] \in Kinds \ Sets /\ Len(job.todo) \in Nat
    <2>1. Len(job.todo) \in Nat
        <3> HIDE DEF Steps
        <3> QED
            BY <1>1 DEF Todo
    <2> QED
        BY <1>2, <2>1 DEF Ordinary
<1>4. job.todo \in Seq(Steps)
    BY <1>1, <1>3 DEF Todo, Kinds
<1> DEFINE L == Len(job.todo)
           n == Cardinality(Ordinary)
<1>5. IsFiniteSet(Ordinary) /\ n \in Nat /\ n <= L
    <2>1. IsFiniteSet(1 .. L) /\ Cardinality(1 .. L) = L
        BY <1>3, FS_Interval
    <2>2. Ordinary \subseteq 1 .. L
        BY DEF Ordinary
    <2> QED
        BY <2>1, <2>2, FS_Subset, FS_CardinalityType
<1>6. n # 0
    BY <1>5, FS_EmptySet
<1>7. ASSUME NEW i \in 1 .. n, i \notin Ordinary PROVE FALSE
    <2>1. i \in 1 .. L
        BY <1>3, <1>5
    <2>2. Ordinary \subseteq 1 .. (i - 1)
        <3> SUFFICES ASSUME NEW j \in Ordinary PROVE j \in 1 .. (i - 1)
            OBVIOUS
        <3>1. /\ j \in 1 .. L
              /\ \A m \in 1 .. j : job.todo[m] \in Kinds \ Sets /\ ~Fails(job.todo[m], job.s)
            BY DEF Ordinary
        <3>2. PICK m \in 1 .. i : ~(job.todo[m] \in Kinds \ Sets /\ ~Fails(job.todo[m], job.s))
            BY <1>7, <2>1 DEF Ordinary
        <3>3. m \notin 1 .. j
            BY <3>1, <3>2
        <3> HIDE DEF L
        <3> QED
            BY <3>1, <3>2, <3>3, <2>1, <1>3 DEF L
    <2>3. IsFiniteSet(1 .. (i - 1)) /\ Cardinality(1 .. (i - 1)) = i - 1
        <3>1. i \in Int /\ i - 1 \in Int /\ i >= 1
            BY <1>5
        <3>2. /\ IsFiniteSet(1 .. (i - 1))
              /\ Cardinality(1 .. (i - 1)) = IF 1 > i - 1 THEN 0 ELSE (i - 1) - 1 + 1
            BY <3>1, FS_Interval
        <3> HIDE DEF L, n
        <3> QED
            BY <3>1, <3>2
    <2>4. n <= i - 1
        BY <2>2, <2>3, FS_Subset
    <2> QED
        BY <2>4, <1>5
<1> QED
    BY <1>3, <1>4, <1>5, <1>6, <1>7

-----------------------------------------------------------------------------
(* Objects.                                                                *)
Objects(new) ==
    /\ DOMAIN new = Clusters
    /\ \A c \in Clusters : DOMAIN new[c] = Kinds /\ \A k \in Kinds : new[c][k] \in Content(k) \cup {None}
SetsKept(new) == \A c \in Clusters, k \in Sets : new[c][k] = objs[c][k]

LEMMA SetsAreKinds == Sets \subseteq Kinds
    BY DEF Sets, Kinds

LEMMA WithFacts ==
    ASSUME Objects(objs), NEW c \in Clusters, NEW k \in Kinds, NEW v
    PROVE  /\ With(c, k, v)[c][k] = v
           /\ \A d \in Clusters, j \in Kinds : d # c \/ j # k => With(c, k, v)[d][j] = objs[d][j]
           /\ v \in Content(k) \cup {None} => Objects(With(c, k, v))
<1>1. With(c, k, v) = [objs EXCEPT ![c] = [objs[c] EXCEPT ![k] = v]]
    BY DEF With
<1>2. DOMAIN With(c, k, v) = Clusters
    BY <1>1 DEF Objects
<1>3. \A d \in Clusters : d # c => With(c, k, v)[d] = objs[d]
    BY <1>1 DEF Objects
<1>4. With(c, k, v)[c] = [objs[c] EXCEPT ![k] = v]
    BY <1>1 DEF Objects
<1> HIDE DEF With
<1>5. /\ DOMAIN With(c, k, v)[c] = Kinds /\ With(c, k, v)[c][k] = v
      /\ \A j \in Kinds : j # k => With(c, k, v)[c][j] = objs[c][j]
    BY <1>4 DEF Objects
<1> QED
    BY <1>2, <1>3, <1>5 DEF Objects

LEMMA SyncedFacts ==
    ASSUME TypeOK, job # None, NEW n \in Nat,
           \A i \in 1 .. n : job.todo[i] \in Kinds \ Sets
    PROVE  Objects(Synced(n)) /\ SetsKept(Synced(n))
<1> DEFINE row == [k \in Kinds |-> IF \E i \in 1 .. n : job.todo[i] = k
                                  THEN Mutate(k, job.s, objs[job.c][k]) ELSE objs[job.c][k]]
<1>1. job.c \in Clusters /\ job.s \in Specification
    BY DEF TypeOK, Job
<1>2. Objects(objs)
    BY DEF TypeOK, Objects
<1>3. Synced(n) = [objs EXCEPT ![job.c] = row]
    BY DEF Synced
<1>4. \A k \in Kinds : row[k] \in Content(k) \cup {None}
    <2> SUFFICES ASSUME NEW k \in Kinds PROVE row[k] \in Content(k) \cup {None}
        OBVIOUS
    <2>1. objs[job.c][k] \in Content(k) \cup {None}
        BY <1>1, <1>2 DEF Objects
    <2>2. CASE \E i \in 1 .. n : job.todo[i] = k
        <3>1. k \in Kinds \ Sets
            BY <2>2
        <3>2. row[k] = Mutate(k, job.s, objs[job.c][k])
            BY <2>2
        <3> HIDE DEF row
        <3> QED
            BY <1>1, <2>1, <3>1, <3>2, MutateType
    <2>3. CASE ~\E i \in 1 .. n : job.todo[i] = k
        <3>1. row[k] = objs[job.c][k]
            BY <2>3
        <3> QED
            BY <2>1, <3>1
    <2> QED
        BY <2>2, <2>3
<1>5. \A k \in Sets : row[k] = objs[job.c][k]
    BY SetsAreKinds
<1>6. DOMAIN row = Kinds
    OBVIOUS
<1> HIDE DEF row
<1>7. Objects(Synced(n))
    BY <1>1, <1>2, <1>3, <1>4, <1>6 DEF Objects
<1>8. SetsKept(Synced(n))
    BY <1>1, <1>2, <1>3, <1>5 DEF SetsKept, Objects
<1> QED
    BY <1>7, <1>8

LEMMA StoreQueue ==
    ASSUME queue \subseteq Clusters, NEW new, Store(new)
    PROVE  objs' = new /\ queue' \subseteq Clusters
    BY DEF Store, Owns

ClaimsType ==
    /\ DOMAIN claims = Clusters
    /\ \A c \in Clusters :
          /\ DOMAIN claims[c] = Sets
          /\ \A k \in Sets : DOMAIN claims[c][k] \subseteq Nat /\ claims[c][k] \in [DOMAIN claims[c][k] -> Nat]

SetClaims(c, k, f) == [claims EXCEPT ![c] = [claims[c] EXCEPT ![k] = f]]

LEMMA ClaimsWith ==
    ASSUME ClaimsType, NEW c \in Clusters, NEW k \in Sets, NEW D \in SUBSET Nat, NEW f \in [D -> Nat],
           claims' = SetClaims(c, k, f)
    PROVE  /\ ClaimsType' /\ claims'[c][k] = f
           /\ \A d \in Clusters, j \in Sets : d # c \/ j # k => claims'[d][j] = claims[d][j]
<1>1. DOMAIN claims' = Clusters /\ \A d \in Clusters : d # c => claims'[d] = claims[d]
    BY DEF ClaimsType, SetClaims
<1>2. claims'[c] = [claims[c] EXCEPT ![k] = f]
    BY DEF ClaimsType, SetClaims
<1>3. /\ DOMAIN claims'[c] = Sets /\ claims'[c][k] = f
      /\ \A j \in Sets : j # k => claims'[c][j] = claims[c][j]
    BY <1>2 DEF ClaimsType
<1>4. \A d \in Clusters, j \in Sets : d # c \/ j # k => claims'[d][j] = claims[d][j]
    BY <1>1, <1>3
<1>5. ClaimsType'
    <2>1. ASSUME NEW d \in Clusters PROVE DOMAIN claims'[d] = Sets
        BY <1>1, <1>3 DEF ClaimsType
    <2>2. ASSUME NEW d \in Clusters, NEW j \in Sets
          PROVE  DOMAIN claims'[d][j] \subseteq Nat /\ claims'[d][j] \in [DOMAIN claims'[d][j] -> Nat]
        <3>1. CASE d = c /\ j = k
            <4>1. DOMAIN f = D
                OBVIOUS
            <4> QED
                BY <1>3, <3>1, <4>1
        <3>2. CASE ~(d = c /\ j = k)
            BY <1>4, <3>2 DEF ClaimsType
        <3> QED
            BY <3>1, <3>2
    <2> QED
        BY <1>1, <2>1, <2>2 DEF ClaimsType
<1> QED
    BY <1>3, <1>4, <1>5

-----------------------------------------------------------------------------
(***************************************************************************)
(* The inductive invariant. Claims are only resized while their            *)
(* StatefulSet is deleted, so the size that ClaimsKeepUp speaks of is not  *)
(* there to compare with in between: the pass at work promises that the    *)
(* claims it has done are as large as it was asked for (ExpandInv), and    *)
(* what it leaves is at least what the specification asks for, as the      *)
(* StatefulSet will be made from it (SfsGone). A read-only StatefulSet is  *)
(* deleted together with its claims, or it is torn (RoGone).               *)
(***************************************************************************)
\* Only an expansion has claims to resize, and the job of a cluster that is gone has
\* nothing left to do.
LeftInv ==
    job # None => /\ job.left # {} => job.todo = <<"expand">>
                  /\ phase[job.c] = "gone" => job.todo = <<>>

\* While claims are resized there is no StatefulSet, and those that were resized are
\* as large as the pass asks for.
ExpandInv ==
    \A c \in Clusters : Expanding(c) =>
        /\ objs[c]["sfs"] = None
        /\ \A o \in DOMAIN claims[c]["sfs"] \ job.left : claims[c]["sfs"][o] >= job.s.size

\* The claims of a StatefulSet that is to be made are large enough for it.
SfsGone(c) ==
    objs[c]["sfs"] = None /\ <<c, "sfs">> \notin torn /\ ~Expanding(c) =>
        \A o \in DOMAIN claims[c]["sfs"] :
            /\ claims[c]["sfs"][o] >= spec[c].size
            /\ job # None /\ job.c = c => claims[c]["sfs"][o] >= job.s.size

RoGone(c) == objs[c]["roSfs"] = None /\ <<c, "roSfs">> \notin torn => DOMAIN claims[c]["roSfs"] = {}

KeepsUp(c) ==
    \A k \in Sets : objs[c][k] # None /\ <<c, k>> \notin torn =>
        \A o \in DOMAIN claims[c][k] : claims[c][k][o] >= objs[c][k].size

ClaimsFit(c) == SfsGone(c) /\ RoGone(c) /\ KeepsUp(c)

\* What the claims have to do with the rest.
ClaimsInv == TypeOK /\ LeftInv /\ ExpandInv /\ \A c \in Clusters : ClaimsFit(c)

-----------------------------------------------------------------------------
\* The parts of TypeOK that no proof but the types' is about.
RestType ==
    /\ phase \in [Clusters -> {"live", "deleting", "gone"}]
    /\ spec \in [Clusters -> Specification]
    /\ ready \subseteq Clusters /\ backups \subseteq Clusters
    /\ queue \subseteq Clusters /\ torn \subseteq Clusters \X Sets
    /\ events \in 0..MaxEvents
JobType ==
    /\ job \in Job \cup {None}
    /\ job # None => job.left \subseteq DOMAIN claims[job.c]["sfs"]

LEMMA TypeParts ==
    /\ TypeOK => RestType /\ Objects(objs) /\ ClaimsType /\ JobType
    /\ RestType' /\ Objects(objs') /\ ClaimsType' /\ JobType' => TypeOK'
    BY DEF TypeOK, RestType, Objects, ClaimsType, JobType

\* A cluster whose StatefulSets and claims a step leaves alone.
LEMMA Untouched ==
    ASSUME ClaimsInv, NEW c \in Clusters,
           \A k \in Sets : objs'[c][k] = objs[c][k] /\ claims'[c][k] = claims[c][k],
           spec'[c] = spec[c], torn \subseteq torn', Expanding(c) => Expanding(c)',
           job' # None /\ job'.c = c => \/ job'.s = spec[c]
                                        \/ job # None /\ job.c = c /\ job'.s = job.s
    PROVE  ClaimsFit(c)'
<1>1. ClaimsFit(c) /\ "sfs" \in Sets /\ "roSfs" \in Sets
    BY DEF ClaimsInv, Sets
<1>2. SfsGone(c)'
    BY <1>1 DEF ClaimsFit, SfsGone
<1>3. RoGone(c)'
    BY <1>1 DEF ClaimsFit, RoGone
<1>4. KeepsUp(c)'
    BY <1>1 DEF ClaimsFit, KeepsUp
<1> QED
    BY <1>2, <1>3, <1>4 DEF ClaimsFit

\* A step outside an expansion that touches neither StatefulSets nor claims.
LEMMA Quiet ==
    ASSUME ClaimsInv, RestType', Objects(objs'), SetsKept(objs'), UNCHANGED <<spec, claims, torn>>,
           job # None => job.todo # <<"expand">>,
           job' # None => /\ job' \in Job /\ job'.left = {} /\ job'.todo # <<"expand">>
                          /\ phase'[job'.c] = "gone" => job'.todo = <<>>
                          /\ \/ job'.s = spec[job'.c]
                             \/ job # None /\ job'.c = job.c /\ job'.s = job.s
    PROVE  ClaimsInv'
<1>1. TypeOK'
    <2>1. ClaimsType'
        BY TypeParts DEF ClaimsInv, ClaimsType
    <2>2. JobType'
        BY DEF JobType
    <2> QED
        BY <2>1, <2>2, TypeParts
<1>2. LeftInv' /\ ExpandInv'
    BY DEF LeftInv, ExpandInv, Expanding
<1>3. \A c \in Clusters : ClaimsFit(c)'
    <2> SUFFICES ASSUME NEW c \in Clusters PROVE ClaimsFit(c)'
        OBVIOUS
    <2>1. \A k \in Sets : objs'[c][k] = objs[c][k] /\ claims'[c][k] = claims[c][k]
        BY DEF SetsKept
    <2>2. ~Expanding(c)
        BY DEF Expanding
    <2>3. job' # None /\ job'.c = c => \/ job'.s = spec[c]
                                       \/ job # None /\ job.c = c /\ job'.s = job.s
        OBVIOUS
    <2> QED
        BY <2>1, <2>2, <2>3, Untouched
<1> QED
    BY <1>1, <1>2, <1>3 DEF ClaimsInv

-----------------------------------------------------------------------------
(* Each step keeps the invariant.                                          *)
LEMMA ReconcileKeeps ==
    ASSUME ClaimsInv, NEW c \in Clusters, Reconcile(c)
    PROVE  ClaimsInv'
<1>1. TypeOK /\ RestType /\ Objects(objs)
    BY TypeParts DEF ClaimsInv
<1>2. spec[c] \in Specification /\ Syncers(spec[c]) \in Seq(Steps)
    BY <1>1, SyncersType DEF RestType
<1>3. RestType' /\ Objects(objs') /\ SetsKept(objs')
    BY <1>1 DEF Reconcile, RestType, SetsKept
<1>4. job' # None => /\ job'.c = c /\ job'.s = spec[c] /\ job'.left = {} /\ phase[c] # "gone"
                     /\ job' \in Job /\ job'.todo # <<"expand">>
    <2>1. CASE phase[c] = "live"
        <3>1. job' = [c |-> c, s |-> spec[c], ready |-> c \in ready, todo |-> Syncers(spec[c]), left |-> {}]
            BY <2>1 DEF Reconcile
        <3>2. (c \in ready) \in BOOLEAN
            OBVIOUS
        <3> QED
            BY <2>1, <3>1, <3>2, <1>2, StepsNotExpand DEF Job
    <2>2. CASE phase[c] = "deleting"
        <3>1. job' = [c |-> c, s |-> spec[c], ready |-> FALSE, todo |-> <<"finalizer">>, left |-> {}]
            BY <2>2 DEF Reconcile
        <3> QED
            BY <2>2, <3>1, <1>2 DEF Job
    <2>3. CASE phase[c] = "gone"
        <3>1. job' = None
            BY <2>3 DEF Reconcile
        <3> QED
            BY <3>1
    <2> QED
        BY <2>1, <2>2, <2>3, <1>1 DEF RestType
<1>5. job = None /\ UNCHANGED <<phase, spec, claims, torn>>
    BY DEF Reconcile
<1> QED
    BY <1>3, <1>4, <1>5, Quiet

\* A job whose list gets shorter, outside an expansion.
LEMMA Shorter ==
    ASSUME ClaimsInv, job # None, job.todo # <<"expand">>, job.todo # <<>>,
           NEW t \in Seq(Steps), Goto(t), UNCHANGED phase
    PROVE  /\ job' \in Job /\ job'.left = {} /\ job'.todo # <<"expand">>
           /\ phase'[job'.c] = "gone" => job'.todo = <<>>
           /\ job'.c = job.c /\ job'.s = job.s
<1>1. job \in Job /\ job.left = {} /\ phase[job.c] # "gone"
    BY DEF ClaimsInv, LeftInv, TypeOK
<1>2. t \in Todo
    BY DEF Todo
<1>3. /\ job' \in Job /\ job'.c = job.c /\ job'.s = job.s /\ job'.left = job.left /\ job'.todo = t
    BY <1>1, <1>2, GotoFacts
<1> QED
    BY <1>1, <1>3, StepsNotExpand

LEMMA SyncObjectsKeeps ==
    ASSUME ClaimsInv, SyncObjects
    PROVE  ClaimsInv'
<1> DEFINE n == Cardinality(Ordinary)
           t == SubSeq(job.todo, n + 1, Len(job.todo))
<1>1. TypeOK /\ RestType /\ job # None /\ Ordinary # {}
    BY TypeParts DEF ClaimsInv, SyncObjects
<1>2. job.todo \in Seq(Steps) /\ n \in 1 .. Len(job.todo) /\ \A i \in 1 .. n : i \in Ordinary
    BY <1>1, OrdinaryPrefix
<1>3. n \in Nat /\ Len(job.todo) \in Nat
    <2> HIDE DEF Steps
    <2>1. Len(job.todo) \in Nat
        BY <1>2
    <2> QED
        BY <1>2, <2>1
<1>4. \A i \in 1 .. n : job.todo[i] \in Kinds \ Sets
    <2>1. \A i \in Ordinary : job.todo[i] \in Kinds \ Sets
        BY <1>3 DEF Ordinary
    <2> QED
        BY <1>2, <2>1
<1>5. t \in Seq(Steps) /\ job.todo # <<>> /\ job.todo # <<"expand">>
    <2>1. job.todo # <<"expand">>
        BY <1>2, StepsNotExpand
    <2> HIDE DEF Steps, n
    <2> QED
        BY <1>2, <1>3, <2>1
<1>6. Store(Synced(n)) /\ Goto(t) /\ UNCHANGED <<phase, spec, ready, claims, backups, events, torn>>
    BY DEF SyncObjects
<1> HIDE DEF n, t
<1>7. Objects(Synced(n)) /\ SetsKept(Synced(n))
    BY <1>1, <1>3, <1>4, SyncedFacts
<1>8. objs' = Synced(n) /\ queue' \subseteq Clusters
    BY <1>1, <1>6, StoreQueue DEF RestType
<1>9. RestType'
    BY <1>1, <1>6, <1>8 DEF RestType
<1>10. Objects(objs') /\ SetsKept(objs')
    BY <1>7, <1>8
<1>11. /\ job' \in Job /\ job'.left = {} /\ job'.todo # <<"expand">>
       /\ phase'[job'.c] = "gone" => job'.todo = <<>>
       /\ job'.c = job.c /\ job'.s = job.s
    BY <1>1, <1>5, <1>6, Shorter
<1> QED
    BY <1>1, <1>5, <1>6, <1>9, <1>10, <1>11, Quiet

LEMMA SyncFailsKeeps ==
    ASSUME ClaimsInv, SyncFails
    PROVE  ClaimsInv'
<1>1. TypeOK /\ RestType /\ job # None
    BY TypeParts DEF ClaimsInv, SyncFails
<1>2. PICK m \in Ordinary : objs' = Synced(m - 1)
    BY DEF SyncFails
<1>3. job.todo \in Seq(Steps) /\ Len(job.todo) \in Nat
    <2>1. job.todo \in Seq(Steps)
        BY <1>1, <1>2, OrdinaryPrefix
    <2> HIDE DEF Steps
    <2> QED
        BY <2>1
<1>4. m - 1 \in Nat /\ \A i \in 1 .. (m - 1) : job.todo[i] \in Kinds \ Sets
    BY <1>2, <1>3 DEF Ordinary
<1>5. Objects(objs') /\ SetsKept(objs')
    BY <1>1, <1>2, <1>4, SyncedFacts
<1>6. /\ job' = None /\ events' \in 0 .. MaxEvents /\ queue' \subseteq Clusters
      /\ UNCHANGED <<phase, spec, ready, claims, backups, torn>>
    <2>1. job.c \in Clusters
        BY <1>1 DEF TypeOK, Job
    <2> QED
        BY <1>1, <2>1, BoundsAssumption DEF SyncFails, Event, Existing, RestType
<1>7. RestType'
    BY <1>1, <1>6 DEF RestType
<1>8. job.todo # <<"expand">>
    BY <1>3, StepsNotExpand
<1> QED
    BY <1>5, <1>6, <1>7, <1>8, Quiet

LEMMA DeleteServicesKeeps ==
    ASSUME ClaimsInv, DeleteServices
    PROVE  ClaimsInv'
<1> DEFINE new == [c \in Clusters |-> [k \in Kinds |-> IF k \in Unwanted(job.s) THEN None ELSE objs[c][k]]]
<1>1. TypeOK /\ RestType /\ Objects(objs)
    BY TypeParts DEF ClaimsInv
<1>2. At("services") /\ Goto(Tail(job.todo)) /\ Store(new)
    BY DEF DeleteServices, Done
<1>3. UNCHANGED <<phase, spec, ready, claims, backups, events, torn>>
    BY DEF DeleteServices
<1>4. "services" \in Steps
    BY DEF Steps
<1>5. job # None /\ Tail(job.todo) \in Seq(Steps) /\ job.todo # <<"expand">> /\ job.todo # <<>>
    BY <1>1, <1>2, <1>4, AtStep DEF At
<1>6. Objects(new)
    BY <1>1 DEF Objects
<1>7. SetsKept(new)
    BY SetsAreKinds DEF SetsKept, Unwanted, Sets
<1> HIDE DEF new
<1>8. objs' = new /\ queue' \subseteq Clusters
    BY <1>1, <1>2, StoreQueue DEF RestType
<1>9. RestType'
    BY <1>1, <1>3, <1>8 DEF RestType
<1>10. /\ job' \in Job /\ job'.left = {} /\ job'.todo # <<"expand">>
       /\ phase'[job'.c] = "gone" => job'.todo = <<>>
       /\ job'.c = job.c /\ job'.s = job.s
    BY <1>2, <1>3, <1>5, Shorter
<1> QED
    BY <1>3, <1>5, <1>6, <1>7, <1>8, <1>9, <1>10, Quiet

\* A job that ends outside an expansion, with nothing written.
LEMMA EndKeeps ==
    ASSUME ClaimsInv, job # None, job.todo # <<"expand">>, job' = None, RestType',
           UNCHANGED <<spec, objs, claims, torn>>
    PROVE  ClaimsInv'
<1>1. Objects(objs') /\ SetsKept(objs')
    BY TypeParts DEF ClaimsInv, SetsKept
<1> QED
    BY <1>1, Quiet

LEMMA CanNotExpandKeeps ==
    ASSUME ClaimsInv, CanNotExpand \/ EndPass \/ SyncRefused \/ (PassFails /\ ~At("expand"))
    PROVE  ClaimsInv'
<1>1. TypeOK /\ RestType /\ job # None /\ job.c \in Clusters
    BY TypeParts DEF ClaimsInv, CanNotExpand, EndPass, SyncRefused, PassFails, Refused, At, TypeOK, Job
<1>2. job' = None /\ UNCHANGED <<phase, spec, ready, objs, claims, backups>>
    BY DEF CanNotExpand, EndPass, SyncRefused, PassFails, Requeue
<1>3. "sfs" \in Steps /\ "readOnly" \in Steps
    BY DEF Steps, Kinds
<1>4. job.todo # <<"expand">>
    <2>1. CASE At("sfs") \/ At("readOnly")
        BY <1>1, <1>3, <2>1, AtStep
    <2>2. CASE EndPass
        BY <2>2 DEF EndPass
    <2>3. CASE SyncRefused
        <3>1. Head(job.todo) \in {"mysqlCM", "remoteCM"} /\ Head(<<"expand">>) = "expand"
            BY <2>3 DEF SyncRefused, Fails
        <3> QED
            BY <3>1
    <2> QED
        BY <2>1, <2>2, <2>3 DEF CanNotExpand, Refused, PassFails
<1>5. queue' \subseteq Clusters /\ events' \in 0 .. MaxEvents /\ torn' = torn
    <2>1. CASE CanNotExpand \/ EndPass \/ SyncRefused
        BY <1>1, <2>1 DEF CanNotExpand, EndPass, SyncRefused, Requeue, RestType
    <2>2. CASE PassFails /\ ~At("expand")
        BY <1>1, <2>2, BoundsAssumption DEF PassFails, Event, Existing, RestType
    <2> QED
        BY <2>1, <2>2
<1>6. RestType'
    BY <1>1, <1>2, <1>5 DEF RestType
<1> QED
    BY <1>1, <1>2, <1>4, <1>5, <1>6, EndKeeps

LEMMA DeleteAllBackupKeeps ==
    ASSUME ClaimsInv, DeleteAllBackup
    PROVE  ClaimsInv'
<1>1. TypeOK /\ RestType /\ Objects(objs)
    BY TypeParts DEF ClaimsInv
<1>2. At("finalizer") /\ Goto(Tail(job.todo)) /\ UNCHANGED <<spec, ready, objs, claims, queue, torn>>
    BY DEF DeleteAllBackup, Done
<1>3. job # None /\ job \in Job /\ job.todo = <<"finalizer">> /\ Tail(job.todo) = <<>>
    BY <1>1, <1>2, AtEnd
<1>4. job.left = {} /\ job.c \in Clusters /\ job.todo # <<"expand">>
    BY <1>3 DEF ClaimsInv, LeftInv, Job
<1>5. /\ job' \in Job /\ job'.c = job.c /\ job'.s = job.s /\ job'.left = {} /\ job'.todo = <<>>
    <2>1. <<>> \in Todo
        BY DEF Todo
    <2> QED
        BY <1>2, <1>3, <1>4, <2>1, GotoFacts
<1>6. /\ events' \in 0 .. MaxEvents /\ backups' \subseteq Clusters
      /\ phase' \in [Clusters -> {"live", "deleting", "gone"}]
    BY <1>1, <1>4, BoundsAssumption DEF DeleteAllBackup, Event, RestType
<1>7. RestType'
    BY <1>1, <1>2, <1>6 DEF RestType
<1>8. Objects(objs') /\ SetsKept(objs')
    BY <1>1, <1>2 DEF SetsKept
<1>9. <<>> # <<"expand">>
    OBVIOUS
<1> QED
    BY <1>2, <1>3, <1>4, <1>5, <1>7, <1>8, <1>9, Quiet

\* What others do beside the pass, without touching its job, objects or claims.
LEMMA Aside ==
    ASSUME ClaimsInv, RestType', UNCHANGED <<spec, objs, claims, job, torn>>,
           \A c \in Clusters : phase'[c] = "gone" => phase[c] = "gone"
    PROVE  ClaimsInv'
<1>1. RestType /\ Objects(objs) /\ ClaimsType /\ JobType
    BY TypeParts DEF ClaimsInv
<1>2. TypeOK'
    <2>1. Objects(objs') /\ ClaimsType' /\ JobType'
        BY <1>1 DEF ClaimsType, JobType
    <2> QED
        BY <2>1, TypeParts
<1>3. LeftInv'
    BY <1>1 DEF ClaimsInv, LeftInv, JobType, Job
<1>4. ExpandInv'
    BY DEF ClaimsInv, ExpandInv, Expanding
<1>5. ASSUME NEW c \in Clusters PROVE ClaimsFit(c)'
    <2>1. Expanding(c) => Expanding(c)'
        BY DEF Expanding
    <2> QED
        BY <2>1, Untouched
<1> QED
    BY <1>2, <1>3, <1>4, <1>5 DEF ClaimsInv

LEMMA AsideKeeps ==
    ASSUME ClaimsInv, Resync \/ \E c \in Clusters : DeleteCluster(c) \/ BecomesReady(c)
    PROVE  ClaimsInv'
<1>1. RestType
    BY TypeParts DEF ClaimsInv
<1>2. CASE Resync
    BY <1>1, <1>2, Aside DEF Resync, Existing, RestType
<1>3. ASSUME NEW c \in Clusters, DeleteCluster(c) PROVE ClaimsInv'
    <2>1. RestType' /\ UNCHANGED <<spec, objs, claims, job, torn>>
        BY <1>1, <1>3, BoundsAssumption DEF DeleteCluster, Event, RestType
    <2>2. \A d \in Clusters : phase'[d] = "gone" => phase[d] = "gone"
        BY <1>1, <1>3 DEF DeleteCluster, RestType
    <2> QED
        BY <2>1, <2>2, Aside
<1>4. ASSUME NEW c \in Clusters, BecomesReady(c) PROVE ClaimsInv'
    BY <1>1, <1>4, Aside DEF BecomesReady, RestType
<1> QED
    BY <1>2, <1>3, <1>4

LEMMA EditKeeps ==
    ASSUME ClaimsInv, NEW c \in Clusters, NEW s \in Edits[c], Edit(c, s)
    PROVE  ClaimsInv'
<1>1. RestType /\ Objects(objs) /\ ClaimsType /\ JobType
    BY TypeParts DEF ClaimsInv
<1>2. s \in Specification
    BY SpecsAssumption
<1>3. UNCHANGED <<phase, ready, objs, claims, backups, job>> /\ torn \subseteq torn' /\ torn' \subseteq Clusters \X Sets
    BY <1>1 DEF Edit, RestType, Sets
<1>4. spec' = [spec EXCEPT ![c] = s] /\ queue' \subseteq Clusters /\ events' \in 0 .. MaxEvents
    BY <1>1, BoundsAssumption DEF Edit, Event, RestType
<1>5. TypeOK'
    <2>1. RestType'
        BY <1>1, <1>2, <1>3, <1>4 DEF RestType
    <2>2. Objects(objs') /\ ClaimsType' /\ JobType'
        BY <1>1, <1>3 DEF ClaimsType, JobType
    <2> QED
        BY <2>1, <2>2, TypeParts
<1>6. LeftInv' /\ ExpandInv'
    BY <1>3 DEF ClaimsInv, LeftInv, ExpandInv, Expanding
<1>7. ASSUME NEW d \in Clusters PROVE ClaimsFit(d)'
    <2>1. Expanding(d) <=> Expanding(d)'
        BY <1>3 DEF Expanding
    <2>2. CASE d # c
        <3>1. spec'[d] = spec[d]
            BY <1>1, <1>4, <2>2 DEF RestType
        <3> QED
            BY <1>3, <2>1, <3>1, Untouched
    <2>3. CASE d = c
        <3>1. ClaimsFit(c) /\ "sfs" \in Sets
            BY DEF ClaimsInv, Sets
        <3>2. RoGone(c)' /\ KeepsUp(c)'
            BY <1>3, <3>1 DEF ClaimsFit, RoGone, KeepsUp
        <3>3. ASSUME objs[c]["sfs"] = None, <<c, "sfs">> \notin torn', ~Expanding(c),
                     NEW o \in DOMAIN claims[c]["sfs"]
              PROVE  /\ claims[c]["sfs"][o] >= s.size
                     /\ job # None /\ job.c = c => claims[c]["sfs"][o] >= job.s.size
            <4>1. <<c, "sfs">> \notin torn
                BY <1>3, <3>3
            <4>2. /\ claims[c]["sfs"][o] >= spec[c].size
                  /\ job # None /\ job.c = c => claims[c]["sfs"][o] >= job.s.size
                BY <3>1, <3>3, <4>1 DEF ClaimsFit, SfsGone
            <4>3. DOMAIN claims[c]["sfs"] # {}
                BY <3>3
            <4>4. ~(s.size > spec[c].size)
                BY <3>3, <4>3 DEF Edit
            <4>5. s.size \in Nat /\ spec[c].size \in Nat /\ claims[c]["sfs"][o] \in Nat
                <5>1. spec[c] \in Specification
                    BY <1>1 DEF RestType
                <5>2. s.size \in Nat /\ spec[c].size \in Nat
                    BY <1>2, <5>1 DEF Specification
                <5>3. claims[c]["sfs"][o] \in Nat
                    BY <1>1, <3>1, <3>3 DEF ClaimsType
                <5> QED
                    BY <5>2, <5>3
            <4> QED
                BY <4>2, <4>4, <4>5
        <3>4. spec'[c] = s
            BY <1>1, <1>4 DEF RestType
        <3>5. SfsGone(c)'
            BY <1>3, <2>1, <2>3, <3>3, <3>4 DEF SfsGone
        <3> QED
            BY <2>3, <3>2, <3>5 DEF ClaimsFit
    <2> QED
        BY <2>2, <2>3
<1> QED
    BY <1>5, <1>6, <1>7 DEF ClaimsInv

-----------------------------------------------------------------------------
(* The steps that write a StatefulSet or claims.                           *)
LEMMA SizeNat == \A s \in Specification : s.size \in Nat /\ s.replicas \in Nat /\ s.ro \in Nat
    BY DEF Specification

LEMMA SfsContent ==
    /\ Content("sfs") = [replicas : Nat, size : Nat]
    /\ Content("roSfs") = [replicas : Nat, size : Nat, conf : Conf]
    /\ None \notin Content("sfs") /\ None \notin Content("roSfs")
<1>1. "sfs" \in Kinds /\ "roSfs" \in Kinds
    BY DEF Kinds
<1>2. None \notin Content("sfs") /\ None \notin Content("roSfs")
    BY <1>1, NoneAssumption
<1> QED
    BY <1>2 DEF Content

\* The frame of a step of the pass outside an expansion: only the cluster at work is
\* written, and its job goes on without claims to resize.
LEMMA OwnCluster ==
    ASSUME NEW c \in Clusters, ClaimsInv, RestType', Objects(objs'), ClaimsType', UNCHANGED spec, torn \subseteq torn',
           job # None, job.c = c, job.todo # <<"expand">>,
           job' \in Job, job'.c = c, job'.s = job.s, job'.left = {}, job'.todo # <<"expand">>,
           phase'[job'.c] = "gone" => job'.todo = <<>>,
           \A d \in Clusters, k \in Sets : d # c => objs'[d][k] = objs[d][k] /\ claims'[d][k] = claims[d][k],
           ClaimsFit(c)'
    PROVE  ClaimsInv'
<1>1. TypeOK'
    <2>1. JobType'
        BY DEF JobType
    <2> QED
        BY <2>1, TypeParts
<1>2. LeftInv' /\ ExpandInv'
    BY DEF LeftInv, ExpandInv, Expanding
<1>3. ASSUME NEW d \in Clusters PROVE ClaimsFit(d)'
    <2>1. CASE d # c
        <3>1. ~Expanding(d)
            BY DEF Expanding
        <3> QED
            BY <2>1, <3>1, Untouched
    <2> QED
        BY <2>1
<1> QED
    BY <1>1, <1>2, <1>3 DEF ClaimsInv

LEMMA CreateOrUpdateKeeps ==
    ASSUME ClaimsInv, CreateOrUpdate
    PROVE  ClaimsInv'
<1> DEFINE new == [replicas |-> job.s.replicas, size |-> job.s.size]
<1> PICK c \in Clusters : c = job.c
    BY DEF CreateOrUpdate, Done, At, ClaimsInv, TypeOK, Job
<1>1. TypeOK /\ RestType /\ Objects(objs) /\ ClaimsType /\ ClaimsFit(c) /\ "sfs" \in Steps /\ "sfs" \in Kinds
    BY TypeParts DEF ClaimsInv, Steps, Kinds
<1>2. /\ At("sfs") /\ Goto(Tail(job.todo)) /\ Store(With(c, "sfs", new))
      /\ objs[c]["sfs"] # None => objs[c]["sfs"].size = job.s.size
      /\ UNCHANGED <<phase, spec, ready, claims, backups, events, torn>>
    BY DEF CreateOrUpdate, Done, NewStatefulSet
<1>3. /\ job # None /\ job \in Job /\ Tail(job.todo) \in Seq(Steps) /\ job.todo # <<"expand">> /\ job.todo # <<>>
      /\ c \in Clusters /\ job.s \in Specification
    BY <1>1, <1>2, AtStep DEF At, Job
<1>4. /\ job' \in Job /\ job'.left = {} /\ job'.todo # <<"expand">>
      /\ phase'[job'.c] = "gone" => job'.todo = <<>>
      /\ job'.c = job.c /\ job'.s = job.s
    BY <1>2, <1>3, Shorter
<1>5. new \in Content("sfs") /\ new.size = job.s.size
    BY <1>3, SizeNat, SfsContent
<1>6. objs' = With(c, "sfs", new) /\ queue' \subseteq Clusters
    BY <1>1, <1>2, StoreQueue DEF RestType
<1> HIDE DEF new
<1>7. /\ Objects(objs') /\ objs'[c]["sfs"] = new
      /\ \A d \in Clusters, k \in Sets : d # c \/ k # "sfs" => objs'[d][k] = objs[d][k]
    BY <1>1, <1>3, <1>5, <1>6, WithFacts, SetsAreKinds
<1>8. RestType' /\ ClaimsType'
    BY <1>1, <1>2, <1>6 DEF RestType, ClaimsType
<1>9. ClaimsFit(c)'
    <2>1. objs'[c]["sfs"] # None /\ "roSfs" \in Sets /\ "sfs" \in Sets
        BY <1>5, <1>7, SfsContent DEF Sets
    <2>2. SfsGone(c)' /\ RoGone(c)'
        BY <1>1, <1>2, <1>3, <1>7, <2>1 DEF ClaimsFit, SfsGone, RoGone
    <2>3. ASSUME <<c, "sfs">> \notin torn, NEW o \in DOMAIN claims[c]["sfs"] PROVE claims[c]["sfs"][o] >= job.s.size
        <3>1. CASE objs[c]["sfs"] = None
            BY <1>1, <1>3, <2>3, <3>1 DEF ClaimsFit, SfsGone, Expanding
        <3>2. CASE objs[c]["sfs"] # None
            BY <1>1, <1>2, <2>1, <2>3, <3>2 DEF ClaimsFit, KeepsUp
        <3> QED
            BY <3>1, <3>2
    <2>4. KeepsUp(c)'
        <3> SUFFICES ASSUME NEW k \in Sets, objs'[c][k] # None, <<c, k>> \notin torn, NEW o \in DOMAIN claims[c][k]
                     PROVE  claims[c][k][o] >= objs'[c][k].size
            BY <1>2 DEF KeepsUp
        <3>1. CASE k = "sfs"
            BY <1>5, <1>7, <2>3, <3>1
        <3>2. CASE k # "sfs"
            BY <1>1, <1>3, <1>7, <3>2 DEF ClaimsFit, KeepsUp
        <3> QED
            BY <3>1, <3>2
    <2> QED
        BY <2>2, <2>4 DEF ClaimsFit
<1> QED
    BY <1>2, <1>3, <1>4, <1>7, <1>8, <1>9, OwnCluster

LEMMA ExpandPVCsKeeps ==
    ASSUME ClaimsInv, ExpandPVCs
    PROVE  ClaimsInv'
<1> PICK c \in Clusters : c = job.c
    BY DEF ExpandPVCs, Refused, At, ClaimsInv, TypeOK, Job
<1>1. /\ TypeOK /\ RestType /\ Objects(objs) /\ ClaimsType /\ ClaimsFit(c)
      /\ "sfs" \in Steps /\ "sfs" \in Kinds /\ "sfs" \in Sets /\ "roSfs" \in Sets
    BY TypeParts DEF ClaimsInv, Steps, Kinds, Sets
<1>2. /\ At("sfs") /\ Store(With(c, "sfs", None))
      /\ job' = [job EXCEPT !.todo = <<"expand">>, !.left = DOMAIN claims[c]["sfs"]]
      /\ ready' = ready \ {c} /\ UNCHANGED <<phase, spec, claims, backups, events, torn>>
    BY DEF ExpandPVCs, Refused
<1>3. job # None /\ job \in Job /\ job.todo # <<>>
    BY <1>1, <1>2, AtStep DEF At
<1>4. phase[c] # "gone" /\ DOMAIN claims[c]["sfs"] \subseteq Nat
    BY <1>1, <1>3 DEF ClaimsInv, LeftInv, ClaimsType
<1>5. /\ job' \in Job /\ job'.c = c /\ job'.s = job.s /\ job'.todo = <<"expand">>
      /\ job'.left = DOMAIN claims[c]["sfs"]
    BY <1>2, <1>3, <1>4 DEF Job
<1>6. objs' = With(c, "sfs", None) /\ queue' \subseteq Clusters
    BY <1>1, <1>2, StoreQueue DEF RestType
<1>7. /\ Objects(objs') /\ objs'[c]["sfs"] = None
      /\ \A d \in Clusters, k \in Sets : d # c \/ k # "sfs" => objs'[d][k] = objs[d][k]
    BY <1>1, <1>6, WithFacts, SetsAreKinds
<1>8. TypeOK'
    <2>1. RestType' /\ ClaimsType'
        BY <1>1, <1>2, <1>6 DEF RestType, ClaimsType
    <2>2. JobType'
        BY <1>2, <1>5 DEF JobType
    <2> QED
        BY <1>7, <2>1, <2>2, TypeParts
<1>9. LeftInv' /\ ExpandInv'
    BY <1>2, <1>4, <1>5, <1>7 DEF LeftInv, ExpandInv, Expanding
<1>10. ASSUME NEW d \in Clusters PROVE ClaimsFit(d)'
    <2>1. CASE d # c
        <3>1. ~Expanding(d)
            BY <2>1 DEF Expanding
        <3> QED
            BY <1>2, <1>5, <1>7, <2>1, <3>1, Untouched
    <2>2. CASE d = c
        <3>1. SfsGone(c)'
            <4>1. Expanding(c)'
                <5>1. job' # None
                    BY <1>5, NoneAssumption
                <5> QED
                    BY <1>5, <5>1 DEF Expanding
            <4> QED
                BY <4>1 DEF SfsGone
        <3>2. RoGone(c)' /\ KeepsUp(c)'
            BY <1>1, <1>2, <1>7 DEF ClaimsFit, RoGone, KeepsUp, Sets
        <3> QED
            BY <2>2, <3>1, <3>2 DEF ClaimsFit
    <2> QED
        BY <2>1, <2>2
<1> QED
    BY <1>8, <1>9, <1>10 DEF ClaimsInv

LEMMA DoExpandPVCsKeeps ==
    ASSUME ClaimsInv, DoExpandPVCs
    PROVE  ClaimsInv'
<1> PICK c \in Clusters : c = job.c
    BY DEF DoExpandPVCs, At, ClaimsInv, TypeOK, Job
<1>1. /\ TypeOK /\ RestType /\ Objects(objs) /\ ClaimsType /\ ClaimsFit(c) /\ JobType
      /\ "sfs" \in Kinds /\ "sfs" \in Sets /\ "roSfs" \in Sets
    BY TypeParts DEF ClaimsInv, Kinds, Sets
<1>2. /\ At("expand") /\ UNCHANGED <<phase, spec, ready, objs, backups, queue, events, torn>>
    BY DEF DoExpandPVCs
<1>3. job # None /\ job \in Job /\ job.todo = <<"expand">>
    BY <1>1, <1>2, AtEnd
<1>4. PICK o \in job.left :
          /\ job' = [job EXCEPT !.left = @ \ {o}]
          /\ claims' = [claims EXCEPT ![c]["sfs"][o] = job.s.size]
    BY DEF DoExpandPVCs
<1>5. job.s.size \in Nat /\ DOMAIN claims[c]["sfs"] \in SUBSET Nat
    BY <1>1, <1>3, SizeNat DEF ClaimsType, Job
<1> PICK D \in SUBSET Nat : D = DOMAIN claims[c]["sfs"]
    BY <1>5
<1>6. o \in D /\ claims[c]["sfs"] \in [D -> Nat]
    BY <1>1, <1>3, <1>4 DEF JobType, ClaimsType
<1>7. PICK f \in [D -> Nat] :
          /\ f = [claims[c]["sfs"] EXCEPT ![o] = job.s.size]
          /\ f[o] >= job.s.size /\ \A i \in D : i # o => f[i] = claims[c]["sfs"][i]
    <2> DEFINE g == [claims[c]["sfs"] EXCEPT ![o] = job.s.size]
    <2>1. g \in [D -> Nat] /\ g[o] >= job.s.size /\ \A i \in D : i # o => g[i] = claims[c]["sfs"][i]
        BY <1>5, <1>6
    <2> HIDE DEF g
    <2>2. \E f \in [D -> Nat] : f = g /\ f[o] >= job.s.size /\ \A i \in D : i # o => f[i] = claims[c]["sfs"][i]
        BY <2>1
    <2> QED
        BY <2>2 DEF g
<1>14. claims' = SetClaims(c, "sfs", f)
    BY <1>4, <1>7 DEF SetClaims
<1>8. /\ ClaimsType' /\ claims'[c]["sfs"] = f
      /\ \A d \in Clusters, k \in Sets : d # c \/ k # "sfs" => claims'[d][k] = claims[d][k]
    BY <1>1, <1>14, ClaimsWith
<1>9. /\ job' \in Job /\ job'.c = c /\ job'.s = job.s /\ job'.left = job.left \ {o}
      /\ job'.todo = <<"expand">> /\ job' # None
    <2>1. job' \in Job /\ job'.c = c /\ job'.s = job.s /\ job'.left = job.left \ {o} /\ job'.todo = job.todo
        BY <1>3, <1>4 DEF Job
    <2>2. job' # None
        BY <2>1, NoneAssumption
    <2> QED
        BY <1>3, <2>1, <2>2
<1>10. TypeOK'
    <2>1. RestType' /\ Objects(objs')
        BY <1>1, <1>2 DEF RestType
    <2>2. DOMAIN f = D
        BY <1>7
    <2>3. JobType'
        BY <1>1, <1>3, <1>8, <1>9, <2>2 DEF JobType
    <2> QED
        BY <1>8, <2>1, <2>3, TypeParts
<1>11. LeftInv'
    BY <1>2, <1>3, <1>9 DEF ClaimsInv, LeftInv
<1>12. ExpandInv'
    <2>1. objs[c]["sfs"] = None /\ \A i \in D \ job.left : claims[c]["sfs"][i] >= job.s.size
        BY <1>3 DEF ClaimsInv, ExpandInv, Expanding
    <2>2. \A i \in DOMAIN f \ (job.left \ {o}) : f[i] >= job.s.size
        BY <1>7, <2>1
    <2> QED
        BY <1>2, <1>8, <1>9, <2>1, <2>2 DEF ExpandInv, Expanding
<1>13. ASSUME NEW d \in Clusters PROVE ClaimsFit(d)'
    <2>1. CASE d # c
        <3>1. ~Expanding(d)
            BY <2>1 DEF Expanding
        <3> QED
            BY <1>2, <1>8, <1>9, <2>1, <3>1, Untouched
    <2>2. CASE d = c
        <3>1. Expanding(c)' /\ objs'[c]["sfs"] = None
            BY <1>2, <1>3, <1>9 DEF ClaimsInv, ExpandInv, Expanding
        <3>2. SfsGone(c)'
            BY <3>1 DEF SfsGone
        <3>3. RoGone(c)' /\ KeepsUp(c)'
            BY <1>1, <1>2, <1>8, <3>1 DEF ClaimsFit, RoGone, KeepsUp
        <3> QED
            BY <2>2, <3>2, <3>3 DEF ClaimsFit
    <2> QED
        BY <2>1, <2>2
<1> QED
    BY <1>10, <1>11, <1>12, <1>13 DEF ClaimsInv

LEMMA ExpandEndsKeeps ==
    ASSUME ClaimsInv, Recreate \/ ShrinkRefused \/ (PassFails /\ At("expand"))
    PROVE  ClaimsInv'
<1> PICK c \in Clusters : c = job.c
    BY DEF Recreate, ShrinkRefused, PassFails, At, ClaimsInv, TypeOK, Job
<1>1. /\ TypeOK /\ RestType /\ Objects(objs) /\ ClaimsType /\ ClaimsFit(c)
      /\ "sfs" \in Sets /\ "roSfs" \in Sets
    BY TypeParts DEF ClaimsInv, Sets
<1>2. At("expand") /\ job' = None /\ UNCHANGED <<phase, spec, ready, objs, claims, backups>>
    BY DEF Recreate, ShrinkRefused, PassFails, Requeue
<1>3. job # None /\ job \in Job /\ job.todo = <<"expand">> /\ Expanding(c)
    BY <1>1, <1>2, AtEnd DEF Expanding
<1>4. /\ torn \subseteq torn' /\ torn' \subseteq Clusters \X Sets /\ queue' \subseteq Clusters
      /\ events' \in 0 .. MaxEvents
    <2>1. CASE Recreate \/ ShrinkRefused
        BY <1>1, <2>1 DEF Recreate, ShrinkRefused, Requeue, RestType
    <2>2. CASE PassFails /\ At("expand")
        BY <1>1, <2>2, BoundsAssumption DEF PassFails, Event, Existing, RestType
    <2> QED
        BY <2>1, <2>2
<1>5. TypeOK'
    <2>1. RestType' /\ Objects(objs') /\ ClaimsType' /\ JobType'
        BY <1>1, <1>2, <1>4 DEF RestType, ClaimsType, JobType
    <2> QED
        BY <2>1, TypeParts
<1>6. LeftInv' /\ ExpandInv'
    BY <1>2 DEF LeftInv, ExpandInv, Expanding
<1>7. ASSUME NEW d \in Clusters PROVE ClaimsFit(d)'
    <2>1. CASE d # c
        <3>1. ~Expanding(d)
            BY <2>1 DEF Expanding
        <3> QED
            BY <1>2, <1>4, <2>1, <3>1, Untouched
    <2>2. CASE d = c
        <3>1. ASSUME <<c, "sfs">> \notin torn', NEW o \in DOMAIN claims[c]["sfs"]
              PROVE  claims[c]["sfs"][o] >= spec[c].size
            <4>1. Recreate /\ ~(spec[c].size > job.s.size)
                BY <3>1 DEF Recreate, ShrinkRefused, PassFails
            <4>2. claims[c]["sfs"][o] >= job.s.size
                BY <1>3, <4>1 DEF Recreate, ClaimsInv, ExpandInv
            <4>3. spec[c].size \in Nat /\ job.s.size \in Nat /\ claims[c]["sfs"][o] \in Nat
                BY <1>1, <1>3, SizeNat DEF RestType, Job, ClaimsType
            <4> QED
                BY <4>1, <4>2, <4>3
        <3>2. SfsGone(c)'
            BY <1>2, <3>1 DEF SfsGone
        <3>3. RoGone(c)' /\ KeepsUp(c)'
            BY <1>1, <1>2, <1>4 DEF ClaimsFit, RoGone, KeepsUp
        <3> QED
            BY <2>2, <3>2, <3>3 DEF ClaimsFit
    <2> QED
        BY <2>1, <2>2
<1> QED
    BY <1>5, <1>6, <1>7 DEF ClaimsInv

-----------------------------------------------------------------------------
(* Read-only nodes.                                                        *)
LEMMA RoFrame ==
    ASSUME NEW c \in Clusters, c = job.c, ClaimsInv, RestType', Objects(objs'), ClaimsType',
           Done("readOnly"), UNCHANGED <<phase, spec>>, torn \subseteq torn',
           \A d \in Clusters, k \in Sets : d # c \/ k = "sfs" => objs'[d][k] = objs[d][k] /\ claims'[d][k] = claims[d][k],
           RoGone(c)',
           objs'[c]["roSfs"] # None /\ <<c, "roSfs">> \notin torn' =>
               \A o \in DOMAIN claims'[c]["roSfs"] : claims'[c]["roSfs"][o] >= objs'[c]["roSfs"].size
    PROVE  ClaimsInv'
<1>1. TypeOK /\ ClaimsFit(c) /\ "readOnly" \in Steps /\ At("readOnly") /\ Goto(Tail(job.todo))
    BY DEF ClaimsInv, Steps, Done
<1>2. job # None /\ Tail(job.todo) \in Seq(Steps) /\ job.todo # <<"expand">> /\ job.todo # <<>>
    BY <1>1, AtStep DEF At
<1>3. /\ job' \in Job /\ job'.left = {} /\ job'.todo # <<"expand">>
      /\ phase'[job'.c] = "gone" => job'.todo = <<>>
      /\ job'.c = c /\ job'.s = job.s
    BY <1>1, <1>2, Shorter
<1>4. ClaimsFit(c)'
    <2>1. "sfs" \in Sets /\ ~Expanding(c)
        BY <1>2 DEF Sets, Expanding
    <2>2. SfsGone(c)'
        BY <1>1, <1>2, <1>3, <2>1 DEF ClaimsFit, SfsGone
    <2>3. KeepsUp(c)'
        <3> SUFFICES ASSUME NEW k \in Sets, objs'[c][k] # None, <<c, k>> \notin torn', NEW o \in DOMAIN claims'[c][k]
                     PROVE  claims'[c][k][o] >= objs'[c][k].size
            BY DEF KeepsUp
        <3>1. CASE k = "sfs"
            BY <1>1, <3>1 DEF ClaimsFit, KeepsUp
        <3>2. CASE k = "roSfs"
            BY <3>2
        <3> QED
            BY <3>1, <3>2 DEF Sets
    <2> QED
        BY <2>2, <2>3 DEF ClaimsFit
<1> QED
    BY <1>2, <1>3, <1>4, OwnCluster

\* What a step of the read-only nodes starts from.
LEMMA RoStart ==
    ASSUME ClaimsInv, At("readOnly")
    PROVE  /\ job # None /\ job.c \in Clusters /\ job.s \in Specification
           /\ RestType /\ Objects(objs) /\ ClaimsType
           /\ "roSfs" \in Sets /\ "roSfs" \in Kinds /\ "sfs" \in Sets
    BY TypeParts DEF ClaimsInv, At, TypeOK, Job, Sets, Kinds

LEMMA RoSize ==
    ASSUME NEW s \in Specification
    PROVE  /\ GetReadonlyStatefulSet(s) \in Content("roSfs") /\ GetReadonlyStatefulSet(s) # None
           /\ GetReadonlyStatefulSet(s).size = s.size /\ s.size \in Nat
<1>1. GetReadonlyStatefulSet(s) \in Content("roSfs")
    BY SizeNat, ConfType, SfsContent DEF GetReadonlyStatefulSet
<1> QED
    BY <1>1, SizeNat, SfsContent DEF GetReadonlyStatefulSet

LEMMA RemoveReadOnlyKeeps ==
    ASSUME ClaimsInv, RemoveReadOnly
    PROVE  ClaimsInv'
<1> PICK c \in Clusters : c = job.c
    BY RoStart DEF RemoveReadOnly, Done
<1> DEFINE new == [objs EXCEPT ![c]["roSfs"] = None, ![c]["roHeadless"] = None, ![c]["ro"] = None]
<1>1. /\ RestType /\ Objects(objs) /\ ClaimsType
      /\ "roSfs" \in Sets /\ "roSfs" \in Kinds /\ "sfs" \in Sets
    BY RoStart DEF RemoveReadOnly, Done
<1>2. /\ Done("readOnly") /\ Store(new)
      /\ UNCHANGED <<phase, spec, ready, backups, events, torn>>
    BY DEF RemoveReadOnly
<1>3. /\ Objects(new) /\ new[c]["roSfs"] = None
      /\ \A d \in Clusters, k \in Sets : d # c \/ k = "sfs" => new[d][k] = objs[d][k]
    <2> DEFINE row == [[[objs[c] EXCEPT !["roSfs"] = None] EXCEPT !["roHeadless"] = None] EXCEPT !["ro"] = None]
    <2>1. new = [objs EXCEPT ![c] = row]
        BY <1>1 DEF Objects
    <2>2. /\ DOMAIN row = Kinds /\ row["roSfs"] = None
          /\ \A k \in Kinds : row[k] = None \/ row[k] = objs[c][k]
          /\ row["sfs"] = objs[c]["sfs"]
        BY <1>1 DEF Objects, Kinds
    <2> HIDE DEF row
    <2>3. \A k \in Kinds : row[k] \in Content(k) \cup {None}
        BY <1>1, <2>2 DEF Objects
    <2>4. /\ DOMAIN new = Clusters /\ new[c] = row /\ \A d \in Clusters : d # c => new[d] = objs[d]
        BY <1>1, <2>1 DEF Objects
    <2> HIDE DEF new
    <2> QED
        BY <1>1, <2>2, <2>3, <2>4 DEF Objects
<1> HIDE DEF new
<1>4. objs' = new /\ queue' \subseteq Clusters
    BY <1>1, <1>2, StoreQueue DEF RestType
<1>5. RestType'
    BY <1>1, <1>2, <1>4 DEF RestType
<1>6. /\ ClaimsType' /\ RoGone(c)'
      /\ \A d \in Clusters, k \in Sets : d # c \/ k = "sfs" => claims'[d][k] = claims[d][k]
    <2>1. CASE objs[c]["roSfs"] = None
        <3>1. claims' = claims
            BY <2>1 DEF RemoveReadOnly
        <3> QED
            BY <1>1, <1>2, <2>1, <3>1 DEF ClaimsType, ClaimsInv, ClaimsFit, RoGone
    <2>2. CASE objs[c]["roSfs"] # None
        <3>1. PICK f \in [{} -> Nat] : f = NoClaims["roSfs"]
            BY <1>1 DEF NoClaims
        <3>2. claims' = SetClaims(c, "roSfs", f)
            BY <2>2, <3>1 DEF RemoveReadOnly, SetClaims
        <3>3. /\ ClaimsType' /\ claims'[c]["roSfs"] = f
              /\ \A d \in Clusters, k \in Sets : d # c \/ k # "roSfs" => claims'[d][k] = claims[d][k]
            <4>1. {} \in SUBSET Nat
                OBVIOUS
            <4> QED
                BY <1>1, <3>2, <4>1, ClaimsWith
        <3> QED
            BY <1>1, <3>1, <3>3 DEF RoGone
    <2> QED
        BY <2>1, <2>2
<1> QED
    BY <1>2, <1>3, <1>4, <1>5, <1>6, RoFrame

\* The read-only StatefulSet becomes v, and its claims f.
LEMMA RoWrites ==
    ASSUME NEW c \in Clusters, c = job.c, ClaimsInv, Done("readOnly"),
           NEW v \in Content("roSfs") \cup {None}, NEW D \in SUBSET Nat, NEW f \in [D -> Nat],
           Store(With(c, "roSfs", v)), ClaimsType', claims'[c]["roSfs"] = f,
           \A d \in Clusters, k \in Sets : d # c \/ k # "roSfs" => claims'[d][k] = claims[d][k],
           UNCHANGED <<phase, spec, ready, backups>>, events' \in 0 .. MaxEvents,
           torn \subseteq torn', torn' \subseteq Clusters \X Sets,
           <<c, "roSfs">> \notin torn' => v # None /\ \A o \in D : f[o] >= v.size
    PROVE  ClaimsInv'
<1>1. RestType /\ Objects(objs) /\ ClaimsType /\ "roSfs" \in Sets /\ "roSfs" \in Kinds /\ "sfs" \in Sets
    BY RoStart DEF Done
<1>2. objs' = With(c, "roSfs", v) /\ queue' \subseteq Clusters
    BY <1>1, StoreQueue DEF RestType
<1>3. /\ Objects(objs') /\ objs'[c]["roSfs"] = v
      /\ \A d \in Clusters, k \in Sets : d # c \/ k # "roSfs" => objs'[d][k] = objs[d][k]
    BY <1>1, <1>2, WithFacts, SetsAreKinds
<1>5. RestType'
    BY <1>1, <1>2 DEF RestType
<1>6. RoGone(c)'
    BY <1>3 DEF RoGone
<1>7. DOMAIN f = D
    OBVIOUS
<1>8. objs'[c]["roSfs"] # None /\ <<c, "roSfs">> \notin torn' =>
          \A o \in DOMAIN claims'[c]["roSfs"] : claims'[c]["roSfs"][o] >= objs'[c]["roSfs"].size
    BY <1>3, <1>7
<1> QED
    BY <1>1, <1>3, <1>5, <1>6, <1>8, RoFrame

\* A pass that leaves the read-only StatefulSet and its claims as they are.
LEMMA RoRests ==
    ASSUME ClaimsInv, Done("readOnly"),
           UNCHANGED <<phase, spec, ready, objs, claims, backups, queue, events, torn>>
    PROVE  ClaimsInv'
<1> PICK c \in Clusters : c = job.c
    BY RoStart DEF Done
<1>1. /\ RestType /\ Objects(objs) /\ ClaimsType /\ ClaimsFit(c)
      /\ "roSfs" \in Sets /\ "sfs" \in Sets
    BY RoStart DEF Done, ClaimsInv
<1>2. RestType' /\ Objects(objs') /\ ClaimsType' /\ RoGone(c)'
    BY <1>1 DEF RestType, ClaimsType, ClaimsFit, RoGone
<1>3. objs'[c]["roSfs"] # None /\ <<c, "roSfs">> \notin torn' =>
          \A o \in DOMAIN claims'[c]["roSfs"] : claims'[c]["roSfs"][o] >= objs'[c]["roSfs"].size
    BY <1>1 DEF ClaimsFit, KeepsUp
<1> QED
    BY <1>2, <1>3, RoFrame

LEMMA SfsReadOnlyKeeps ==
    ASSUME ClaimsInv, SfsReadOnly
    PROVE  ClaimsInv'
<1> PICK c \in Clusters : c = job.c
    BY RoStart DEF SfsReadOnly, Done
<1> PICK v : v = GetReadonlyStatefulSet(job.s)
    OBVIOUS
<1>1. /\ Done("readOnly") /\ UNCHANGED <<phase, spec, ready, backups, events, torn>>
    BY DEF SfsReadOnly
<1>2. /\ RestType /\ Objects(objs) /\ ClaimsType /\ ClaimsFit(c) /\ job.s \in Specification
      /\ "roSfs" \in Sets /\ "roSfs" \in Kinds /\ "sfs" \in Sets
    BY <1>1, RoStart DEF Done, ClaimsInv
<1>3. v \in Content("roSfs") /\ v # None /\ v.size = job.s.size /\ v.size \in Nat /\ v.replicas = job.s.ro
    BY <1>2, RoSize DEF GetReadonlyStatefulSet
<1>4. events' \in 0 .. MaxEvents /\ torn \subseteq torn' /\ torn' \subseteq Clusters \X Sets
    BY <1>1, <1>2 DEF RestType
<1>5. PICK D \in SUBSET Nat : D = DOMAIN claims[c]["roSfs"]
    BY <1>2 DEF ClaimsType
<1>6. claims[c]["roSfs"] \in [D -> Nat]
    BY <1>2, <1>5 DEF ClaimsType
<1>7. CASE UNCHANGED <<objs, queue, claims>>
    BY <1>1, <1>7, RoRests
<1>8. CASE objs[c]["roSfs"] = None /\ Store(With(c, "roSfs", v)) /\ UNCHANGED claims
    <2>1. PICK f \in [D -> Nat] : f = claims[c]["roSfs"]
        BY <1>6
    <2>2. /\ ClaimsType' /\ claims'[c]["roSfs"] = f
          /\ \A d \in Clusters, k \in Sets : d # c \/ k # "roSfs" => claims'[d][k] = claims[d][k]
        BY <1>2, <1>8, <2>1 DEF ClaimsType
    <2>3. <<c, "roSfs">> \notin torn' => D = {}
        BY <1>1, <1>2, <1>5, <1>8 DEF ClaimsFit, RoGone
    <2> QED
        BY <1>1, <1>3, <1>4, <1>8, <2>2, <2>3, RoWrites
<1>9. CASE /\ objs[c]["roSfs"] # None /\ objs[c]["roSfs"].size = v.size
           /\ Store(With(c, "roSfs", v))
           /\ claims' = [claims EXCEPT ![c]["roSfs"] = [o \in (DOMAIN @) \cap (0..(v.replicas - 1)) |-> @[o]]]
    <2>1. PICK E \in SUBSET Nat : E = D \cap (0..(v.replicas - 1))
        OBVIOUS
    <2>2. PICK f \in [E -> Nat] : f = [o \in E |-> claims[c]["roSfs"][o]]
        <3>1. [o \in E |-> claims[c]["roSfs"][o]] \in [E -> Nat]
            BY <1>6, <2>1
        <3> QED
            BY <3>1, Zenon
    <2>3. claims' = SetClaims(c, "roSfs", f)
        BY <1>5, <1>9, <2>1, <2>2 DEF SetClaims
    <2>4. <<c, "roSfs">> \notin torn' => \A o \in E : f[o] >= v.size
        <3> SUFFICES ASSUME <<c, "roSfs">> \notin torn, NEW o \in E PROVE f[o] >= v.size
            BY <1>1
        <3>1. claims[c]["roSfs"][o] >= objs[c]["roSfs"].size
            BY <1>2, <1>5, <1>9, <2>1 DEF ClaimsFit, KeepsUp
        <3> QED
            BY <1>9, <2>2, <3>1
    <2>5. /\ ClaimsType' /\ claims'[c]["roSfs"] = f
          /\ \A d \in Clusters, k \in Sets : d # c \/ k # "roSfs" => claims'[d][k] = claims[d][k]
        BY <1>2, <2>3, ClaimsWith
    <2> QED
        BY <1>1, <1>3, <1>4, <1>9, <2>4, <2>5, RoWrites
<1> QED
    <2>1. \/ UNCHANGED <<objs, queue, claims>>
          \/ objs[c]["roSfs"] = None /\ Store(With(c, "roSfs", v)) /\ UNCHANGED claims
          \/ /\ objs[c]["roSfs"] # None /\ objs[c]["roSfs"].size = v.size
             /\ Store(With(c, "roSfs", v))
             /\ claims' = [claims EXCEPT ![c]["roSfs"] = [o \in (DOMAIN @) \cap (0..(v.replicas - 1)) |-> @[o]]]
        BY DEF SfsReadOnly
    <2> QED
        BY <2>1, <1>7, <1>8, <1>9

LEMMA ExtendReadOnlyPVCsKeeps ==
    ASSUME ClaimsInv, ExtendReadOnlyPVCs
    PROVE  ClaimsInv'
<1> PICK c \in Clusters : c = job.c
    BY RoStart DEF ExtendReadOnlyPVCs, Done
<1> PICK v : v = GetReadonlyStatefulSet(job.s)
    OBVIOUS
<1>1. /\ Done("readOnly") /\ UNCHANGED <<phase, spec, ready, backups, events, torn>>
    BY DEF ExtendReadOnlyPVCs
<1>2. /\ RestType /\ Objects(objs) /\ ClaimsType /\ ClaimsFit(c) /\ job.s \in Specification
      /\ "roSfs" \in Sets /\ "roSfs" \in Kinds /\ "sfs" \in Sets
    BY <1>1, RoStart DEF Done, ClaimsInv
<1>3. v \in Content("roSfs") /\ v # None /\ v.size = job.s.size /\ v.size \in Nat
    BY <1>2, RoSize
<1>4. events' \in 0 .. MaxEvents /\ torn \subseteq torn' /\ torn' \subseteq Clusters \X Sets
    BY <1>1, <1>2 DEF RestType
<1>5. PICK D \in SUBSET Nat : D = DOMAIN claims[c]["roSfs"]
    BY <1>2 DEF ClaimsType
<1>6. claims[c]["roSfs"] \in [D -> Nat]
    BY <1>2, <1>5 DEF ClaimsType
<1>7. CASE UNCHANGED <<objs, queue, claims>>
    BY <1>1, <1>7, RoRests
<1>8. CASE /\ Store(With(c, "roSfs", v))
           /\ claims' = [claims EXCEPT ![c]["roSfs"] =
                            [o \in (DOMAIN @) \cap (0..(v.replicas - 1)) |-> v.size]]
    <2>1. PICK E \in SUBSET Nat : E = D \cap (0..(v.replicas - 1))
        OBVIOUS
    <2>2. PICK f \in [E -> Nat] : f = [o \in E |-> v.size]
        <3>1. [o \in E |-> v.size] \in [E -> Nat]
            BY <1>3
        <3> QED
            BY <3>1, Zenon
    <2>3. claims' = SetClaims(c, "roSfs", f)
        BY <1>5, <1>8, <2>1, <2>2 DEF SetClaims
    <2>4. \A o \in E : f[o] >= v.size
        BY <1>3, <2>2
    <2>5. /\ ClaimsType' /\ claims'[c]["roSfs"] = f
          /\ \A d \in Clusters, k \in Sets : d # c \/ k # "roSfs" => claims'[d][k] = claims[d][k]
        BY <1>2, <2>3, ClaimsWith
    <2> QED
        BY <1>1, <1>3, <1>4, <1>8, <2>4, <2>5, RoWrites
<1> QED
    <2>1. \/ UNCHANGED <<objs, queue, claims>>
          \/ /\ Store(With(c, "roSfs", v))
             /\ claims' = [claims EXCEPT ![c]["roSfs"] =
                              [o \in (DOMAIN @) \cap (0..(v.replicas - 1)) |-> v.size]]
        BY DEF ExtendReadOnlyPVCs
    <2> QED
        BY <2>1, <1>7, <1>8

LEMMA ExtendStopsKeeps ==
    ASSUME ClaimsInv, ExtendStops
    PROVE  ClaimsInv'
<1> PICK c \in Clusters : c = job.c
    BY RoStart DEF ExtendStops, Done
<1>1. /\ Done("readOnly") /\ UNCHANGED <<phase, spec, ready, backups>> /\ torn' = torn \cup {<<c, "roSfs">>}
      /\ Store(With(c, "roSfs", None)) /\ (Event \/ UNCHANGED events)
    BY DEF ExtendStops
<1>2. RestType /\ Objects(objs) /\ ClaimsType /\ "roSfs" \in Sets /\ job.s.size \in Nat
    BY <1>1, RoStart, SizeNat DEF Done
<1>3. /\ events' \in 0 .. MaxEvents /\ torn \subseteq torn' /\ torn' \subseteq Clusters \X Sets
      /\ <<c, "roSfs">> \in torn'
    BY <1>1, <1>2, BoundsAssumption DEF Event, RestType
<1>4. PICK D \in SUBSET Nat : D = DOMAIN claims[c]["roSfs"]
    BY <1>2 DEF ClaimsType
<1>5. claims[c]["roSfs"] \in [D -> Nat]
    BY <1>2, <1>4 DEF ClaimsType
<1>6. PICK some \in SUBSET D :
          claims' = [claims EXCEPT ![c]["roSfs"] =
                        [o \in DOMAIN @ |-> IF o \in some THEN job.s.size ELSE @[o]]]
    <2>1. PICK some \in SUBSET {o \in DOMAIN claims[job.c]["roSfs"] : ~(claims[job.c]["roSfs"][o] > job.s.size)} :
              claims' = [claims EXCEPT ![job.c]["roSfs"] =
                            [o \in DOMAIN @ |-> IF o \in some THEN job.s.size ELSE @[o]]]
        BY DEF ExtendStops
    <2>2. some \in SUBSET D
        BY <1>4, <2>1
    <2> QED
        BY <2>1, <2>2
<1>7. PICK f \in [D -> Nat] :
          f = [o \in D |-> IF o \in some THEN job.s.size ELSE claims[c]["roSfs"][o]]
    <2>1. [o \in D |-> IF o \in some THEN job.s.size ELSE claims[c]["roSfs"][o]] \in [D -> Nat]
        BY <1>2, <1>5
    <2> QED
        BY <2>1, Zenon
<1>8. claims' = SetClaims(c, "roSfs", f)
    BY <1>4, <1>6, <1>7 DEF SetClaims
<1>9. /\ ClaimsType' /\ claims'[c]["roSfs"] = f
      /\ \A d \in Clusters, k \in Sets : d # c \/ k # "roSfs" => claims'[d][k] = claims[d][k]
    BY <1>2, <1>8, ClaimsWith
<1> QED
    BY <1>1, <1>3, <1>9, RoWrites

LEMMA RemoveStopsKeeps ==
    ASSUME ClaimsInv, RemoveStops
    PROVE  ClaimsInv'
<1> PICK c \in Clusters : c = job.c
    BY RoStart DEF RemoveStops, Done
<1>1. /\ Done("readOnly") /\ UNCHANGED <<phase, spec, ready, backups>> /\ torn' = torn \cup {<<c, "roSfs">>}
      /\ Store(With(c, "roSfs", None)) /\ Event
    BY DEF RemoveStops
<1>2. RestType /\ Objects(objs) /\ ClaimsType /\ "roSfs" \in Sets
    BY <1>1, RoStart DEF Done
<1>3. /\ events' \in 0 .. MaxEvents /\ torn \subseteq torn' /\ torn' \subseteq Clusters \X Sets
      /\ <<c, "roSfs">> \in torn'
    BY <1>1, <1>2, BoundsAssumption DEF Event, RestType
<1>4. PICK D \in SUBSET Nat : D = DOMAIN claims[c]["roSfs"]
    BY <1>2 DEF ClaimsType
<1>5. claims[c]["roSfs"] \in [D -> Nat]
    BY <1>2, <1>4 DEF ClaimsType
<1>6. PICK some \in SUBSET D : claims' = [claims EXCEPT ![c]["roSfs"] = [o \in some |-> @[o]]]
    <2>1. PICK some \in SUBSET DOMAIN claims[job.c]["roSfs"] :
              claims' = [claims EXCEPT ![job.c]["roSfs"] = [o \in some |-> @[o]]]
        BY DEF RemoveStops
    <2> QED
        BY <1>4, <2>1
<1>7. some \in SUBSET Nat
    OBVIOUS
<1>8. PICK f \in [some -> Nat] : f = [o \in some |-> claims[c]["roSfs"][o]]
    <2>1. [o \in some |-> claims[c]["roSfs"][o]] \in [some -> Nat]
        BY <1>5
    <2> QED
        BY <2>1, Zenon
<1>9. claims' = SetClaims(c, "roSfs", f)
    BY <1>6, <1>8 DEF SetClaims
<1>10. /\ ClaimsType' /\ claims'[c]["roSfs"] = f
       /\ \A d \in Clusters, k \in Sets : d # c \/ k # "roSfs" => claims'[d][k] = claims[d][k]
    BY <1>2, <1>7, <1>9, ClaimsWith
<1> QED
    BY <1>1, <1>3, <1>7, <1>10, RoWrites

-----------------------------------------------------------------------------
(* Kubernetes.                                                             *)
LEMMA MakeClaimsKeeps ==
    ASSUME ClaimsInv, NEW c \in Clusters, NEW k \in Sets, MakeClaims(c, k)
    PROVE  ClaimsInv'
<1>1. /\ RestType /\ Objects(objs) /\ ClaimsType /\ ClaimsFit(c) /\ JobType
      /\ "roSfs" \in Sets /\ "sfs" \in Sets /\ k \in Kinds
    BY TypeParts, SetsAreKinds DEF ClaimsInv, Sets
<1>2. /\ objs[c][k] # None /\ UNCHANGED <<phase, spec, ready, objs, backups, queue, job, events, torn>>
    BY DEF MakeClaims
<1>3. objs[c][k].replicas \in Nat /\ objs[c][k].size \in Nat
    <2>1. objs[c][k] \in Content(k)
        BY <1>1, <1>2 DEF Objects
    <2>2. CASE k = "sfs"
        <3>1. objs[c][k] \in [replicas : Nat, size : Nat]
            BY <2>1, <2>2, SfsContent
        <3> QED
            BY <3>1
    <2>3. CASE k = "roSfs"
        <3>1. objs[c][k] \in [replicas : Nat, size : Nat, conf : Conf]
            BY <2>1, <2>3, SfsContent
        <3> QED
            BY <3>1
    <2> QED
        BY <2>2, <2>3 DEF Sets
<1>4. PICK D \in SUBSET Nat : D = DOMAIN claims[c][k]
    BY <1>1 DEF ClaimsType
<1>5. claims[c][k] \in [D -> Nat]
    BY <1>1, <1>4 DEF ClaimsType
<1>6. PICK E \in SUBSET Nat : E = D \cup (0 .. (objs[c][k].replicas - 1))
    <2>1. \A r \in Nat : 0 .. (r - 1) \subseteq Nat
        OBVIOUS
    <2>2. D \cup (0 .. (objs[c][k].replicas - 1)) \in SUBSET Nat
        BY <1>3, <2>1
    <2> QED
        BY <2>2, Zenon
<1>7. PICK f \in [E -> Nat] : f = [o \in E |-> IF o \in D THEN claims[c][k][o] ELSE objs[c][k].size]
    <2>1. [o \in E |-> IF o \in D THEN claims[c][k][o] ELSE objs[c][k].size] \in [E -> Nat]
        BY <1>3, <1>5
    <2> QED
        BY <2>1, Zenon
<1>8. claims' = SetClaims(c, k, f)
    BY <1>4, <1>6, <1>7 DEF MakeClaims, SetClaims
<1>9. /\ ClaimsType' /\ claims'[c][k] = f
      /\ \A d \in Clusters, j \in Sets : d # c \/ j # k => claims'[d][j] = claims[d][j]
    BY <1>1, <1>8, ClaimsWith
<1>10. DOMAIN f = E /\ D \subseteq E /\ \A o \in D : f[o] = claims[c][k][o]
    BY <1>6, <1>7
<1>11. TypeOK'
    <2>1. RestType' /\ Objects(objs')
        BY <1>1, <1>2 DEF RestType
    <2>2. JobType'
        <3>1. job # None => job.c \in Clusters /\ job.left \subseteq DOMAIN claims[job.c]["sfs"]
            BY <1>1 DEF JobType, Job
        <3>2. job # None => DOMAIN claims[job.c]["sfs"] \subseteq DOMAIN claims'[job.c]["sfs"]
            BY <1>1, <1>4, <1>9, <1>10, <3>1
        <3> QED
            BY <1>1, <1>2, <3>1, <3>2 DEF JobType
    <2> QED
        BY <1>9, <2>1, <2>2, TypeParts
<1>12. LeftInv'
    BY <1>2 DEF ClaimsInv, LeftInv
<1>13. ExpandInv'
    <2> SUFFICES ASSUME NEW d \in Clusters, Expanding(d)
                 PROVE  /\ objs[d]["sfs"] = None
                        /\ \A o \in DOMAIN claims'[d]["sfs"] \ job.left : claims'[d]["sfs"][o] >= job.s.size
        BY <1>2 DEF ExpandInv, Expanding
    <2>1. /\ objs[d]["sfs"] = None
          /\ \A o \in DOMAIN claims[d]["sfs"] \ job.left : claims[d]["sfs"][o] >= job.s.size
        BY DEF ClaimsInv, ExpandInv
    <2>2. claims'[d]["sfs"] = claims[d]["sfs"]
        BY <1>1, <1>2, <1>9, <2>1
    <2> QED
        BY <2>1, <2>2
<1>14. ASSUME NEW d \in Clusters PROVE ClaimsFit(d)'
    <2>1. Expanding(d) <=> Expanding(d)'
        BY <1>2 DEF Expanding
    <2>2. CASE d # c
        BY <1>2, <1>9, <2>1, <2>2, Untouched
    <2>3. CASE d = c
        <3>1. ASSUME <<c, k>> \notin torn, NEW o \in E PROVE f[o] >= objs[c][k].size
            <4>1. o \in D => claims[c][k][o] >= objs[c][k].size
                BY <1>1, <1>2, <1>4, <3>1 DEF ClaimsFit, KeepsUp
            <4> QED
                BY <1>3, <1>7, <4>1
        <3>2. KeepsUp(c)'
            <4> SUFFICES ASSUME NEW j \in Sets, objs[c][j] # None, <<c, j>> \notin torn, NEW o \in DOMAIN claims'[c][j]
                         PROVE  claims'[c][j][o] >= objs[c][j].size
                BY <1>2 DEF KeepsUp
            <4>1. CASE j = k
                BY <1>9, <1>10, <3>1, <4>1
            <4>2. CASE j # k
                BY <1>1, <1>9, <4>2 DEF ClaimsFit, KeepsUp
            <4> QED
                BY <4>1, <4>2
        <3>3. SfsGone(c)' /\ RoGone(c)'
            BY <1>1, <1>2, <1>9, <2>1, <2>3 DEF ClaimsFit, SfsGone, RoGone
        <3> QED
            BY <2>3, <3>2, <3>3 DEF ClaimsFit
    <2> QED
        BY <2>2, <2>3
<1> QED
    BY <1>11, <1>12, <1>13, <1>14 DEF ClaimsInv

LEMMA CollectKeeps ==
    ASSUME ClaimsInv, NEW c \in Clusters, Collect(c)
    PROVE  ClaimsInv'
<1>1. /\ RestType /\ Objects(objs) /\ ClaimsType /\ JobType
      /\ "roSfs" \in Sets /\ "sfs" \in Sets /\ "roSfs" \in Kinds /\ "sfs" \in Kinds
    BY TypeParts, SetsAreKinds DEF ClaimsInv, Sets
<1>2. /\ phase[c] = "gone" /\ UNCHANGED <<phase, spec, backups, queue, job, events, torn>>
      /\ ready' = ready \ {c}
    BY DEF Collect
<1>3. /\ Objects(objs') /\ \A k \in Sets : objs'[c][k] = None
      /\ \A d \in Clusters : d # c => objs'[d] = objs[d]
    <2>1. /\ DOMAIN objs' = Clusters /\ \A d \in Clusters : d # c => objs'[d] = objs[d]
          /\ objs'[c] = [k \in Kinds |-> IF HasOwner(k, objs[c][k]) THEN None ELSE objs[c][k]]
        BY <1>1 DEF Collect, Objects
    <2>2. \A k \in Sets : objs'[c][k] = None
        BY <2>1, SetsAreKinds DEF HasOwner, Sets
    <2>3. DOMAIN objs'[c] = Kinds /\ \A k \in Kinds : objs'[c][k] = None \/ objs'[c][k] = objs[c][k]
        BY <2>1
    <2> QED
        BY <1>1, <2>1, <2>2, <2>3 DEF Objects
<1>4. /\ ClaimsType' /\ \A k \in Sets : DOMAIN claims'[c][k] = {}
      /\ \A d \in Clusters : d # c => claims'[d] = claims[d]
    <2>1. DOMAIN claims' = Clusters /\ claims'[c] = NoClaims /\ \A d \in Clusters : d # c => claims'[d] = claims[d]
        BY <1>1 DEF Collect, ClaimsType
    <2>2. /\ DOMAIN NoClaims = Sets
          /\ \A k \in Sets : DOMAIN NoClaims[k] = {} /\ NoClaims[k] \in [{} -> Nat]
        BY DEF NoClaims
    <2>3. \A d \in Clusters, k \in Sets : DOMAIN claims'[d][k] \subseteq Nat /\ claims'[d][k] \in [DOMAIN claims'[d][k] -> Nat]
        <3> SUFFICES ASSUME NEW d \in Clusters, NEW k \in Sets
                     PROVE  DOMAIN claims'[d][k] \subseteq Nat /\ claims'[d][k] \in [DOMAIN claims'[d][k] -> Nat]
            OBVIOUS
        <3>1. CASE d = c
            BY <2>1, <2>2, <3>1
        <3>2. CASE d # c
            BY <1>1, <2>1, <3>2 DEF ClaimsType
        <3> QED
            BY <3>1, <3>2
    <2>4. \A d \in Clusters : DOMAIN claims'[d] = Sets
        BY <1>1, <2>1, <2>2 DEF ClaimsType
    <2> QED
        BY <2>1, <2>2, <2>3, <2>4 DEF ClaimsType
<1>5. job # None /\ job.c = c => job.todo = <<>> /\ job.left = {}
    <2>1. <<>> # <<"expand">>
        OBVIOUS
    <2> QED
        BY <1>2, <2>1 DEF ClaimsInv, LeftInv
<1>6. TypeOK'
    <2>1. RestType'
        BY <1>1, <1>2 DEF RestType
    <2>2. JobType'
        BY <1>1, <1>2, <1>4, <1>5 DEF JobType, Job
    <2> QED
        BY <1>3, <1>4, <2>1, <2>2, TypeParts
<1>7. LeftInv'
    BY <1>2 DEF ClaimsInv, LeftInv
<1>8. ExpandInv'
    <2> SUFFICES ASSUME NEW d \in Clusters, Expanding(d)
                 PROVE  /\ objs'[d]["sfs"] = None
                        /\ \A o \in DOMAIN claims'[d]["sfs"] \ job.left : claims'[d]["sfs"][o] >= job.s.size
        BY <1>2 DEF ExpandInv, Expanding
    <2>1. d # c
        BY <1>5 DEF Expanding
    <2> QED
        BY <1>3, <1>4, <2>1 DEF ClaimsInv, ExpandInv
<1>9. ASSUME NEW d \in Clusters PROVE ClaimsFit(d)'
    <2>1. Expanding(d) => Expanding(d)'
        BY <1>2 DEF Expanding
    <2>2. CASE d # c
        BY <1>2, <1>3, <1>4, <2>1, <2>2, Untouched
    <2>3. CASE d = c
        BY <1>1, <1>3, <1>4, <2>3, SetsAreKinds DEF ClaimsFit, SfsGone, RoGone, KeepsUp
    <2> QED
        BY <2>2, <2>3
<1> QED
    BY <1>6, <1>7, <1>8, <1>9 DEF ClaimsInv

-----------------------------------------------------------------------------
LEMMA ClaimsInit == Init => ClaimsInv
<1> SUFFICES ASSUME Init PROVE ClaimsInv
    OBVIOUS
<1>1. RestType
    BY SpecsAssumption, BoundsAssumption DEF Init, RestType
<1>2. Objects(objs) /\ \A c \in Clusters, k \in Kinds : objs[c][k] = None
    BY DEF Init, Objects
<1>3. ClaimsType /\ \A c \in Clusters, k \in Sets : DOMAIN claims[c][k] = {}
    BY DEF Init, ClaimsType, NoClaims
<1>4. TypeOK
    BY <1>1, <1>2, <1>3 DEF Init, TypeOK, RestType, Objects, ClaimsType
<1>5. LeftInv /\ ExpandInv
    BY DEF Init, LeftInv, ExpandInv, Expanding
<1>6. "sfs" \in Sets /\ "roSfs" \in Sets
    BY DEF Sets
<1>7. \A c \in Clusters : ClaimsFit(c)
    BY <1>2, <1>3, <1>6, SetsAreKinds DEF ClaimsFit, SfsGone, RoGone, KeepsUp
<1> QED
    BY <1>4, <1>5, <1>7 DEF ClaimsInv

LEMMA ClaimsStep == ClaimsInv /\ [Next]_vars => ClaimsInv'
<1> SUFFICES ASSUME ClaimsInv, [Next]_vars PROVE ClaimsInv'
    OBVIOUS
<1>1. CASE UNCHANGED vars
    <2>1. RestType'
        BY <1>1, TypeParts DEF vars, RestType, ClaimsInv
    <2> QED
        BY <1>1, <2>1, Aside DEF vars
<1>2. CASE Pass
    <2>1. CASE SyncObjects
        BY <2>1, SyncObjectsKeeps
    <2>2. CASE DeleteServices
        BY <2>2, DeleteServicesKeeps
    <2>3. CASE CreateOrUpdate
        BY <2>3, CreateOrUpdateKeeps
    <2>4. CASE CanNotExpand \/ EndPass \/ SyncRefused
        BY <2>4, CanNotExpandKeeps
    <2>5. CASE ExpandPVCs
        BY <2>5, ExpandPVCsKeeps
    <2>6. CASE DoExpandPVCs
        BY <2>6, DoExpandPVCsKeeps
    <2>7. CASE Recreate \/ ShrinkRefused
        BY <2>7, ExpandEndsKeeps
    <2>8. CASE RemoveReadOnly
        BY <2>8, RemoveReadOnlyKeeps
    <2>9. CASE SfsReadOnly
        BY <2>9, SfsReadOnlyKeeps
    <2>10. CASE ExtendReadOnlyPVCs
        BY <2>10, ExtendReadOnlyPVCsKeeps
    <2>11. CASE DeleteAllBackup
        BY <2>11, DeleteAllBackupKeeps
    <2>12. CASE ExtendStops
        BY <2>12, ExtendStopsKeeps
    <2> QED
        BY <1>2, <2>1, <2>2, <2>3, <2>4, <2>5, <2>6, <2>7, <2>8, <2>9, <2>10, <2>11, <2>12
           DEF Pass, ReadOnly
<1>3. CASE SyncFails
    BY <1>3, SyncFailsKeeps
<1>4. CASE PassFails
    BY <1>4, CanNotExpandKeeps, ExpandEndsKeeps
<1>5. CASE RemoveStops
    BY <1>5, RemoveStopsKeeps
<1>6. CASE Resync
    BY <1>6, AsideKeeps
<1>7. ASSUME NEW c \in Clusters, Reconcile(c) PROVE ClaimsInv'
    BY <1>7, ReconcileKeeps
<1>8. ASSUME NEW c \in Clusters, DeleteCluster(c) PROVE ClaimsInv'
    BY <1>8, AsideKeeps
<1>9. ASSUME NEW c \in Clusters, Kubernetes(c) PROVE ClaimsInv'
    <2>1. ASSUME NEW k \in Sets, MakeClaims(c, k) PROVE ClaimsInv'
        BY <2>1, MakeClaimsKeeps
    <2>2. CASE BecomesReady(c)
        BY <2>2, AsideKeeps
    <2>3. CASE Collect(c)
        BY <2>3, CollectKeeps
    <2> QED
        BY <1>9, <2>1, <2>2, <2>3 DEF Kubernetes
<1>10. ASSUME NEW c \in Clusters, NEW s \in Edits[c], Edit(c, s) PROVE ClaimsInv'
    BY <1>10, EditKeeps
<1> QED
    BY <1>1, <1>2, <1>3, <1>4, <1>5, <1>6, <1>7, <1>8, <1>9, <1>10 DEF Next

LEMMA ClaimsInvariant == Spec => []ClaimsInv
    BY ClaimsInit, ClaimsStep, PTL DEF Spec

(***************************************************************************)
(* Every variable of the controller has its type, each kind of object the  *)
(* content its syncer writes, and the claims a pass has still to resize    *)
(* are claims that exist (TypeOK).                                         *)
(***************************************************************************)
THEOREM TypeCorrect == Spec => []TypeOK
<1>1. ClaimsInv => TypeOK
    BY DEF ClaimsInv
<1> QED
    BY <1>1, ClaimsInvariant, PTL

(***************************************************************************)
(* For any clusters, edits and faults: no claim is smaller than the        *)
(* StatefulSet that mounts it says, unless an expansion of that            *)
(* StatefulSet or the removal of the read-only one was cut short, or an    *)
(* expansion overtaken (ClaimsKeepUp): doExpandPVCs and                    *)
(* ExtendReadOnlyPVCs resize claims while there is no StatefulSet, and     *)
(* SfsReadOnly drops its error after it has deleted one.                   *)
(***************************************************************************)
THEOREM ClaimsFollow == Spec => []ClaimsKeepUp
<1>1. ClaimsInv => ClaimsKeepUp
    BY DEF ClaimsInv, ClaimsFit, KeepsUp, ClaimsKeepUp
<1> QED
    BY <1>1, ClaimsInvariant, PTL
=============================================================================
