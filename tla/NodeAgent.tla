----------------------------- MODULE NodeAgent -----------------------------
(***************************************************************************)
(* The two agents of a pod: xenonchecker (cmd/xenon/main.go), which the    *)
(* preStop hook and xenon's leader-stop command call to step down, and the *)
(* postStart hook calls to ask for a rebuild; and mysqlchecker             *)
(* (cmd/mysql/main.go), which the probes of the mysql container call.      *)
(*                                                                         *)
(* leaderStop works in a goroutine while its caller waits five seconds:    *)
(* when the time is over it kills mysqld, whether the goroutine is done or *)
(* not, and the process ends, the deferred "raft enable" run or not.       *)
(*                                                                         *)
(* What is abstracted: GTID sets to the nodes that hold transactions the   *)
(* leader lacks; the steps between raft disable and the end of the         *)
(* goroutine to one. xenon's elections, the kubelet, and the labels and    *)
(* rebuild of the status syncer (ClusterStatus, PodInit) are taken in the  *)
(* form the agents see them; the failing probe of a dead mysqld is taken   *)
(* together with its end.                                                  *)
(***************************************************************************)
EXTENDS Integers, FiniteSets

CONSTANTS
    Nodes,        \* the pods of the StatefulSet
    First,        \* the leader at the start
    Restarted,    \* nodes just restarted, with transactions the leader lacks
    AutoRebuild,  \* enableAutoRebuild of the cluster
    MaxStops,     \* bound on pod deletions and demotions
    MaxFaults     \* bound on failing or slow steps and on crashes of mysqld

ASSUME NodesAssumption ==
    /\ IsFiniteSet(Nodes) /\ First \in Nodes /\ Restarted \subseteq Nodes \ {First}
    /\ AutoRebuild \in BOOLEAN /\ MaxStops \in Nat /\ MaxFaults \in Nat

VARIABLES
    pod,      \* [Nodes -> "up", "stopping" (its preStop hook runs) or "gone"]
    mysql,    \* [Nodes -> [up, ro]]: mysqld runs, read_only is on
    raft,     \* [Nodes -> state of its xenon]; "IDLE" while raft is disabled
    label,    \* [Nodes -> role label, as the status syncer last wrote it]
    ready,    \* nodes whose readiness probe succeeded last
    stop,     \* [Nodes -> [Callers -> where a leaderStop process is]]
    post,     \* [Nodes -> where its postStart hook is]
    rebuild,  \* nodes labelled rebuild=true
    errant,   \* nodes holding transactions the leader lacks
    last,     \* the last leader
    stops,    \* deletions and demotions so far
    faults,   \* faults so far
    halted    \* history: nodes a leaderStop process left without enabling raft, until
              \*   raft is enabled or xenon starts again

vars == <<pod, mysql, raft, label, ready, stop, post, rebuild, errant, last, stops, faults, halted>>

Callers == {"preStop", "demoted"}
Raft == {"LEADER", "FOLLOWER", "CANDIDATE", "IDLE"}
Steps == {"off", "check", "disable", "close", "enable", "expire"}

NoStop == [k \in Callers |-> "off"]

\* A formed cluster, some of whose nodes have just been restarted.
Init ==
    /\ last = First
    /\ errant = Restarted
    /\ pod = [n \in Nodes |-> "up"]
    /\ mysql = [n \in Nodes |-> [up |-> TRUE, ro |-> n # last]]
    /\ raft = [n \in Nodes |-> IF n = last THEN "LEADER" ELSE "FOLLOWER"]
    /\ label = raft
    /\ ready = Nodes \ errant /\ rebuild = {} /\ halted = {}
    /\ stop = [n \in Nodes |-> NoStop]
    /\ post = [n \in Nodes |-> IF AutoRebuild /\ n \in errant THEN "wait" ELSE "off"]
    /\ stops = 0 /\ faults = 0

----------------------------------------------------------------------------
(* Helpers *)

Fault == faults < MaxFaults /\ faults' = faults + 1
Answers(n) == pod[n] # "gone"
Connected(n) == mysql[n].up
IsReadonly(n) == mysql[n].ro

\* The statements between read_only and the pid file, none of which changes what a
\* node accepts: they succeed while mysqld answers.
Drains(n) == Connected(n)

\* Who is leader, as xenon on any node answers.
Leaders == {n \in Nodes : Answers(n) /\ raft[n] = "LEADER"}

\* The process of caller k on node n is at step s, and goes to step t.
At(n, k, s) == Answers(n) /\ stop[n][k] = s
Go(n, k, t) == stop' = [stop EXCEPT ![n][k] = t]

\* A step between raft disable and raft enable.
Disabled == {"close", "enable"}

----------------------------------------------------------------------------
(* leaderStop *)

\* No connection to mysqld, or a read-only one: the process ends at once.
Check(n, k) ==
    /\ At(n, k, "check")
    /\ Go(n, k, IF Connected(n) /\ ~IsReadonly(n) THEN "disable" ELSE "off")
    /\ UNCHANGED <<pod, mysql, raft, label, ready, post, rebuild, errant, last, stops, faults, halted>>

\* xenoncli raft disable. A leader steps down and xenon calls leaderStop itself.
DisableMyRaft(n, k) ==
    /\ At(n, k, "disable")
    /\ raft' = [raft EXCEPT ![n] = "IDLE"]
    /\ stop' = [stop EXCEPT ![n][k] = "close",
                            ![n]["demoted"] = IF k = "preStop" /\ raft[n] = "LEADER" /\ @ = "off"
                                                THEN "check"
                                              ELSE IF k = "demoted" THEN "close" ELSE @]
    /\ UNCHANGED <<pod, mysql, label, ready, post, rebuild, errant, last, stops, faults, halted>>

\* The event scheduler goes off and read_only on; long writes are counted, threads
\* killed, tables and binary logs flushed.
SetReadOnly(n, k) ==
    /\ At(n, k, "close") /\ Drains(n)
    /\ mysql' = [mysql EXCEPT ![n].ro = TRUE]
    /\ Go(n, k, "enable")
    /\ UNCHANGED <<pod, raft, label, ready, post, rebuild, errant, last, stops, faults, halted>>

\* Mutant: the goroutine ends and nothing enables raft.
EndGoroutine(n, k) ==
    /\ At(n, k, "enable") /\ Go(n, k, "expire")
    /\ UNCHANGED <<pod, mysql, raft, label, ready, post, rebuild, errant, last, stops, faults, halted>>

\* The deferred xenoncli raft enable ends the goroutine; nothing tells the caller.
EnableMyRaft(n, k) ==
    /\ At(n, k, "enable")
    /\ raft' = [raft EXCEPT ![n] = IF @ = "IDLE" THEN "FOLLOWER" ELSE @]
    /\ halted' = halted \ {n}
    /\ Go(n, k, "expire")
    /\ UNCHANGED <<pod, mysql, label, ready, post, rebuild, errant, last, stops, faults>>

\* Enabling raft fails: the error is only logged, and the caller waits as it would.
EnableFails(n, k) ==
    /\ At(n, k, "enable") /\ Fault
    /\ halted' = halted \cup {n}
    /\ Go(n, k, "expire")
    /\ UNCHANGED <<pod, mysql, raft, label, ready, post, rebuild, errant, last, stops>>

\* The five seconds are over: mysqld is killed through the API server.
KillMysqld(n, k) ==
    /\ At(n, k, "expire")
    /\ mysql' = [mysql EXCEPT ![n].up = FALSE]
    /\ ready' = ready \ {n}
    /\ Go(n, k, "off")
    /\ UNCHANGED <<pod, raft, label, post, rebuild, errant, last, stops, faults, halted>>

\* The process ends with raft disabled by it: nobody enables it again.
Leaves(n, k) == halted' = IF stop[n][k] \in Disabled THEN halted \cup {n} ELSE halted

\* The five seconds are over while the goroutine is still at work.
Timeout(n, k) ==
    /\ stop[n][k] \in {"disable"} \cup Disabled /\ Answers(n) /\ Fault
    /\ mysql' = [mysql EXCEPT ![n].up = FALSE]
    /\ ready' = ready \ {n}
    /\ Go(n, k, "off")
    /\ Leaves(n, k)
    /\ UNCHANGED <<pod, raft, label, post, rebuild, errant, last, stops>>

\* A step fails: the caller gets the error and ends the process, while the goroutine
\* may still get as far as read_only. A dead mysqld makes every statement fail.
StepFails(n, k) ==
    /\ Answers(n)
    /\ \/ stop[n][k] \in {"disable", "close", "expire"} /\ Fault
       \/ stop[n][k] = "close" /\ ~Drains(n) /\ UNCHANGED faults
    /\ \E b \in BOOLEAN : mysql' = [mysql EXCEPT ![n].ro = @ \/ b]
    /\ Go(n, k, "off")
    /\ Leaves(n, k)
    /\ UNCHANGED <<pod, raft, label, ready, post, rebuild, errant, last, stops>>

LeaderStop(n, k) ==
    \/ Check(n, k) \/ DisableMyRaft(n, k) \/ SetReadOnly(n, k)
    \/ EnableMyRaft(n, k) \/ KillMysqld(n, k) \/ StepFails(n, k)

----------------------------------------------------------------------------
(* postStart *)

\* Mutant: the verdict itself is kept as the state of the hook.
KeepVerdict(n) == IF n \in errant THEN "errant" ELSE "off"

\* What the hook does with one answer of "xenoncli cluster gtid": nothing on the
\* leader, nothing with fewer than three nodes alive or no leader, else it compares.
Decide(n) ==
    IF \/ raft[n] = "LEADER"
       \/ Cardinality({m \in Nodes : Answers(m)}) < 3 \/ Leaders = {}
       \/ n \notin errant
    THEN "off" ELSE "ask"

\* The hook has waited for mysqld and xenon and reads the list.
PostStart(n) ==
    /\ post[n] = "wait" /\ pod[n] = "up" /\ Connected(n)
    /\ post' = [post EXCEPT ![n] = Decide(n)]
    /\ UNCHANGED <<pod, mysql, raft, label, ready, stop, rebuild, errant, last, stops, faults, halted>>

\* The pod labels itself for a rebuild, on what it read before.
PatchRebuildLabel(n) ==
    /\ post[n] = "ask" /\ pod[n] = "up"
    /\ rebuild' = rebuild \cup {n}
    /\ post' = [post EXCEPT ![n] = "off"]
    /\ UNCHANGED <<pod, mysql, raft, label, ready, stop, errant, last, stops, faults, halted>>

\* A hook that fails, waiting for mysqld or xenon, reading the list or after it, makes
\* the kubelet restart the container and run it again: xenon starts anew as a follower,
\* which is read-only.
PostStartFails(n) ==
    /\ post[n] \in {"wait", "ask"} /\ pod[n] = "up" /\ Fault
    /\ post' = [post EXCEPT ![n] = "wait"]
    /\ raft' = [raft EXCEPT ![n] = "FOLLOWER"]
    /\ mysql' = [mysql EXCEPT ![n].ro = TRUE]
    /\ stop' = [stop EXCEPT ![n] = NoStop]
    /\ halted' = halted \ {n}
    /\ UNCHANGED <<pod, label, ready, rebuild, errant, last, stops>>

----------------------------------------------------------------------------
(* mysqlchecker *)

\* What SHOW SLAVE STATUS says: nothing, a stopped, failing or late replica, or a
\* running one.
SlaveStatus == {"none", "stopped", "running"}

\* The verdict of a follower's probe: with no leader, and with no replica status at
\* all (the error of the query is dropped), it is ready.
FollowerReady(slave) == Leaders = {} \/ slave \in {"none", "running"}

\* Mutant: the probe leaves read_only as it is.
ReadinessOnly(n, slave) ==
    /\ pod[n] = "up"
    /\ IF slave = "stopped" THEN Fault ELSE UNCHANGED faults
    /\ ready' = IF mysql[n].up /\ (label[n] = "FOLLOWER" => FollowerReady(slave))
                  THEN ready \cup {n} ELSE ready \ {n}
    /\ UNCHANGED <<pod, mysql, raft, label, stop, post, rebuild, errant, last, stops, halted>>

\* The readiness probe; a labelled leader that is read-only is opened for writes, as
\* nothing in the operator makes an update file.
Readiness(n, slave) ==
    /\ pod[n] = "up"
    /\ IF slave = "stopped" THEN Fault ELSE UNCHANGED faults
    /\ LET ok == Connected(n) /\ (label[n] = "FOLLOWER" => FollowerReady(slave))
           opens == Connected(n) /\ label[n] = "LEADER" /\ IsReadonly(n)
       IN /\ ready' = IF ok THEN ready \cup {n} ELSE ready \ {n}
          /\ mysql' = IF opens THEN [mysql EXCEPT ![n].ro = FALSE] ELSE mysql
    /\ UNCHANGED <<pod, raft, label, stop, post, rebuild, errant, last, stops, halted>>

\* A probe that does not reach the API server, xenon or mysqld finds the pod not ready;
\* one that cannot tell whether there is an update file leaves a leader read-only.
ReadinessFails(n) ==
    /\ pod[n] = "up" /\ Fault
    /\ \/ ready' = ready \ {n}
       \/ Connected(n) /\ label[n] = "LEADER" /\ ready' = ready \cup {n}
    /\ UNCHANGED <<pod, mysql, raft, label, stop, post, rebuild, errant, last, stops, halted>>

----------------------------------------------------------------------------
(* xenon, the kubelet and the operator, as the agents see them *)

\* A majority whose raft is enabled elects a node; a lossy failover leaves the
\* old leader with transactions the new one lacks.
Elect(n) ==
    /\ Leaders = {} /\ Answers(n) /\ raft[n] = "FOLLOWER" /\ mysql[n].up
    /\ 2 * Cardinality({m \in Nodes : Answers(m) /\ raft[m] = "FOLLOWER"}) > Cardinality(Nodes)
    /\ raft' = [raft EXCEPT ![n] = "LEADER"]
    /\ mysql' = [mysql EXCEPT ![n].ro = FALSE]
    /\ \/ errant' = errant \ {n} /\ UNCHANGED faults
       \/ errant' = (errant \cup {last}) \ {n} /\ Fault
    /\ last' = n
    /\ UNCHANGED <<pod, label, ready, stop, post, rebuild, stops, halted>>

\* The leader loses its majority or its mysqld: xenon may set read_only before it
\* calls the leader-stop command.
Demote(n) ==
    /\ n \in Leaders /\ stop[n]["demoted"] = "off" /\ stops < MaxStops
    /\ stops' = stops + 1
    /\ raft' = [raft EXCEPT ![n] = "FOLLOWER"]
    /\ \E b \in BOOLEAN : mysql' = [mysql EXCEPT ![n].ro = @ \/ b]
    /\ Go(n, "demoted", "check")
    /\ UNCHANGED <<pod, label, ready, post, rebuild, errant, last, faults, halted>>

\* A pod is deleted and its preStop hook starts.
Terminate(n) ==
    /\ pod[n] = "up"
    /\ pod' = [pod EXCEPT ![n] = "stopping"]
    /\ ready' = ready \ {n}
    /\ Go(n, "preStop", "check")
    /\ UNCHANGED <<mysql, raft, label, post, rebuild, errant, last, faults, halted>>

DeletePod(n) == stops < MaxStops /\ stops' = stops + 1 /\ Terminate(n)

\* The status syncer deletes a pod that is labelled for a rebuild.
RebuildPod(n) == n \in rebuild /\ UNCHANGED stops /\ Terminate(n)

\* The hook is over: the containers end, and with them the other processes.
PodGone(n) ==
    /\ pod[n] = "stopping" /\ stop[n]["preStop"] = "off"
    /\ pod' = [pod EXCEPT ![n] = "gone"]
    /\ mysql' = [mysql EXCEPT ![n] = [up |-> FALSE, ro |-> TRUE]]
    /\ raft' = [raft EXCEPT ![n] = "FOLLOWER"]
    /\ label' = [label EXCEPT ![n] = "CANDIDATE"]
    /\ ready' = ready \ {n}
    /\ stop' = [stop EXCEPT ![n] = NoStop]
    /\ post' = [post EXCEPT ![n] = "off"]
    /\ halted' = halted \ {n}
    /\ UNCHANGED <<rebuild, errant, last, stops, faults>>

\* The pod is made again; a rebuilt one with the leader's data.
Remade(n) ==
    /\ pod[n] = "gone"
    /\ pod' = [pod EXCEPT ![n] = "up"]
    /\ mysql' = [mysql EXCEPT ![n].up = TRUE]
    /\ post' = [post EXCEPT ![n] = IF AutoRebuild THEN "wait" ELSE "off"]
    /\ rebuild' = rebuild \ {n}
    /\ errant' = IF n \in rebuild THEN errant \ {n} ELSE errant
    /\ UNCHANGED <<raft, label, ready, stop, last, stops, faults, halted>>

\* mysqld starts read-only, as my.cnf says.
MysqlStarts(n) ==
    /\ pod[n] = "up" /\ ~mysql[n].up
    /\ mysql' = [mysql EXCEPT ![n] = [up |-> TRUE, ro |-> TRUE]]
    /\ UNCHANGED <<pod, raft, label, ready, stop, post, rebuild, errant, last, stops, faults, halted>>

MysqlCrash(n) ==
    /\ pod[n] = "up" /\ mysql[n].up /\ Fault
    /\ mysql' = [mysql EXCEPT ![n].up = FALSE]
    /\ ready' = ready \ {n}
    /\ UNCHANGED <<pod, raft, label, stop, post, rebuild, errant, last, stops, halted>>

\* A pass of the status syncer writes the roles it is told.
LabelRoles ==
    /\ label' = [n \in Nodes |-> IF pod[n] = "up" THEN raft[n] ELSE label[n]]
    /\ UNCHANGED <<pod, mysql, raft, ready, stop, post, rebuild, errant, last, stops, faults, halted>>

----------------------------------------------------------------------------
Kubelet(n) == PodGone(n) \/ Remade(n) \/ MysqlStarts(n)
Hooks(n) == PostStart(n) \/ PatchRebuildLabel(n)

Next ==
    \/ LabelRoles
    \/ \E n \in Nodes :
        \/ \E k \in Callers : LeaderStop(n, k) \/ Timeout(n, k) \/ EnableFails(n, k)
        \/ Hooks(n) \/ PostStartFails(n)
        \/ \E slave \in SlaveStatus : Readiness(n, slave)
        \/ ReadinessFails(n)
        \/ Elect(n) \/ Demote(n) \/ DeletePod(n) \/ RebuildPod(n)
        \/ Kubelet(n) \/ MysqlCrash(n)

\* Processes go on, the kubelet restarts what ended and probes, xenon elects, the
\* status syncer labels and rebuilds; deletions, demotions and faults are not forced.
Spec ==
    /\ Init /\ [][Next]_vars
    /\ WF_vars(LabelRoles)
    /\ \A n \in Nodes :
          /\ \A k \in Callers : WF_vars(LeaderStop(n, k))
          /\ WF_vars(Hooks(n)) /\ WF_vars(Readiness(n, "running"))
          /\ WF_vars(Elect(n)) /\ WF_vars(RebuildPod(n))
          /\ WF_vars(Kubelet(n))

----------------------------------------------------------------------------
(* Properties *)

\* Every variable has its type.
TypeOK ==
    /\ pod \in [Nodes -> {"up", "stopping", "gone"}]
    /\ mysql \in [Nodes -> [up: BOOLEAN, ro: BOOLEAN]]
    /\ raft \in [Nodes -> Raft] /\ label \in [Nodes -> Raft]
    /\ ready \subseteq Nodes /\ rebuild \subseteq Nodes /\ errant \subseteq Nodes /\ halted \subseteq Nodes
    /\ stop \in [Nodes -> [Callers -> Steps]]
    /\ post \in [Nodes -> {"off", "wait", "ask"}]
    /\ last \in Nodes
    /\ stops \in 0..MaxStops /\ faults \in 0..MaxFaults

\* A node is out of the elections only while one of its leaderStop processes is
\* between disabling and enabling raft, however the hook's and xenon's own process
\* overlap, or after one that failed or ran out of time there, or that enabled it in vain.
IdleExplained ==
    \A n \in Nodes : raft[n] = "IDLE" =>
        n \in halted \/ \E k \in Callers : stop[n][k] \in Disabled

\* A pod that asked for its own rebuild is deleted only while three nodes answer.
RebuildSafe ==
    [][\A n \in Nodes : n \in rebuild /\ pod[n] = "up" /\ pod'[n] = "stopping" =>
            Cardinality({m \in Nodes : Answers(m)}) >= 3]_vars

\* Whatever is deleted, demoted, killed or fails, the cluster ends with a leader that
\* is labelled so, ready, and open for writes.
EventuallyServed ==
    <>[](\E n \in Nodes : /\ raft[n] = "LEADER" /\ label[n] = "LEADER" /\ n \in ready
                          /\ mysql[n].up /\ ~mysql[n].ro)
=============================================================================
