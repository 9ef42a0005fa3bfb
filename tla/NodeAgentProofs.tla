-------------------------- MODULE NodeAgentProofs ---------------------------
(***************************************************************************)
(* Type correctness of NodeAgent and IdleExplained, for every number of    *)
(* nodes and all bounds: the two leaderStop processes of a node may        *)
(* overlap in any order and raft is still enabled again by one of them,    *)
(* unless a process failed or ran out of time, or its enabling failed.     *)
(***************************************************************************)
EXTENDS NodeAgent, TLAPS

(* The preStop hook runs only in a pod that is being stopped: a second     *)
(* hook never starts over one that has disabled raft.                      *)
HookWhileStopping ==
    \A n \in Nodes : pod[n] # "stopping" => stop[n]["preStop"] = "off"

IndInv == TypeOK /\ HookWhileStopping /\ IdleExplained

-----------------------------------------------------------------------------
(* A formed cluster satisfies the invariant.                               *)
LEMMA InitInd == Init => IndInv
<1> SUFFICES ASSUME Init PROVE IndInv
    OBVIOUS
<1> USE NodesAssumption DEF Init, NoStop, Callers, Steps, Raft
<1>1. TypeOK
    BY DEF TypeOK
<1>2. HookWhileStopping
    BY DEF HookWhileStopping
<1>3. IdleExplained
    BY DEF IdleExplained
<1> QED
    BY <1>1, <1>2, <1>3 DEF IndInv

-----------------------------------------------------------------------------
(* Counters stay within their bounds.                                      *)
LEMMA FaultCounted == faults \in 0..MaxFaults /\ Fault => faults' \in 0..MaxFaults
    BY NodesAssumption DEF Fault

LEMMA StopCounted ==
    stops \in 0..MaxStops /\ stops < MaxStops /\ stops' = stops + 1 => stops' \in 0..MaxStops
    BY NodesAssumption

(* Setting a field of a server's state keeps its type.                     *)
LEMMA MysqlSet ==
    ASSUME mysql \in [Nodes -> [up: BOOLEAN, ro: BOOLEAN]], NEW n \in Nodes, NEW b \in BOOLEAN
    PROVE  /\ [mysql EXCEPT ![n].ro = b] \in [Nodes -> [up: BOOLEAN, ro: BOOLEAN]]
           /\ [mysql EXCEPT ![n].up = b] \in [Nodes -> [up: BOOLEAN, ro: BOOLEAN]]
           /\ (mysql[n].ro \/ b) \in BOOLEAN
    OBVIOUS

(* Every step keeps the types.                                             *)
LEMMA TypeStep == TypeOK /\ [Next]_vars => TypeOK'
<1> SUFFICES ASSUME TypeOK, [Next]_vars PROVE TypeOK'
    OBVIOUS
<1> USE DEF TypeOK, Callers, Steps, Raft, Go, At
<1>0. ASSUME NEW n \in Nodes, NEW b \in BOOLEAN, mysql' = [mysql EXCEPT ![n].ro = mysql[n].ro \/ b]
      PROVE  mysql' \in [Nodes -> [up: BOOLEAN, ro: BOOLEAN]]
    <2>1. (mysql[n].ro \/ b) \in BOOLEAN
        OBVIOUS
    <2> QED
        BY <1>0, <2>1, MysqlSet
<1>1. ASSUME NEW n \in Nodes, NEW k \in Callers, LeaderStop(n, k)
      PROVE  TypeOK'
    <2>1. CASE Check(n, k)
        BY <2>1 DEF Check
    <2>2. CASE DisableMyRaft(n, k)
        BY <2>2 DEF DisableMyRaft
    <2>3. CASE SetReadOnly(n, k)
        BY <2>3 DEF SetReadOnly
    <2>4. CASE EnableMyRaft(n, k)
        BY <2>4 DEF EnableMyRaft
    <2>5. CASE KillMysqld(n, k)
        BY <2>5 DEF KillMysqld
    <2>6. CASE StepFails(n, k)
        <3>1. mysql' \in [Nodes -> [up: BOOLEAN, ro: BOOLEAN]]
            BY <2>6, <1>0 DEF StepFails
        <3>2. faults' \in 0..MaxFaults
            BY <2>6, FaultCounted DEF StepFails
        <3> QED
            BY <2>6, <3>1, <3>2 DEF StepFails, Leaves
    <2> QED
        BY <1>1, <2>1, <2>2, <2>3, <2>4, <2>5, <2>6 DEF LeaderStop
<1>2. ASSUME NEW n \in Nodes, NEW k \in Callers, Timeout(n, k) \/ EnableFails(n, k)
      PROVE  TypeOK'
    <2>1. faults' \in 0..MaxFaults
        BY <1>2, FaultCounted DEF Timeout, EnableFails
    <2>2. CASE Timeout(n, k)
        BY <2>1, <2>2, MysqlSet DEF Timeout, Leaves
    <2>3. CASE EnableFails(n, k)
        BY <2>1, <2>3 DEF EnableFails
    <2> QED
        BY <1>2, <2>1, <2>2, <2>3
<1>3. ASSUME NEW n \in Nodes, Hooks(n) \/ PostStartFails(n)
      PROVE  TypeOK'
    <2>1. CASE PostStart(n)
        BY <2>1 DEF PostStart, Decide
    <2>2. CASE PatchRebuildLabel(n)
        BY <2>2 DEF PatchRebuildLabel
    <2>3. CASE PostStartFails(n)
        <3>1. faults' \in 0..MaxFaults
            BY <2>3, FaultCounted DEF PostStartFails
        <3> QED
            BY <2>3, <3>1, MysqlSet DEF PostStartFails, NoStop
    <2> QED
        BY <1>3, <2>1, <2>2, <2>3 DEF Hooks
<1>4. ASSUME NEW n \in Nodes, NEW slave \in SlaveStatus, Readiness(n, slave)
      PROVE  TypeOK'
    <2>1. faults' \in 0..MaxFaults
        BY <1>4, FaultCounted DEF Readiness
    <2>2. mysql' \in [Nodes -> [up: BOOLEAN, ro: BOOLEAN]]
        BY <1>4, MysqlSet DEF Readiness
    <2> QED
        BY <1>4, <2>1, <2>2 DEF Readiness
<1>5. ASSUME NEW n \in Nodes, Elect(n)
      PROVE  TypeOK'
    <2>1. faults' \in 0..MaxFaults
        BY <1>5, FaultCounted DEF Elect
    <2>2. mysql' \in [Nodes -> [up: BOOLEAN, ro: BOOLEAN]]
        BY <1>5, MysqlSet DEF Elect
    <2>3. errant' \subseteq Nodes
        BY <1>5 DEF Elect
    <2> QED
        BY <1>5, <2>1, <2>2, <2>3 DEF Elect
<1>6. ASSUME NEW n \in Nodes, Demote(n)
      PROVE  TypeOK'
    <2>1. stops' \in 0..MaxStops
        BY <1>6, StopCounted DEF Demote
    <2>2. mysql' \in [Nodes -> [up: BOOLEAN, ro: BOOLEAN]]
        BY <1>6, <1>0 DEF Demote
    <2> QED
        BY <1>6, <2>1, <2>2 DEF Demote
<1>7. ASSUME NEW n \in Nodes, DeletePod(n) \/ RebuildPod(n)
      PROVE  TypeOK'
    <2>1. stops' \in 0..MaxStops
        BY <1>7, StopCounted DEF DeletePod, RebuildPod
    <2>2. Terminate(n)
        BY <1>7 DEF DeletePod, RebuildPod
    <2> QED
        BY <2>1, <2>2 DEF Terminate
<1>8. ASSUME NEW n \in Nodes, Kubelet(n)
      PROVE  TypeOK'
    <2>1. CASE PodGone(n)
        BY <2>1 DEF PodGone, NoStop
    <2>2. CASE Remade(n)
        BY <2>2 DEF Remade
    <2>3. CASE MysqlStarts(n)
        BY <2>3 DEF MysqlStarts
    <2> QED
        BY <1>8, <2>1, <2>2, <2>3 DEF Kubelet
<1>9. ASSUME NEW n \in Nodes, MysqlCrash(n) \/ ReadinessFails(n)
      PROVE  TypeOK'
    <2>1. faults' \in 0..MaxFaults
        BY <1>9, FaultCounted DEF MysqlCrash, ReadinessFails
    <2>2. CASE MysqlCrash(n)
        BY <2>1, <2>2, MysqlSet DEF MysqlCrash
    <2>3. CASE ReadinessFails(n)
        BY <2>1, <2>3 DEF ReadinessFails
    <2> QED
        BY <1>9, <2>1, <2>2, <2>3
<1>10. CASE LabelRoles
    BY <1>10 DEF LabelRoles
<1>11. CASE UNCHANGED vars
    BY <1>11 DEF vars
<1> QED
    BY <1>1, <1>2, <1>3, <1>4, <1>5, <1>6, <1>7, <1>8, <1>9, <1>10, <1>11 DEF Next

-----------------------------------------------------------------------------
(* A preStop hook starts with the stopping of its pod and ends before the  *)
(* pod is gone.                                                            *)
LEMMA HookStep == TypeOK /\ HookWhileStopping /\ [Next]_vars => HookWhileStopping'
<1> SUFFICES ASSUME TypeOK, HookWhileStopping, [Next]_vars PROVE HookWhileStopping'
    OBVIOUS
<1> USE DEF HookWhileStopping, Callers, Go, At
<1>0. stop \in [Nodes -> [Callers -> Steps]] /\ pod \in [Nodes -> {"up", "stopping", "gone"}]
    BY DEF TypeOK
<1>1. ASSUME NEW n \in Nodes, NEW k \in Callers, LeaderStop(n, k)
      PROVE  HookWhileStopping'
    <2>1. CASE Check(n, k)
        BY <1>0, <2>1 DEF Check
    <2>2. CASE DisableMyRaft(n, k)
        BY <1>0, <2>2 DEF DisableMyRaft
    <2>3. CASE SetReadOnly(n, k)
        BY <1>0, <2>3 DEF SetReadOnly
    <2>4. CASE EnableMyRaft(n, k)
        BY <1>0, <2>4 DEF EnableMyRaft
    <2>5. CASE KillMysqld(n, k)
        BY <1>0, <2>5 DEF KillMysqld
    <2>6. CASE StepFails(n, k)
        BY <1>0, <2>6 DEF StepFails
    <2> QED
        BY <1>1, <2>1, <2>2, <2>3, <2>4, <2>5, <2>6 DEF LeaderStop
<1>2. ASSUME NEW n \in Nodes, NEW k \in Callers, Timeout(n, k) \/ EnableFails(n, k)
      PROVE  HookWhileStopping'
    BY <1>0, <1>2 DEF Timeout, EnableFails
<1>3. ASSUME NEW n \in Nodes, Hooks(n) \/ PostStartFails(n)
      PROVE  HookWhileStopping'
    BY <1>0, <1>3 DEF Hooks, PostStart, PatchRebuildLabel, PostStartFails, NoStop
<1>4. ASSUME NEW n \in Nodes, NEW slave \in SlaveStatus, Readiness(n, slave)
      PROVE  HookWhileStopping'
    BY <1>4 DEF Readiness
<1>5. ASSUME NEW n \in Nodes, Elect(n) \/ Demote(n) \/ MysqlCrash(n) \/ ReadinessFails(n)
      PROVE  HookWhileStopping'
    <2>1. CASE Elect(n)
        BY <2>1 DEF Elect
    <2>2. CASE Demote(n)
        BY <1>0, <2>2 DEF Demote
    <2>3. CASE MysqlCrash(n)
        BY <2>3 DEF MysqlCrash
    <2>4. CASE ReadinessFails(n)
        BY <2>4 DEF ReadinessFails
    <2> QED
        BY <1>5, <2>1, <2>2, <2>3, <2>4
<1>6. ASSUME NEW n \in Nodes, DeletePod(n) \/ RebuildPod(n)
      PROVE  HookWhileStopping'
    BY <1>0, <1>6 DEF DeletePod, RebuildPod, Terminate
<1>7. ASSUME NEW n \in Nodes, Kubelet(n)
      PROVE  HookWhileStopping'
    BY <1>0, <1>7 DEF Kubelet, PodGone, Remade, MysqlStarts, NoStop
<1>8. CASE LabelRoles \/ UNCHANGED vars
    BY <1>8 DEF LabelRoles, vars
<1> QED
    BY <1>1, <1>2, <1>3, <1>4, <1>5, <1>6, <1>7, <1>8 DEF Next

-----------------------------------------------------------------------------
(* Whichever process disables raft is the one that explains it, until it   *)
(* enables raft or leaves the node halted.                                 *)
LEMMA IdleStep ==
    TypeOK /\ HookWhileStopping /\ IdleExplained /\ [Next]_vars => IdleExplained'
<1> SUFFICES ASSUME TypeOK, HookWhileStopping, IdleExplained, [Next]_vars
             PROVE  IdleExplained'
    OBVIOUS
<1> USE DEF TypeOK, IdleExplained, Callers, Go, At, Disabled, Raft
<1>1. ASSUME NEW n \in Nodes, NEW k \in Callers, LeaderStop(n, k)
      PROVE  IdleExplained'
    <2>1. CASE Check(n, k)
        BY <2>1 DEF Check
    <2>2. CASE DisableMyRaft(n, k)
        BY <2>2 DEF DisableMyRaft
    <2>3. CASE SetReadOnly(n, k)
        BY <2>3 DEF SetReadOnly
    <2>4. CASE EnableMyRaft(n, k)
        BY <2>4 DEF EnableMyRaft
    <2>5. CASE KillMysqld(n, k)
        BY <2>5 DEF KillMysqld
    <2>6. CASE StepFails(n, k)
        BY <2>6 DEF StepFails, Leaves
    <2> QED
        BY <1>1, <2>1, <2>2, <2>3, <2>4, <2>5, <2>6 DEF LeaderStop
<1>2. ASSUME NEW n \in Nodes, NEW k \in Callers, Timeout(n, k) \/ EnableFails(n, k)
      PROVE  IdleExplained'
    <2>1. CASE Timeout(n, k)
        BY <2>1 DEF Timeout, Leaves
    <2>2. CASE EnableFails(n, k)
        BY <2>2 DEF EnableFails
    <2> QED
        BY <1>2, <2>1, <2>2
<1>3. ASSUME NEW n \in Nodes, Hooks(n) \/ PostStartFails(n)
      PROVE  IdleExplained'
    BY <1>3 DEF Hooks, PostStart, PatchRebuildLabel, PostStartFails
<1>4. ASSUME NEW n \in Nodes, NEW slave \in SlaveStatus, Readiness(n, slave)
      PROVE  IdleExplained'
    BY <1>4 DEF Readiness
<1>5. ASSUME NEW n \in Nodes, Elect(n) \/ Demote(n) \/ MysqlCrash(n) \/ ReadinessFails(n)
      PROVE  IdleExplained'
    BY <1>5 DEF Elect, Demote, MysqlCrash, ReadinessFails
<1>6. ASSUME NEW n \in Nodes, DeletePod(n) \/ RebuildPod(n)
      PROVE  IdleExplained'
    <2>1. stop[n]["preStop"] = "off"
        BY <1>6 DEF DeletePod, RebuildPod, Terminate, HookWhileStopping
    <2> QED
        BY <1>6, <2>1 DEF DeletePod, RebuildPod, Terminate
<1>7. ASSUME NEW n \in Nodes, Kubelet(n)
      PROVE  IdleExplained'
    BY <1>7 DEF Kubelet, PodGone, Remade, MysqlStarts
<1>8. CASE LabelRoles \/ UNCHANGED vars
    BY <1>8 DEF LabelRoles, vars
<1> QED
    BY <1>1, <1>2, <1>3, <1>4, <1>5, <1>6, <1>7, <1>8 DEF Next

-----------------------------------------------------------------------------
(***************************************************************************)
(* The inductive invariant: types, hooks only in stopping pods, and every  *)
(* node out of the elections explained.                                    *)
(***************************************************************************)
THEOREM Invariance == Spec => []IndInv
<1>1. IndInv /\ [Next]_vars => IndInv'
    BY TypeStep, HookStep, IdleStep DEF IndInv
<1> QED
    BY InitInd, <1>1, PTL DEF Spec

(* Every variable keeps its type, for every number of nodes, stops and     *)
(* faults.                                                                 *)
THEOREM TypeCorrect == Spec => []TypeOK
<1>1. IndInv => TypeOK
    BY DEF IndInv
<1> QED
    BY Invariance, <1>1, PTL

(***************************************************************************)
(* A node is out of the elections only while one of its leaderStop         *)
(* processes is between disabling and enabling raft, or after one that     *)
(* failed or ran out of time there, or whose raft enable failed, as long   *)
(* as none has enabled raft since (leaderStop, disableMyRaft and the       *)
(* deferred enableMyRaft of cmd/xenon/main.go).                            *)
(***************************************************************************)
THEOREM IdleIsExplained == Spec => []IdleExplained
<1>1. IndInv => IdleExplained
    BY DEF IndInv
<1> QED
    BY Invariance, <1>1, PTL
=============================================================================
