---------------------------- MODULE ClusterPhase ----------------------------
(***************************************************************************)
(* What the state field of a cluster promises to the user, without pods,   *)
(* nodes or conditions.  One reporter looks at the size asked for and at   *)
(* the phase, and says a verdict later; meanwhile the size may change and  *)
(* the rolling update may announce itself.                                 *)
(***************************************************************************)
EXTENDS Naturals

CONSTANTS Sizes,  \* the numbers of replicas a user may ask for
          Nil     \* the reporter is not looking at anything

Phases == {"", "Initializing", "Updating", "Ready", "Closed", "ScaleIn", "ScaleOut"}

VARIABLES phase,   \* the phase the user reads
          asked,   \* the number of replicas the user asks for
          looked   \* what the reporter saw: [size, phase], or Nil

vars == <<phase, asked, looked>>

Init == phase = "" /\ asked \in Sizes /\ looked = Nil

Ask(n) == asked' = n /\ UNCHANGED <<phase, looked>>

Look ==
    /\ looked = Nil
    /\ looked' = [size |-> asked, phase |-> phase]
    /\ UNCHANGED <<phase, asked>>

(* The verdicts that what was seen allows: a cluster initializes once, is  *)
(* ready with some replica and closed with none, and scales only when it   *)
(* was ready or closed before.                                             *)
Verdicts(l) ==
    (IF l.phase = "" THEN {"Initializing"} ELSE {})
    \cup (IF l.size # 0 THEN {"Ready"} ELSE {})
    \cup (IF l.size = 0 /\ l.phase \notin {"", "Updating"} THEN {"Closed"} ELSE {})
    \cup (IF l.phase \in {"Ready", "Closed"} THEN {"ScaleIn"} ELSE {})
    \cup (IF l.phase \in {"Ready", "Closed"} /\ l.size # 0 THEN {"ScaleOut"} ELSE {})

Say ==
    /\ looked # Nil
    /\ looked' = Nil
    /\ phase' \in {phase} \cup Verdicts(looked)
    /\ UNCHANGED asked

(* Or it looks and says at once.                                           *)
Report ==
    /\ looked = Nil
    /\ phase' \in Verdicts([size |-> asked, phase |-> phase])
    /\ UNCHANGED <<asked, looked>>

Announce == phase' = "Updating" /\ UNCHANGED <<asked, looked>>

Next == (\E n \in Sizes : Ask(n)) \/ Look \/ Say \/ Report \/ Announce

Spec == Init /\ [][Next]_vars
=============================================================================
