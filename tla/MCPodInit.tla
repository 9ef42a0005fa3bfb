----------------------------- MODULE MCPodInit -----------------------------
EXTENDS PodInit
MCOrdinal == [p \in Pods |-> IF p = "mysql-1" THEN 1 ELSE 0]
One == {"mysql-0", "ro-0"}
Two == {"mysql-0", "mysql-1"}
Plain(major, pods) ==
    [major |-> major, restore |-> "none", point |-> FALSE, remote |-> FALSE,
     source |-> FALSE, upgrade |-> FALSE, offset |-> 0, pods |-> pods, spent |-> 0]
\* A cluster of all the pods has rebuilds and no faults, the others have both.
MCConfigs ==
    {[Plain(m, Pods) EXCEPT !.spent = MaxFaults] : m \in {5, 8}} \cup
    {Plain(5, Two),
     [Plain(8, Two) EXCEPT !.upgrade = TRUE, !.offset = 100],
     [Plain(5, One) EXCEPT !.restore = "s3", !.point = TRUE],
     [Plain(8, One) EXCEPT !.restore = "nfs"],
     [Plain(5, One) EXCEPT !.restore = "nfs", !.point = TRUE],
     [Plain(5, One) EXCEPT !.source = TRUE],
     [Plain(5, One) EXCEPT !.remote = TRUE]}
=============================================================================
