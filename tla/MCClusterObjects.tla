-------------------------- MODULE MCClusterObjects --------------------------
EXTENDS ClusterObjects

Base == [replicas |-> 2, maintain |-> FALSE, ro |-> 0, size |-> 1, mem |-> 256, pool |-> 0, cpus |-> 2,
         roMem |-> 2048, root |-> "", localRoot |-> FALSE, min |-> 1, remote |-> "", metrics |-> FALSE,
         leaderAsFollower |-> FALSE, valid |-> TRUE, template |-> FALSE]

\* "a" beside "b", that becomes a single node in maintenance or is deleted; or "c" alone,
\* whose volumes grow and shrink, that loses its read-only node, asks for a pool, names a
\* remote cluster without a secret or a template that is missing, turns invalid, or is
\* deleted; or "d" alone, whose volumes only grow and shrink, with one event more.
MCFirst == [c \in Clusters |->
    CASE c = "a" -> Base
      [] c = "b" -> [Base EXCEPT !.mem = 4096, !.remote = "r"]
      [] c = "c" -> [Base EXCEPT !.ro = 1, !.remote = "r", !.metrics = TRUE]
      [] c = "d" -> Base]
MCEdits == [c \in Clusters |->
    LET s == MCFirst[c] IN
    CASE c = "a" -> {}
      [] c = "b" -> {[s EXCEPT !.replicas = 1, !.maintain = TRUE, !.metrics = TRUE]}
      [] c = "c" -> {[s EXCEPT !.size = n] : n \in 1..3} \cup
                    {[s EXCEPT !.ro = 0],
                     [s EXCEPT !.remote = "q", !.root = "q"], [s EXCEPT !.pool = 256],
                     [s EXCEPT !.template = TRUE], [s EXCEPT !.valid = FALSE]}
      [] c = "d" -> {[s EXCEPT !.size = n] : n \in 1..3}]
MCStarts == {[live |-> {"a", "b"}, events |-> 1], [live |-> {"c"}, events |-> 1],
             [live |-> {"d"}, events |-> 0]}
=============================================================================
