------------------------------ MODULE MCServer -------------------------------
(* Two clusters and five valid files: each cluster alone, both, the first   *)
(* alone with another interval, and the second alone with an interval of    *)
(* zero, which passes validateCollection.  A file can be edited MaxWrites times, *)
(* so a process makes at most MaxWrites + 1 collectors.                     *)
EXTENDS Server

CONSTANTS a, b, onlyA, onlyB, both, slowA, zeroB, m1, m2

MCGen == 1..(MaxWrites + 1)
MCClustersOf == [f \in Config |-> IF f = both THEN {a, b} ELSE IF f \in {onlyB, zeroB} THEN {b} ELSE {a}]
MCIntervalOf == [f \in Config |-> IF f = slowA THEN 2 ELSE IF f = zeroB THEN 0 ELSE 1]
MCNamesOf == [c \in Cluster |-> Metric \cap (IF c = a THEN {m1} ELSE {m1, m2})]

\* With the files onlyA and onlyB alone, the behaviours that start with the one
\* are those that start with the other, renamed; it is enough to start with onlyA.
MCInit == Init /\ cfg = onlyA
MCSpec == MCInit /\ [][Next]_vars

\* The edits of the run about liveness: the clusters change in one write, or the
\* interval does in two, the first of which leaves a file that does not load.
MCEdits ==
    writes' # writes =>
        IF writes = 0 THEN file' \in {Bad, onlyB} ELSE file = Bad /\ file' = slowA

\* One of these edits at most changes the clusters, and makes a second collector.
MCEditsGen == 1..2

\* Liveness is about a process that goes on: without --once.
MCFairInit == MCInit /\ ~once
MCFairSpec == MCFairInit /\ [][Next /\ MCEdits]_vars /\ Fairness
=============================================================================
