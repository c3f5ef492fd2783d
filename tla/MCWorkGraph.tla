---------------------------- MODULE MCWorkGraph ----------------------------
EXTENDS WorkGraph

CONSTANTS a, b, c, f1, f2

MCUnits == {a, b, c}
MCWorkers == MCUnits \cup {Engine}

\* Two independent units and one that needs both; and a cycle.
Join == [u \in MCUnits |-> IF u = c THEN {a, b} ELSE {}]
Cycle == [u \in MCUnits |-> IF u = a THEN {c} ELSE IF u = b THEN {a} ELSE {b}]
MCGraphs == {Join, Cycle}

\* Two independent units only.
PairUnits == {a, b}
PairWorkers == PairUnits \cup {Engine}
PairGraphs == {[u \in PairUnits |-> {}]}
=============================================================================
