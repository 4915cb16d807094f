--------------------------- MODULE MCExecutionFlow ---------------------------
(* Small instances of ExecutionFlow for TLC. *)
EXTENDS ExecutionFlow, TLC

Confirms(station, good, scrap) == [station |-> station, good |-> good, scrap |-> scrap]

\* Two requests for the first station, too many together, and one downstream.
MCDto == "r1" :> Confirms(1, 1, 0) @@ "r2" :> Confirms(1, 1, 1) @@ "r3" :> Confirms(2, 1, 0)

MCReports == {[station |-> 1, qty |-> 1, blocks |-> b] : b \in BOOLEAN}

\* A stop that gives the reason of a quality block.
MCStops == {[station |-> 1, reason |-> "quality_block"]}

MCDelivered == [s \in Stations |-> 2]

Symmetry == Permutations(Workers) \cup Permutations(Incidents)
=============================================================================
