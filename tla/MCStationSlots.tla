--------------------------- MODULE MCStationSlots ---------------------------
(* Small instances of StationSlots for TLC. *)
EXTENDS StationSlots, TLC

CONSTANTS k1, k2, k3, t1, t2, t3, c1, c2

\* The stages: one for all missions; k1 then k2; k1 then k2 and k3; k1 and k2
\* then k3.
OneStage    == [k \in Tasks |-> 1]
OneEach     == [k \in Tasks |-> IF k = k1 THEN 1 ELSE 2]
TwoThenOne  == [k \in Tasks |-> IF k = k3 THEN 2 ELSE 1]
RequireAll  == [s \in Stages |-> Cardinality(StageTasks(s))]
RequireOne  == [s \in Stages |-> 1]
CapOne      == [k \in Tasks |-> 1]

\* Score keeping and the teams missed are written and never read back by the
\* steps: runs that ask nothing about them leave them out of the state.
NoPayments == <<runVars, rec, stages, req, active, launched, callVars, history>>
NoScores == <<runVars, rec, stages, req, active, launched, callVars, leaked>>

\* Which entry points a run lets the environment use.
Routed    == {"next", "complete", "force", "status", "crash"}
NoFinalize == AllTools \ {"finalize"}
Playing   == {"next", "complete"}
Clockwork == {"next", "complete", "sweep"}
Sweeping  == {"next", "sweep"}
Skipping  == {"next", "skipStage"}
Consoling == {"skipTask", "skipStage"}

Symmetric == Permutations(Teams) \cup Permutations(Calls)
=============================================================================
