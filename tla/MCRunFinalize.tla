--------------------------- MODULE MCRunFinalize ---------------------------
(* Instances of RunFinalize. *)
EXTENDS RunFinalize, TLC

CONSTANTS a, b

Setup(teams, tools, solo, triggers) ==
  [teams |-> teams, tools |-> tools, solo |-> solo, manual |-> TRUE, triggers |-> triggers]

(* An organizer who ends the run twice, and the trigger. *)
Ending == Setup({a}, {"complete", "timeUp", "finalize"}, FALSE, TRUE)

(* The same with two players, where no triggers run. *)
Pair == Setup({a, b}, {"complete", "finalize"}, FALSE, FALSE)

(* Staff hold a team while the run ends. *)
Holding == Setup({a}, {"hold", "finalize"}, FALSE, FALSE)

(* Snapshots, refreshes and the final board meet. *)
Standings == Setup({a}, {"complete", "adjust", "refresh", "finalize"}, FALSE, FALSE)

(* The single-player run that ends by itself. *)
Solo == Setup({a}, {"complete", "refresh", "finalize"}, TRUE, FALSE)

(* The same, with a mission that has a time limit. *)
SoloTimed == Setup({a}, {"complete", "timeUp"}, TRUE, FALSE)

EverySetup    == {Ending, Pair, Holding, Standings, Solo}
OnlyEnding    == {Ending}
OnlyPair      == {Pair}
OnlyHolding   == {Holding}
OnlyStandings == {Standings}
OnlySolo      == {Solo}
OnlySoloTimed == {SoloTimed}

(* Plain refresh, reveal, freeze. *)
RefreshKinds == {[publish |-> "keep", freeze |-> "keep"], [publish |-> "on", freeze |-> "keep"],
                 [publish |-> "keep", freeze |-> "on"]}
OnlyKeep == {[publish |-> "keep", freeze |-> "keep"]}
=============================================================================
