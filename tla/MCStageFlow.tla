---------------------------- MODULE MCStageFlow ----------------------------
(* Instances of StageFlow: four missions in two stages, templates chosen so *)
(* that gates, alternatives, partial counts and benched missions meet.      *)
EXTENDS StageFlow, TLC

CONSTANTS a, b, c, e

Template(second, gate, groups, required, benched, timed) ==
  [tasks    |-> <<{a, b, c}, second>>,
   gate     |-> [m \in Missions |-> IF m \in DOMAIN gate THEN gate[m] ELSE {}],
   groups   |-> groups, required |-> required, benched |-> benched, timed |-> timed]

Free == [m \in {} |-> {}]

(* a then b then c; the first of them may run out. *)
Chain == Template({e}, b :> {a} @@ c :> {b}, <<>>, <<Unset, Unset>>, {}, {a})

(* Two alternatives, and a mission that waits for one of them. *)
Branch == Template({e}, c :> {b}, <<{a, b}>>, <<Unset, Unset>>, {}, {b})

(* Two of three, groups that overlap: the first one wins, the second is inert. *)
Partial == Template({e}, b :> {c}, <<{a, b}, {b, c}>>, <<2, 1>>, {}, {a, c})

(* One of three required is benched. *)
Bench == Template({e}, b :> {a}, <<>>, <<3, Unset>>, {c}, {a})

(* With c benched the first group is inert, so that the second one counts. *)
BenchedAlternative == Template({e}, Free, <<{b, c}, {a, b}>>, <<Unset, Unset>>, {c}, {b})

(* The same alternatives after a first stage: a team sent back from them   *)
(* returns to a stage with a mission it can never reach.                   *)
LateBranch == [Branch EXCEPT !.tasks = <<{e}, {a, b, c}>>]

(* A mission that waits for a benched one. *)
WaitsForBenched == Template({e}, b :> {c}, <<>>, <<Unset, Unset>>, {c}, {})

Templates == {Chain, Branch, LateBranch, Partial, Bench, BenchedAlternative}
OnlyChain == {Chain}
OnlyWaitsForBenched == {WaitsForBenched}

RoutineTools == {"skip", "skipStage", "force"}
EveryToolbox == {RoutineTools, AllTools \ {"return", "override"}, AllTools}
OnlyReturn   == {{"return"}}
OnlyOverride == {{"override"}}
NoTools      == {{}}
=============================================================================
