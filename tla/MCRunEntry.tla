----------------------------- MODULE MCRunEntry -----------------------------
(* Instances of RunEntry. *)
EXTENDS RunEntry, TLC

CONSTANTS p1, p2, p3, c1, c2

Hosted == [consent |-> FALSE, test |-> FALSE, auto |-> TRUE, instant |-> FALSE,
           allOnline |-> FALSE, cap |-> 1, people |-> 1,
           asks |-> FALSE, closes |-> TRUE]

(* A minor's game whose late joiners would start by themselves; its test   *)
(* drive; a game that waits for three phones of every team; instant play.  *)
(* Where phones ask for consents nothing is closed: the two never meet.    *)
Minors    == [Hosted EXCEPT !.consent = TRUE, !.cap = 2, !.asks = TRUE, !.closes = FALSE]
Rehearsal == [Minors EXCEPT !.test = TRUE]
Together  == [Hosted EXCEPT !.allOnline = TRUE, !.people = 3, !.cap = 2]
Instant   == [Hosted EXCEPT !.instant = TRUE]
TestDrive == [Hosted EXCEPT !.test = TRUE]

EverySetup == {Hosted, Minors, Rehearsal, Together, Instant, TestDrive}
JustHosted == {Hosted}
Late       == {Minors}

Symmetric == Permutations(Phones) \cup Permutations(Calls)
=============================================================================
