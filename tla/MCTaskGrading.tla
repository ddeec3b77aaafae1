--------------------------- MODULE MCTaskGrading ---------------------------
(* Instances of TaskGrading. *)
EXTENDS TaskGrading, TLC

CONSTANTS p1, p2, w1, w2, c1, c2, c3

Plain == [kind |-> "quiz", limit |-> 0, hintAfter |-> 0, cost |-> FALSE, sealed |-> FALSE,
          test |-> FALSE, auto |-> FALSE]

(* A quiz that costs; one with a limit and an escalating hint; both; a     *)
(* sealed one; a rehearsal.                                                *)
Costly  == [Plain EXCEPT !.cost = TRUE]
Limited == [Plain EXCEPT !.limit = 2, !.hintAfter = 1]
Strict  == [Costly EXCEPT !.limit = 3]
Sealed  == [Plain EXCEPT !.sealed = TRUE]
Trial   == [Costly EXCEPT !.test = TRUE]

Sequence       == [Plain EXCEPT !.kind = "sequence"]
SealedSequence == [Sequence EXCEPT !.sealed = TRUE]

Reviewed == [Plain EXCEPT !.kind = "photo"]
Auto     == [Reviewed EXCEPT !.auto = TRUE]

EveryMission == {Costly, Limited, Strict, Sealed, Trial, Sequence, SealedSequence, Reviewed, Auto}
JustSequence == {Sequence}
JustReviewed == {Reviewed}
JustAuto     == {Auto}
JustCostly   == {Costly}

Changes  == {-1, 2}
Symmetric == Permutations(Phones) \cup Permutations(Wrong) \cup Permutations(Calls)
=============================================================================
