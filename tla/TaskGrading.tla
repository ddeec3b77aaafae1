---------------------------- MODULE TaskGrading ----------------------------
(***************************************************************************)
(* How one mission of one team is graded: submitTaskAnswer (and            *)
(* verifyStationCode, which is the same without a cost level),             *)
(* submitSequenceStep, submitStationPhoto with attachSubmissionMedia,      *)
(* reviewStationSubmission, requestTaskHint, adjustTeamScore, and          *)
(* returnTeamTo as far as it reopens the mission.                          *)
(*                                                                         *)
(* The state is the slice of the team document these calls share.  A call  *)
(* is split where it awaits the database, a transaction is one step.       *)
(* Which mission a team holds, stages, expiry and the end of the run are   *)
(* in the other modules; here the stage is always open and the run on.     *)
(*                                                                         *)
(* Code: functions/src/index.ts, functions/src/runs/index.ts,              *)
(* packages/shared/src/{wrongAnswerPenalty,hintEscalation,answerAttempts,  *)
(* approvalReversal,teamRewind}.ts.                                        *)
(***************************************************************************)
EXTENDS Integers, FiniteSets

CONSTANTS
  Phones,         \* phones of the team, that send photos and attach files
  Calls,          \* server calls that may be in flight at once
  Wrong, Right,   \* the wrong answers; the right one
  None,           \* no answer given yet, nobody sent the photo
  Setups,         \* the kinds of mission
  Races,          \* the overlaps a run permits, of AllRaces
  Returned,       \* the kinds of mission that are ever reopened
  FreeAttempts, PointStep, MaxPoints,  \* a row of WRONG_ANSWER_LEVELS
  Award, HintPenalty, Steps,           \* of the mission
  Deltas,                              \* of adjustTeamScore
  MaxChanges,     \* adjustments and returns, together
  MaxAttempts,    \* wrong attempts after which a team gives no more of them
  MaxFaults       \* calls that die and commits whose answer is lost

(* "photos": two submissions at once; "reviews": a review during another   *)
(* or during a submission.  Answers and steps may always overlap.          *)
AllRaces == {"photos", "reviews"}

Kinds == {"quiz", "sequence", "photo"}

(* A mission: its kind; the attempt limit (0 is none); a cost level that   *)
(* is not "off"; a game that seals its scores; a test drive; approval      *)
(* without review; wrong attempts until the hint is free (0 is never).     *)
SetupsAssumption ==
  \A s \in Setups :
    /\ s.kind \in Kinds
    /\ {s.cost, s.sealed, s.test, s.auto} \subseteq BOOLEAN
    /\ {s.limit, s.hintAfter} \subseteq Nat
ASSUME SetupsAssumption

ASSUME NamesAssumption ==
  /\ IsFiniteSet(Phones) /\ IsFiniteSet(Calls)
  /\ Right \notin Wrong /\ None \notin Wrong \cup {Right} \cup Phones
  /\ Races \subseteq AllRaces /\ Returned \subseteq Kinds
ASSUME NumbersAssumption ==
  /\ {FreeAttempts, PointStep, MaxPoints, Award, HintPenalty, MaxChanges, MaxAttempts, MaxFaults} \subseteq Nat
  /\ Steps \in Nat \ {0} /\ Deltas \subseteq Int

VARIABLES
  setup,   \* the mission's fixed settings
  team,    \* the team's document: record, score, attempts, penalties
  sub,     \* its entry in taskSubmissions
  call,    \* calls in flight
  ghost    \* what happened to the score and the feed, for the properties

vars == <<setup, team, sub, call, ghost>>

NoSubmission == [status |-> "none", sender |-> None, media |-> FALSE, feedPending |-> FALSE]

AtLeast0(n) == IF n > 0 THEN n ELSE 0

-----------------------------------------------------------------------------
Init ==
  /\ setup \in Setups
  /\ team = [done |-> FALSE, earned |-> 0, score |-> 0, penalty |-> 0, attempts |-> 0,
             charged |-> 0, last |-> None, locked |-> FALSE, steps |-> 0, hinted |-> FALSE]
  /\ sub = NoSubmission
  /\ call = [c \in Calls |-> [kind |-> "none"]]
  /\ ghost = [adjusted |-> 0, waived |-> 0, hints |-> 0, completions |-> 0, feed |-> 0,
              changes |-> 0, dropped |-> 0, faults |-> 0]

Running(kind)   == {c \in Calls : call[c].kind = kind}
At(c, kind, pc) == call[c].kind = kind /\ call[c].pc = pc
Goto(c, pc)     == call' = [call EXCEPT ![c].pc = pc]
End(c)          == call' = [call EXCEPT ![c] = [kind |-> "none"]]
Begin(c, r)     == call[c].kind = "none" /\ call' = [call EXCEPT ![c] = r]

(* The call goes on to completeTaskForTeam: whether the mission is paid    *)
(* for, and when a completion is shown in the live feed: "never", "now",   *)
(* or if "isPhoto" (there is one, read again then).                                                  *)
Completing(c, kind, paid, show) ==
  call' = [call EXCEPT ![c] = [kind |-> kind, pc |-> "complete", paid |-> paid, show |-> show]]

(* An overlap the run does not permit. *)
Alone(race, kind) == race \in Races \/ Running(kind) = {}

-----------------------------------------------------------------------------
\* Mutant: off by one.
LetThroughOneMore(a) ==
  /\ setup.limit > 0 => team.attempts <= setup.limit
  /\ setup.cost => team.last # a /\ (team.locked => setup.test)

(* submitTaskAnswer.  The gates are judged on one read of the team: the    *)
(* attempt limit, the replay of the last wrong answer, the lockout.  A     *)
(* sealed game skips them, and any answer completes the mission.           *)
Tracked == setup.limit > 0 \/ setup.hintAfter > 0 \/ setup.cost

LetThrough(a) ==
  /\ setup.limit > 0 => team.attempts < setup.limit
  /\ setup.cost => team.last # a /\ (team.locked => setup.test)

AnswerGate(c, a) ==
  /\ setup.kind = "quiz" /\ call[c].kind = "none"
  /\ setup.sealed \/ LetThrough(a)
  /\ IF setup.sealed \/ a = Right
     THEN Completing(c, "answer", a = Right, "never")
     ELSE /\ Tracked /\ team.attempts < MaxAttempts
          /\ Begin(c, [kind |-> "answer", pc |-> "wrong", answer |-> a, seen |-> team.attempts])
  /\ UNCHANGED <<setup, team, sub, ghost>>

\* Mutant: the ceiling is for one answer, not for the mission.
CostPerAnswer(n, charged) ==
  LET k == n - FreeAttempts IN
  IF k < 1 THEN 0 ELSE IF PointStep * k < MaxPoints THEN PointStep * k ELSE MaxPoints

(* wrongAnswerCost of the n-th wrong attempt, where so much is charged.    *)
Cost(n, charged) ==
  LET k        == n - FreeAttempts
      headroom == MaxPoints - charged
  IN  IF k < 1 THEN 0 ELSE IF PointStep * k < headroom THEN PointStep * k ELSE headroom

\* Mutant: the attempt is priced by the count the gates read.
PricedAsSeen(c) == Cost(call[c].seen + 1, team.charged)
Price(c) == Cost(team.attempts + 1, team.charged)

(* Where a cost level is on, the transaction asks again whether this is    *)
(* the last wrong answer repeated.                                         *)
AnswerWrong(c) ==
  /\ At(c, "answer", "wrong")
  /\ IF setup.cost
     THEN IF team.last = call[c].answer
          THEN UNCHANGED team
          ELSE team' = [team EXCEPT !.attempts = @ + 1, !.charged = @ + Price(c),
                                    !.penalty = @ + Price(c), !.last = call[c].answer,
                                    !.locked = team.attempts + 1 > FreeAttempts]
     ELSE team' = [team EXCEPT !.attempts = @ + 1]
  /\ End(c)
  /\ UNCHANGED <<setup, sub, ghost>>

(* The clock passes cooldownUntil. *)
LockoutEnds ==
  /\ team.locked
  /\ team' = [team EXCEPT !.locked = FALSE]
  /\ UNCHANGED <<setup, sub, call, ghost>>

-----------------------------------------------------------------------------
(* submitSequenceStep.  The number of steps done is read with the caller's *)
(* team, and only an answer to the next step goes on: a wrong one only in  *)
(* a sealed game, where it advances.                                       *)
StepRead(c, ok) ==
  /\ setup.kind = "sequence" /\ team.steps < Steps
  /\ ok \/ (setup.sealed /\ team.attempts < MaxAttempts)
  /\ Begin(c, [kind |-> "step", pc |-> "write", next |-> team.steps + 1, ok |-> ok,
               wrong |-> team.attempts + (IF ok THEN 0 ELSE 1)])
  /\ UNCHANGED <<setup, team, sub, ghost>>

\* Mutant: off by one.
LastStepBeyond(n) == n > Steps
LastStep(n) == n >= Steps

(* The count that was read, plus one, is written back whatever is there.   *)
StepWrite(c) ==
  /\ At(c, "step", "write")
  /\ team' = [team EXCEPT !.steps = call[c].next,
                          !.attempts = IF call[c].ok THEN @ ELSE @ + 1]
  /\ IF LastStep(call[c].next)
     THEN Completing(c, "step", setup.sealed => call[c].wrong = 0, "never")
     ELSE End(c)
  /\ UNCHANGED <<setup, sub, ghost>>

-----------------------------------------------------------------------------
(* submitStationPhoto.  The guard is judged on the caller's team: nothing  *)
(* is taken for a mission that is completed or has an approved photo.  A   *)
(* file that follows later is announced only where approval is automatic.  *)
PhotoRead(c, p, deferred) ==
  /\ setup.kind = "photo"
  /\ ~team.done /\ sub.status # "approved"
  /\ deferred => setup.auto
  /\ Alone("photos", "photo") /\ Alone("reviews", "review")
  /\ Begin(c, [kind |-> "photo", pc |-> "write", phone |-> p, deferred |-> deferred])
  /\ UNCHANGED <<setup, team, sub, ghost>>

PhotoWrite(c) ==
  /\ At(c, "photo", "write")
  /\ sub' = [status |-> IF setup.auto THEN "approved" ELSE "pending",
             sender |-> call[c].phone, media |-> ~call[c].deferred,
             feedPending |-> call[c].deferred]
  /\ IF setup.auto THEN Completing(c, "photo", TRUE, IF call[c].deferred THEN "never" ELSE "now")
     ELSE End(c)
  /\ UNCHANGED <<setup, team, ghost>>

(* attachSubmissionMedia: the sender is checked on the caller's team, the  *)
(* rest in a transaction; a file already there is not replaced.            *)
AttachRead(c, p) ==
  /\ sub.sender = p
  /\ Begin(c, [kind |-> "attach", pc |-> "commit"])
  /\ UNCHANGED <<setup, team, sub, ghost>>

FeedsNow == sub.feedPending /\ sub.status = "approved"

AttachCommit(c) ==
  /\ At(c, "attach", "commit")
  /\ IF sub.sender # None /\ ~sub.media
     THEN /\ sub' = [sub EXCEPT !.media = TRUE, !.feedPending = FALSE]
          /\ IF FeedsNow THEN call' = [call EXCEPT ![c] = [kind |-> "feed", pc |-> "write"]] ELSE End(c)
     ELSE End(c) /\ UNCHANGED sub
  /\ UNCHANGED <<setup, team, ghost>>

-----------------------------------------------------------------------------
(* reviewStationSubmission, of a row the console shows: not the approval   *)
(* of what is approved already (canApprove).  A rejection first takes the  *)
(* points of an approved submission back, then the status is merged in.    *)
ReviewBegin(c, verdict) ==
  /\ setup.kind = "photo" /\ sub.status \notin {"none", IF verdict = "approved" THEN "approved" ELSE "none"}
  /\ Alone("reviews", "review") /\ Alone("reviews", "photo")
  /\ Begin(c, [kind |-> "review", verdict |-> verdict,
               pc |-> IF verdict = "rejected" THEN "reverse" ELSE "stamp"])
  /\ UNCHANGED <<setup, team, sub, ghost>>

(* Points taken back, by a reversal or a send-back: never below zero.      *)
ScoreWithout == AtLeast0(AtLeast0(team.score) - team.earned)
Waived       == ScoreWithout - (team.score - team.earned)

\* Mutant: the record keeps its award.
ReversedScoreOnly == [team EXCEPT !.score = ScoreWithout]
Reversed == [team EXCEPT !.score = ScoreWithout, !.earned = 0]

ReviewReverse(c) ==
  /\ At(c, "review", "reverse")
  /\ IF sub.status = "approved"
     THEN team' = Reversed /\ ghost' = [ghost EXCEPT !.waived = @ + Waived]
     ELSE UNCHANGED <<team, ghost>>
  /\ Goto(c, "stamp")
  /\ UNCHANGED <<setup, sub>>

ReviewStamp(c) ==
  /\ At(c, "review", "stamp")
  /\ sub' = [sub EXCEPT !.status = call[c].verdict]
  /\ IF call[c].verdict = "approved" THEN Completing(c, "review", TRUE, "isPhoto") ELSE End(c)
  /\ UNCHANGED <<setup, team, ghost>>

-----------------------------------------------------------------------------
(* The transaction of completeTaskForTeam.  withLockRetry runs it again    *)
(* when the answer to the commit is lost; a mission that is completed is   *)
(* left as it is.                                                          *)
Completed(c) ==
  LET points == IF call[c].paid THEN Award ELSE 0 IN
  [team EXCEPT !.done = TRUE, !.earned = points, !.score = @ + points]

\* Mutant: the feed does not ask whether this call completed the mission.
AlwaysShows(c) == call[c].show # "never"
Shows(c) == call[c].show # "never" /\ ~team.done

ToFeed(c) ==
  IF Shows(c)
  THEN call' = [call EXCEPT ![c] = [kind |-> "feed",
                  pc |-> IF call[c].show = "now" THEN "write" ELSE "read"]]
  ELSE End(c)

Complete(c) ==
  /\ call[c].kind # "none" /\ call[c].pc = "complete"
  /\ IF team.done
     THEN ToFeed(c) /\ UNCHANGED <<team, ghost>>
     ELSE /\ team' = Completed(c)
          /\ \/ /\ ToFeed(c)
                /\ ghost' = [ghost EXCEPT !.completions = @ + 1]
             \/ /\ ghost.faults < MaxFaults
                /\ ghost' = [ghost EXCEPT !.completions = @ + 1, !.faults = @ + 1]
                /\ UNCHANGED call
  /\ UNCHANGED <<setup, sub>>

(* A review looks for the photo again before it is shown. *)
FeedRead(c) ==
  /\ At(c, "feed", "read")
  /\ IF sub.media THEN Goto(c, "write") ELSE End(c)
  /\ UNCHANGED <<setup, team, sub, ghost>>

(* writeFeedItem, best effort (Die). *)
FeedWrite(c) ==
  /\ At(c, "feed", "write")
  /\ ghost' = [ghost EXCEPT !.feed = @ + 1]
  /\ End(c)
  /\ UNCHANGED <<setup, team, sub>>

-----------------------------------------------------------------------------
(* requestTaskHint; how long a mission has been held is left out.          *)
IsHintFree == setup.sealed \/ (setup.hintAfter > 0 /\ team.attempts >= setup.hintAfter)

RequestTaskHint ==
  /\ ~team.hinted
  /\ LET price == IF IsHintFree THEN 0 ELSE HintPenalty IN
       /\ team' = [team EXCEPT !.hinted = TRUE, !.penalty = @ + price]
       /\ ghost' = [ghost EXCEPT !.hints = @ + price]
  /\ UNCHANGED <<setup, sub, call>>

(* adjustTeamScore: a bonus is a negative penalty; the score that is shown *)
(* moves too.  The bound on the size of a penalty is left out.             *)
AdjustTeamScore(delta) ==
  /\ ghost.changes < MaxChanges
  /\ team' = [team EXCEPT !.penalty = @ - delta, !.score = @ + delta]
  /\ ghost' = [ghost EXCEPT !.adjusted = @ + delta, !.changes = @ + 1]
  /\ UNCHANGED <<setup, sub, call>>

\* Mutant: the reopened record keeps its award.
ReopenedWithAward == [team EXCEPT !.done = FALSE, !.score = ScoreWithout]

(* returnTeamTo this mission: the record is reopened and its submission    *)
(* dropped.  Attempts, penalties, hints and steps stay as they are.        *)
Reopened == [team EXCEPT !.done = FALSE, !.score = ScoreWithout, !.earned = 0]

ReturnTeamTo ==
  /\ setup.kind \in Returned /\ team.done
  /\ ghost.changes < MaxChanges
  /\ team' = Reopened
  /\ sub' = NoSubmission
  /\ ghost' = [ghost EXCEPT !.waived = @ + Waived, !.changes = @ + 1]
  /\ UNCHANGED <<setup, call>>

(* The process dies between two awaits, or a write of the call fails. *)
Die(c) ==
  /\ call[c].kind # "none" /\ ghost.faults < MaxFaults
  /\ End(c)
  /\ ghost' = [ghost EXCEPT !.faults = @ + 1,
                            !.dropped = IF call[c].pc = "complete" THEN @ + 1 ELSE @]
  /\ UNCHANGED <<setup, team, sub>>

-----------------------------------------------------------------------------
Answering(c) == (\E a \in Wrong \cup {Right} : AnswerGate(c, a)) \/ AnswerWrong(c)
Stepping(c)  == (\E ok \in BOOLEAN : StepRead(c, ok)) \/ StepWrite(c)
Sending(c) ==
  \/ \E p \in Phones, deferred \in BOOLEAN : PhotoRead(c, p, deferred)
  \/ \E p \in Phones : AttachRead(c, p)
  \/ PhotoWrite(c) \/ AttachCommit(c) \/ FeedRead(c) \/ FeedWrite(c)
Reviewing(c) ==
  (\E verdict \in {"approved", "rejected"} : ReviewBegin(c, verdict))
    \/ ReviewReverse(c) \/ ReviewStamp(c)

Next ==
  \/ \E c \in Calls : Answering(c) \/ Stepping(c) \/ Sending(c) \/ Reviewing(c) \/ Complete(c) \/ Die(c)
  \/ \E delta \in Deltas : AdjustTeamScore(delta)
  \/ LockoutEnds \/ RequestTaskHint \/ ReturnTeamTo

Spec == Init /\ [][Next]_vars

-----------------------------------------------------------------------------
Idle == \A c \in Calls : call[c].kind = "none"

(* Type invariant of the documents; only a finished mission has an award,  *)
(* a mission's charge keeps to the level's ceiling.                        *)
TypeOK ==
  /\ setup \in Setups
  /\ team \in [done : BOOLEAN, earned : {0, Award}, score : Int, penalty : Int, attempts : Nat,
               charged : 0 .. MaxPoints, last : Wrong \cup {None}, locked : BOOLEAN,
               steps : 0 .. Steps, hinted : BOOLEAN]
  /\ team.earned > 0 => team.done
  /\ sub \in [status : {"none", "pending", "approved", "rejected"}, sender : Phones \cup {None},
              media : BOOLEAN, feedPending : BOOLEAN]

(* The score on the team's own screen is what its record earned and what   *)
(* staff gave or took, through every order of completions, duplicates,     *)
(* reversals and send-backs; only the clamp at zero forgives (Waived).     *)
ScoreIsEarned == team.score = team.earned + ghost.adjusted + ghost.waived

(* Wrong answers cost what the curve asks for as many attempts as are      *)
(* recorded, however the calls overlap, and the penalty that is ranked is  *)
(* that, the hint, and what staff gave or took: a race charges nothing     *)
(* twice and forgives nothing.  The steps of a sequence cost nothing.      *)
Curve(n) ==
  LET k == AtLeast0(n - FreeAttempts)
      points == (PointStep * k * (k + 1)) \div 2
  IN  IF points < MaxPoints THEN points ELSE MaxPoints

PenaltyIsOwed ==
  /\ team.charged = IF setup.cost /\ setup.kind = "quiz" THEN Curve(team.attempts) ELSE 0
  /\ team.penalty = team.charged + ghost.hints - ghost.adjusted

(* "a locked task must never be charged": answers that overlap go past the *)
(* attempt limit by no more than the other calls in flight.                *)
InFlight == {c \in Calls : At(c, "answer", "wrong")}

AttemptsBounded ==
  setup.kind = "quiz" /\ setup.limit > 0 =>
    team.attempts + Cardinality(InFlight) <= setup.limit + Cardinality(Calls) - 1

(* Who has answered every step, or has an approved photo, has completed    *)
(* the mission as soon as no call is under way: nothing is left hanging    *)
(* with no call of the team's to finish it, unless a call died between its *)
(* write and the completion.                                               *)
ProofIsCounted ==
  Idle /\ ghost.dropped = 0 /\ (team.steps = Steps \/ sub.status = "approved") => team.done

(* "The mission SHALL become playable for that team" (openspec,            *)
(* send-team-back): a sequence that is open has a step left to answer.     *)
SentBackIsPlayable == Idle /\ setup.kind = "sequence" /\ ~team.done => team.steps < Steps

(* A rejected photo holds no points, whether it was ever approved or not,  *)
(* unless a review overlaps another or a submission (the race "reviews").  *)
RejectedMeansUnpaid == Idle /\ sub.status = "rejected" => team.earned = 0

(* "the status and the scoreboard cannot disagree" (photoQueue): a mission *)
(* completed by a photo that is approved holds its points.                 *)
StatusMatchesScore ==
  Idle /\ sub.status = "approved" /\ team.done => team.earned = Award

(* The live feed shows a completion at most once, over duplicates, files   *)
(* that follow later, re-approvals and retries (unless two phones submit   *)
(* at once or a review overlaps, the races "photos" and "reviews").  A     *)
(* file may arrive and be shown before the completion it belongs to is     *)
(* committed, or dies.                                                     *)
FeedOnce ==
  LET coming == Cardinality({c \in Calls : At(c, "photo", "complete")}) IN
  ghost.feed <= ghost.completions + coming + ghost.dropped
=============================================================================
