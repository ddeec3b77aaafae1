------------------------- MODULE TaskGradingProofs -------------------------
(***************************************************************************)
(* Theorems about TaskGrading, for any phones, calls, kinds of mission and *)
(* amounts: its types; that the score is what was earned less what was     *)
(* charged, the penalty what the attempts, the hint and the skip cost, and *)
(* the attempts within their bound; and what photos, their reviews and the *)
(* feed come to.                                                           *)
(*                                                                         *)
(* The first three need no more than the shape of a call (Typed) and what  *)
(* each call still owes.  Those about photos rest on which calls may be at *)
(* a write at the same time, so each is stated where the race its run      *)
(* leaves out is left out.                                                 *)
(***************************************************************************)
EXTENDS TaskGrading, FiniteSetTheorems, TLAPS

TeamType ==
  [done : BOOLEAN, earned : {0, Award}, score : Int, penalty : Int, attempts : Nat,
   charged : 0 .. MaxPoints, last : Wrong \cup {None}, locked : BOOLEAN,
   steps : 0 .. Steps, hinted : BOOLEAN]
SubType ==
  [status : {"none", "pending", "approved", "rejected"}, sender : Phones \cup {None},
   media : BOOLEAN, feedPending : BOOLEAN]
GhostType ==
  [adjusted : Int, waived : Int, hints : Nat, completions : Nat, feed : Nat,
   changes : Nat, dropped : Nat, faults : Nat]

(* What a call has in its hands, and for which kind of mission.  Only a    *)
(* photo that is approved at once is completed by the call that sent it.   *)
WrongType  == [kind : {"answer"}, pc : {"wrong"}, answer : Wrong, seen : Nat]
StepType   == [kind : {"step"}, pc : {"write"}, next : 1 .. Steps, ok : BOOLEAN, wrong : Nat]
PhotoType  == [kind : {"photo"}, pc : {"write"}, phone : Phones, deferred : BOOLEAN]
ReviewType == [kind : {"review"}, verdict : {"approved", "rejected"}, pc : {"reverse", "stamp"}]
OtherType  == [kind : {"attach"}, pc : {"commit"}] \cup [kind : {"feed"}, pc : {"read", "write"}]
EndingType(kind, shows) == [kind : {kind}, pc : {"complete"}, paid : BOOLEAN, show : shows]

HandsOK(r) ==
  \/ r \in [kind : {"none"}]
  \/ setup.kind = "quiz" /\ r \in WrongType \cup EndingType("answer", {"never"})
  \/ setup.kind = "sequence" /\ r \in StepType \cup EndingType("step", {"never"})
  \/ setup.kind = "photo" /\ r \in PhotoType /\ (r.deferred => setup.auto)
  \/ setup.kind = "photo" /\ r \in OtherType
  \/ setup.kind = "photo" /\ setup.auto /\ r \in EndingType("photo", {"never", "now"})
  \/ setup.kind = "photo" /\ r \in ReviewType /\ (r.verdict = "approved" => r.pc = "stamp")
  \/ setup.kind = "photo" /\ r \in EndingType("review", {"isPhoto"})

CallsOK == DOMAIN call = Calls /\ \A c \in Calls : HandsOK(call[c])

(* Steps are for sequences, submissions for photos. *)
KindOK ==
  /\ setup.kind # "sequence" => team.steps = 0
  /\ setup.kind # "photo" => sub = NoSubmission

Typed == TypeOK /\ CallsOK /\ ghost \in GhostType /\ KindOK

LEMMA TypeShape ==
  TypeOK <=> /\ setup \in Setups
             /\ team \in TeamType /\ (team.earned > 0 => team.done)
             /\ sub \in SubType
  BY DEF TypeOK, TeamType, SubType

LEMMA Amounts ==
  /\ FreeAttempts \in Nat /\ PointStep \in Nat /\ MaxPoints \in Nat /\ Award \in Nat
  /\ HintPenalty \in Nat /\ MaxFaults \in Nat /\ Steps \in Nat /\ Steps >= 1
  /\ \A delta \in Deltas : delta \in Int
  BY NumbersAssumption DEF NumbersAssumption

(* What the steps write into the team and into the history has its type. *)
LEMMA TeamUpdates ==
  ASSUME team \in TeamType
  PROVE  /\ \A n \in Nat : [team EXCEPT !.attempts = n] \in TeamType
         /\ \A d \in BOOLEAN, i \in Int, n \in Nat, m \in 0 .. MaxPoints, l \in Wrong :
              [team EXCEPT !.attempts = n, !.charged = m, !.penalty = i, !.last = l,
                           !.locked = d] \in TeamType
         /\ \A n \in Nat, k \in 0 .. Steps :
              [team EXCEPT !.steps = k, !.attempts = n] \in TeamType
         /\ \A e \in {0, Award}, i \in Int :
              [team EXCEPT !.done = TRUE, !.earned = e, !.score = i] \in TeamType
         /\ \A i \in Int : [team EXCEPT !.hinted = TRUE, !.penalty = i] \in TeamType
         /\ \A i, j \in Int : [team EXCEPT !.penalty = i, !.score = j] \in TeamType
  BY DEF TeamType

LEMMA GhostUpdates ==
  ASSUME ghost \in GhostType
  PROVE  /\ \A n \in Nat : [ghost EXCEPT !.completions = n] \in GhostType
         /\ \A n, m \in Nat : [ghost EXCEPT !.completions = n, !.faults = m] \in GhostType
         /\ \A n, m \in Nat : [ghost EXCEPT !.faults = n, !.dropped = m] \in GhostType
         /\ \A i \in Int, n \in Nat : [ghost EXCEPT !.adjusted = i, !.changes = n] \in GhostType
         /\ \A i \in Int, n \in Nat : [ghost EXCEPT !.waived = i, !.changes = n] \in GhostType
         /\ \A i \in Int : [ghost EXCEPT !.waived = i] \in GhostType
         /\ \A n \in Nat : [ghost EXCEPT !.hints = n] \in GhostType
         /\ \A n \in Nat : [ghost EXCEPT !.feed = n] \in GhostType
  BY DEF GhostType

LEMMA GhostNumbers ==
  ASSUME ghost \in GhostType
  PROVE  /\ ghost.adjusted \in Int /\ ghost.waived \in Int /\ ghost.hints \in Nat
         /\ ghost.completions \in Nat /\ ghost.feed \in Nat /\ ghost.changes \in Nat
         /\ ghost.dropped \in Nat /\ ghost.faults \in Nat
  BY DEF GhostType

LEMMA TeamNumbers ==
  ASSUME team \in TeamType
  PROVE  /\ team.done \in BOOLEAN /\ team.earned \in {0, Award} /\ team.earned \in Nat
         /\ team.score \in Int /\ team.penalty \in Int /\ team.attempts \in Nat
         /\ team.charged \in 0 .. MaxPoints /\ team.steps \in 0 .. Steps
  BY Amounts DEF TeamType

LEMMA SetupType ==
  ASSUME setup \in Setups
  PROVE  /\ setup.kind \in {"quiz", "sequence", "photo"}
         /\ setup.cost \in BOOLEAN /\ setup.sealed \in BOOLEAN /\ setup.test \in BOOLEAN
         /\ setup.auto \in BOOLEAN /\ setup.limit \in Nat /\ setup.hintAfter \in Nat
  BY SetupsAssumption DEF SetupsAssumption, Kinds

LEMMA CallMoves ==
  ASSUME CallsOK, UNCHANGED setup, NEW c \in Calls, NEW r,
         call' = [call EXCEPT ![c] = r], HandsOK(r)
  PROVE  CallsOK' /\ call'[c] = r /\ \A x \in Calls \ {c} : call'[x] = call[x]
  BY DEF CallsOK, HandsOK

LEMMA CallEnds ==
  ASSUME CallsOK, UNCHANGED setup, NEW c \in Calls, End(c)
  PROVE  CallsOK'
  BY DEF CallsOK, HandsOK, End

LEMMA CallsStand ==
  ASSUME CallsOK, UNCHANGED <<setup, call>>
  PROVE  CallsOK'
  BY DEF CallsOK, HandsOK

(* A step that leaves the documents alone. *)
LEMMA OnlyCallMoves ==
  ASSUME Typed, UNCHANGED <<setup, team, sub, ghost>>, CallsOK'
  PROVE  Typed'
  BY DEF Typed, TypeOK, KindOK, NoSubmission

(* The price of a wrong attempt keeps to what is left of the ceiling. *)
LEMMA PriceType ==
  ASSUME team \in TeamType, NEW n \in Nat
  PROVE  LET p == Cost(n, team.charged)
         IN  p \in Nat /\ team.charged + p \in 0 .. MaxPoints
<1> DEFINE k == n - FreeAttempts
<1>1. team.charged \in 0 .. MaxPoints
  BY DEF TeamType
<1>2. CASE k < 1
  BY <1>1, <1>2, Amounts DEF Cost
<1>3. CASE k >= 1
  <2>1. k \in Nat /\ PointStep * k \in Nat
    BY <1>3, Amounts
  <2> HIDE DEF k
  <2>2. Cost(n, team.charged) = IF PointStep * k < MaxPoints - team.charged
                                THEN PointStep * k ELSE MaxPoints - team.charged
    BY <1>3, <2>1 DEF Cost, k
  <2> QED BY <1>1, <2>1, <2>2, Amounts
<1> QED BY <1>2, <1>3, Amounts

(* No step changes the mission. *)
LEMMA SetupStands == [Next]_vars => UNCHANGED setup
  BY DEF Next, vars, Answering, AnswerGate, AnswerWrong, Stepping, StepRead, StepWrite, Sending,
         PhotoRead, PhotoWrite, AttachRead, AttachCommit, FeedRead, FeedWrite, Reviewing,
         ReviewBegin, ReviewReverse, ReviewStamp, Complete, Die, AdjustTeamScore, LockoutEnds,
         RequestTaskHint, ReturnTeamTo

-----------------------------------------------------------------------------
LEMMA InitTyped == Init => Typed
<1> SUFFICES ASSUME Init PROVE Typed
  OBVIOUS
<1>1. setup \in Setups
  BY DEF Init
<1>2. team \in TeamType /\ ~team.done /\ team.earned = 0 /\ team.steps = 0
  BY Amounts DEF Init, TeamType
<1>3. sub \in SubType /\ sub = NoSubmission
  BY DEF Init, SubType, NoSubmission
<1>4. ghost \in GhostType
  BY DEF Init, GhostType
<1>5. CallsOK
  BY DEF Init, CallsOK, HandsOK
<1> QED BY <1>1, <1>2, <1>3, <1>4, <1>5, TypeShape DEF Typed, KindOK

LEMMA AnswerGateTyped ==
  ASSUME Typed, NEW c \in Calls, NEW a \in Wrong \cup {Right}, AnswerGate(c, a)
  PROVE  Typed'
<1>1. CASE setup.sealed \/ a = Right
  <2>1. HandsOK([kind |-> "answer", pc |-> "complete", paid |-> a = Right, show |-> "never"])
    BY DEF AnswerGate, HandsOK, EndingType
  <2> QED BY <1>1, <2>1, CallMoves, OnlyCallMoves DEF AnswerGate, Completing, Typed
<1>2. CASE ~(setup.sealed \/ a = Right)
  <2>1. HandsOK([kind |-> "answer", pc |-> "wrong", answer |-> a, seen |-> team.attempts])
    BY <1>2 DEF AnswerGate, HandsOK, WrongType, Typed, TypeOK
  <2> QED BY <1>2, <2>1, CallMoves, OnlyCallMoves DEF AnswerGate, Begin, Typed
<1> QED BY <1>1, <1>2

LEMMA AnswerWrongTyped ==
  ASSUME Typed, NEW c \in Calls, AnswerWrong(c)
  PROVE  Typed'
<1>1. call[c] \in WrongType
  BY DEF AnswerWrong, At, Typed, CallsOK, HandsOK, StepType, PhotoType, ReviewType, OtherType,
         EndingType
<1>2. CallsOK' /\ UNCHANGED <<setup, sub, ghost>>
  BY CallEnds DEF AnswerWrong, Typed
<1>3. team \in TeamType /\ (team.earned > 0 => team.done)
  BY TypeShape DEF Typed
<1>4. Price(c) \in Nat /\ team.charged + Price(c) \in 0 .. MaxPoints
  <2>1. team.attempts + 1 \in Nat
    BY <1>3 DEF TeamType
  <2> QED BY <1>3, <2>1, PriceType DEF Price
<1>5. team' \in TeamType /\ team'.done = team.done /\ team'.earned = team.earned
        /\ team'.steps = team.steps
  <2>1. CASE team' = team
    BY <2>1, <1>3
  <2>2. CASE team' = [team EXCEPT !.attempts = @ + 1]
    BY <2>2, <1>3 DEF TeamType
  <2>3. CASE team' = [team EXCEPT !.attempts = @ + 1, !.charged = @ + Price(c),
                                  !.penalty = @ + Price(c), !.last = call[c].answer,
                                  !.locked = team.attempts + 1 > FreeAttempts]
    <3> DEFINE locked == team.attempts + 1 > FreeAttempts
    <3>1. call[c].answer \in Wrong /\ locked \in BOOLEAN
      BY <1>1 DEF WrongType
    <3>2. team' = [team EXCEPT !.attempts = @ + 1, !.charged = @ + Price(c),
                               !.penalty = @ + Price(c), !.last = call[c].answer,
                               !.locked = locked]
      BY <2>3
    <3>3. team.attempts + 1 \in Nat /\ team.penalty + Price(c) \in Int
      BY <1>3, <1>4, TeamNumbers
    <3> HIDE DEF locked
    <3>4. team' \in TeamType
      BY <3>1, <3>2, <3>3, <1>3, <1>4, TeamUpdates, Amounts
    <3> QED BY <3>2, <3>4, <1>3 DEF TeamType
  <2> QED BY <2>1, <2>2, <2>3 DEF AnswerWrong
<1>6. TypeOK'
  BY <1>2, <1>3, <1>5, TypeShape DEF Typed, TypeOK, TeamType
<1> QED BY <1>2, <1>5, <1>6 DEF Typed, KindOK, NoSubmission

LEMMA LockoutEndsTyped ==
  ASSUME Typed, LockoutEnds
  PROVE  Typed'
<1>1. CallsOK'
  BY CallsStand DEF LockoutEnds, Typed
<1> QED BY <1>1 DEF LockoutEnds, Typed, TypeOK, KindOK, NoSubmission

LEMMA StepReadTyped ==
  ASSUME Typed, NEW c \in Calls, NEW ok \in BOOLEAN, StepRead(c, ok)
  PROVE  Typed'
<1> DEFINE wrong == team.attempts + (IF ok THEN 0 ELSE 1)
           r == [kind |-> "step", pc |-> "write", next |-> team.steps + 1, ok |-> ok,
                 wrong |-> wrong]
<1>1. team.steps + 1 \in 1 .. Steps /\ wrong \in Nat
  BY Amounts DEF StepRead, Typed, TypeOK
<1> HIDE DEF wrong
<1>2. HandsOK(r)
  BY <1>1 DEF StepRead, HandsOK, StepType
<1>3. call' = [call EXCEPT ![c] = r] /\ UNCHANGED <<setup, team, sub, ghost>>
  BY DEF StepRead, Begin, wrong
<1> QED BY <1>2, <1>3, CallMoves, OnlyCallMoves DEF Typed

LEMMA StepHands ==
  ASSUME CallsOK, NEW c \in Calls, At(c, "step", "write")
  PROVE  setup.kind = "sequence" /\ call[c] \in StepType
  BY DEF At, CallsOK, HandsOK, WrongType, PhotoType, ReviewType, OtherType, EndingType

LEMMA StepWriteTyped ==
  ASSUME Typed, NEW c \in Calls, StepWrite(c)
  PROVE  Typed'
<1>1. setup.kind = "sequence" /\ call[c] \in StepType
  BY StepHands DEF StepWrite, Typed
<1>2. UNCHANGED <<setup, sub, ghost>>
  BY DEF StepWrite
<1>3. CallsOK'
  <2> DEFINE paid == setup.sealed => call[c].wrong = 0
             r == [kind |-> "step", pc |-> "complete", paid |-> paid, show |-> "never"]
  <2>1. Completing(c, "step", paid, "never") \/ End(c)
    BY DEF StepWrite
  <2>2. paid \in BOOLEAN
    OBVIOUS
  <2> HIDE DEF paid
  <2>3. HandsOK(r)
    BY <1>1, <2>2 DEF HandsOK, EndingType
  <2>4. CASE Completing(c, "step", paid, "never")
    BY <2>3, <2>4, <1>2, CallMoves DEF Typed, Completing
  <2>5. CASE End(c)
    BY <2>5, <1>2, CallEnds DEF Typed
  <2> QED BY <2>1, <2>4, <2>5
<1>4. team \in TeamType /\ (team.earned > 0 => team.done)
  BY TypeShape DEF Typed
<1>5. call[c].next \in 0 .. Steps
  BY <1>1, Amounts DEF StepType
<1>6. team' = [team EXCEPT !.steps = call[c].next,
                           !.attempts = IF call[c].ok THEN @ ELSE @ + 1]
  BY DEF StepWrite
<1>7. team' \in TeamType
  <2> DEFINE n == IF call[c].ok THEN team.attempts ELSE team.attempts + 1
  <2>1. n \in Nat
    BY <1>4, TeamNumbers
  <2> HIDE DEF n
  <2>2. team' = [team EXCEPT !.steps = call[c].next, !.attempts = n]
    BY <1>6 DEF n
  <2> QED BY <1>4, <1>5, <2>1, <2>2, TeamUpdates, Amounts
<1>8. team'.done = team.done /\ team'.earned = team.earned
  BY <1>4, <1>6 DEF TeamType
<1>9. TypeOK'
  BY <1>2, <1>4, <1>7, <1>8, TypeShape DEF Typed, TypeOK, TeamType
<1> QED BY <1>1, <1>2, <1>3, <1>9 DEF Typed, KindOK, NoSubmission

-----------------------------------------------------------------------------
LEMMA PhotoReadTyped ==
  ASSUME Typed, NEW c \in Calls, NEW p \in Phones, NEW deferred \in BOOLEAN,
         PhotoRead(c, p, deferred)
  PROVE  Typed'
<1>1. HandsOK([kind |-> "photo", pc |-> "write", phone |-> p, deferred |-> deferred])
  BY DEF PhotoRead, HandsOK, PhotoType
<1> QED BY <1>1, CallMoves, OnlyCallMoves DEF PhotoRead, Begin, Typed

LEMMA PhotoHands ==
  ASSUME CallsOK, NEW c \in Calls, At(c, "photo", "write")
  PROVE  setup.kind = "photo" /\ call[c] \in PhotoType /\ (call[c].deferred => setup.auto)
  BY DEF At, CallsOK, HandsOK, WrongType, StepType, ReviewType, OtherType, EndingType

LEMMA PhotoWriteTyped ==
  ASSUME Typed, NEW c \in Calls, PhotoWrite(c)
  PROVE  Typed'
<1>1. setup.kind = "photo" /\ call[c] \in PhotoType
  BY PhotoHands DEF PhotoWrite, Typed
<1>2. UNCHANGED <<setup, team, ghost>>
  BY DEF PhotoWrite
<1>3. CallsOK'
  <2> DEFINE show == IF call[c].deferred THEN "never" ELSE "now"
             r == [kind |-> "photo", pc |-> "complete", paid |-> TRUE, show |-> show]
  <2>1. CASE setup.auto /\ call' = [call EXCEPT ![c] = r]
    <3>1. show \in {"never", "now"}
      OBVIOUS
    <3> HIDE DEF show
    <3>2. HandsOK(r)
      BY <1>1, <2>1, <3>1 DEF HandsOK, EndingType
    <3> QED BY <2>1, <3>2, <1>2, CallMoves DEF Typed
  <2>2. CASE End(c)
    BY <2>2, <1>2, CallEnds DEF Typed
  <2> QED BY <2>1, <2>2 DEF PhotoWrite, Completing
<1>4. sub' \in SubType
  <2>1. call[c].phone \in Phones /\ call[c].deferred \in BOOLEAN
    BY <1>1 DEF PhotoType
  <2> QED BY <2>1 DEF PhotoWrite, SubType
<1>5. TypeOK'
  BY <1>2, <1>4, TypeShape DEF Typed, TypeOK, SubType
<1> QED BY <1>1, <1>2, <1>3, <1>5 DEF Typed, KindOK

(* A file can only be sent for a photo. *)
LEMMA SenderIsPhoto ==
  ASSUME Typed, NEW p \in Phones, sub.sender = p
  PROVE  setup.kind = "photo"
  BY NamesAssumption DEF Typed, KindOK, NoSubmission, NamesAssumption

LEMMA AttachReadTyped ==
  ASSUME Typed, NEW c \in Calls, NEW p \in Phones, AttachRead(c, p)
  PROVE  Typed'
<1>1. setup.kind = "photo"
  BY SenderIsPhoto DEF AttachRead
<1>2. HandsOK([kind |-> "attach", pc |-> "commit"])
  BY <1>1 DEF HandsOK, OtherType
<1> QED BY <1>2, CallMoves, OnlyCallMoves DEF AttachRead, Begin, Typed

(* The calls about photos and reviews. *)
LEMMA PhotoCalls ==
  ASSUME CallsOK, NEW c \in Calls, call[c].kind \in {"photo", "attach", "feed", "review"}
  PROVE  setup.kind = "photo"
  BY DEF CallsOK, HandsOK, WrongType, StepType, EndingType

LEMMA AttachCommitTyped ==
  ASSUME Typed, NEW c \in Calls, AttachCommit(c)
  PROVE  Typed'
<1>1. setup.kind = "photo"
  BY PhotoCalls DEF AttachCommit, At, Typed
<1>2. UNCHANGED <<setup, team, ghost>>
  BY DEF AttachCommit
<1>3. CallsOK'
  <2>1. HandsOK([kind |-> "feed", pc |-> "write"])
    BY <1>1 DEF HandsOK, OtherType
  <2>2. CASE call' = [call EXCEPT ![c] = [kind |-> "feed", pc |-> "write"]]
    BY <2>1, <2>2, <1>2, CallMoves DEF Typed
  <2>3. CASE End(c)
    BY <2>3, <1>2, CallEnds DEF Typed
  <2> QED BY <2>2, <2>3 DEF AttachCommit
<1>4. sub' \in SubType
  BY TypeShape DEF AttachCommit, SubType, Typed
<1>5. TypeOK'
  BY <1>2, <1>4, TypeShape DEF Typed, TypeOK, SubType
<1> QED BY <1>1, <1>2, <1>3, <1>5 DEF Typed, KindOK

LEMMA ReviewBeginTyped ==
  ASSUME Typed, NEW c \in Calls, NEW verdict \in {"approved", "rejected"},
         ReviewBegin(c, verdict)
  PROVE  Typed'
<1> DEFINE pc == IF verdict = "rejected" THEN "reverse" ELSE "stamp"
<1>1. HandsOK([kind |-> "review", verdict |-> verdict, pc |-> pc])
  BY DEF ReviewBegin, HandsOK, ReviewType
<1> QED BY <1>1, CallMoves, OnlyCallMoves DEF ReviewBegin, Begin, Typed

LEMMA ReviewHands ==
  ASSUME CallsOK, NEW c \in Calls, At(c, "review", "reverse") \/ At(c, "review", "stamp")
  PROVE  /\ setup.kind = "photo" /\ call[c] \in ReviewType
         /\ call[c].verdict = "approved" => call[c].pc = "stamp"
  BY DEF At, CallsOK, HandsOK, WrongType, StepType, PhotoType, OtherType, EndingType

(* Points taken back leave a number, and the record without its award. *)
LEMMA TakenBack ==
  ASSUME team \in TeamType, team.earned > 0 => team.done
  PROVE  /\ ScoreWithout \in Int /\ Waived \in Int
         /\ ScoreWithout + team.earned = team.score + Waived
         /\ Reversed \in TeamType /\ Reversed.earned = 0
         /\ Reopened \in TeamType /\ Reopened.earned = 0
<1>1. team.score \in Int /\ team.earned \in Nat
  BY Amounts DEF TeamType
<1>2. ScoreWithout \in Int
  BY <1>1 DEF ScoreWithout, AtLeast0
<1>3. Waived \in Int /\ ScoreWithout + team.earned = team.score + Waived
  BY <1>1, <1>2 DEF Waived
<1> QED BY <1>2, <1>3 DEF Reversed, Reopened, TeamType

LEMMA ReviewReverseTyped ==
  ASSUME Typed, NEW c \in Calls, ReviewReverse(c)
  PROVE  Typed'
<1>1. setup.kind = "photo" /\ call[c] \in ReviewType
  BY ReviewHands DEF ReviewReverse, Typed
<1>2. UNCHANGED <<setup, sub>>
  BY DEF ReviewReverse
<1>3. CallsOK'
  <2> DEFINE r == [call[c] EXCEPT !.pc = "stamp"]
  <2>1. HandsOK(r)
    BY <1>1 DEF HandsOK, ReviewType
  <2>2. call' = [call EXCEPT ![c] = r]
    BY DEF ReviewReverse, Goto
  <2> QED BY <2>1, <2>2, <1>2, CallMoves DEF Typed
<1>4. team \in TeamType /\ (team.earned > 0 => team.done)
  BY TypeShape DEF Typed
<1>5. team' \in TeamType /\ (team'.earned > 0 => team'.done)
  BY <1>4, TakenBack DEF ReviewReverse
<1>6. ghost' \in GhostType
  <2>1. ghost.waived + Waived \in Int
    BY <1>4, TakenBack, GhostNumbers DEF Typed
  <2> QED BY <2>1, GhostUpdates DEF ReviewReverse, Typed
<1>7. TypeOK'
  BY <1>2, <1>5, TypeShape DEF Typed, TypeOK, TeamType
<1>8. team'.steps = team.steps
  BY <1>4 DEF ReviewReverse, Reversed, TeamType
<1> QED BY <1>1, <1>2, <1>3, <1>6, <1>7, <1>8 DEF Typed, KindOK

LEMMA ReviewStampTyped ==
  ASSUME Typed, NEW c \in Calls, ReviewStamp(c)
  PROVE  Typed'
<1>1. setup.kind = "photo" /\ call[c] \in ReviewType
  BY ReviewHands DEF ReviewStamp, Typed
<1>2. UNCHANGED <<setup, team, ghost>>
  BY DEF ReviewStamp
<1>3. CallsOK'
  <2> DEFINE r == [kind |-> "review", pc |-> "complete", paid |-> TRUE, show |-> "isPhoto"]
  <2>1. HandsOK(r)
    BY <1>1 DEF HandsOK, EndingType
  <2>2. CASE call' = [call EXCEPT ![c] = r]
    BY <2>1, <2>2, <1>2, CallMoves DEF Typed
  <2>3. CASE End(c)
    BY <2>3, <1>2, CallEnds DEF Typed
  <2> QED BY <2>2, <2>3 DEF ReviewStamp, Completing
<1>4. sub' \in SubType
  BY <1>1, TypeShape DEF ReviewStamp, SubType, ReviewType, Typed
<1>5. TypeOK'
  BY <1>2, <1>4, TypeShape DEF Typed, TypeOK, SubType
<1> QED BY <1>1, <1>2, <1>3, <1>5 DEF Typed, KindOK

-----------------------------------------------------------------------------
(* A call that is about to complete the mission. *)
EndingHands(c) ==
  \/ setup.kind = "quiz" /\ call[c] \in EndingType("answer", {"never"})
  \/ setup.kind = "sequence" /\ call[c] \in EndingType("step", {"never"})
  \/ setup.kind = "photo" /\ setup.auto /\ call[c] \in EndingType("photo", {"never", "now"})
  \/ setup.kind = "photo" /\ call[c] \in EndingType("review", {"isPhoto"})

LEMMA Ending ==
  ASSUME CallsOK, NEW c \in Calls, call[c].kind # "none", call[c].pc = "complete"
  PROVE  EndingHands(c) /\ call[c].paid \in BOOLEAN
  BY DEF EndingHands, CallsOK, HandsOK, WrongType, StepType, PhotoType, ReviewType, OtherType,
         EndingType

LEMMA ToFeedHands ==
  ASSUME CallsOK, UNCHANGED setup, NEW c \in Calls, EndingHands(c), ToFeed(c)
  PROVE  CallsOK'
<1> DEFINE pc == IF call[c].show = "now" THEN "write" ELSE "read"
           r  == [kind |-> "feed", pc |-> pc]
<1>1. CASE End(c)
  BY <1>1, CallEnds
<1>2. CASE Shows(c) /\ call' = [call EXCEPT ![c] = r]
  <2>1. setup.kind = "photo"
    BY <1>2 DEF Shows, EndingHands, EndingType
  <2>2. HandsOK(r)
    BY <2>1 DEF HandsOK, OtherType
  <2> QED BY <1>2, <2>2, CallMoves
<1> QED BY <1>1, <1>2 DEF ToFeed

LEMMA CompleteTyped ==
  ASSUME Typed, NEW c \in Calls, Complete(c)
  PROVE  Typed'
<1>1. EndingHands(c) /\ call[c].paid \in BOOLEAN
  BY Ending DEF Complete, Typed
<1>2. UNCHANGED <<setup, sub>>
  BY DEF Complete
<1>3. CallsOK'
  BY <1>1, <1>2, ToFeedHands, CallsStand DEF Complete, Typed
<1>4. team \in TeamType /\ (team.earned > 0 => team.done)
  BY TypeShape DEF Typed
<1>5. Completed(c) \in TeamType /\ Completed(c).done /\ Completed(c).steps = team.steps
  <2> DEFINE points == IF call[c].paid THEN Award ELSE 0
  <2>1. points \in {0, Award} /\ points \in Int
    BY Amounts
  <2>2. Completed(c) = [team EXCEPT !.done = TRUE, !.earned = points, !.score = @ + points]
    BY DEF Completed
  <2> HIDE DEF points
  <2>3. team.score + points \in Int
    BY <1>4, <2>1, TeamNumbers
  <2>4. Completed(c) \in TeamType
    BY <1>4, <2>1, <2>2, <2>3, TeamUpdates, Amounts
  <2> QED BY <1>4, <2>2, <2>4 DEF TeamType
<1>6. team' \in TeamType /\ (team'.earned > 0 => team'.done) /\ team'.steps = team.steps
  BY <1>4, <1>5 DEF Complete
<1>7. ghost' \in GhostType
  <2>1. ghost.completions + 1 \in Nat /\ ghost.faults + 1 \in Nat
    BY GhostNumbers DEF Typed
  <2> QED BY <2>1, GhostUpdates DEF Complete, Typed
<1>8. TypeOK'
  BY <1>2, <1>6, TypeShape DEF Typed, TypeOK, TeamType
<1> QED BY <1>2, <1>3, <1>6, <1>7, <1>8 DEF Typed, KindOK, NoSubmission

LEMMA FeedTyped ==
  ASSUME Typed, NEW c \in Calls, FeedRead(c) \/ FeedWrite(c)
  PROVE  Typed'
<1>1. setup.kind = "photo" /\ UNCHANGED <<setup, team, sub>>
  BY PhotoCalls DEF FeedRead, FeedWrite, At, Typed
<1>2. CallsOK'
  <2> DEFINE r == [call[c] EXCEPT !.pc = "write"]
  <2>1. CASE FeedRead(c) /\ Goto(c, "write")
    <3>1. call[c] \in OtherType /\ call[c].kind = "feed"
      BY <2>1 DEF FeedRead, At, Typed, CallsOK, HandsOK, WrongType, StepType, PhotoType,
                  ReviewType, EndingType
    <3>2. HandsOK(r)
      BY <1>1, <3>1 DEF HandsOK, OtherType
    <3> QED BY <1>1, <2>1, <3>2, CallMoves DEF Goto, Typed
  <2>2. CASE End(c)
    BY <1>1, <2>2, CallEnds DEF Typed
  <2> QED BY <2>1, <2>2 DEF FeedRead, FeedWrite
<1>3. ghost' \in GhostType
  BY DEF FeedRead, FeedWrite, GhostType, Typed
<1> QED BY <1>1, <1>2, <1>3 DEF Typed, TypeOK, KindOK

LEMMA RequestTaskHintTyped ==
  ASSUME Typed, RequestTaskHint
  PROVE  Typed'
<1> DEFINE price == IF IsHintFree THEN 0 ELSE HintPenalty
<1>1. price \in Nat
  BY Amounts
<1>2. /\ team' = [team EXCEPT !.hinted = TRUE, !.penalty = @ + price]
      /\ ghost' = [ghost EXCEPT !.hints = @ + price]
      /\ UNCHANGED <<setup, sub, call>>
  BY DEF RequestTaskHint
<1> HIDE DEF price
<1>3. team' \in TeamType /\ (team'.earned > 0 => team'.done) /\ team'.steps = team.steps
  <2>1. team \in TeamType /\ (team.earned > 0 => team.done) /\ team.penalty + price \in Int
    BY <1>1, TypeShape, TeamNumbers DEF Typed
  <2>2. team' \in TeamType
    BY <1>2, <2>1, TeamUpdates, Amounts
  <2> QED BY <1>2, <2>1, <2>2 DEF TeamType
<1>4. ghost' \in GhostType /\ CallsOK'
  <2>1. ghost.hints + price \in Nat
    BY <1>1, GhostNumbers DEF Typed
  <2> QED BY <1>2, <2>1, GhostUpdates, CallsStand DEF Typed
<1>5. TypeOK'
  BY <1>2, <1>3, TypeShape DEF Typed, TypeOK, TeamType
<1> QED BY <1>2, <1>3, <1>4, <1>5 DEF Typed, KindOK, NoSubmission

LEMMA AdjustTeamScoreTyped ==
  ASSUME Typed, NEW delta \in Deltas, AdjustTeamScore(delta)
  PROVE  Typed'
<1>1. team' \in TeamType /\ (team'.earned > 0 => team'.done) /\ team'.steps = team.steps
  <2>1. team \in TeamType /\ (team.earned > 0 => team.done)
    BY TypeShape DEF Typed
  <2>2. team.penalty - delta \in Int /\ team.score + delta \in Int
    BY <2>1, TeamNumbers, Amounts
  <2>3. team' \in TeamType
    BY <2>1, <2>2, TeamUpdates, Amounts DEF AdjustTeamScore
  <2> QED BY <2>1, <2>3 DEF AdjustTeamScore, TeamType
<1>2. ghost' \in GhostType /\ CallsOK' /\ UNCHANGED <<setup, sub>>
  <2>1. ghost.adjusted + delta \in Int /\ ghost.changes + 1 \in Nat
    BY Amounts, GhostNumbers DEF Typed
  <2> QED BY <2>1, GhostUpdates, CallsStand DEF AdjustTeamScore, Typed
<1>3. TypeOK'
  BY <1>1, <1>2, TypeShape DEF Typed, TypeOK, TeamType
<1> QED BY <1>1, <1>2, <1>3 DEF Typed, KindOK, NoSubmission

LEMMA ReturnTeamToTyped ==
  ASSUME Typed, ReturnTeamTo
  PROVE  Typed'
<1>1. team \in TeamType /\ (team.earned > 0 => team.done)
  BY TypeShape DEF Typed
<1>2. team' \in TeamType /\ team'.earned = 0 /\ team'.steps = team.steps
  BY <1>1, TakenBack DEF ReturnTeamTo, Reopened
<1>3. sub' \in SubType /\ sub' = NoSubmission
  BY DEF ReturnTeamTo, NoSubmission, SubType
<1>4. ghost' \in GhostType /\ CallsOK' /\ UNCHANGED setup
  <2>1. ghost.waived + Waived \in Int /\ ghost.changes + 1 \in Nat
    BY <1>1, TakenBack, GhostNumbers DEF Typed
  <2> QED BY <2>1, GhostUpdates, CallsStand DEF ReturnTeamTo, Typed
<1>5. TypeOK'
  BY <1>2, <1>3, <1>4, TypeShape DEF Typed, TypeOK, TeamType, SubType
<1> QED BY <1>2, <1>3, <1>4, <1>5 DEF Typed, KindOK, NoSubmission

LEMMA DieTyped ==
  ASSUME Typed, NEW c \in Calls, Die(c)
  PROVE  Typed'
<1> DEFINE n == IF call[c].pc = "complete" THEN ghost.dropped + 1 ELSE ghost.dropped
<1>1. ghost.faults + 1 \in Nat /\ n \in Nat
  BY GhostNumbers DEF Typed
<1>2. ghost' = [ghost EXCEPT !.faults = @ + 1, !.dropped = n]
  BY DEF Die
<1> HIDE DEF n
<1>3. ghost' \in GhostType
  BY <1>1, <1>2, GhostUpdates DEF Typed
<1>4. CallsOK' /\ UNCHANGED <<setup, team, sub>>
  BY CallEnds DEF Die, Typed
<1> QED BY <1>3, <1>4 DEF Typed, TypeOK, KindOK, NoSubmission

LEMMA StepTyped == Typed /\ [Next]_vars => Typed'
<1> SUFFICES ASSUME Typed, [Next]_vars PROVE Typed'
  OBVIOUS
<1>1. ASSUME NEW c \in Calls, Answering(c) \/ Stepping(c) PROVE Typed'
  BY <1>1, AnswerGateTyped, AnswerWrongTyped, StepReadTyped, StepWriteTyped
     DEF Answering, Stepping
<1>2. ASSUME NEW c \in Calls, Sending(c) PROVE Typed'
  BY <1>2, PhotoReadTyped, PhotoWriteTyped, AttachReadTyped, AttachCommitTyped, FeedTyped
     DEF Sending
<1>3. ASSUME NEW c \in Calls, Reviewing(c) \/ Complete(c) \/ Die(c) PROVE Typed'
  BY <1>3, ReviewBeginTyped, ReviewReverseTyped, ReviewStampTyped, CompleteTyped, DieTyped
     DEF Reviewing
<1>4. CASE UNCHANGED vars
  BY <1>4, CallsStand DEF vars, Typed, TypeOK, KindOK, NoSubmission
<1> QED
  BY <1>1, <1>2, <1>3, <1>4, AdjustTeamScoreTyped, LockoutEndsTyped, RequestTaskHintTyped,
     ReturnTeamToTyped DEF Next

LEMMA TypedAlways == Spec => []Typed
  BY InitTyped, StepTyped, PTL DEF Spec

(* Documents, calls and history keep their types, for any number of calls: *)
(* in particular no mission is ever charged past the ceiling of its level, *)
(* and only a finished one holds an award.                                 *)
THEOREM GradingTypes == Spec => []TypeOK
<1>1. Typed => TypeOK
  BY DEF Typed
<1> QED BY <1>1, TypedAlways, PTL

-----------------------------------------------------------------------------
(* The score.  Only four steps touch it or what it is compared with.       *)
LEMMA ScoreStands ==
  ASSUME Typed, ScoreIsEarned, team' \in TeamType,
         team'.score = team.score, team'.earned = team.earned,
         ghost'.adjusted = ghost.adjusted, ghost'.waived = ghost.waived
  PROVE  ScoreIsEarned'
  BY DEF ScoreIsEarned

LEMMA StepScore == Typed /\ ScoreIsEarned /\ [Next]_vars => ScoreIsEarned'
<1> SUFFICES ASSUME Typed, ScoreIsEarned, [Next]_vars PROVE ScoreIsEarned'
  OBVIOUS
<1>1. team \in TeamType /\ (team.earned > 0 => team.done) /\ ghost \in GhostType
  BY TypeShape DEF Typed
<1>2. team.score = team.earned + ghost.adjusted + ghost.waived
  BY DEF ScoreIsEarned
<1>3. Typed'
  BY StepTyped
<1>4. team' \in TeamType /\ ghost' \in GhostType
  BY <1>3, TypeShape DEF Typed, TypeOK, TeamType
<1>5. ASSUME NEW c \in Calls, AnswerWrong(c) PROVE ScoreIsEarned'
  BY <1>5, <1>1, <1>4, ScoreStands DEF AnswerWrong, TeamType
<1>6. ASSUME NEW c \in Calls, StepWrite(c) PROVE ScoreIsEarned'
  BY <1>6, <1>1, <1>4, ScoreStands DEF StepWrite, TeamType
<1>7. ASSUME NEW c \in Calls, ReviewReverse(c) PROVE ScoreIsEarned'
  <2>1. CASE sub.status = "approved"
    <3>1. team' = Reversed /\ ghost' = [ghost EXCEPT !.waived = @ + Waived]
      BY <1>7, <2>1 DEF ReviewReverse
    <3>2. team'.score = ScoreWithout /\ team'.earned = 0
      BY <3>1, <1>1 DEF Reversed, TeamType
    <3>3. ghost'.waived = ghost.waived + Waived /\ ghost'.adjusted = ghost.adjusted
      BY <3>1, <1>1 DEF GhostType
    <3> QED BY <3>2, <3>3, <1>1, <1>2, TakenBack, TeamNumbers, GhostNumbers DEF ScoreIsEarned
  <2>2. CASE sub.status # "approved"
    BY <1>7, <2>2, <1>4, ScoreStands DEF ReviewReverse
  <2> QED BY <2>1, <2>2
<1>8. ASSUME NEW c \in Calls, Complete(c) PROVE ScoreIsEarned'
  <2>1. CASE team.done
    BY <1>8, <2>1, <1>4, ScoreStands DEF Complete
  <2>2. CASE ~team.done
    <3> DEFINE points == IF call[c].paid THEN Award ELSE 0
    <3>1. points \in Int /\ team.earned = 0
      BY <2>2, <1>1, TeamNumbers, Amounts
    <3>2. team' = [team EXCEPT !.done = TRUE, !.earned = points, !.score = @ + points]
      BY <1>8, <2>2 DEF Complete, Completed
    <3> HIDE DEF points
    <3>3. team'.score = team.score + points /\ team'.earned = points
      BY <3>2, <1>1 DEF TeamType
    <3>4. ghost'.waived = ghost.waived /\ ghost'.adjusted = ghost.adjusted
      BY <1>8, <2>2, <1>1 DEF Complete, GhostType
    <3> QED BY <3>1, <3>3, <3>4, <1>1, <1>2, TeamNumbers, GhostNumbers DEF ScoreIsEarned
  <2> QED BY <2>1, <2>2
<1>9. ASSUME NEW delta \in Deltas, AdjustTeamScore(delta) PROVE ScoreIsEarned'
  <2>1. team'.score = team.score + delta /\ team'.earned = team.earned
    BY <1>9, <1>1 DEF AdjustTeamScore, TeamType
  <2>2. ghost'.adjusted = ghost.adjusted + delta /\ ghost'.waived = ghost.waived
    BY <1>9, <1>1 DEF AdjustTeamScore, GhostType
  <2> QED BY <2>1, <2>2, <1>1, <1>2, Amounts, TeamNumbers, GhostNumbers DEF ScoreIsEarned
<1>10. ASSUME ReturnTeamTo PROVE ScoreIsEarned'
  <2>1. team'.score = ScoreWithout /\ team'.earned = 0
    BY <1>10, <1>1 DEF ReturnTeamTo, Reopened, TeamType
  <2>2. ghost'.waived = ghost.waived + Waived /\ ghost'.adjusted = ghost.adjusted
    BY <1>10, <1>1 DEF ReturnTeamTo, GhostType
  <2> QED BY <2>1, <2>2, <1>1, <1>2, TakenBack, TeamNumbers, GhostNumbers DEF ScoreIsEarned
<1>11. ASSUME LockoutEnds \/ RequestTaskHint PROVE ScoreIsEarned'
  BY <1>11, <1>1, <1>4, ScoreStands DEF LockoutEnds, RequestTaskHint, TeamType, GhostType
<1>12. ASSUME NEW c \in Calls, FeedWrite(c) \/ Die(c) PROVE ScoreIsEarned'
  BY <1>12, <1>1, <1>4, ScoreStands DEF FeedWrite, Die, GhostType
<1>13. CASE UNCHANGED <<team, ghost>>
  BY <1>13, <1>4, ScoreStands
<1>14. ASSUME NEW c \in Calls, Answering(c) \/ Stepping(c) \/ Sending(c) \/ Reviewing(c)
       PROVE  ScoreIsEarned'
  BY <1>5, <1>6, <1>7, <1>12, <1>13, <1>14
     DEF Answering, AnswerGate, Stepping, StepRead, Sending, PhotoRead, PhotoWrite,
         AttachRead, AttachCommit, FeedRead, Reviewing, ReviewBegin, ReviewStamp
<1> QED
  BY <1>8, <1>9, <1>10, <1>11, <1>12, <1>13, <1>14 DEF Next, vars

(* The score on the team's screen is what its record earned and what staff *)
(* gave or took, for any number of overlapping submissions, reviews,       *)
(* reversals, retried commits and send-backs.                              *)
THEOREM ScoreHolds == Spec => []ScoreIsEarned
<1>1. Init => ScoreIsEarned
  BY DEF Init, ScoreIsEarned
<1> QED BY <1>1, TypedAlways, StepScore, PTL DEF Spec

-----------------------------------------------------------------------------
(* The curve: the price of one more attempt is what it lacks to the curve  *)
(* of as many attempts, so that the charges add up to it.                  *)
LEMMA CurveGrows ==
  ASSUME NEW k \in Nat, NEW p \in Nat
  PROVE  /\ p * k * (k + 1) \in Nat /\ p * (k + 1) \in Nat
         /\ (p * (k + 1) * (k + 2)) \div 2 = (p * k * (k + 1)) \div 2 + p * (k + 1)
<1> DEFINE x == p * k * (k + 1)
           y == p * (k + 1)
           z == p * (k + 1) * (k + 2)
<1>1. y \in Nat /\ x \in Nat /\ x = k * y
  <2>1. k * y \in Nat
    OBVIOUS
  <2> QED BY <2>1
<1>2. z = y * (k + 2) /\ y * (k + 2) = y * k + 2 * y /\ y * k = k * y
  OBVIOUS
<1>3. z = x + 2 * y
  BY <1>1, <1>2
<1> HIDE DEF x, y, z
<1>4. z \div 2 = x \div 2 + y
  BY <1>1, <1>3
<1> QED BY <1>1, <1>4 DEF x, y, z

LEMMA CurveSteps ==
  ASSUME NEW n \in Nat, NEW m \in Nat, m = n + 1
  PROVE  Curve(m) = Curve(n) + Cost(m, Curve(n))
<1>1. CASE m - FreeAttempts < 1
  <2>1. AtLeast0(n - FreeAttempts) = 0 /\ AtLeast0(m - FreeAttempts) = 0
    BY <1>1, Amounts DEF AtLeast0
  <2>2. Curve(m) = Curve(n) /\ Curve(n) \in Nat
    BY <2>1, Amounts DEF Curve
  <2> QED BY <1>1, <2>2, Amounts DEF Cost
<1>2. CASE m - FreeAttempts >= 1
  <2> DEFINE k == n - FreeAttempts
             j == m - FreeAttempts
             x == (PointStep * k * (k + 1)) \div 2
             y == PointStep * j
             z == (PointStep * j * (j + 1)) \div 2
  <2>1. k \in Nat /\ j = k + 1 /\ j + 1 = k + 2 /\ ~(j < 1)
    BY <1>2, Amounts
  <2>2. AtLeast0(n - FreeAttempts) = k /\ AtLeast0(m - FreeAttempts) = j
    BY <2>1, Amounts DEF AtLeast0
  <2>3. Curve(n) = IF x < MaxPoints THEN x ELSE MaxPoints
    BY <2>2 DEF Curve
  <2>4. Curve(m) = IF z < MaxPoints THEN z ELSE MaxPoints
    BY <2>2 DEF Curve
  <2>5. Cost(m, Curve(n)) = IF y < MaxPoints - Curve(n) THEN y ELSE MaxPoints - Curve(n)
    BY <2>1 DEF Cost
  <2> HIDE DEF k, j
  <2>6. z = x + y /\ y \in Nat /\ x \in Nat
    BY <2>1, CurveGrows, Amounts
  <2> HIDE DEF x, y, z
  <2> QED BY <2>3, <2>4, <2>5, <2>6, Amounts
<1> QED BY <1>1, <1>2, Amounts

(* What is compared with the curve and with the penalty. *)
LEMMA PenaltyStands ==
  ASSUME PenaltyIsOwed, UNCHANGED setup,
         setup.kind = "quiz" => team'.attempts = team.attempts,
         team'.charged = team.charged, team'.penalty = team.penalty,
         ghost'.hints = ghost.hints, ghost'.adjusted = ghost.adjusted
  PROVE  PenaltyIsOwed'
  BY DEF PenaltyIsOwed

LEMMA WrongIsCharged ==
  ASSUME Typed, PenaltyIsOwed, NEW c \in Calls, AnswerWrong(c)
  PROVE  PenaltyIsOwed'
<1>1. setup.kind = "quiz"
  BY DEF AnswerWrong, At, Typed, CallsOK, HandsOK, StepType, PhotoType, ReviewType, OtherType,
         EndingType
<1>2. team \in TeamType /\ UNCHANGED <<setup, ghost>>
  BY TypeShape DEF Typed, AnswerWrong
<1>3. CASE team' = team
  BY <1>2, <1>3, PenaltyStands
<1>4. CASE ~setup.cost /\ team' = [team EXCEPT !.attempts = @ + 1]
  <2>1. team'.charged = team.charged /\ team'.penalty = team.penalty
    BY <1>2, <1>4 DEF TeamType
  <2> QED BY <2>1, <1>2, <1>4 DEF PenaltyIsOwed
<1>5. CASE setup.cost /\ team' = [team EXCEPT !.attempts = @ + 1, !.charged = @ + Price(c),
                                  !.penalty = @ + Price(c), !.last = call[c].answer,
                                  !.locked = team.attempts + 1 > FreeAttempts]
  <2>1. /\ team'.charged = team.charged + Price(c) /\ team'.penalty = team.penalty + Price(c)
        /\ team'.attempts = team.attempts + 1
    BY <1>2, <1>5 DEF TeamType
  <2>2. team.charged = Curve(team.attempts) /\ team.attempts \in Nat /\ team.charged \in Nat
    BY <1>1, <1>2, <1>5, TeamNumbers, Amounts DEF PenaltyIsOwed
  <2>3. Curve(team.attempts + 1) = team.charged + Price(c)
    <3>1. team.attempts + 1 \in Nat
      BY <2>2
    <3> QED BY <2>2, <3>1, CurveSteps DEF Price
  <2>4. Price(c) \in Nat
    <3>1. team.attempts + 1 \in Nat
      BY <2>2
    <3> QED BY <3>1, <1>2, PriceType DEF Price
  <2> QED BY <1>1, <1>2, <1>5, <2>1, <2>2, <2>3, <2>4, TeamNumbers, GhostNumbers
          DEF PenaltyIsOwed, Typed
<1> QED BY <1>3, <1>4, <1>5 DEF AnswerWrong

LEMMA StepPenalty == Typed /\ PenaltyIsOwed /\ [Next]_vars => PenaltyIsOwed'
<1> SUFFICES ASSUME Typed, PenaltyIsOwed, [Next]_vars PROVE PenaltyIsOwed'
  OBVIOUS
<1>1. team \in TeamType /\ (team.earned > 0 => team.done) /\ ghost \in GhostType
  BY TypeShape DEF Typed
<1>2. team.penalty = team.charged + ghost.hints - ghost.adjusted
  BY DEF PenaltyIsOwed
<1>3. ASSUME NEW c \in Calls, StepWrite(c) PROVE PenaltyIsOwed'
  <2>1. setup.kind = "sequence"
    BY <1>3, StepHands DEF StepWrite, Typed
  <2> QED BY <1>3, <2>1, <1>1, PenaltyStands DEF StepWrite, TeamType
<1>4. ASSUME NEW c \in Calls, ReviewReverse(c) PROVE PenaltyIsOwed'
  BY <1>4, <1>1, PenaltyStands DEF ReviewReverse, Reversed, TeamType, GhostType
<1>5. ASSUME NEW c \in Calls, Complete(c) PROVE PenaltyIsOwed'
  BY <1>5, <1>1, PenaltyStands DEF Complete, Completed, TeamType, GhostType
<1>6. ASSUME NEW delta \in Deltas, AdjustTeamScore(delta) PROVE PenaltyIsOwed'
  <2>1. /\ team'.penalty = team.penalty - delta /\ team'.charged = team.charged
        /\ team'.attempts = team.attempts
    BY <1>6, <1>1 DEF AdjustTeamScore, TeamType
  <2>2. ghost'.adjusted = ghost.adjusted + delta /\ ghost'.hints = ghost.hints
    BY <1>6, <1>1 DEF AdjustTeamScore, GhostType
  <2>3. team'.penalty = team'.charged + ghost'.hints - ghost'.adjusted
    BY <2>1, <2>2, <1>1, <1>2, Amounts, TeamNumbers, GhostNumbers
  <2> QED BY <1>6, <2>1, <2>3 DEF AdjustTeamScore, PenaltyIsOwed
<1>7. ASSUME RequestTaskHint PROVE PenaltyIsOwed'
  <2> DEFINE price == IF IsHintFree THEN 0 ELSE HintPenalty
  <2>1. price \in Nat
    BY Amounts
  <2>2. /\ team' = [team EXCEPT !.hinted = TRUE, !.penalty = @ + price]
        /\ ghost' = [ghost EXCEPT !.hints = @ + price] /\ UNCHANGED setup
    BY <1>7 DEF RequestTaskHint
  <2> HIDE DEF price
  <2>3. /\ team'.penalty = team.penalty + price /\ team'.charged = team.charged
        /\ team'.attempts = team.attempts
    BY <2>2, <1>1 DEF TeamType
  <2>4. ghost'.hints = ghost.hints + price /\ ghost'.adjusted = ghost.adjusted
    BY <2>2, <1>1 DEF GhostType
  <2>5. team'.penalty = team'.charged + ghost'.hints - ghost'.adjusted
    BY <2>1, <2>3, <2>4, <1>1, <1>2, TeamNumbers, GhostNumbers
  <2> QED BY <2>2, <2>3, <2>5 DEF PenaltyIsOwed
<1>8. ASSUME LockoutEnds \/ ReturnTeamTo PROVE PenaltyIsOwed'
  BY <1>8, <1>1, PenaltyStands DEF LockoutEnds, ReturnTeamTo, Reopened, TeamType, GhostType
<1>9. ASSUME NEW c \in Calls, FeedWrite(c) \/ Die(c) PROVE PenaltyIsOwed'
  BY <1>9, <1>1, PenaltyStands DEF FeedWrite, Die, GhostType
<1>10. CASE UNCHANGED <<setup, team, ghost>>
  BY <1>10, PenaltyStands
<1>11. ASSUME NEW c \in Calls, Answering(c) \/ Stepping(c) \/ Sending(c) \/ Reviewing(c)
       PROVE  PenaltyIsOwed'
  BY <1>3, <1>4, <1>9, <1>10, <1>11, WrongIsCharged
     DEF Answering, AnswerGate, Stepping, StepRead, Sending, PhotoRead, PhotoWrite,
         AttachRead, AttachCommit, FeedRead, Reviewing, ReviewBegin, ReviewStamp
<1> QED
  BY <1>5, <1>6, <1>7, <1>8, <1>9, <1>10, <1>11 DEF Next, vars

(* Wrong answers cost what the curve asks for as many attempts as are      *)
(* recorded, and the penalty that is ranked is that, the hint, and what    *)
(* staff gave or took, for any curve and any number of answers at once.    *)
THEOREM PenaltyHolds == Spec => []PenaltyIsOwed
<1>1. Init => PenaltyIsOwed
  <2> SUFFICES ASSUME Init PROVE PenaltyIsOwed
    OBVIOUS
  <2>1. team.attempts = 0 /\ team.charged = 0 /\ team.penalty = 0
        /\ ghost.hints = 0 /\ ghost.adjusted = 0
    BY DEF Init
  <2>2. AtLeast0(0 - FreeAttempts) = 0
    BY Amounts DEF AtLeast0
  <2>3. Curve(0) = 0
    BY <2>2, Amounts DEF Curve
  <2> QED BY <2>1, <2>3 DEF PenaltyIsOwed
<1> QED BY <1>1, TypedAlways, StepPenalty, PTL DEF Spec

-----------------------------------------------------------------------------
(* Answers in flight. *)
IsWrong(r) == r.kind = "answer" /\ r.pc = "wrong"

LEMMA InFlightMoves ==
  ASSUME CallsOK, NEW c \in Calls, NEW r, call' = [call EXCEPT ![c] = r]
  PROVE  InFlight' = IF IsWrong(r) THEN InFlight \cup {c} ELSE InFlight \ {c}
<1>1. call'[c] = r /\ \A x \in Calls \ {c} : call'[x] = call[x]
  BY DEF CallsOK
<1> QED BY <1>1 DEF InFlight, At, IsWrong

LEMMA InFlightCount ==
  /\ IsFiniteSet(InFlight) /\ Cardinality(InFlight) \in Nat /\ Cardinality(Calls) \in Nat
  /\ Cardinality(InFlight) <= Cardinality(Calls)
<1>1. InFlight \in SUBSET Calls
  BY DEF InFlight
<1> QED BY <1>1, FS_Subset, FS_CardinalityType, NamesAssumption DEF NamesAssumption

(* A call that does not let an answer through: no answer is added to those *)
(* in flight and the attempts stand.                                       *)
LEMMA BoundStands ==
  ASSUME Typed, AttemptsBounded, UNCHANGED setup, InFlight' \subseteq InFlight,
         setup.kind = "quiz" => team'.attempts = team.attempts
  PROVE  AttemptsBounded'
<1>1. InFlight' \in SUBSET InFlight
  OBVIOUS
<1>2. Cardinality(InFlight') <= Cardinality(InFlight) /\ Cardinality(InFlight') \in Nat
  BY <1>1, InFlightCount, FS_Subset, FS_CardinalityType
<1>3. setup.limit \in Nat /\ (setup.kind = "quiz" => team.attempts \in Nat)
  BY SetupType, TeamNumbers, TypeShape DEF Typed
<1>4. Cardinality(InFlight)' = Cardinality(InFlight')
  OBVIOUS
<1> QED BY <1>2, <1>3, <1>4, InFlightCount DEF AttemptsBounded

LEMMA GateBound ==
  ASSUME Typed, AttemptsBounded, NEW c \in Calls, NEW a \in Wrong \cup {Right},
         AnswerGate(c, a)
  PROVE  AttemptsBounded'
<1>1. UNCHANGED <<setup, team>>
  BY DEF AnswerGate
<1>2. CASE setup.sealed \/ a = Right
  <2>1. ~IsWrong([kind |-> "answer", pc |-> "complete", paid |-> a = Right, show |-> "never"])
    BY DEF IsWrong
  <2>2. InFlight' \subseteq InFlight
    BY <1>2, <2>1, InFlightMoves DEF AnswerGate, Completing, Typed
  <2> QED BY <1>1, <2>2, BoundStands
<1>3. CASE setup.limit > 0 => team.attempts < setup.limit
  <2>1. InFlight' \in SUBSET Calls
    BY DEF InFlight
  <2>2. Cardinality(InFlight') <= Cardinality(Calls) /\ Cardinality(InFlight') \in Nat
    BY <2>1, FS_Subset, FS_CardinalityType, NamesAssumption DEF NamesAssumption
  <2>3. setup.limit \in Nat /\ team.attempts \in Nat
    BY SetupType, TeamNumbers, TypeShape DEF Typed
  <2>4. Cardinality(InFlight)' = Cardinality(InFlight')
    OBVIOUS
  <2> QED BY <1>1, <1>3, <2>2, <2>3, <2>4, InFlightCount DEF AttemptsBounded
<1> QED BY <1>2, <1>3 DEF AnswerGate, LetThrough

LEMMA WrongBound ==
  ASSUME Typed, AttemptsBounded, NEW c \in Calls, AnswerWrong(c)
  PROVE  AttemptsBounded'
<1>1. InFlight' = InFlight \ {c} /\ c \in InFlight
  <2>1. ~IsWrong([kind |-> "none"])
    BY DEF IsWrong
  <2> QED BY <2>1, InFlightMoves DEF AnswerWrong, End, Typed, InFlight
<1>2. Cardinality(InFlight') = Cardinality(InFlight) - 1
  BY <1>1, InFlightCount, FS_RemoveElement
<1>3. team \in TeamType /\ UNCHANGED setup
  BY TypeShape DEF Typed, AnswerWrong
<1>4. team'.attempts \in {team.attempts, team.attempts + 1}
  BY <1>3 DEF AnswerWrong, TeamType
<1>5. setup.limit \in Nat /\ team.attempts \in Nat
  BY <1>3, SetupType, TeamNumbers DEF Typed, TypeOK
<1>6. Cardinality(InFlight)' = Cardinality(InFlight')
  OBVIOUS
<1> QED BY <1>2, <1>3, <1>4, <1>5, <1>6, InFlightCount DEF AttemptsBounded

LEMMA StepBound == Typed /\ AttemptsBounded /\ [Next]_vars => AttemptsBounded'
<1> SUFFICES ASSUME Typed, AttemptsBounded, [Next]_vars PROVE AttemptsBounded'
  OBVIOUS
<1>1. team \in TeamType /\ CallsOK /\ UNCHANGED setup
  BY TypeShape, SetupStands DEF Typed
<1>2. ASSUME NEW c \in Calls, NEW r, call' = [call EXCEPT ![c] = r], ~IsWrong(r)
      PROVE  InFlight' \subseteq InFlight
  BY <1>1, <1>2, InFlightMoves
<1>3. ASSUME NEW c \in Calls, End(c) PROVE InFlight' \subseteq InFlight
  BY <1>2, <1>3 DEF End, IsWrong
<1>4. ASSUME NEW c \in Calls, NEW kind, NEW paid, NEW show, Completing(c, kind, paid, show)
      PROVE  InFlight' \subseteq InFlight
  BY <1>2, <1>4 DEF Completing, IsWrong
<1>5. ASSUME NEW c \in Calls, Stepping(c) PROVE AttemptsBounded'
  <2>1. setup.kind = "sequence"
    BY <1>1, <1>5, StepHands DEF Stepping, StepRead, StepWrite
  <2> QED BY <1>1, <2>1 DEF AttemptsBounded
<1>6. ASSUME NEW c \in Calls, Sending(c) \/ Reviewing(c) PROVE AttemptsBounded'
  <2>1. setup.kind = "photo"
    BY <1>1, <1>6, PhotoCalls, SenderIsPhoto
       DEF Sending, PhotoRead, PhotoWrite, AttachRead, AttachCommit, FeedRead, FeedWrite,
           Reviewing, ReviewBegin, ReviewReverse, ReviewStamp, At
  <2> QED BY <1>1, <2>1 DEF AttemptsBounded
<1>7. ASSUME NEW c \in Calls, Complete(c) PROVE AttemptsBounded'
  <2>1. team'.attempts = team.attempts
    BY <1>1, <1>7 DEF Complete, Completed, TeamType
  <2>2. InFlight' \subseteq InFlight
    <3>1. CASE UNCHANGED call
      BY <3>1 DEF InFlight, At
    <3>2. CASE ToFeed(c)
      BY <3>2, <1>2, <1>3 DEF ToFeed, IsWrong
    <3> QED BY <1>7, <3>1, <3>2 DEF Complete
  <2> QED BY <1>1, <2>1, <2>2, BoundStands
<1>8. ASSUME NEW c \in Calls, Die(c) PROVE AttemptsBounded'
  BY <1>1, <1>3, <1>8, BoundStands DEF Die
<1>9. ASSUME UNCHANGED call, team'.attempts = team.attempts PROVE AttemptsBounded'
  BY <1>1, <1>9, BoundStands DEF InFlight, At
<1>10. ASSUME NEW delta \in Deltas, AdjustTeamScore(delta) PROVE AttemptsBounded'
  BY <1>1, <1>9, <1>10 DEF AdjustTeamScore, TeamType
<1>11. CASE LockoutEnds \/ RequestTaskHint \/ ReturnTeamTo
  BY <1>1, <1>9, <1>11 DEF LockoutEnds, RequestTaskHint, ReturnTeamTo, Reopened, TeamType
<1>12. CASE UNCHANGED vars
  BY <1>9, <1>12 DEF vars
<1> QED
  BY <1>5, <1>6, <1>7, <1>8, <1>10, <1>11, <1>12, GateBound, WrongBound DEF Next, Answering

(* "a locked task must never be charged": answers that overlap go past the *)
(* attempt limit by no more than the other calls in flight, for any limit  *)
(* and any number of calls.                                                *)
THEOREM AttemptsHold == Spec => []AttemptsBounded
<1>1. Init => AttemptsBounded
  <2> SUFFICES ASSUME Init PROVE AttemptsBounded
    OBVIOUS
  <2>1. InFlight = {} /\ team.attempts = 0 /\ setup.limit \in Nat
    BY SetupType DEF Init, InFlight, At
  <2> QED BY <2>1, FS_EmptySet, InFlightCount DEF AttemptsBounded
<1> QED BY <1>1, TypedAlways, StepBound, PTL DEF Spec

-----------------------------------------------------------------------------
(* What was proved is completed, or a call is about to: the invariant      *)
(* behind ProofIsCounted.                                                  *)
AtEnd(c) == call[c].kind # "none" /\ call[c].pc = "complete"

Proved == team.steps = Steps \/ sub.status = "approved"

ProofFollows ==
  ghost.dropped = 0 /\ Proved => team.done \/ \E c \in Calls : AtEnd(c)

LEMMA EndsStay ==
  ASSUME CallsOK, NEW c \in Calls, ~AtEnd(c), NEW r, call' = [call EXCEPT ![c] = r]
  PROVE  \A x \in Calls : AtEnd(x) => AtEnd(x)'
  BY DEF CallsOK, AtEnd

LEMMA FollowsStill ==
  ASSUME ProofFollows, Proved' => Proved, team.done => team'.done,
         ghost'.dropped = 0 => ghost.dropped = 0, \A x \in Calls : AtEnd(x) => AtEnd(x)'
  PROVE  ProofFollows'
  BY DEF ProofFollows

LEMMA FollowsAtEnd ==
  ASSUME CallsOK, NEW c \in Calls, NEW kind \in {"answer", "step", "photo", "review"},
         NEW paid, NEW show, Completing(c, kind, paid, show)
  PROVE  ProofFollows'
  BY DEF Completing, AtEnd, CallsOK, ProofFollows

LEMMA AnsweringFollows ==
  ASSUME Typed, ProofFollows, NEW c \in Calls, Answering(c)
  PROVE  ProofFollows'
<1>1. team \in TeamType /\ CallsOK
  BY TypeShape DEF Typed
<1>2. ASSUME NEW a \in Wrong \cup {Right}, AnswerGate(c, a) PROVE ProofFollows'
  BY <1>1, <1>2, EndsStay, FollowsStill
     DEF AnswerGate, Begin, Completing, Proved, AtEnd
<1>3. CASE AnswerWrong(c)
  <2>1. team'.done = team.done /\ team'.steps = team.steps
    BY <1>1, <1>3 DEF AnswerWrong, TeamType
  <2>2. UNCHANGED <<sub, ghost>> /\ \A x \in Calls : AtEnd(x) => AtEnd(x)'
    BY <1>1, <1>3, EndsStay DEF AnswerWrong, At, End, AtEnd
  <2> QED BY <2>1, <2>2, FollowsStill DEF Proved
<1> QED BY <1>2, <1>3 DEF Answering

LEMMA SteppingFollows ==
  ASSUME Typed, ProofFollows, NEW c \in Calls, Stepping(c)
  PROVE  ProofFollows'
<1>1. team \in TeamType /\ CallsOK
  BY TypeShape DEF Typed
<1>2. ASSUME NEW ok \in BOOLEAN, StepRead(c, ok) PROVE ProofFollows'
  BY <1>1, <1>2, EndsStay, FollowsStill DEF StepRead, Begin, Proved, AtEnd
<1>3. CASE StepWrite(c) /\ LastStep(call[c].next)
  BY <1>1, <1>3, FollowsAtEnd DEF StepWrite
<1>4. CASE StepWrite(c) /\ ~LastStep(call[c].next)
  <2>1. call[c] \in StepType /\ sub = NoSubmission
    BY <1>1, <1>4, StepHands DEF StepWrite, Typed, KindOK
  <2>2. team'.steps = call[c].next /\ sub' = sub
    BY <1>1, <1>4 DEF StepWrite, TeamType
  <2>3. call[c].next # Steps
    BY <1>4, <2>1, Amounts DEF LastStep, StepType
  <2> QED BY <2>1, <2>2, <2>3 DEF ProofFollows, Proved, NoSubmission
<1> QED BY <1>2, <1>3, <1>4 DEF Stepping

LEMMA SendingFollows ==
  ASSUME Typed, ProofFollows, NEW c \in Calls, Sending(c)
  PROVE  ProofFollows'
<1>1. team \in TeamType /\ CallsOK /\ ghost \in GhostType /\ sub \in SubType
  BY TypeShape DEF Typed
<1>2. ASSUME NEW p \in Phones, NEW deferred \in BOOLEAN, PhotoRead(c, p, deferred)
      PROVE  ProofFollows'
  BY <1>1, <1>2, EndsStay, FollowsStill DEF PhotoRead, Begin, Proved, AtEnd
<1>3. ASSUME NEW p \in Phones, AttachRead(c, p) PROVE ProofFollows'
  BY <1>1, <1>3, EndsStay, FollowsStill DEF AttachRead, Begin, Proved, AtEnd
<1>4. CASE PhotoWrite(c) /\ setup.auto
  BY <1>1, <1>4, FollowsAtEnd DEF PhotoWrite
<1>5. CASE PhotoWrite(c) /\ ~setup.auto
  <2>1. sub'.status # "approved" /\ UNCHANGED team
    BY <1>5 DEF PhotoWrite
  <2>2. team.steps = 0
    BY <1>1, <1>5, PhotoHands DEF PhotoWrite, Typed, KindOK
  <2> QED BY <2>1, <2>2, Amounts DEF ProofFollows, Proved
<1>6. CASE AttachCommit(c)
  <2>1. \A x \in Calls : AtEnd(x) => AtEnd(x)'
    BY <1>1, <1>6, EndsStay DEF AttachCommit, At, AtEnd, End
  <2>2. sub'.status = sub.status /\ UNCHANGED <<team, ghost>>
    BY <1>1, <1>6 DEF AttachCommit, SubType
  <2> QED BY <2>1, <2>2, FollowsStill DEF Proved
<1>7. CASE FeedRead(c) \/ FeedWrite(c)
  <2>1. \A x \in Calls : AtEnd(x) => AtEnd(x)'
    BY <1>1, <1>7, EndsStay DEF FeedRead, FeedWrite, At, AtEnd, End, Goto
  <2>2. ghost'.dropped = ghost.dropped /\ UNCHANGED <<team, sub>>
    BY <1>1, <1>7 DEF FeedRead, FeedWrite, GhostType
  <2> QED BY <2>1, <2>2, FollowsStill DEF Proved
<1> QED BY <1>2, <1>3, <1>4, <1>5, <1>6, <1>7 DEF Sending

LEMMA ReviewingFollows ==
  ASSUME Typed, ProofFollows, NEW c \in Calls, Reviewing(c)
  PROVE  ProofFollows'
<1>1. team \in TeamType /\ CallsOK /\ ghost \in GhostType /\ sub \in SubType
  BY TypeShape DEF Typed
<1>2. ASSUME NEW verdict \in {"approved", "rejected"}, ReviewBegin(c, verdict)
      PROVE  ProofFollows'
  BY <1>1, <1>2, EndsStay, FollowsStill DEF ReviewBegin, Begin, Proved, AtEnd
<1>3. CASE ReviewReverse(c)
  <2>1. \A x \in Calls : AtEnd(x) => AtEnd(x)'
    BY <1>1, <1>3, EndsStay DEF ReviewReverse, At, AtEnd, Goto
  <2>2. team'.done = team.done /\ team'.steps = team.steps /\ ghost'.dropped = ghost.dropped
    BY <1>1, <1>3 DEF ReviewReverse, Reversed, TeamType, GhostType
  <2> QED BY <1>3, <2>1, <2>2, FollowsStill DEF ReviewReverse, Proved
<1>4. CASE ReviewStamp(c) /\ call[c].verdict = "approved"
  BY <1>1, <1>4, FollowsAtEnd DEF ReviewStamp
<1>5. CASE ReviewStamp(c) /\ call[c].verdict # "approved"
  <2>1. sub'.status # "approved" /\ UNCHANGED team
    BY <1>1, <1>5 DEF ReviewStamp, SubType
  <2>2. team.steps = 0
    BY <1>1, <1>5, ReviewHands DEF ReviewStamp, Typed, KindOK
  <2> QED BY <2>1, <2>2, Amounts DEF ProofFollows, Proved
<1> QED BY <1>2, <1>3, <1>4, <1>5 DEF Reviewing

LEMMA StepFollows ==
  ASSUME "sequence" \notin Returned
  PROVE  Typed /\ ProofFollows /\ [Next]_vars => ProofFollows'
<1> SUFFICES ASSUME Typed, ProofFollows, [Next]_vars PROVE ProofFollows'
  OBVIOUS
<1>1. team \in TeamType /\ CallsOK /\ ghost \in GhostType
  BY TypeShape DEF Typed
<1>2. ASSUME NEW c \in Calls, Complete(c) PROVE ProofFollows'
  <2>1. team'.done
    BY <1>1, <1>2 DEF Complete, Completed, TeamType
  <2> QED BY <2>1 DEF ProofFollows
<1>3. ASSUME NEW c \in Calls, Die(c) PROVE ProofFollows'
  <2>1. CASE AtEnd(c)
    <3>1. ghost'.dropped = ghost.dropped + 1
      BY <1>1, <1>3, <2>1 DEF Die, AtEnd, GhostType
    <3> QED BY <1>1, <3>1, GhostNumbers DEF ProofFollows
  <2>2. CASE ~AtEnd(c)
    <3>1. ghost'.dropped = ghost.dropped
      BY <1>1, <1>3, <2>2 DEF Die, AtEnd, GhostType
    <3>2. \A x \in Calls : AtEnd(x) => AtEnd(x)'
      BY <1>1, <1>3, <2>2, EndsStay DEF Die, End
    <3> QED BY <1>3, <3>1, <3>2, FollowsStill DEF Die, Proved
  <2> QED BY <2>1, <2>2
<1>4. CASE ReturnTeamTo
  <2>1. team'.steps = team.steps /\ sub' = NoSubmission
    BY <1>1, <1>4 DEF ReturnTeamTo, Reopened, TeamType
  <2>2. team.steps = 0
    BY <1>4 DEF ReturnTeamTo, Typed, KindOK
  <2> QED BY <2>1, <2>2, Amounts DEF ProofFollows, Proved, NoSubmission
<1>5. ASSUME UNCHANGED <<sub, call>>, team'.done = team.done, team'.steps = team.steps,
             ghost'.dropped = ghost.dropped
      PROVE  ProofFollows'
  BY <1>5, FollowsStill DEF Proved, AtEnd
<1>6. ASSUME NEW delta \in Deltas, AdjustTeamScore(delta) PROVE ProofFollows'
  BY <1>1, <1>5, <1>6 DEF AdjustTeamScore, TeamType, GhostType
<1>7. CASE LockoutEnds \/ RequestTaskHint
  BY <1>1, <1>5, <1>7 DEF LockoutEnds, RequestTaskHint, TeamType, GhostType
<1>8. CASE UNCHANGED vars
  BY <1>5, <1>8 DEF vars
<1> QED
  BY <1>2, <1>3, <1>4, <1>6, <1>7, <1>8, AnsweringFollows, SteppingFollows, SendingFollows,
     ReviewingFollows DEF Next

(* Who has answered every step, or has an approved photo, has completed    *)
(* the mission as soon as no call is under way: for any number of phones,  *)
(* reviews and retries, whatever overlaps, where no sequence is reopened.  *)
THEOREM ProofCounts ==
  ASSUME "sequence" \notin Returned
  PROVE  Spec => []ProofIsCounted
<1>1. Init => ProofFollows
  BY Amounts DEF Init, ProofFollows, Proved, NoSubmission
<1>2. Typed /\ ProofFollows => ProofIsCounted
  BY DEF ProofFollows, ProofIsCounted, Idle, AtEnd, Proved
<1> QED BY <1>1, <1>2, TypedAlways, StepFollows, PTL DEF Spec

-----------------------------------------------------------------------------
(* What a run without an overlap of Races has: who reviews is alone with   *)
(* the photo, who sends one is the only one to.                            *)
ReviewsAlone ==
  \A c, d \in Calls : c # d /\ call[c].kind = "review" => call[d].kind \notin {"review", "photo"}
PhotosAlone ==
  \A c, d \in Calls : call[c].kind = "photo" /\ call[d].kind = "photo" => c = d

(* A call keeps its kind, ends or goes on to the feed, or it is new, and   *)
(* one that reviews or sends a photo has asked for the overlap.            *)
NewCall(c) ==
  /\ \A d \in Calls \ {c} : call'[d] = call[d]
  /\ call'[c].kind = "photo" => Alone("photos", "photo") /\ Alone("reviews", "review")
  /\ call'[c].kind = "review" => Alone("reviews", "review") /\ Alone("reviews", "photo")

LEMMA OnlyOneCall ==
  ASSUME CallsOK, NEW c \in Calls, NEW r, call' = [call EXCEPT ![c] = r]
  PROVE  call'[c] = r /\ \A d \in Calls \ {c} : call'[d] = call[d]
  BY DEF CallsOK

LEMMA SameKind ==
  ASSUME CallsOK, NEW c \in Calls, NEW r, call' = [call EXCEPT ![c] = r],
         r.kind \in {call[c].kind, "none", "feed"}
  PROVE  \A d \in Calls : call'[d].kind \in {call[d].kind, "none", "feed"}
  BY OnlyOneCall

LEMMA KindsMove ==
  ASSUME Typed, [Next]_vars
  PROVE  \/ \A c \in Calls : call'[c].kind \in {call[c].kind, "none", "feed"}
         \/ \E c \in Calls : NewCall(c)
<1> DEFINE Same == \A c \in Calls : call'[c].kind \in {call[c].kind, "none", "feed"}
<1>1. CallsOK
  BY DEF Typed
<1>2. ASSUME NEW c \in Calls, End(c) PROVE Same
  BY <1>1, <1>2, SameKind DEF End
<1>3. ASSUME NEW c \in Calls, NEW paid, NEW show, Completing(c, call[c].kind, paid, show) PROVE Same
  BY <1>1, <1>3, SameKind DEF Completing
<1>4. ASSUME NEW c \in Calls, NEW pc, Goto(c, pc) PROVE Same
  BY <1>1, <1>4 DEF Goto, CallsOK
<1>5. ASSUME NEW c \in Calls, NEW pc, call' = [call EXCEPT ![c] = [kind |-> "feed", pc |-> pc]] PROVE Same
  BY <1>1, <1>5, SameKind
<1>6. CASE UNCHANGED call
  BY <1>6
<1>7. ASSUME NEW c \in Calls, Answering(c) PROVE Same \/ NewCall(c)
  <2>1. ASSUME NEW a \in Wrong \cup {Right}, AnswerGate(c, a) PROVE NewCall(c)
    BY <1>1, <2>1, OnlyOneCall DEF AnswerGate, Completing, Begin, NewCall
  <2> QED BY <1>2, <1>7, <2>1 DEF Answering, AnswerWrong
<1>8. ASSUME NEW c \in Calls, Stepping(c) PROVE Same \/ NewCall(c)
  <2>1. ASSUME NEW ok \in BOOLEAN, StepRead(c, ok) PROVE NewCall(c)
    BY <1>1, <2>1, OnlyOneCall DEF StepRead, Begin, NewCall
  <2>2. CASE StepWrite(c)
    BY <1>2, <1>3, <2>2 DEF StepWrite, At
  <2> QED BY <1>8, <2>1, <2>2 DEF Stepping
<1>9. ASSUME NEW c \in Calls, Sending(c) PROVE Same \/ NewCall(c)
  <2>1. ASSUME NEW p \in Phones, NEW deferred \in BOOLEAN, PhotoRead(c, p, deferred)
        PROVE  NewCall(c)
    BY <1>1, <2>1, OnlyOneCall DEF PhotoRead, Begin, NewCall
  <2>2. ASSUME NEW p \in Phones, AttachRead(c, p) PROVE NewCall(c)
    BY <1>1, <2>2, OnlyOneCall DEF AttachRead, Begin, NewCall
  <2>3. CASE PhotoWrite(c)
    BY <1>2, <1>3, <2>3 DEF PhotoWrite, At
  <2>4. CASE AttachCommit(c) \/ FeedRead(c) \/ FeedWrite(c)
    BY <1>2, <1>4, <1>5, <2>4 DEF AttachCommit, FeedRead, FeedWrite
  <2> QED BY <1>9, <2>1, <2>2, <2>3, <2>4 DEF Sending
<1>10. ASSUME NEW c \in Calls, Reviewing(c) PROVE Same \/ NewCall(c)
  <2>1. ASSUME NEW verdict \in {"approved", "rejected"}, ReviewBegin(c, verdict)
        PROVE  NewCall(c)
    BY <1>1, <2>1, OnlyOneCall DEF ReviewBegin, Begin, NewCall
  <2>2. CASE ReviewReverse(c)
    BY <1>4, <2>2 DEF ReviewReverse
  <2>3. CASE ReviewStamp(c)
    BY <1>2, <1>3, <2>3 DEF ReviewStamp, At
  <2> QED BY <1>10, <2>1, <2>2, <2>3 DEF Reviewing
<1>11. ASSUME NEW c \in Calls, Complete(c) \/ Die(c) PROVE Same
  BY <1>2, <1>5, <1>6, <1>11 DEF Complete, ToFeed, Die
<1>12. CASE (\E delta \in Deltas : AdjustTeamScore(delta)) \/ LockoutEnds \/ RequestTaskHint
            \/ ReturnTeamTo \/ UNCHANGED vars
  BY <1>6, <1>12 DEF AdjustTeamScore, LockoutEnds, RequestTaskHint, ReturnTeamTo, vars
<1> QED BY <1>7, <1>8, <1>9, <1>10, <1>11, <1>12 DEF Next

LEMMA StepReviewsAlone ==
  ASSUME "reviews" \notin Races
  PROVE  Typed /\ ReviewsAlone /\ [Next]_vars => ReviewsAlone'
<1> SUFFICES ASSUME Typed, ReviewsAlone, [Next]_vars PROVE ReviewsAlone'
  OBVIOUS
<1>1. CASE \A c \in Calls : call'[c].kind \in {call[c].kind, "none", "feed"}
  <2> SUFFICES ASSUME NEW c \in Calls, NEW d \in Calls, c # d, call'[c].kind = "review"
               PROVE  call'[d].kind \notin {"review", "photo"}
    BY DEF ReviewsAlone
  <2>1. call[c].kind = "review" /\ call'[d].kind \in {call[d].kind, "none", "feed"}
    BY <1>1
  <2> QED BY <2>1 DEF ReviewsAlone
<1>2. ASSUME NEW c \in Calls, NewCall(c) PROVE ReviewsAlone'
  BY <1>2 DEF NewCall, Alone, Running, ReviewsAlone
<1> QED BY <1>1, <1>2, KindsMove

LEMMA StepPhotosAlone ==
  ASSUME "photos" \notin Races
  PROVE  Typed /\ PhotosAlone /\ [Next]_vars => PhotosAlone'
<1> SUFFICES ASSUME Typed, PhotosAlone, [Next]_vars PROVE PhotosAlone'
  OBVIOUS
<1>1. CASE \A c \in Calls : call'[c].kind \in {call[c].kind, "none", "feed"}
  <2> SUFFICES ASSUME NEW c \in Calls, NEW d \in Calls, call'[c].kind = "photo",
                      call'[d].kind = "photo"
               PROVE  c = d
    BY DEF PhotosAlone
  <2>1. call[c].kind = "photo" /\ call[d].kind = "photo"
    BY <1>1
  <2> QED BY <2>1 DEF PhotosAlone
<1>2. ASSUME NEW c \in Calls, NewCall(c) PROVE PhotosAlone'
  BY <1>2 DEF NewCall, Alone, Running, PhotosAlone
<1> QED BY <1>1, <1>2, KindsMove

-----------------------------------------------------------------------------
(* Where no review overlaps, what is pending or rejected holds no points;  *)
(* nor does what a review is about to reject, once it took them back.      *)
RejectionHolds ==
  /\ sub.status \in {"pending", "rejected"} => team.earned = 0
  /\ \A c \in Calls :
       /\ At(c, "review", "stamp") /\ call[c].verdict = "rejected" => team.earned = 0
       /\ At(c, "review", "reverse") /\ sub.status = "none" => team.earned = 0
       /\ AtEnd(c) => sub.status \in {"approved", "none"}
       /\ At(c, "photo", "write") /\ ~setup.auto => ~team.done

(* Who ends or goes to the feed is no concern of this. *)
LEMMA RejectionStands ==
  ASSUME Typed, RejectionHolds, UNCHANGED <<setup, sub>>,
         team'.earned = team.earned \/ team'.earned = 0, team'.done => team.done,
         \A d \in Calls : call'[d] = call[d] \/ (call'[d].kind \notin {"photo", "review"} /\ ~AtEnd(d)')
  PROVE  RejectionHolds'
  BY DEF RejectionHolds, At, AtEnd

LEMMA SentByPhoto ==
  ASSUME Typed, setup.kind # "photo", RejectionHolds, UNCHANGED setup, CallsOK', KindOK'
  PROVE  RejectionHolds'
<1>1. sub' = NoSubmission
  BY DEF KindOK
<1>2. \A c \in Calls : call'[c].kind \notin {"photo", "review"}
  BY PhotoCalls DEF CallsOK, HandsOK, PhotoType, ReviewType, OtherType, EndingType, WrongType, StepType
<1> QED BY <1>1, <1>2 DEF RejectionHolds, NoSubmission, At, AtEnd

LEMMA PhotoEnds ==
  ASSUME CallsOK, setup.kind = "photo", NEW c \in Calls, AtEnd(c)
  PROVE  call[c].kind = "review" \/ (call[c].kind = "photo" /\ setup.auto)
  BY DEF CallsOK, HandsOK, AtEnd, PhotoType, ReviewType, OtherType, EndingType, WrongType, StepType

LEMMA SendingKeepsRejection ==
  ASSUME Typed, ReviewsAlone, RejectionHolds, NEW c \in Calls, Sending(c)
  PROVE  RejectionHolds'
<1>1. CallsOK /\ sub \in SubType
  BY TypeShape DEF Typed
<1>2. ASSUME NEW p \in Phones, NEW deferred \in BOOLEAN, PhotoRead(c, p, deferred)
      PROVE  RejectionHolds'
  BY <1>1, <1>2, OnlyOneCall DEF PhotoRead, Begin, RejectionHolds, At, AtEnd
<1>3. ASSUME NEW p \in Phones, AttachRead(c, p) PROVE RejectionHolds'
  BY <1>1, <1>3, OnlyOneCall DEF AttachRead, Begin, RejectionHolds, At, AtEnd
<1>4. CASE PhotoWrite(c)
  <2>1. setup.kind = "photo" /\ At(c, "photo", "write") /\ UNCHANGED <<setup, team>>
    BY <1>1, <1>4, PhotoHands DEF PhotoWrite
  <2>2. \A d \in Calls : call[d].kind # "review"
    BY <2>1 DEF ReviewsAlone, At
  <2>3. sub'.status = IF setup.auto THEN "approved" ELSE "pending"
    BY <1>4 DEF PhotoWrite
  <2>4. \A d \in Calls \ {c} : call'[d] = call[d]
    BY <1>1, <1>4, OnlyOneCall DEF PhotoWrite, Completing, End
  <2>5. CASE setup.auto
    <3>1. call'[c].kind = "photo" /\ call'[c].pc = "complete"
      BY <1>1, <1>4, <2>5, OnlyOneCall DEF PhotoWrite, Completing
    <3> QED BY <2>1, <2>2, <2>3, <2>4, <2>5, <3>1 DEF RejectionHolds, At, AtEnd
  <2>6. CASE ~setup.auto
    <3>1. call'[c].kind = "none"
      BY <1>1, <1>4, <2>6, OnlyOneCall DEF PhotoWrite, End
    <3>2. team.earned = 0
      BY <2>1, <2>6, Amounts DEF RejectionHolds, Typed, TypeOK
    <3>3. \A d \in Calls : ~AtEnd(d)
      BY <1>1, <2>1, <2>2, <2>6, PhotoEnds
    <3> QED BY <2>1, <2>2, <2>3, <2>4, <2>6, <3>1, <3>2, <3>3 DEF RejectionHolds, At, AtEnd
  <2> QED BY <2>5, <2>6
<1>5. CASE AttachCommit(c)
  <2>1. sub'.status = sub.status /\ UNCHANGED <<setup, team>>
    BY <1>1, <1>5 DEF AttachCommit, SubType
  <2>2. \A d \in Calls : call'[d] = call[d] \/ (call'[d].kind \in {"feed", "none"} /\ ~AtEnd(d)')
    BY <1>1, <1>5, OnlyOneCall DEF AttachCommit, End, AtEnd
  <2> QED BY <2>1, <2>2 DEF RejectionHolds, At, AtEnd
<1>6. CASE FeedRead(c) \/ FeedWrite(c)
  <2>1. \A d \in Calls : call'[d] = call[d] \/ (call'[d].kind \notin {"photo", "review"} /\ ~AtEnd(d)')
    <3>1. CASE FeedRead(c) /\ Goto(c, "write")
      <4>1. call[c] \in OtherType
        BY <1>1, <3>1 DEF FeedRead, At, CallsOK, HandsOK, WrongType, StepType, PhotoType, ReviewType,
                          EndingType
      <4>2. call'[c].kind = call[c].kind /\ call'[c].pc = "write" /\ call[c].kind = "feed"
        BY <1>1, <3>1, <4>1 DEF FeedRead, At, Goto, CallsOK, OtherType
      <4> QED BY <1>1, <3>1, <4>2 DEF Goto, CallsOK, AtEnd
    <3>2. CASE End(c)
      BY <1>1, <3>2, OnlyOneCall DEF End, AtEnd
    <3> QED BY <1>6, <3>1, <3>2 DEF FeedRead, FeedWrite
  <2> QED BY <1>6, <2>1, RejectionStands DEF FeedRead, FeedWrite
<1> QED BY <1>2, <1>3, <1>4, <1>5, <1>6 DEF Sending

LEMMA ReviewingKeepsRejection ==
  ASSUME Typed, ReviewsAlone, ReviewsAlone', RejectionHolds, NEW c \in Calls, Reviewing(c)
  PROVE  RejectionHolds'
<1>1. CallsOK /\ sub \in SubType /\ team \in TeamType /\ setup.kind = "photo"
  BY TypeShape, PhotoCalls DEF Typed, Reviewing, ReviewBegin, ReviewReverse, ReviewStamp, At
<1>2. \A d \in Calls \ {c} : call'[d] = call[d]
  BY <1>1, OnlyOneCall
     DEF Reviewing, ReviewBegin, ReviewReverse, ReviewStamp, Begin, Goto, Completing, End, CallsOK
<1>3. ASSUME NEW verdict \in {"approved", "rejected"}, ReviewBegin(c, verdict)
      PROVE  RejectionHolds'
  <2>1. call'[c] = [kind |-> "review", verdict |-> verdict,
                    pc |-> IF verdict = "rejected" THEN "reverse" ELSE "stamp"]
    BY <1>1, <1>3, OnlyOneCall DEF ReviewBegin, Begin
  <2>2. UNCHANGED <<setup, team, sub>> /\ sub.status # "none"
    BY <1>3 DEF ReviewBegin
  <2> QED BY <1>2, <2>1, <2>2 DEF RejectionHolds, At, AtEnd
<1>4. CASE ReviewReverse(c)
  <2>1. call'[c].kind = "review" /\ call'[c].pc = "stamp" /\ call[c].kind = "review"
    BY <1>1, <1>4 DEF ReviewReverse, Goto, CallsOK, At
  <2>2. \A d \in Calls \ {c} : call[d].kind \notin {"photo", "review"}
    BY <2>1 DEF ReviewsAlone
  <2>3. team'.earned = 0
    <3>1. CASE sub.status = "approved"
      BY <1>1, <1>4, <3>1 DEF ReviewReverse, Reversed, TeamType
    <3>2. CASE sub.status # "approved"
      BY <1>1, <1>4, <3>2 DEF ReviewReverse, RejectionHolds, SubType
    <3> QED BY <3>1, <3>2
  <2>4. \A d \in Calls : AtEnd(d)' => FALSE
    BY <1>1, <1>2, <2>1, <2>2, PhotoEnds DEF AtEnd
  <2> QED BY <1>2, <2>1, <2>2, <2>3, <2>4 DEF RejectionHolds, At
<1>5. CASE ReviewStamp(c)
  <2>1. call[c].kind = "review" /\ UNCHANGED <<setup, team>> /\ call[c] \in ReviewType
    BY <1>1, <1>5, ReviewHands DEF ReviewStamp, At
  <2>2. \A d \in Calls \ {c} : call[d].kind \notin {"photo", "review"}
    BY <2>1 DEF ReviewsAlone
  <2>3. sub'.status = call[c].verdict
    BY <1>1, <1>5 DEF ReviewStamp, SubType
  <2>4. \A d \in Calls \ {c} : ~AtEnd(d)'
    BY <1>1, <1>2, <2>2, PhotoEnds DEF AtEnd
  <2>5. CASE call[c].verdict = "approved"
    <3>1. call'[c].kind = "review" /\ call'[c].pc = "complete"
      BY <1>1, <1>5, <2>5, OnlyOneCall DEF ReviewStamp, Completing
    <3> QED BY <1>2, <2>2, <2>3, <2>4, <2>5, <3>1 DEF RejectionHolds, At, AtEnd
  <2>6. CASE call[c].verdict = "rejected"
    <3>1. call'[c].kind = "none"
      BY <1>1, <1>5, <2>6, OnlyOneCall DEF ReviewStamp, End
    <3>2. team.earned = 0
      BY <1>5, <2>6 DEF ReviewStamp, RejectionHolds
    <3> QED BY <1>2, <2>1, <2>2, <2>3, <2>4, <2>6, <3>1, <3>2 DEF RejectionHolds, At, AtEnd
  <2> QED BY <2>1, <2>5, <2>6 DEF ReviewType
<1> QED BY <1>3, <1>4, <1>5 DEF Reviewing

LEMMA CompleteKeepsRejection ==
  ASSUME Typed, ReviewsAlone, RejectionHolds, NEW c \in Calls, Complete(c),
         setup.kind = "photo"
  PROVE  RejectionHolds'
<1>1. CallsOK /\ team \in TeamType /\ UNCHANGED <<setup, sub>> /\ AtEnd(c)
  BY TypeShape DEF Typed, Complete, AtEnd
<1>2. \A d \in Calls : call'[d] = call[d] \/ (call'[d].kind \notin {"photo", "review"} /\ ~AtEnd(d)')
  BY <1>1, OnlyOneCall DEF Complete, ToFeed, End, AtEnd
<1>3. CASE team.done
  BY <1>1, <1>2, <1>3, RejectionStands DEF Complete
<1>4. CASE ~team.done
  <2>1. call[c].kind = "review" \/ (call[c].kind = "photo" /\ setup.auto)
    BY <1>1, PhotoEnds
  <2>2. \A d \in Calls : call[d].kind = "review" => d = c
    BY <2>1 DEF ReviewsAlone
  <2>3. \A d \in Calls : ~(At(d, "photo", "write") /\ ~setup.auto)
    BY <2>1 DEF ReviewsAlone, At
  <2>4. sub.status \in {"approved", "none"}
    BY <1>1 DEF RejectionHolds
  <2> QED BY <1>1, <1>2, <2>2, <2>3, <2>4 DEF RejectionHolds, At, AtEnd
<1> QED BY <1>3, <1>4

LEMMA StepRejection ==
  Typed /\ Typed' /\ ReviewsAlone /\ ReviewsAlone' /\ RejectionHolds /\ [Next]_vars
    => RejectionHolds'
<1> SUFFICES ASSUME Typed, Typed', ReviewsAlone, ReviewsAlone', RejectionHolds, [Next]_vars
             PROVE  RejectionHolds'
  OBVIOUS
<1>1. team \in TeamType /\ CallsOK /\ UNCHANGED setup
  BY TypeShape, SetupStands DEF Typed
<1>2. CASE setup.kind # "photo"
  BY <1>1, <1>2, SentByPhoto DEF Typed
<1>3. ASSUME setup.kind = "photo" PROVE RejectionHolds'
  <2>1. ASSUME NEW c \in Calls, Die(c) PROVE RejectionHolds'
    <3>1. \A d \in Calls : call'[d] = call[d] \/ (call'[d].kind \notin {"photo", "review"} /\ ~AtEnd(d)')
      BY <1>1, <2>1, OnlyOneCall DEF Die, End, AtEnd
    <3> QED BY <2>1, <3>1, RejectionStands DEF Die
  <2>2. CASE ReturnTeamTo
    <3>1. team'.earned = 0 /\ ~team'.done /\ sub'.status = "none" /\ UNCHANGED call
      BY <1>1, <2>2 DEF ReturnTeamTo, Reopened, TeamType, NoSubmission
    <3> QED BY <3>1 DEF RejectionHolds, At, AtEnd
  <2>3. ASSUME UNCHANGED <<sub, call>>, team'.earned = team.earned, team'.done = team.done
        PROVE  RejectionHolds'
    BY <1>1, <2>3 DEF RejectionHolds, At, AtEnd
  <2>4. ASSUME NEW delta \in Deltas, AdjustTeamScore(delta) PROVE RejectionHolds'
    BY <1>1, <2>3, <2>4 DEF AdjustTeamScore, TeamType
  <2>5. CASE LockoutEnds \/ RequestTaskHint
    BY <1>1, <2>3, <2>5 DEF LockoutEnds, RequestTaskHint, TeamType
  <2>6. CASE UNCHANGED vars
    BY <2>3, <2>6 DEF vars
  <2>7. ASSUME NEW c \in Calls PROVE ~Answering(c) /\ ~Stepping(c)
    <3>1. call[c].kind \notin {"answer", "step"}
      BY <1>1, <1>3 DEF CallsOK, HandsOK, PhotoType, ReviewType, OtherType, EndingType
    <3> QED BY <1>3, <3>1 DEF Answering, AnswerGate, AnswerWrong, Stepping, StepRead, StepWrite, At
  <2> QED
    BY <1>3, <2>1, <2>2, <2>4, <2>5, <2>6, <2>7, SendingKeepsRejection, ReviewingKeepsRejection,
       CompleteKeepsRejection DEF Next
<1> QED BY <1>2, <1>3

(* A rejected photo holds no points, whether it was ever approved or not:  *)
(* for any phones and calls, over send-backs, duplicates, lost answers and *)
(* calls that die, where no review overlaps another or a submission.       *)
THEOREM RejectedIsUnpaid ==
  ASSUME "reviews" \notin Races
  PROVE  Spec => []RejectedMeansUnpaid
<1>1. Init => ReviewsAlone /\ RejectionHolds
  BY DEF Init, ReviewsAlone, RejectionHolds, NoSubmission, At, AtEnd
<1>2. RejectionHolds => RejectedMeansUnpaid
  BY DEF RejectionHolds, RejectedMeansUnpaid
<1> QED BY <1>1, <1>2, TypedAlways, StepReviewsAlone, StepRejection, PTL DEF Spec

-----------------------------------------------------------------------------
(* The feed's account.  What was shown, is about to be, or waits for its   *)
(* file is covered by the completions there were, those that died, and one *)
(* that is still owed: by the photo whose file follows later and which is  *)
(* not completed yet.                                                      *)
Owing == ~team.done /\ \E c \in Calls : At(c, "photo", "complete") /\ call[c].show = "never"
Owed  == IF Owing THEN 1 ELSE 0
Waits == IF sub.feedPending THEN 1 ELSE 0
Feeds == Cardinality(Running("feed"))

FeedIsCovered == ghost.feed + Feeds + Waits <= ghost.completions + ghost.dropped + Owed

WriteIsFirst == \A c \in Calls : At(c, "photo", "write") => ~team.done

LEMMA FeedsMove ==
  ASSUME CallsOK, NEW c \in Calls, NEW r, call' = [call EXCEPT ![c] = r]
  PROVE  /\ Feeds \in Nat /\ Feeds' \in Nat
         /\ r.kind = "feed" /\ call[c].kind # "feed" => Feeds' = Feeds + 1
         /\ r.kind # "feed" /\ call[c].kind = "feed" => Feeds' = Feeds - 1
         /\ (r.kind = "feed" <=> call[c].kind = "feed") => Feeds' = Feeds
<1>1. call'[c] = r /\ \A x \in Calls \ {c} : call'[x] = call[x]
  BY DEF CallsOK
<1> DEFINE F == Running("feed")
           G == Running("feed")'
<1>2. F \in SUBSET Calls /\ G \in SUBSET Calls
  BY DEF Running
<1>3. IsFiniteSet(F) /\ IsFiniteSet(G) /\ Cardinality(F) \in Nat /\ Cardinality(G) \in Nat
  BY <1>2, FS_Subset, FS_CardinalityType, NamesAssumption DEF NamesAssumption
<1>4. G = IF r.kind = "feed" THEN F \cup {c} ELSE F \ {c}
  BY <1>1 DEF Running
<1>5. c \in F <=> call[c].kind = "feed"
  BY DEF Running
<1>6. Feeds = Cardinality(F) /\ Feeds' = Cardinality(G)
  BY DEF Feeds
<1> HIDE DEF F, G
<1>7. CASE r.kind = "feed"
  <2>1. CASE c \in F
    <3>1. G = F
      BY <1>4, <1>7, <2>1
    <3> QED BY <1>3, <1>5, <1>6, <1>7, <2>1, <3>1
  <2>2. CASE c \notin F
    BY <1>3, <1>4, <1>5, <1>6, <1>7, <2>2, FS_AddElement
  <2> QED BY <2>1, <2>2
<1>8. CASE r.kind # "feed"
  <2>1. CASE c \in F
    BY <1>3, <1>4, <1>5, <1>6, <1>8, <2>1, FS_RemoveElement
  <2>2. CASE c \notin F
    <3>1. G = F
      BY <1>4, <1>8, <2>2
    <3> QED BY <1>3, <1>5, <1>6, <1>8, <2>2, <3>1
  <2> QED BY <2>1, <2>2
<1> QED BY <1>7, <1>8

LEMMA FeedsType == Feeds \in Nat
<1>1. Running("feed") \in SUBSET Calls
  BY DEF Running
<1> QED BY <1>1, FS_Subset, FS_CardinalityType, NamesAssumption DEF NamesAssumption, Feeds

LEMMA FeedNumbers ==
  ASSUME Typed
  PROVE  /\ ghost.feed \in Nat /\ ghost.completions \in Nat /\ ghost.dropped \in Nat
         /\ Feeds \in Nat /\ Waits \in Nat /\ Waits <= 1 /\ Owed \in Nat /\ Owed <= 1
  BY GhostNumbers, FeedsType DEF Typed, Waits, Owed

LEMMA FeedNumbersNext ==
  ASSUME Typed'
  PROVE  /\ ghost'.feed \in Nat /\ ghost'.completions \in Nat /\ ghost'.dropped \in Nat
         /\ Feeds' \in Nat /\ Waits' \in Nat /\ Waits' <= 1 /\ Owed' \in Nat /\ Owed' <= 1
<1>1. ghost' \in GhostType
  BY DEF Typed
<1>2. ghost'.feed \in Nat /\ ghost'.completions \in Nat /\ ghost'.dropped \in Nat
  BY <1>1 DEF GhostType
<1>3. Running("feed")' \in SUBSET Calls
  BY DEF Running
<1>4. Feeds' \in Nat
  BY <1>3, FS_Subset, FS_CardinalityType, NamesAssumption DEF NamesAssumption, Feeds
<1> QED BY <1>2, <1>4 DEF Waits, Owed

LEMMA CoverMoves ==
  ASSUME Typed, Typed', FeedIsCovered,
         (ghost'.feed + Feeds' + Waits') + (ghost.completions + ghost.dropped + Owed)
           <= (ghost.feed + Feeds + Waits) + (ghost'.completions + ghost'.dropped + Owed')
  PROVE  FeedIsCovered'
<1> DEFINE l  == ghost.feed + Feeds + Waits
           r  == ghost.completions + ghost.dropped + Owed
           l1 == ghost'.feed + Feeds' + Waits'
           r1 == ghost'.completions + ghost'.dropped + Owed'
<1>1. l \in Nat /\ r \in Nat
  BY FeedNumbers
<1>2. l1 \in Nat /\ r1 \in Nat
  BY FeedNumbersNext
<1>3. l <= r
  BY DEF FeedIsCovered
<1>4. l1 + r <= l + r1
  OBVIOUS
<1> HIDE DEF l, r, l1, r1
<1>5. l1 <= r1
  BY <1>1, <1>2, <1>3, <1>4
<1> QED BY <1>5 DEF FeedIsCovered, l1, r1

(* Steps that neither complete nor show anything: the calls on the way to  *)
(* a completion stay, and no more are on the way to the feed.              *)
LEMMA CoverStands ==
  ASSUME Typed, Typed', FeedIsCovered, UNCHANGED ghost, team'.done => team.done,
         Feeds' + Waits' <= Feeds + Waits,
         \A x \in Calls : At(x, "photo", "complete") => call'[x] = call[x]
  PROVE  FeedIsCovered'
<1>1. Owing => Owing'
  BY DEF Owing, At
<1>2. Owed <= Owed'
  BY <1>1 DEF Owed
<1>3. \A f, n, w, m, d, o, n1, w1, o1 \in Nat :
        n1 + w1 <= n + w /\ o <= o1 => f + n1 + w1 + (m + d + o) <= f + n + w + (m + d + o1)
  OBVIOUS
<1>4. ghost.feed + Feeds' + Waits' + (ghost.completions + ghost.dropped + Owed)
           <= ghost.feed + Feeds + Waits + (ghost.completions + ghost.dropped + Owed')
  BY <1>2, <1>3, FeedNumbers, FeedNumbersNext
<1> QED BY <1>4, CoverMoves

(* The call is on its way to the feed, ended, or did not move. *)
LEMMA NoFeeds ==
  ASSUME CallsOK, UNCHANGED call
  PROVE  Feeds' = Feeds
  BY DEF Feeds, Running

LEMMA SendingCovers ==
  ASSUME Typed, Typed', PhotosAlone, WriteIsFirst, FeedIsCovered, NEW c \in Calls, Sending(c)
  PROVE  FeedIsCovered'
<1>1. CallsOK /\ sub \in SubType /\ ghost \in GhostType
  BY TypeShape DEF Typed
<1>2. ASSUME NEW r, call' = [call EXCEPT ![c] = r], ~At(c, "photo", "complete"),
             UNCHANGED <<team, ghost>>,
             \/ Waits' <= Waits /\ (r.kind = "feed" => call[c].kind = "feed")
             \/ Waits = 1 /\ Waits' = 0
      PROVE  FeedIsCovered'
  <2>1. \A x \in Calls : At(x, "photo", "complete") => call'[x] = call[x]
    BY <1>1, <1>2, OnlyOneCall
  <2>2. \A n, w, w1 \in Nat : w1 <= w => n + w1 <= n + w /\ (n - 1) + w1 <= n + w
    OBVIOUS
  <2>3. Feeds' + Waits' <= Feeds + Waits
    <3>1. CASE Waits = 1 /\ Waits' = 0
      <4>1. Feeds' \in {Feeds - 1, Feeds, Feeds + 1}
        BY <1>1, <1>2, FeedsMove
      <4> QED BY <3>1, <4>1, FeedNumbers
    <3>2. CASE Waits' <= Waits /\ (r.kind = "feed" => call[c].kind = "feed")
      <4>1. Feeds' \in {Feeds - 1, Feeds}
        BY <1>1, <1>2, <3>2, FeedsMove
      <4> QED BY <2>2, <3>2, <4>1, FeedNumbers, FeedNumbersNext
    <3> QED BY <1>2, <3>1, <3>2
  <2> QED BY <1>2, <2>1, <2>3, CoverStands
<1>0. UNCHANGED sub => Waits' <= Waits
  BY FeedNumbers DEF Waits
<1>3. ASSUME NEW p \in Phones, NEW deferred \in BOOLEAN, PhotoRead(c, p, deferred)
      PROVE  FeedIsCovered'
  BY <1>0, <1>2, <1>3 DEF PhotoRead, Begin, At
<1>4. ASSUME NEW p \in Phones, AttachRead(c, p) PROVE FeedIsCovered'
  BY <1>0, <1>2, <1>4 DEF AttachRead, Begin, At
<1>5. CASE AttachCommit(c)
  <2>1. call[c].kind = "attach" /\ ~At(c, "photo", "complete") /\ UNCHANGED <<team, ghost>>
    BY <1>5 DEF AttachCommit, At
  <2>2. CASE sub.sender # None /\ ~sub.media
    <3>1. Waits' = 0
      BY <1>1, <1>5, <2>2 DEF AttachCommit, SubType, Waits
    <3>2. FeedsNow => Waits = 1
      BY DEF FeedsNow, Waits
    <3>3. CASE FeedsNow
      BY <1>2, <1>5, <2>1, <2>2, <3>1, <3>2, <3>3 DEF AttachCommit
    <3>4. CASE ~FeedsNow
      BY <1>2, <1>5, <2>1, <2>2, <3>1, <3>4, FeedNumbers DEF AttachCommit, End
    <3> QED BY <3>3, <3>4
  <2>3. CASE ~(sub.sender # None /\ ~sub.media)
    BY <1>2, <1>5, <2>1, <2>3 DEF AttachCommit, End, Waits
  <2> QED BY <2>2, <2>3
<1>6. CASE PhotoWrite(c)
  <2>1. setup.kind = "photo" /\ call[c] \in PhotoType /\ (call[c].deferred => setup.auto)
        /\ call[c].kind = "photo" /\ UNCHANGED <<team, ghost>>
    BY <1>1, <1>6, PhotoHands DEF PhotoWrite, At
  <2>2. ~team.done /\ ~At(c, "photo", "complete")
    BY <1>6 DEF PhotoWrite, WriteIsFirst, At
  <2>3. CASE ~call[c].deferred
    <3>1. Waits' = 0
      BY <1>6, <2>3 DEF PhotoWrite, Waits
    <3>2. CASE setup.auto
      BY <1>2, <1>6, <2>1, <2>2, <3>1, <3>2, FeedNumbers DEF PhotoWrite, Completing
    <3>3. CASE ~setup.auto
      BY <1>2, <1>6, <2>1, <2>2, <3>1, <3>3, FeedNumbers DEF PhotoWrite, End
    <3> QED BY <3>2, <3>3
  <2>4. CASE call[c].deferred
    <3>1. call' = [call EXCEPT ![c] = [kind |-> "photo", pc |-> "complete", paid |-> TRUE,
                                       show |-> "never"]]
      BY <1>6, <2>1, <2>4 DEF PhotoWrite, Completing
    <3>2. Feeds' = Feeds
      <4> DEFINE r == [kind |-> "photo", pc |-> "complete", paid |-> TRUE, show |-> "never"]
      <4>1. r.kind = "photo" /\ call' = [call EXCEPT ![c] = r]
        BY <3>1
      <4> HIDE DEF r
      <4> QED BY <1>1, <2>1, <4>1, FeedsMove
    <3>3. Owed' = 1
      <4>1. call'[c] = [kind |-> "photo", pc |-> "complete", paid |-> TRUE, show |-> "never"]
        BY <1>1, <3>1, OnlyOneCall
      <4>2. Owing'
        BY <2>1, <2>2, <4>1 DEF Owing, At
      <4> QED BY <4>2 DEF Owed
    <3>4. Owed = 0
      <4>1. \A x \in Calls : ~At(x, "photo", "complete")
        BY <2>1, <2>2 DEF PhotosAlone, At
      <4> QED BY <4>1 DEF Owed, Owing
    <3>5. \A f, n, w, m, d, w1 \in Nat :
            w1 <= 1 => (f + n + w1) + (m + d + 0) <= (f + n + w) + (m + d + 1)
      OBVIOUS
    <3>6. (ghost'.feed + Feeds' + Waits') + (ghost.completions + ghost.dropped + Owed)
            <= (ghost.feed + Feeds + Waits) + (ghost'.completions + ghost'.dropped + Owed')
      BY <2>1, <3>2, <3>3, <3>4, <3>5, FeedNumbers, FeedNumbersNext
    <3> QED BY <3>6, CoverMoves
  <2> QED BY <2>1, <2>3, <2>4 DEF PhotoType
<1>7. CASE FeedRead(c)
  <2>1. call[c].kind = "feed" /\ UNCHANGED <<team, sub, ghost>>
    BY <1>7 DEF FeedRead, At
  <2>2. CASE End(c)
    BY <1>0, <1>2, <2>1, <2>2 DEF End, At
  <2>3. CASE Goto(c, "write")
    <3>1. call[c] \in OtherType
      BY <1>1, <2>1 DEF CallsOK, HandsOK, WrongType, StepType, PhotoType, ReviewType, EndingType
    <3>2. [call[c] EXCEPT !.pc = "write"].kind = "feed"
      BY <2>1, <3>1 DEF OtherType
    <3> QED BY <1>0, <1>2, <2>1, <2>3, <3>2 DEF Goto, At
  <2> QED BY <1>7, <2>2, <2>3 DEF FeedRead
<1>8. CASE FeedWrite(c)
  <2>1. ghost'.feed = ghost.feed + 1 /\ ghost'.completions = ghost.completions
        /\ ghost'.dropped = ghost.dropped
    BY <1>1, <1>8 DEF FeedWrite, GhostType
  <2>2. Feeds' = Feeds - 1
    <3> DEFINE r == [kind |-> "none"]
    <3>1. r.kind = "none" /\ call' = [call EXCEPT ![c] = r] /\ call[c].kind = "feed"
      BY <1>8 DEF FeedWrite, End, At
    <3> HIDE DEF r
    <3> QED BY <1>1, <3>1, FeedsMove
  <2>3. Waits' = Waits
    BY <1>8 DEF FeedWrite, Waits
  <2>4. \A x \in Calls : At(x, "photo", "complete") => call'[x] = call[x]
    BY <1>1, <1>8, OnlyOneCall DEF FeedWrite, End, At
  <2>5. Owing => Owing'
    BY <1>8, <2>4 DEF FeedWrite, Owing, At
  <2>6. Owed <= Owed'
    BY <2>5 DEF Owed
  <2>7. \A f, n, w, m, d, o, o1 \in Nat :
          o <= o1 => ((f + 1) + (n - 1) + w) + (m + d + o) <= (f + n + w) + (m + d + o1)
    OBVIOUS
  <2>8. (ghost'.feed + Feeds' + Waits') + (ghost.completions + ghost.dropped + Owed)
          <= (ghost.feed + Feeds + Waits) + (ghost'.completions + ghost'.dropped + Owed')
    BY <2>1, <2>2, <2>3, <2>6, <2>7, FeedNumbers, FeedNumbersNext
  <2> QED BY <2>8, CoverMoves
<1> QED BY <1>3, <1>4, <1>5, <1>6, <1>7, <1>8 DEF Sending

LEMMA ReviewingCovers ==
  ASSUME Typed, Typed', ReviewsAlone, FeedIsCovered, NEW c \in Calls, Reviewing(c)
  PROVE  FeedIsCovered'
<1>1. CallsOK /\ sub \in SubType /\ team \in TeamType /\ ghost \in GhostType
  BY TypeShape DEF Typed
<1>2. team'.done = team.done /\ sub'.feedPending = sub.feedPending
      /\ ghost'.feed = ghost.feed /\ ghost'.completions = ghost.completions
      /\ ghost'.dropped = ghost.dropped
  BY <1>1 DEF Reviewing, ReviewBegin, ReviewReverse, ReviewStamp, Reversed, TeamType, SubType, GhostType
<1>3. ASSUME NEW r, call' = [call EXCEPT ![c] = r], ~At(c, "photo", "complete"),
             r.kind # "feed", call[c].kind # "feed"
      PROVE  FeedIsCovered'
  <2>1. Feeds' = Feeds
    BY <1>1, <1>3, FeedsMove
  <2>2. Waits' = Waits
    BY <1>2 DEF Waits
  <2>3. \A x \in Calls : At(x, "photo", "complete") => call'[x] = call[x]
    BY <1>1, <1>3, OnlyOneCall
  <2>4. Owing => Owing'
    BY <1>2, <2>3 DEF Owing, At
  <2>5. Owed <= Owed'
    BY <2>4 DEF Owed
  <2>6. \A f, n, w, m, d, o, o1 \in Nat :
          o <= o1 => (f + n + w) + (m + d + o) <= (f + n + w) + (m + d + o1)
    OBVIOUS
  <2>7. (ghost'.feed + Feeds' + Waits') + (ghost.completions + ghost.dropped + Owed)
          <= (ghost.feed + Feeds + Waits) + (ghost'.completions + ghost'.dropped + Owed')
    BY <1>2, <2>1, <2>2, <2>5, <2>6, FeedNumbers, FeedNumbersNext
  <2> QED BY <2>7, CoverMoves
<1>4. ASSUME NEW verdict \in {"approved", "rejected"}, ReviewBegin(c, verdict)
      PROVE  FeedIsCovered'
  <2> DEFINE pc == IF verdict = "rejected" THEN "reverse" ELSE "stamp"
             r  == [kind |-> "review", verdict |-> verdict, pc |-> pc]
  <2>1. r.kind = "review" /\ call' = [call EXCEPT ![c] = r] /\ call[c].kind = "none"
    BY <1>4 DEF ReviewBegin, Begin
  <2> HIDE DEF r
  <2> QED BY <1>3, <2>1 DEF At
<1>5. CASE ReviewReverse(c)
  <2>1. call[c] \in ReviewType /\ call[c].kind = "review"
    BY <1>1, <1>5, ReviewHands DEF ReviewReverse, At
  <2>2. [call[c] EXCEPT !.pc = "stamp"].kind = "review"
    BY <2>1 DEF ReviewType
  <2> QED BY <1>3, <1>5, <2>1, <2>2 DEF ReviewReverse, Goto, At
<1>6. CASE ReviewStamp(c)
  BY <1>3, <1>6 DEF ReviewStamp, Completing, End, At
<1> QED BY <1>4, <1>5, <1>6 DEF Reviewing

LEMMA CompleteCovers ==
  ASSUME Typed, Typed', ReviewsAlone, PhotosAlone, FeedIsCovered, NEW c \in Calls, Complete(c)
  PROVE  FeedIsCovered'
<1>1. CallsOK /\ team \in TeamType /\ ghost \in GhostType /\ AtEnd(c)
  BY TypeShape DEF Typed, Complete, AtEnd
<1>2. Waits' = Waits
  BY DEF Complete, Waits
<1>3. CASE team.done
  <2>1. call' = [call EXCEPT ![c] = [kind |-> "none"]] /\ UNCHANGED <<team, ghost>>
    BY <1>3 DEF Complete, ToFeed, Shows, End
  <2>2. Feeds' \in {Feeds, Feeds - 1}
    <3> DEFINE r == [kind |-> "none"]
    <3>1. r.kind = "none" /\ call' = [call EXCEPT ![c] = r]
      BY <2>1
    <3> HIDE DEF r
    <3> QED BY <1>1, <3>1, FeedsMove
  <2>3. Owed = 0 /\ Owed' = 0
    BY <1>3, <2>1 DEF Owed, Owing
  <2>4. \A f, n, w, m, d \in Nat :
          /\ (f + (n - 1) + w) + (m + d + 0) <= (f + n + w) + (m + d + 0)
          /\ (f + n + w) + (m + d + 0) <= (f + n + w) + (m + d + 0)
    OBVIOUS
  <2>5. (ghost'.feed + Feeds' + Waits') + (ghost.completions + ghost.dropped + Owed)
          <= (ghost.feed + Feeds + Waits) + (ghost'.completions + ghost'.dropped + Owed')
    BY <1>2, <2>1, <2>2, <2>3, <2>4, FeedNumbers
  <2> QED BY <2>5, CoverMoves
<1>4. CASE ~team.done
  <2>1. ghost'.completions = ghost.completions + 1 /\ ghost'.feed = ghost.feed
        /\ ghost'.dropped = ghost.dropped
    BY <1>1, <1>4 DEF Complete, GhostType
  <2>2. team'.done
    BY <1>1, <1>4 DEF Complete, Completed, TeamType
  <2>3. Owed' = 0
    BY <2>2 DEF Owed, Owing
  <2>4. CASE Feeds' \in {Feeds, Feeds - 1}
    <3>1. \A f, n, w, m, d, o \in Nat :
            o <= 1 => /\ (f + (n - 1) + w) + (m + d + o) <= (f + n + w) + ((m + 1) + d + 0)
                      /\ (f + n + w) + (m + d + o) <= (f + n + w) + ((m + 1) + d + 0)
      OBVIOUS
    <3>2. (ghost'.feed + Feeds' + Waits') + (ghost.completions + ghost.dropped + Owed)
            <= (ghost.feed + Feeds + Waits) + (ghost'.completions + ghost'.dropped + Owed')
      BY <1>2, <2>1, <2>3, <2>4, <3>1, FeedNumbers
    <3> QED BY <3>2, CoverMoves
  <2>5. CASE Feeds' = Feeds + 1 /\ Owed = 0
    <3>1. \A f, n, w, m, d \in Nat :
            (f + (n + 1) + w) + (m + d + 0) <= (f + n + w) + ((m + 1) + d + 0)
      OBVIOUS
    <3>2. (ghost'.feed + Feeds' + Waits') + (ghost.completions + ghost.dropped + Owed)
            <= (ghost.feed + Feeds + Waits) + (ghost'.completions + ghost'.dropped + Owed')
      BY <1>2, <2>1, <2>3, <2>5, <3>1, FeedNumbers
    <3> QED BY <3>2, CoverMoves
  <2>6. CASE UNCHANGED call
    BY <1>1, <2>4, <2>6, NoFeeds
  <2>7. CASE End(c)
    <3> DEFINE r == [kind |-> "none"]
    <3>1. r.kind = "none" /\ call' = [call EXCEPT ![c] = r]
      BY <2>7 DEF End
    <3> HIDE DEF r
    <3> QED BY <1>1, <2>4, <3>1, FeedsMove
  <2>8. CASE Shows(c) /\ ToFeed(c)
    <3> DEFINE pc == IF call[c].show = "now" THEN "write" ELSE "read"
               r  == [kind |-> "feed", pc |-> pc]
    <3>1. r.kind = "feed" /\ call' = [call EXCEPT ![c] = r]
      BY <2>8 DEF ToFeed
    <3> HIDE DEF r
    <3>2. EndingHands(c)
      BY <1>1, Ending DEF AtEnd
    <3>3. call[c].show # "never"
      BY <2>8 DEF Shows
    <3>4. call[c].kind \in {"photo", "review"}
      BY <3>2, <3>3 DEF EndingHands, EndingType
    <3>5. Feeds' = Feeds + 1
      BY <1>1, <3>1, <3>4, FeedsMove
    <3>6. ~Owing
      BY <3>3, <3>4 DEF Owing, At, ReviewsAlone, PhotosAlone
    <3> QED BY <2>5, <3>5, <3>6 DEF Owed
  <2> QED BY <1>4, <2>6, <2>7, <2>8 DEF Complete, ToFeed
<1> QED BY <1>3, <1>4

LEMMA DieCovers ==
  ASSUME Typed, Typed', FeedIsCovered, NEW c \in Calls, Die(c)
  PROVE  FeedIsCovered'
<1>1. CallsOK /\ ghost \in GhostType /\ Waits' = Waits
  BY DEF Typed, Die, Waits
<1>2. Feeds' \in {Feeds, Feeds - 1}
  <2> DEFINE r == [kind |-> "none"]
  <2>1. r.kind = "none" /\ call' = [call EXCEPT ![c] = r]
    BY DEF Die, End
  <2> HIDE DEF r
  <2> QED BY <1>1, <2>1, FeedsMove
<1>3. ghost'.feed = ghost.feed /\ ghost'.completions = ghost.completions
  BY <1>1 DEF Die, GhostType
<1>4. CASE AtEnd(c)
  <2>1. ghost'.dropped = ghost.dropped + 1
    BY <1>1, <1>4 DEF Die, AtEnd, GhostType
  <2>2. \A f, n, w, m, d, o, o1 \in Nat :
          o <= 1 => /\ (f + (n - 1) + w) + (m + d + o) <= (f + n + w) + (m + (d + 1) + o1)
                    /\ (f + n + w) + (m + d + o) <= (f + n + w) + (m + (d + 1) + o1)
    OBVIOUS
  <2>3. (ghost'.feed + Feeds' + Waits') + (ghost.completions + ghost.dropped + Owed)
          <= (ghost.feed + Feeds + Waits) + (ghost'.completions + ghost'.dropped + Owed')
    BY <1>1, <1>2, <1>3, <2>1, <2>2, FeedNumbers, FeedNumbersNext
  <2> QED BY <2>3, CoverMoves
<1>5. CASE ~AtEnd(c)
  <2>1. ghost'.dropped = ghost.dropped
    BY <1>1, <1>5 DEF Die, AtEnd, GhostType
  <2>2. \A x \in Calls : At(x, "photo", "complete") => call'[x] = call[x]
    BY <1>1, <1>5, OnlyOneCall DEF Die, End, At, AtEnd
  <2>3. Owing => Owing'
    BY <2>2 DEF Die, Owing, At
  <2>4. Owed <= Owed'
    BY <2>3 DEF Owed
  <2>5. \A f, n, w, m, d, o, o1 \in Nat :
          o <= o1 => /\ (f + (n - 1) + w) + (m + d + o) <= (f + n + w) + (m + d + o1)
                     /\ (f + n + w) + (m + d + o) <= (f + n + w) + (m + d + o1)
    OBVIOUS
  <2>6. (ghost'.feed + Feeds' + Waits') + (ghost.completions + ghost.dropped + Owed)
          <= (ghost.feed + Feeds + Waits) + (ghost'.completions + ghost'.dropped + Owed')
    BY <1>1, <1>2, <1>3, <2>1, <2>4, <2>5, FeedNumbers, FeedNumbersNext
  <2> QED BY <2>6, CoverMoves
<1> QED BY <1>4, <1>5

LEMMA EndsAlone ==
  ASSUME CallsOK, NEW c \in Calls, End(c)
  PROVE  call'[c].kind = "none" /\ \A d \in Calls \ {c} : call'[d] = call[d]
  BY DEF End, CallsOK

LEMMA AnsweringCalls ==
  ASSUME NEW c \in Calls, Answering(c) \/ Stepping(c)
  PROVE  \E r : call' = [call EXCEPT ![c] = r] /\ r.kind \in {"none", "answer", "step"}
<1>1. ASSUME NEW r, r.kind \in {"none", "answer", "step"}, call' = [call EXCEPT ![c] = r]
      PROVE  \E x : call' = [call EXCEPT ![c] = x] /\ x.kind \in {"none", "answer", "step"}
  BY <1>1
<1>2. ASSUME NEW kind \in {"answer", "step"}, NEW paid, NEW show, Completing(c, kind, paid, show)
      PROVE  \E x : call' = [call EXCEPT ![c] = x] /\ x.kind \in {"none", "answer", "step"}
  <2> DEFINE r == [kind |-> kind, pc |-> "complete", paid |-> paid, show |-> show]
  <2>1. r.kind \in {"answer", "step"} /\ call' = [call EXCEPT ![c] = r]
    BY <1>2 DEF Completing
  <2> HIDE DEF r
  <2> QED BY <1>1, <2>1
<1>3. ASSUME End(c)
      PROVE  \E x : call' = [call EXCEPT ![c] = x] /\ x.kind \in {"none", "answer", "step"}
  <2> DEFINE r == [kind |-> "none"]
  <2>1. r.kind = "none" /\ call' = [call EXCEPT ![c] = r]
    BY <1>3 DEF End
  <2> HIDE DEF r
  <2> QED BY <1>1, <2>1
<1>4. ASSUME NEW a \in Wrong \cup {Right}, AnswerGate(c, a)
      PROVE  \E x : call' = [call EXCEPT ![c] = x] /\ x.kind \in {"none", "answer", "step"}
  BY <1>1, <1>2, <1>4 DEF AnswerGate, Begin
<1>5. ASSUME NEW ok \in BOOLEAN, StepRead(c, ok)
      PROVE  \E x : call' = [call EXCEPT ![c] = x] /\ x.kind \in {"none", "answer", "step"}
  <2> DEFINE r == [kind |-> "step", pc |-> "write", next |-> team.steps + 1, ok |-> ok,
                   wrong |-> team.attempts + (IF ok THEN 0 ELSE 1)]
  <2>1. r.kind = "step" /\ call' = [call EXCEPT ![c] = r]
    BY <1>5 DEF StepRead, Begin
  <2> HIDE DEF r
  <2> QED BY <1>1, <2>1
<1> QED BY <1>2, <1>3, <1>4, <1>5 DEF Answering, Stepping, AnswerWrong, StepWrite

LEMMA StepCovers ==
  Typed /\ Typed' /\ ReviewsAlone /\ PhotosAlone /\ WriteIsFirst /\ FeedIsCovered /\ [Next]_vars
    => FeedIsCovered'
<1> SUFFICES ASSUME Typed, Typed', ReviewsAlone, PhotosAlone, WriteIsFirst, FeedIsCovered, [Next]_vars
             PROVE  FeedIsCovered'
  OBVIOUS
<1>1. team \in TeamType /\ CallsOK /\ ghost \in GhostType
  BY TypeShape DEF Typed
<1>2. ASSUME NEW c \in Calls, Answering(c) \/ Stepping(c) PROVE FeedIsCovered'
  <2>1. UNCHANGED <<sub, ghost>> /\ team'.done = team.done
    BY <1>1, <1>2 DEF Answering, AnswerGate, AnswerWrong, Stepping, StepRead, StepWrite, TeamType
  <2>2. PICK r : call' = [call EXCEPT ![c] = r] /\ r.kind \in {"none", "answer", "step"}
    BY <1>2, AnsweringCalls
  <2>3. call[c].kind \in {"none", "answer", "step"}
    BY <1>2 DEF Answering, AnswerGate, AnswerWrong, Stepping, StepRead, StepWrite, Begin, At
  <2>4. Feeds' = Feeds /\ Waits' = Waits
    BY <1>1, <2>1, <2>2, <2>3, FeedsMove DEF Waits
  <2>5. \A x \in Calls : At(x, "photo", "complete") => call'[x] = call[x]
    BY <1>1, <2>2, <2>3, OnlyOneCall DEF At
  <2>6. Feeds' + Waits' <= Feeds + Waits
    BY <2>4, FeedNumbers
  <2> QED BY <2>1, <2>5, <2>6, CoverStands
<1>3. ASSUME UNCHANGED call, Waits' <= Waits, team'.done => team.done,
             ghost'.feed = ghost.feed, ghost'.completions = ghost.completions,
             ghost'.dropped = ghost.dropped
      PROVE  FeedIsCovered'
  <2>1. Feeds' = Feeds
    BY <1>1, <1>3, NoFeeds
  <2>2. Owing => Owing'
    BY <1>3 DEF Owing, At
  <2>3. Owed <= Owed'
    BY <2>2 DEF Owed
  <2>4. \A f, n, w, m, d, o, w1, o1 \in Nat :
          w1 <= w /\ o <= o1 => (f + n + w1) + (m + d + o) <= (f + n + w) + (m + d + o1)
    OBVIOUS
  <2>5. (ghost'.feed + Feeds' + Waits') + (ghost.completions + ghost.dropped + Owed)
          <= (ghost.feed + Feeds + Waits) + (ghost'.completions + ghost'.dropped + Owed')
    BY <1>3, <2>1, <2>3, <2>4, FeedNumbers, FeedNumbersNext
  <2> QED BY <2>5, CoverMoves
<1>4. UNCHANGED sub => Waits' <= Waits
  BY FeedNumbers DEF Waits
<1>5. ASSUME NEW delta \in Deltas, AdjustTeamScore(delta) PROVE FeedIsCovered'
  BY <1>1, <1>3, <1>4, <1>5 DEF AdjustTeamScore, TeamType, GhostType
<1>6. CASE LockoutEnds \/ RequestTaskHint
  BY <1>1, <1>3, <1>4, <1>6 DEF LockoutEnds, RequestTaskHint, TeamType, GhostType
<1>7. CASE ReturnTeamTo
  <2>1. Waits' <= Waits
    BY <1>7, FeedNumbers DEF ReturnTeamTo, Waits, NoSubmission
  <2> QED BY <1>1, <1>3, <1>7, <2>1 DEF ReturnTeamTo, Reopened, TeamType, GhostType
<1>8. CASE UNCHANGED vars
  BY <1>3, <1>4, <1>8 DEF vars
<1> QED
  BY <1>2, <1>5, <1>6, <1>7, <1>8, SendingCovers, ReviewingCovers, CompleteCovers, DieCovers DEF Next

(* A photo is written for a mission that is not completed: the guard was   *)
(* judged before, and no other call completes it in between.               *)
LEMMA StepWriteIsFirst ==
  Typed /\ ReviewsAlone /\ PhotosAlone /\ WriteIsFirst /\ [Next]_vars => WriteIsFirst'
<1> SUFFICES ASSUME Typed, ReviewsAlone, PhotosAlone, WriteIsFirst, [Next]_vars
             PROVE  WriteIsFirst'
  OBVIOUS
<1>1. team \in TeamType /\ CallsOK
  BY TypeShape DEF Typed
<1>2. ASSUME NEW c \in Calls, \A x \in Calls \ {c} : call'[x] = call[x],
             call'[c].kind = "photo" => call'[c].pc # "write", team'.done => team.done
      PROVE  WriteIsFirst'
  BY <1>2 DEF WriteIsFirst, At
<1>3. ASSUME NEW c \in Calls, Answering(c) \/ Stepping(c) PROVE WriteIsFirst'
  <2>1. team'.done = team.done
    BY <1>1, <1>3 DEF Answering, AnswerGate, AnswerWrong, Stepping, StepRead, StepWrite, TeamType
  <2>2. PICK r : call' = [call EXCEPT ![c] = r] /\ r.kind \in {"none", "answer", "step"}
    BY <1>3, AnsweringCalls
  <2> QED BY <1>1, <1>2, <2>1, <2>2, OnlyOneCall
<1>4. ASSUME NEW c \in Calls, Sending(c) PROVE WriteIsFirst'
  <2>1. ASSUME NEW p \in Phones, NEW deferred \in BOOLEAN, PhotoRead(c, p, deferred)
        PROVE  WriteIsFirst'
    BY <2>1 DEF PhotoRead, WriteIsFirst
  <2>2. ASSUME NEW p \in Phones, AttachRead(c, p) PROVE WriteIsFirst'
    BY <1>1, <1>2, <2>2, OnlyOneCall DEF AttachRead, Begin
  <2>3. CASE PhotoWrite(c) \/ AttachCommit(c)
    BY <1>1, <1>2, <2>3, OnlyOneCall DEF PhotoWrite, AttachCommit, Completing, End
  <2>4. CASE FeedRead(c) /\ Goto(c, "write")
    <3>1. call[c] \in OtherType
      BY <1>1, <2>4 DEF FeedRead, At, CallsOK, HandsOK, WrongType, StepType, PhotoType, ReviewType,
                        EndingType
    <3>2. call'[c].kind = "feed" /\ UNCHANGED team
      BY <1>1, <2>4, <3>1 DEF FeedRead, At, Goto, CallsOK, OtherType
    <3> QED BY <1>1, <1>2, <2>4, <3>2 DEF Goto, CallsOK
  <2>5. CASE (FeedRead(c) \/ FeedWrite(c)) /\ End(c)
    BY <1>1, <1>2, <2>5, EndsAlone DEF FeedRead, FeedWrite
  <2> QED BY <1>4, <2>1, <2>2, <2>3, <2>4, <2>5 DEF Sending, FeedRead, FeedWrite
<1>5. ASSUME NEW c \in Calls, Reviewing(c) PROVE WriteIsFirst'
  <2>1. team'.done = team.done
    BY <1>1, <1>5 DEF Reviewing, ReviewBegin, ReviewReverse, ReviewStamp, Reversed, TeamType
  <2>2. ASSUME NEW verdict \in {"approved", "rejected"}, ReviewBegin(c, verdict)
        PROVE  WriteIsFirst'
    BY <1>1, <1>2, <2>1, <2>2, OnlyOneCall DEF ReviewBegin, Begin
  <2>3. CASE ReviewReverse(c)
    <3>1. call[c] \in ReviewType /\ call[c].kind = "review"
      BY <1>1, <2>3, ReviewHands DEF ReviewReverse, At
    <3>2. call'[c].kind = "review"
      BY <1>1, <2>3, <3>1 DEF ReviewReverse, Goto, CallsOK, ReviewType
    <3> QED BY <1>1, <1>2, <2>1, <2>3, <3>2 DEF ReviewReverse, Goto, CallsOK
  <2>4. CASE ReviewStamp(c)
    BY <1>1, <1>2, <2>1, <2>4, OnlyOneCall DEF ReviewStamp, Completing, End
  <2> QED BY <1>5, <2>2, <2>3, <2>4 DEF Reviewing
<1>6. ASSUME NEW c \in Calls, Complete(c) PROVE WriteIsFirst'
  <2>1. EndingHands(c) /\ AtEnd(c)
    BY <1>1, <1>6, Ending DEF Complete, AtEnd
  <2>2. \A d \in Calls : At(d, "photo", "write")' => At(d, "photo", "write") /\ d # c
    BY <1>1, <1>6, <2>1, OnlyOneCall DEF Complete, ToFeed, End, At, AtEnd
  <2>3. ASSUME NEW d \in Calls, At(d, "photo", "write"), d # c PROVE FALSE
    <3>1. setup.kind = "photo" /\ call[d].kind = "photo"
      BY <1>1, <2>3, PhotoHands DEF At
    <3>2. call[c].kind \in {"photo", "review"}
      BY <2>1, <3>1 DEF EndingHands, EndingType
    <3> QED BY <2>3, <3>1, <3>2 DEF ReviewsAlone, PhotosAlone
  <2> QED BY <2>2, <2>3 DEF WriteIsFirst
<1>7. ASSUME NEW c \in Calls, Die(c) PROVE WriteIsFirst'
  BY <1>1, <1>2, <1>7, EndsAlone DEF Die
<1>8. ASSUME UNCHANGED call, team'.done => team.done PROVE WriteIsFirst'
  BY <1>8 DEF WriteIsFirst, At
<1>9. ASSUME NEW delta \in Deltas, AdjustTeamScore(delta) PROVE WriteIsFirst'
  BY <1>1, <1>8, <1>9 DEF AdjustTeamScore, TeamType
<1>10. CASE LockoutEnds \/ RequestTaskHint \/ ReturnTeamTo
  BY <1>1, <1>8, <1>10 DEF LockoutEnds, RequestTaskHint, ReturnTeamTo, Reopened, TeamType
<1>11. CASE UNCHANGED vars
  BY <1>8, <1>11 DEF vars
<1> QED BY <1>3, <1>4, <1>5, <1>6, <1>7, <1>9, <1>10, <1>11 DEF Next

(* The live feed shows a completion at most once, over files that follow   *)
(* later, re-approvals, send-backs and lost answers: for any phones and    *)
(* calls, where no two submissions and no review overlap.                  *)
THEOREM FeedShowsOnce ==
  ASSUME Races = {}
  PROVE  Spec => []FeedOnce
<1>1. "reviews" \notin Races /\ "photos" \notin Races
  OBVIOUS
<1>2. Init => ReviewsAlone /\ PhotosAlone /\ WriteIsFirst /\ FeedIsCovered
  <2> SUFFICES ASSUME Init PROVE ReviewsAlone /\ PhotosAlone /\ WriteIsFirst /\ FeedIsCovered
    OBVIOUS
  <2>1. Running("feed") = {} /\ Feeds = 0
    <3>1. Running("feed") = {}
      BY DEF Init, Running
    <3> QED BY <3>1, FS_EmptySet DEF Feeds
  <2>2. Waits = 0 /\ Owed = 0 /\ ghost.feed = 0 /\ ghost.completions = 0 /\ ghost.dropped = 0
    BY DEF Init, NoSubmission, Waits, Owed, Owing, At
  <2> QED BY <2>1, <2>2 DEF Init, ReviewsAlone, PhotosAlone, WriteIsFirst, FeedIsCovered, At
<1>3. Typed /\ FeedIsCovered => FeedOnce
  <2> SUFFICES ASSUME Typed, FeedIsCovered PROVE FeedOnce
    OBVIOUS
  <2> DEFINE X == {c \in Calls : At(c, "photo", "complete")}
             coming == Cardinality(X)
  <2>1. X \in SUBSET Calls
    OBVIOUS
  <2>2. IsFiniteSet(X) /\ coming \in Nat
    BY <2>1, FS_Subset, FS_CardinalityType, NamesAssumption DEF NamesAssumption
  <2>3. Owed <= coming
    <3>1. CASE Owing
      <4>1. X # {}
        BY <3>1 DEF Owing
      <4>2. coming # 0
        BY <2>2, <4>1, FS_EmptySet
      <4> QED BY <2>2, <4>2, FeedNumbers
    <3>2. CASE ~Owing
      BY <2>2, <3>2 DEF Owed
    <3> QED BY <3>1, <3>2
  <2> HIDE DEF X, coming
  <2>4. \A f, n, w, m, d, o, k \in Nat : f + n + w <= m + d + o /\ o <= k => f <= m + k + d
    OBVIOUS
  <2>5. ghost.feed <= ghost.completions + coming + ghost.dropped
    BY <2>2, <2>3, <2>4, FeedNumbers DEF FeedIsCovered
  <2> QED BY <2>5 DEF FeedOnce, X, coming
<1> QED
  BY <1>1, <1>2, <1>3, TypedAlways, StepReviewsAlone, StepPhotosAlone, StepWriteIsFirst, StepCovers,
     PTL DEF Spec
=============================================================================
