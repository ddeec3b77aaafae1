------------------------- MODULE RunFinalizeProofs -------------------------
(***************************************************************************)
(* Theorems about RunFinalize, for any teams, calls, kinds of run, faults  *)
(* and deliveries: the types, that a run is consolidated once, and that a  *)
(* frozen board stands.                                                    *)
(*                                                                         *)
(* The inductive invariant has four parts, each with its step lemma:       *)
(* Shape, HoldsOK (what a settle is about to write was an interval of the  *)
(* hold it read), BoardsOK (whoever consolidates has a final board) and    *)
(* OnceOK (who is at a claimed part holds the claim alone).                *)
(***************************************************************************)
EXTENDS RunFinalize, FiniteSetTheorems, TLAPS

(* Where a call may stand; the points from which the run is finished.      *)
Consolidating == {"consolidate", "profiles", "merge", "mailClaim", "mail"}
PCs ==
  {"idle", "soloRead", "soloTeams", "hold", "resume", "snapRead", "snapTeams", "snapWrite",
   "refreshTeams", "refreshWrite", "finalRead", "finalTeams", "settle", "finalWrite"}
    \cup Consolidating

StandingType == [score : 0 .. MaxScore, heldMs : 0 .. MaxHolds, finished : BOOLEAN]
BoardType    == [rank : Ranks, frozen : BOOLEAN, published : BOOLEAN]
RunType      == [status : {"live", "finished"}, contributed : BOOLEAN, mailed : BOOLEAN,
                 board : BoardType]
TeamType     == [score : 0 .. MaxScore, finished : BOOLEAN, held : BOOLEAN,
                 heldMs : 0 .. MaxHolds, recorded : BOOLEAN]
CallType     == [pc : PCs, seen : Ranks, todo : SUBSET setup.teams, publish : BOOLEAN,
                 freeze : BOOLEAN]
EventType    == [pending : BOOLEAN, rank : Ranks, left : Nat]
DoneType     == [folds : [Teams -> Nat], banked : [Teams -> SUBSET Nat], merges : Nat, mails : Nat,
                 finals : SUBSET Ranks, holds : [Teams -> 0 .. MaxHolds]]

Shape ==
  /\ setup \in Setups
  /\ run \in RunType
  /\ team \in [Teams -> TeamType]
  /\ calls \in [Procs -> CallType]
  /\ event \in EventType
  /\ done \in DoneType
  /\ faults \in 0 .. MaxFaults

(* No interval is settled twice: what a settle is about to write was an    *)
(* interval of the hold it read.                                           *)
HoldsOK ==
  /\ IntervalsOnce
  /\ \A c \in Procs : At(c, "settle") =>
       \A t \in calls[c].todo : calls[c].seen[t].heldMs <= done.holds[t]

LEMMA Numbers ==
  MaxScore \in Nat /\ MaxHolds \in Nat /\ MaxFaults \in Nat /\ MaxDeliveries \in Nat
  BY BoundsAssumption DEF BoundsAssumption

LEMMA SetupType ==
  ASSUME setup \in Setups
  PROVE  setup.teams \subseteq Teams /\ setup.manual \in BOOLEAN
  BY SetupsAssumption DEF SetupsAssumption

LEMMA RanksType == Ranks = [Teams -> StandingType]
  BY DEF Ranks, StandingType

LEMMA ZeroIsRank == NoRank \in Ranks /\ NoBoard \in BoardType
<1>1. Zero \in StandingType
  BY Numbers DEF Zero, StandingType
<1>2. NoRank \in Ranks
  BY <1>1, RanksType DEF NoRank
<1> QED BY <1>2 DEF NoBoard, BoardType

LEMMA IdleType == Idle \in CallType
  BY ZeroIsRank DEF Idle, CallType, PCs

(* What a step may do to a team, a call, the run. *)
LEMMA TeamUpdates ==
  ASSUME team \in [Teams -> TeamType], NEW t \in Teams
  PROVE  /\ \A n \in 0 .. MaxScore, b \in BOOLEAN :
              [team EXCEPT ![t].score = n, ![t].finished = b] \in [Teams -> TeamType]
         /\ \A n \in 0 .. MaxScore : [team EXCEPT ![t].score = n] \in [Teams -> TeamType]
         /\ [team EXCEPT ![t].finished = TRUE] \in [Teams -> TeamType]
         /\ [team EXCEPT ![t].held = TRUE] \in [Teams -> TeamType]
         /\ \A n \in 0 .. MaxHolds :
              [team EXCEPT ![t].held = FALSE, ![t].heldMs = n] \in [Teams -> TeamType]
         /\ [team EXCEPT ![t].recorded = TRUE] \in [Teams -> TeamType]
  BY DEF TeamType

LEMMA CallUpdates ==
  ASSUME calls \in [Procs -> CallType], NEW c \in Procs
  PROVE  /\ \A r \in CallType : [calls EXCEPT ![c] = r] \in [Procs -> CallType]
         /\ \A pc \in PCs : [calls EXCEPT ![c].pc = pc] \in [Procs -> CallType]
         /\ \A pc \in PCs, x \in Ranks :
              [calls EXCEPT ![c].pc = pc, ![c].seen = x] \in [Procs -> CallType]
         /\ \A pc \in PCs, b \in BOOLEAN :
              [calls EXCEPT ![c].pc = pc, ![c].publish = b] \in [Procs -> CallType]
         /\ \A s \in SUBSET setup.teams : [calls EXCEPT ![c].todo = s] \in [Procs -> CallType]
         /\ \A pc \in PCs, s \in SUBSET setup.teams :
              [calls EXCEPT ![c].todo = s, ![c].pc = pc] \in [Procs -> CallType]
         /\ \A pc \in PCs, s \in SUBSET setup.teams :
              [calls EXCEPT ![c].pc = pc, ![c].todo = s] \in [Procs -> CallType]
         /\ \A pc \in PCs, x \in Ranks, s \in SUBSET setup.teams :
              [calls EXCEPT ![c].pc = pc, ![c].seen = x, ![c].todo = s] \in [Procs -> CallType]
  BY DEF CallType

LEMMA DoneUpdates ==
  ASSUME done \in DoneType
  PROVE  /\ \A t \in Teams, n \in 0 .. MaxHolds : [done EXCEPT !.holds[t] = n] \in DoneType
         /\ \A x \in Ranks : [done EXCEPT !.finals = @ \cup {x}] \in DoneType
         /\ \A t \in Teams, n \in Nat, s \in SUBSET Nat :
              [done EXCEPT !.folds[t] = n, !.banked[t] = s] \in DoneType
         /\ \A n \in Nat : [done EXCEPT !.merges = n] \in DoneType
         /\ \A n \in Nat : [done EXCEPT !.mails = n] \in DoneType
  BY DEF DoneType

LEMMA RanksNow ==
  ASSUME team \in [Teams -> TeamType]
  PROVE  [t \in Teams |-> Standing(t)] \in Ranks
<1>1. \A t \in Teams : Standing(t) \in StandingType
  BY DEF Standing, StandingType, TeamType
<1> QED BY <1>1, RanksType

LEMMA GotoShape ==
  ASSUME Shape, NEW c \in Procs, NEW pc \in PCs, Goto(c, pc)
  PROVE  calls' \in [Procs -> CallType]
  BY CallUpdates DEF Shape, Goto

LEMMA EndShape ==
  ASSUME Shape, NEW c \in Procs, End(c)
  PROVE  calls' \in [Procs -> CallType]
  BY CallUpdates, IdleType DEF Shape, End

-----------------------------------------------------------------------------
LEMMA InitShape == Init => Shape
<1> SUFFICES ASSUME Init PROVE Shape
  OBVIOUS
<1>1. run \in RunType
  BY ZeroIsRank DEF Init, RunType
<1>2. team \in [Teams -> TeamType]
  BY Numbers DEF Init, TeamType
<1>3. calls \in [Procs -> CallType]
  BY IdleType DEF Init
<1>4. event \in EventType
  BY ZeroIsRank, Numbers DEF Init, EventType
<1>5. done \in DoneType
  BY Numbers DEF Init, DoneType
<1> QED BY <1>1, <1>2, <1>3, <1>4, <1>5, Numbers DEF Init, Shape

LEMMA PlayShape ==
  ASSUME Shape, NEW c \in Procs, Play(c)
  PROVE  Shape'
<1>1. UNCHANGED <<setup, run, event, done, faults>>
  BY DEF Play, Complete, HoldRead, Adjust, TimeUp, RefreshRead, FinalizeRun
<1>2. setup.teams \subseteq Teams /\ setup.manual \in BOOLEAN
  BY SetupType DEF Shape
<1>3. ASSUME NEW t \in Teams, team[t].score < MaxScore PROVE team[t].score + 1 \in 0 .. MaxScore
  BY <1>3, Numbers DEF Shape, TeamType
<1>4. ASSUME NEW t \in setup.teams, NEW b \in BOOLEAN, Complete(c, t, b) PROVE Shape'
  <2>1. team' \in [Teams -> TeamType]
    BY <1>2, <1>3, <1>4, TeamUpdates DEF Complete, Shape
  <2>2. calls' \in [Procs -> CallType]
    BY <1>4, GotoShape DEF Complete, Shape, PCs
  <2> QED BY <1>1, <2>1, <2>2 DEF Shape, CallType
<1>5. ASSUME NEW t \in setup.teams, NEW b \in BOOLEAN, HoldRead(c, t, b) PROVE Shape'
  <2> DEFINE r == [Idle EXCEPT !.pc = IF b THEN "hold" ELSE "resume", !.todo = {t}]
  <2>1. r \in CallType
    BY IdleType DEF CallType, PCs
  <2>2. calls' \in [Procs -> CallType]
    BY <1>5, <2>1, CallUpdates DEF HoldRead, Shape
  <2> QED BY <1>1, <1>5, <2>2 DEF Shape, CallType, HoldRead
<1>6. ASSUME NEW t \in setup.teams, Adjust(c, t) \/ TimeUp(c, t) PROVE Shape'
  <2>1. team' \in [Teams -> TeamType]
    <3>1. CASE Adjust(c, t)
      BY <1>2, <1>3, <3>1, TeamUpdates DEF Adjust, Shape
    <3>2. CASE TimeUp(c, t)
      BY <1>2, <3>2, TeamUpdates DEF TimeUp, Shape
    <3> QED BY <1>6, <3>1, <3>2
  <2>2. calls' \in [Procs -> CallType]
    BY <1>6, GotoShape DEF Adjust, TimeUp, Shape, PCs
  <2> QED BY <1>1, <2>1, <2>2 DEF Shape, CallType
<1>7. ASSUME NEW r \in Refreshes, RefreshRead(c, r) PROVE Shape'
  <2> DEFINE publish == Flag(r.publish, run.board.published)
             freeze  == Flag(r.freeze, run.board.frozen)
  <2>1. publish \in BOOLEAN /\ freeze \in BOOLEAN
    BY DEF Flag, Shape, RunType, BoardType
  <2> HIDE DEF publish, freeze
  <2>2. [Idle EXCEPT !.pc = "refreshTeams", !.publish = publish, !.freeze = freeze] \in CallType
    BY <2>1, IdleType DEF CallType, PCs
  <2>3. calls' = [calls EXCEPT ![c] = [Idle EXCEPT !.pc = "refreshTeams", !.publish = publish,
                                                   !.freeze = freeze]]
    BY <1>7 DEF RefreshRead, publish, freeze
  <2>4. calls' \in [Procs -> CallType]
    BY <2>2, <2>3, CallUpdates DEF Shape
  <2> QED BY <1>1, <1>7, <2>4 DEF Shape, CallType, RefreshRead
<1>8. CASE FinalizeRun(c)
  <2>1. [Idle EXCEPT !.pc = "finalRead", !.publish = ~setup.manual] \in CallType
    BY IdleType DEF CallType, PCs
  <2>2. calls' \in [Procs -> CallType]
    BY <1>8, <2>1, CallUpdates DEF FinalizeRun, Shape
  <2> QED BY <1>1, <1>8, <2>2 DEF Shape, CallType, FinalizeRun
<1> QED BY <1>4, <1>5, <1>6, <1>7, <1>8 DEF Play

LEMMA HoldShape ==
  ASSUME Shape, HoldsOK, NEW c \in Procs, NEW t \in setup.teams, HoldWrite(c, t) \/ ResumeWrite(c, t)
  PROVE  Shape'
<1>1. t \in Teams /\ UNCHANGED <<setup, run, event, faults>>
  BY SetupType DEF Shape, HoldWrite, ResumeWrite
<1>2. done.holds[t] \in 0 .. MaxHolds /\ team[t].heldMs \in 0 .. MaxHolds /\ team[t].held \in BOOLEAN
  BY <1>1 DEF Shape, DoneType, TeamType
<1>3. CASE HoldWrite(c, t)
  <2>1. calls' \in [Procs -> CallType]
    BY <1>3, EndShape DEF HoldWrite
  <2>2. team' \in [Teams -> TeamType]
    <3>1. team' = team \/ team' = [team EXCEPT ![t].held = TRUE]
      BY <1>3 DEF HoldWrite
    <3>2. team \in [Teams -> TeamType] /\ [team EXCEPT ![t].held = TRUE] \in [Teams -> TeamType]
      BY <1>1, TeamUpdates DEF Shape
    <3> QED BY <3>1, <3>2
  <2>3. done' \in DoneType
    <3>1. CASE UNCHANGED done
      BY <3>1 DEF Shape
    <3>2. CASE done.holds[t] # MaxHolds /\ done' = [done EXCEPT !.holds[t] = @ + 1]
      <4>1. done.holds[t] + 1 \in 0 .. MaxHolds
        BY <1>2, <3>2, Numbers
      <4> QED BY <1>1, <3>2, <4>1, DoneUpdates DEF Shape
    <3> QED BY <1>3, <3>1, <3>2 DEF HoldWrite
  <2> QED BY <1>1, <2>1, <2>2, <2>3 DEF Shape, CallType
<1>4. CASE ResumeWrite(c, t)
  <2>1. calls' \in [Procs -> CallType]
    <3>1. [Idle EXCEPT !.pc = "snapRead"] \in CallType
      BY IdleType DEF CallType, PCs
    <3> QED BY <1>4, <3>1, EndShape, CallUpdates DEF ResumeWrite, Shape
  <2>2. team' \in [Teams -> TeamType]
    <3>1. CASE team[t].held /\ team' = [team EXCEPT ![t].held = FALSE, ![t].heldMs = @ + 1]
      <4>1. team[t].heldMs + 1 <= done.holds[t]
        BY <1>1, <3>1 DEF HoldsOK, IntervalsOnce
      <4>2. team[t].heldMs + 1 \in 0 .. MaxHolds
        BY <1>2, <4>1, Numbers
      <4> QED BY <1>1, <3>1, <4>2, TeamUpdates DEF Shape
    <3>2. CASE UNCHANGED team
      BY <3>2 DEF Shape
    <3> QED BY <1>4, <3>1, <3>2 DEF ResumeWrite
  <2> QED BY <1>1, <1>4, <2>1, <2>2 DEF Shape, CallType, ResumeWrite
<1> QED BY <1>3, <1>4

LEMMA BoardShape ==
  ASSUME Shape, NEW c \in Procs,
         \/ SnapRead(c) \/ SnapTeams(c) \/ SnapWrite(c) \/ RefreshTeams(c) \/ RefreshWrite(c)
         \/ SoloRead(c) \/ SoloTeams(c) \/ FinalRead(c)
  PROVE  Shape'
<1>1. UNCHANGED <<setup, team, event, done, faults>>
  BY DEF SnapRead, SnapTeams, SnapWrite, RefreshTeams, RefreshWrite, SoloRead, SoloTeams, FinalRead
<1>2. calls[c] \in CallType
  BY DEF Shape
<1>3. ASSUME SnapTeams(c) \/ RefreshTeams(c) PROVE calls' \in [Procs -> CallType]
  <2>1. [t \in Teams |-> Standing(t)] \in Ranks /\ {"snapWrite", "refreshWrite"} \subseteq PCs
    BY RanksNow DEF Shape, PCs
  <2>2. CASE SnapTeams(c)
    BY <2>1, <2>2, CallUpdates DEF SnapTeams, Shape
  <2>3. CASE RefreshTeams(c)
    BY <2>1, <2>3, CallUpdates DEF RefreshTeams, Shape
  <2> QED BY <1>3, <2>2, <2>3
<1>4. ASSUME SnapRead(c) \/ SoloRead(c) \/ FinalRead(c) PROVE calls' \in [Procs -> CallType]
  BY <1>4, EndShape, GotoShape DEF SnapRead, SoloRead, FinalRead, PCs
<1>5. ASSUME SoloTeams(c) PROVE calls' \in [Procs -> CallType]
  <2>1. CASE calls' = [calls EXCEPT ![c].pc = "finalRead", ![c].publish = TRUE]
    <3>1. "finalRead" \in PCs
      BY DEF PCs
    <3> QED BY <2>1, <3>1, CallUpdates DEF Shape
  <2> QED BY <1>5, <2>1, EndShape DEF SoloTeams
<1>6. ASSUME SnapWrite(c) PROVE run' \in RunType
  BY <1>2, <1>6 DEF SnapWrite, Shape, RunType, BoardType, CallType
<1>7. ASSUME RefreshWrite(c) PROVE run' \in RunType
  BY <1>2, <1>7 DEF RefreshWrite, Shape, RunType, BoardType, CallType
<1>8. run' \in RunType
  BY <1>6, <1>7 DEF SnapRead, SnapTeams, RefreshTeams, SoloRead, SoloTeams, FinalRead, Shape
<1>9. calls' \in [Procs -> CallType]
  BY <1>3, <1>4, <1>5, EndShape DEF SnapWrite, RefreshWrite
<1> QED BY <1>1, <1>8, <1>9 DEF Shape, CallType

(* The board a finalize makes: every open hold counted once more. *)
FinalRanks ==
  [t \in Teams |-> IF t \in setup.teams /\ team[t].held
                   THEN [Standing(t) EXCEPT !.heldMs = @ + 1] ELSE Standing(t)]

LEMMA FinalRanksType ==
  ASSUME Shape, HoldsOK
  PROVE  /\ FinalRanks \in Ranks
         /\ \A t \in setup.teams : team[t].held => FinalRanks[t].heldMs = team[t].heldMs + 1
<1>1. ASSUME NEW t \in Teams, team[t].held
      PROVE  /\ [Standing(t) EXCEPT !.heldMs = @ + 1] \in StandingType
             /\ [Standing(t) EXCEPT !.heldMs = @ + 1].heldMs = team[t].heldMs + 1
  <2>1. team[t].heldMs + 1 <= done.holds[t]
    BY <1>1 DEF HoldsOK, IntervalsOnce
  <2>2. done.holds[t] \in 0 .. MaxHolds /\ team[t].heldMs \in 0 .. MaxHolds
    BY DEF Shape, DoneType, TeamType
  <2> DEFINE n == team[t].heldMs + 1
  <2>3. n \in 0 .. MaxHolds
    BY <2>1, <2>2, Numbers
  <2>4. [Standing(t) EXCEPT !.heldMs = @ + 1] = [score |-> team[t].score, heldMs |-> n,
                                                 finished |-> team[t].finished]
    BY DEF Standing
  <2> HIDE DEF n
  <2>5. team[t].score \in 0 .. MaxScore /\ team[t].finished \in BOOLEAN
    BY DEF Shape, TeamType
  <2>6. [Standing(t) EXCEPT !.heldMs = @ + 1] \in StandingType
    BY <2>3, <2>4, <2>5 DEF StandingType
  <2>7. [Standing(t) EXCEPT !.heldMs = @ + 1].heldMs = n
    BY <2>4
  <2> QED BY <2>6, <2>7 DEF n
<1>2. \A t \in Teams : Standing(t) \in StandingType
  BY DEF Standing, StandingType, TeamType, Shape
<1>3. \A t \in Teams : FinalRanks[t] \in StandingType
  BY <1>1, <1>2 DEF FinalRanks
<1>4. FinalRanks \in Ranks
  BY <1>3, RanksType DEF FinalRanks
<1>5. \A t \in setup.teams : team[t].held => FinalRanks[t].heldMs = team[t].heldMs + 1
  BY <1>1, SetupType DEF FinalRanks, Shape
<1> QED BY <1>4, <1>5

Held == {t \in setup.teams : team[t].held}

LEMMA FinalTeamsStep ==
  ASSUME NEW c, FinalTeams(c)
  PROVE  calls' = [calls EXCEPT ![c].pc = IF Held = {} THEN "finalWrite" ELSE "settle",
                                ![c].seen = FinalRanks, ![c].todo = Held]
  BY DEF FinalTeams, Held, FinalRanks

LEMMA FinalShape ==
  ASSUME Shape, HoldsOK, NEW c \in Procs,
         \/ FinalTeams(c) \/ FinalWrite(c)
         \/ \E t \in setup.teams : Settle(c, t) \/ SettleFails(c, t)
  PROVE  Shape'
<1>1. calls[c] \in CallType /\ UNCHANGED setup
  BY DEF Shape, FinalTeams, FinalWrite, Settle, SettleFails
<1>2. CASE FinalTeams(c)
  <2> DEFINE pc == IF Held = {} THEN "finalWrite" ELSE "settle"
  <2>1. pc \in PCs /\ Held \in SUBSET setup.teams
    BY DEF PCs, Held
  <2>2. calls' = [calls EXCEPT ![c].pc = pc, ![c].seen = FinalRanks, ![c].todo = Held]
    BY <1>2, FinalTeamsStep
  <2> HIDE DEF pc
  <2>3. calls' \in [Procs -> CallType]
    BY <2>1, <2>2, FinalRanksType, CallUpdates DEF Shape
  <2> QED BY <1>2, <2>3 DEF FinalTeams, Shape, CallType
<1>3. ASSUME NEW t \in setup.teams, Settled(c, t) PROVE calls' \in [Procs -> CallType]
  <2> DEFINE rest == calls[c].todo \ {t}
             pc   == IF rest = {} THEN "finalWrite" ELSE calls[c].pc
  <2>1. rest \in SUBSET setup.teams /\ pc \in PCs
    BY <1>1 DEF CallType, PCs
  <2>2. calls' = [calls EXCEPT ![c].todo = rest, ![c].pc = pc]
    BY <1>3 DEF Settled
  <2> HIDE DEF rest, pc
  <2> QED BY <2>1, <2>2, CallUpdates DEF Shape
<1>4. ASSUME NEW t \in setup.teams, Settle(c, t) PROVE Shape'
  <2>1. t \in Teams /\ calls[c].seen[t].heldMs \in 0 .. MaxHolds
    BY <1>1, SetupType, RanksType DEF Shape, CallType, StandingType
  <2>2. team' \in [Teams -> TeamType]
    BY <1>4, <2>1, TeamUpdates DEF Settle, Shape
  <2> QED BY <1>3, <1>4, <2>2 DEF Settle, Shape, CallType
<1>5. ASSUME NEW t \in setup.teams, SettleFails(c, t) PROVE Shape'
  <2>1. faults' \in 0 .. MaxFaults
    BY <1>5, Numbers DEF SettleFails, Shape
  <2> QED BY <1>3, <1>5, <2>1 DEF SettleFails, Shape, CallType
<1>6. CASE FinalWrite(c)
  <2>1. calls' \in [Procs -> CallType]
    BY <1>6, GotoShape DEF FinalWrite, PCs, Consolidating
  <2>2. run' \in RunType
    BY <1>1, <1>6 DEF FinalWrite, Shape, RunType, BoardType, CallType
  <2>3. done' \in DoneType
    BY <1>1, <1>6, DoneUpdates DEF FinalWrite, Shape, CallType
  <2>4. event' \in EventType
    BY <1>1, <1>6 DEF FinalWrite, Shape, EventType, CallType
  <2> QED BY <1>6, <2>1, <2>2, <2>3, <2>4 DEF FinalWrite, Shape, CallType
<1> QED BY <1>2, <1>4, <1>5, <1>6

(* The last step of a consolidation, and one that goes on to the next. *)
LEMMA LeaveShape ==
  ASSUME Shape, NEW c \in Procs, Leave(c)
  PROVE  calls' \in [Procs -> CallType] /\ event' \in EventType
<1>1. calls' \in [Procs -> CallType]
  BY EndShape DEF Leave
<1>2. event' \in EventType
  BY DEF Leave, Shape, EventType
<1> QED BY <1>1, <1>2

LEMMA FoldShape ==
  ASSUME Shape, NEW c \in Procs, NEW t \in setup.teams, Fold(c, t) \/ FoldFails(c, t)
  PROVE  Shape'
<1>1. t \in Teams /\ UNCHANGED <<setup, run, event>>
  BY SetupType DEF Shape, Fold, FoldFails
<1>2. calls[c].todo \ {t} \in SUBSET setup.teams /\ calls[c].seen[t].score \in Nat
  <2>1. calls[c] \in CallType
    BY DEF Shape
  <2>2. calls[c].seen[t] \in StandingType
    BY <1>1, <2>1, RanksType DEF CallType
  <2> QED BY <2>1, <2>2, Numbers DEF CallType, StandingType
<1>3. calls' \in [Procs -> CallType]
  <2> DEFINE rest == calls[c].todo \ {t}
  <2>1. calls' = [calls EXCEPT ![c].todo = rest]
    BY DEF Fold, FoldFails
  <2>2. rest \in SUBSET setup.teams
    BY <1>2
  <2> HIDE DEF rest
  <2> QED BY <2>1, <2>2, CallUpdates DEF Shape
<1>4. team' \in [Teams -> TeamType]
  <2>1. team' = team \/ team' = [team EXCEPT ![t].recorded = TRUE]
    BY DEF Fold, FoldFails
  <2> QED BY <1>1, <2>1, TeamUpdates DEF Shape
<1>5. done' \in DoneType
  <2> DEFINE n == done.folds[t] + 1
             s == done.banked[t] \cup {calls[c].seen[t].score}
  <2>1. n \in Nat /\ s \in SUBSET Nat
    BY <1>1, <1>2 DEF Shape, DoneType
  <2>2. done' = done \/ done' = [done EXCEPT !.folds[t] = n, !.banked[t] = s]
    BY DEF Fold, FoldFails
  <2> HIDE DEF n, s
  <2>3. done \in DoneType /\ [done EXCEPT !.folds[t] = n, !.banked[t] = s] \in DoneType
    BY <1>1, <2>1, DoneUpdates DEF Shape
  <2> QED BY <2>2, <2>3
<1>6. faults' \in 0 .. MaxFaults
  BY Numbers DEF Fold, FoldFails, Shape
<1> QED BY <1>1, <1>3, <1>4, <1>5, <1>6 DEF Shape, CallType

LEMMA ConsolidateShape ==
  ASSUME Shape, NEW c \in Procs,
         \/ Consolidate(c) \/ ConsolidateFails(c) \/ BenchmarkClaim(c) \/ Merge(c)
         \/ MailClaim(c) \/ Mail(c) \/ ConcernFails(c) \/ Crash(c)
  PROVE  Shape'
<1>1. UNCHANGED <<setup, team>>
  BY DEF Consolidate, ConsolidateFails, BenchmarkClaim, Merge, MailClaim, Mail, ConcernFails, Crash
<1>2. {"profiles", "merge", "mailClaim", "mail"} \subseteq PCs
  BY DEF PCs, Consolidating
<1>3. run' \in RunType
  <2>1. \/ run' = run \/ run' = [run EXCEPT !.contributed = TRUE]
        \/ run' = [run EXCEPT !.mailed = TRUE]
    BY DEF Consolidate, ConsolidateFails, BenchmarkClaim, Merge, MailClaim, Mail, ConcernFails, Crash
  <2> QED BY <2>1 DEF Shape, RunType
<1>4. done' \in DoneType
  <2>1. done.merges + 1 \in Nat /\ done.mails + 1 \in Nat
    BY DEF Shape, DoneType
  <2>2. \/ done' = done \/ done' = [done EXCEPT !.merges = @ + 1]
        \/ done' = [done EXCEPT !.mails = @ + 1]
    BY DEF Consolidate, ConsolidateFails, BenchmarkClaim, Merge, MailClaim, Mail, ConcernFails, Crash
  <2> QED BY <2>1, <2>2, DoneUpdates DEF Shape
<1>5. faults' \in 0 .. MaxFaults
  <2>1. faults' = faults \/ (faults < MaxFaults /\ faults' = faults + 1)
    BY DEF Consolidate, ConsolidateFails, BenchmarkClaim, Merge, MailClaim, Mail, ConcernFails, Crash
  <2> QED BY <2>1, Numbers DEF Shape
<1>6. CASE Consolidate(c)
  <2> DEFINE todo == {t \in setup.teams : team[t].finished /\ ~team[t].recorded}
  <2>1. todo \in SUBSET setup.teams
    OBVIOUS
  <2>2. calls' = [calls EXCEPT ![c].pc = "profiles", ![c].todo = todo]
    BY <1>6 DEF Consolidate
  <2> HIDE DEF todo
  <2>3. calls' \in [Procs -> CallType]
    BY <1>2, <2>1, <2>2, CallUpdates DEF Shape
  <2> QED BY <1>1, <1>6, <2>3 DEF Consolidate, Shape, CallType
<1>7. ASSUME NEW pc \in {"profiles", "merge", "mailClaim", "mail"}, Goto(c, pc), UNCHANGED event
      PROVE  Shape'
  <2>1. calls' \in [Procs -> CallType]
    BY <1>2, <1>7, GotoShape
  <2> QED BY <1>1, <1>3, <1>4, <1>5, <1>7, <2>1 DEF Shape, CallType
<1>8. ASSUME Leave(c) PROVE Shape'
  BY <1>1, <1>3, <1>4, <1>5, <1>8, LeaveShape DEF Shape, CallType
<1>9. CASE Crash(c)
  <2>1. calls' \in [Procs -> CallType]
    BY <1>9, EndShape DEF Crash
  <2>2. event' \in EventType
    BY <1>9 DEF Crash, Shape, EventType
  <2> QED BY <1>1, <1>3, <1>4, <1>5, <2>1, <2>2 DEF Shape, CallType
<1> QED
  BY <1>6, <1>7, <1>8, <1>9
     DEF ConsolidateFails, BenchmarkClaim, Merge, MailClaim, Mail, ConcernFails

LEMMA DeliverShape ==
  ASSUME Shape, Deliver
  PROVE  Shape'
<1>1. Platform \in Procs /\ UNCHANGED <<setup, run, team, done, faults>>
  BY DEF Procs, Deliver
<1>2. event' \in EventType
  BY DEF Deliver, Shape, EventType
<1>3. [Idle EXCEPT !.pc = "consolidate", !.seen = event.rank] \in CallType
  BY IdleType DEF Shape, EventType, CallType, PCs, Consolidating
<1>4. calls' \in [Procs -> CallType]
  BY <1>1, <1>3, CallUpdates DEF Deliver, Shape
<1> QED BY <1>1, <1>2, <1>4 DEF Shape, CallType

LEMMA StepShape == Shape /\ HoldsOK /\ [Next]_vars => Shape'
<1> SUFFICES ASSUME Shape, HoldsOK, [Next]_vars PROVE Shape'
  OBVIOUS
<1>1. ASSUME NEW c \in Procs, Continue(c) PROVE Shape'
  BY <1>1, HoldShape, BoardShape, FinalShape, FoldShape, ConsolidateShape DEF Continue
<1>2. ASSUME NEW c \in Procs, Fail(c) PROVE Shape'
  BY <1>2, FinalShape, FoldShape, ConsolidateShape DEF Fail
<1>3. CASE UNCHANGED vars
  BY <1>3 DEF vars, Shape, CallType
<1> QED BY <1>1, <1>2, <1>3, PlayShape, DeliverShape DEF Next

-----------------------------------------------------------------------------
(* Holds: no interval is settled twice.                                    *)
LEMMA HoldNumbers ==
  ASSUME Shape, NEW t \in Teams
  PROVE  /\ team[t].heldMs \in Nat /\ team[t].held \in BOOLEAN /\ done.holds[t] \in Nat
         /\ \A c \in Procs : calls[c].seen[t].heldMs \in Nat
<1>1. \A c \in Procs : calls[c].seen[t] \in StandingType
  BY RanksType DEF Shape, CallType
<1> QED BY <1>1, Numbers DEF Shape, TeamType, DoneType, StandingType

(* A call alone moves, and goes on settling what it read. *)
SettlesOn(c) ==
  /\ \A x \in Procs \ {c} : calls'[x] = calls[x]
  /\ At(c, "settle")' => /\ At(c, "settle")
                         /\ calls'[c].todo \subseteq calls[c].todo
                         /\ calls'[c].seen = calls[c].seen

LEMMA HoldsStand ==
  ASSUME Shape, HoldsOK, NEW c \in Procs, SettlesOn(c), UNCHANGED setup, done'.holds = done.holds,
         \A t \in Teams : team'[t].held = team[t].held /\ team'[t].heldMs = team[t].heldMs
  PROVE  HoldsOK'
  BY DEF HoldsOK, IntervalsOnce, SettlesOn, At

(* What may happen to a call that is not settling. *)
LEMMA CallMoves ==
  ASSUME Shape, NEW c \in Procs
  PROVE  /\ \A pc : pc # "settle" /\ Goto(c, pc) => SettlesOn(c)
         /\ End(c) => SettlesOn(c)
         /\ \A r : r.pc # "settle" /\ calls' = [calls EXCEPT ![c] = r] => SettlesOn(c)
         /\ UNCHANGED calls => SettlesOn(c)
<1>1. calls \in [Procs -> CallType]
  BY DEF Shape
<1>2. Idle.pc = "idle"
  BY DEF Idle
<1>3. ASSUME NEW pc, pc # "settle", Goto(c, pc) PROVE SettlesOn(c)
  BY <1>1, <1>3 DEF Goto, SettlesOn, At, CallType
<1>4. ASSUME NEW r, r.pc # "settle", calls' = [calls EXCEPT ![c] = r] PROVE SettlesOn(c)
  BY <1>1, <1>4 DEF SettlesOn, At
<1>5. ASSUME UNCHANGED calls PROVE SettlesOn(c)
  BY <1>5 DEF SettlesOn, At
<1> QED BY <1>2, <1>3, <1>4, <1>5 DEF End

LEMMA PlayHolds ==
  ASSUME Shape, HoldsOK, NEW c \in Procs, Play(c)
  PROVE  HoldsOK'
<1>1. UNCHANGED <<setup, done>> /\ team \in [Teams -> TeamType]
  BY DEF Shape, Play, Complete, HoldRead, Adjust, TimeUp, RefreshRead, FinalizeRun
<1>2. \A t \in Teams : team'[t].held = team[t].held /\ team'[t].heldMs = team[t].heldMs
  <2>1. ASSUME NEW t, NEW b, Complete(c, t, b)
        PROVE  \A x \in Teams : team'[x].held = team[x].held /\ team'[x].heldMs = team[x].heldMs
    BY <1>1, <2>1 DEF Complete, TeamType
  <2>2. ASSUME NEW t, Adjust(c, t) \/ TimeUp(c, t)
        PROVE  \A x \in Teams : team'[x].held = team[x].held /\ team'[x].heldMs = team[x].heldMs
    BY <1>1, <2>2 DEF Adjust, TimeUp, TeamType
  <2> QED BY <2>1, <2>2 DEF Play, HoldRead, RefreshRead, FinalizeRun
<1>3. SettlesOn(c)
  <2>1. ASSUME NEW t, NEW b, Complete(c, t, b) PROVE SettlesOn(c)
    BY <2>1, CallMoves DEF Complete
  <2>2. ASSUME NEW t, NEW b \in BOOLEAN, HoldRead(c, t, b) PROVE SettlesOn(c)
    <3> DEFINE r == [Idle EXCEPT !.pc = IF b THEN "hold" ELSE "resume", !.todo = {t}]
    <3>1. r.pc # "settle" /\ calls' = [calls EXCEPT ![c] = r]
      BY <2>2 DEF HoldRead, Idle
    <3> HIDE DEF r
    <3> QED BY <3>1, CallMoves
  <2>3. ASSUME NEW t, Adjust(c, t) \/ TimeUp(c, t) PROVE SettlesOn(c)
    BY <2>3, CallMoves DEF Adjust, TimeUp
  <2>4. ASSUME NEW q, RefreshRead(c, q) PROVE SettlesOn(c)
    <3> DEFINE r == [Idle EXCEPT !.pc = "refreshTeams",
                                 !.publish = Flag(q.publish, run.board.published),
                                 !.freeze  = Flag(q.freeze, run.board.frozen)]
    <3>1. r.pc # "settle" /\ calls' = [calls EXCEPT ![c] = r]
      BY <2>4 DEF RefreshRead, Idle
    <3> HIDE DEF r
    <3> QED BY <3>1, CallMoves
  <2>5. ASSUME FinalizeRun(c) PROVE SettlesOn(c)
    <3> DEFINE r == [Idle EXCEPT !.pc = "finalRead", !.publish = ~setup.manual]
    <3>1. r.pc # "settle" /\ calls' = [calls EXCEPT ![c] = r]
      BY <2>5 DEF FinalizeRun, Idle
    <3> HIDE DEF r
    <3> QED BY <3>1, CallMoves
  <2> QED BY <2>1, <2>2, <2>3, <2>4, <2>5 DEF Play
<1> QED BY <1>1, <1>2, <1>3, HoldsStand

LEMMA HoldHolds ==
  ASSUME Shape, Shape', HoldsOK, NEW c \in Procs, NEW t \in setup.teams,
         HoldWrite(c, t) \/ ResumeWrite(c, t)
  PROVE  HoldsOK'
<1>1. t \in Teams /\ UNCHANGED setup /\ team \in [Teams -> TeamType] /\ done \in DoneType
  BY SetupType DEF Shape, HoldWrite, ResumeWrite
<1>2. SettlesOn(c)
  <2>1. [Idle EXCEPT !.pc = "snapRead"].pc # "settle"
    BY DEF Idle
  <2> QED BY <2>1, CallMoves DEF HoldWrite, ResumeWrite
<1>3. \A x \in Teams : team[x].heldMs + (IF team[x].held THEN 1 ELSE 0) <= done.holds[x]
  BY DEF HoldsOK, IntervalsOnce
<1>4. \A x \in Teams : done'.holds[x] \in Nat /\ done.holds[x] <= done'.holds[x]
  <2>1. done'.holds[t] \in {done.holds[t], done.holds[t] + 1}
    BY <1>1 DEF HoldWrite, ResumeWrite, DoneType
  <2>2. \A x \in Teams \ {t} : done'.holds[x] = done.holds[x]
    BY <1>1 DEF HoldWrite, ResumeWrite, DoneType
  <2> QED BY <2>1, <2>2, HoldNumbers
<1>5. IntervalsOnce'
  <2>1. \A x \in Teams \ {t} : team'[x] = team[x] /\ done'.holds[x] = done.holds[x]
    BY <1>1 DEF HoldWrite, ResumeWrite, DoneType
  <2>2. team'[t].heldMs + (IF team'[t].held THEN 1 ELSE 0) <= done'.holds[t]
    <3>1. CASE UNCHANGED <<team, done>>
      BY <1>1, <1>3, <3>1
    <3>2. CASE /\ ~team[t].held /\ team' = [team EXCEPT ![t].held = TRUE]
               /\ done' = [done EXCEPT !.holds[t] = @ + 1]
      <4>1. team'[t].held /\ team'[t].heldMs = team[t].heldMs /\ done'.holds[t] = done.holds[t] + 1
        BY <1>1, <3>2 DEF TeamType, DoneType
      <4>2. team[t].heldMs <= done.holds[t]
        BY <1>1, <1>3, <3>2, HoldNumbers
      <4> QED BY <1>1, <4>1, <4>2, HoldNumbers
    <3>3. CASE /\ team[t].held /\ UNCHANGED done
               /\ team' = [team EXCEPT ![t].held = FALSE, ![t].heldMs = @ + 1]
      <4>1. ~team'[t].held /\ team'[t].heldMs = team[t].heldMs + 1
        BY <1>1, <3>3 DEF TeamType
      <4>2. team[t].heldMs + 1 <= done.holds[t]
        BY <1>1, <1>3, <3>3
      <4> QED BY <1>1, <3>3, <4>1, <4>2, HoldNumbers
    <3> QED BY <3>1, <3>2, <3>3 DEF HoldWrite, ResumeWrite
  <2> QED BY <1>3, <2>1, <2>2 DEF IntervalsOnce
<1>6. ASSUME NEW x \in Procs, At(x, "settle")', NEW u \in calls'[x].todo
      PROVE  calls'[x].seen[u].heldMs <= done'.holds[u]
  <2>1. At(x, "settle") /\ u \in calls[x].todo /\ calls'[x].seen = calls[x].seen
    BY <1>2, <1>6 DEF SettlesOn, At
  <2>2. u \in Teams
    BY <2>1, SetupType DEF Shape, CallType
  <2>3. calls[x].seen[u].heldMs <= done.holds[u]
    BY <2>1 DEF HoldsOK
  <2>4. done.holds[u] <= done'.holds[u] /\ done'.holds[u] \in Nat
    BY <1>4, <2>2
  <2> QED BY <2>1, <2>2, <2>3, <2>4, HoldNumbers
<1> QED BY <1>5, <1>6 DEF HoldsOK

LEMMA FinalHolds ==
  ASSUME Shape, HoldsOK, NEW c \in Procs,
         \/ FinalTeams(c) \/ FinalWrite(c)
         \/ \E t \in setup.teams : Settle(c, t) \/ SettleFails(c, t)
  PROVE  HoldsOK'
<1>1. UNCHANGED setup /\ team \in [Teams -> TeamType] /\ done'.holds = done.holds
      /\ calls \in [Procs -> CallType]
  BY DEF Shape, FinalTeams, FinalWrite, Settle, SettleFails, DoneType
<1>2. CASE FinalTeams(c)
  <2>1. \A x \in Procs \ {c} : calls'[x] = calls[x]
    BY <1>1, <1>2 DEF FinalTeams
  <2>2. calls'[c].seen = FinalRanks /\ calls'[c].todo = Held
    <3> DEFINE pc == IF Held = {} THEN "finalWrite" ELSE "settle"
    <3>1. calls' = [calls EXCEPT ![c].pc = pc, ![c].seen = FinalRanks, ![c].todo = Held]
      BY <1>2, FinalTeamsStep
    <3> HIDE DEF pc
    <3> QED BY <1>1, <3>1 DEF CallType
  <2>3. \A t \in Held : FinalRanks[t].heldMs <= done.holds[t]
    <3> SUFFICES ASSUME NEW t \in Held PROVE FinalRanks[t].heldMs <= done.holds[t]
      OBVIOUS
    <3>1. t \in setup.teams /\ t \in Teams /\ team[t].held
      BY SetupType DEF Held, Shape
    <3> QED BY <3>1, FinalRanksType DEF HoldsOK, IntervalsOnce
  <2> QED BY <1>1, <1>2, <2>1, <2>2, <2>3 DEF FinalTeams, HoldsOK, IntervalsOnce, At
<1>3. CASE FinalWrite(c)
  <2>1. SettlesOn(c)
    BY <1>3, CallMoves DEF FinalWrite
  <2> QED BY <1>1, <1>3, <2>1, HoldsStand DEF FinalWrite
<1>4. ASSUME NEW t \in setup.teams, Settled(c, t), At(c, "settle") PROVE SettlesOn(c)
  <2>1. calls'[c].todo = calls[c].todo \ {t} /\ calls'[c].seen = calls[c].seen
    BY <1>1, <1>4 DEF Settled, CallType
  <2>2. \A x \in Procs \ {c} : calls'[x] = calls[x]
    BY <1>1, <1>4 DEF Settled
  <2> QED BY <1>4, <2>1, <2>2 DEF SettlesOn
<1>5. ASSUME NEW t \in setup.teams, SettleFails(c, t) PROVE HoldsOK'
  BY <1>1, <1>4, <1>5, HoldsStand DEF SettleFails
<1>6. ASSUME NEW t \in setup.teams, Settle(c, t) PROVE HoldsOK'
  <2>1. t \in Teams /\ SettlesOn(c)
    BY <1>4, <1>6, SetupType DEF Settle, Shape
  <2>2. ~team'[t].held /\ team'[t].heldMs = calls[c].seen[t].heldMs
    BY <1>1, <1>6, <2>1 DEF Settle, TeamType
  <2>3. calls[c].seen[t].heldMs <= done.holds[t]
    BY <1>6 DEF Settle, HoldsOK
  <2>4. \A x \in Teams \ {t} : team'[x] = team[x]
    BY <1>1, <1>6 DEF Settle
  <2>5. team'[t].heldMs + (IF team'[t].held THEN 1 ELSE 0) <= done.holds[t]
    BY <2>1, <2>2, <2>3, HoldNumbers
  <2>6. IntervalsOnce'
    BY <1>1, <2>4, <2>5 DEF HoldsOK, IntervalsOnce
  <2> QED BY <1>1, <2>1, <2>6 DEF HoldsOK, SettlesOn, At
<1> QED BY <1>2, <1>3, <1>5, <1>6

LEMMA StepHolds == Shape /\ Shape' /\ HoldsOK /\ [Next]_vars => HoldsOK'
<1> SUFFICES ASSUME Shape, Shape', HoldsOK, [Next]_vars PROVE HoldsOK'
  OBVIOUS
<1>1. team \in [Teams -> TeamType] /\ done \in DoneType /\ calls \in [Procs -> CallType]
  BY DEF Shape
<1>2. ASSUME NEW c \in Procs,
             \/ SnapRead(c) \/ SnapTeams(c) \/ SnapWrite(c) \/ RefreshTeams(c) \/ RefreshWrite(c)
             \/ SoloRead(c) \/ SoloTeams(c) \/ FinalRead(c)
      PROVE  HoldsOK'
  <2>1. SettlesOn(c)
    <3>1. CASE End(c)
      BY <3>1, CallMoves
    <3>2. CASE \E pc : pc # "settle" /\ Goto(c, pc)
      BY <3>2, CallMoves
    <3>3. CASE SnapTeams(c) \/ RefreshTeams(c) \/ SoloTeams(c)
      BY <1>1, <3>1, <3>3 DEF SnapTeams, RefreshTeams, SoloTeams, SettlesOn, At, CallType
    <3> QED BY <1>2, <3>1, <3>2, <3>3 DEF SnapRead, SnapWrite, RefreshWrite, SoloRead, FinalRead
  <2> QED BY <1>2, <2>1, HoldsStand
          DEF SnapRead, SnapTeams, SnapWrite, RefreshTeams, RefreshWrite, SoloRead, SoloTeams, FinalRead
<1>3. ASSUME NEW c \in Procs, NEW t \in setup.teams, Fold(c, t) \/ FoldFails(c, t) PROVE HoldsOK'
  <2>1. SettlesOn(c)
    BY <1>1, <1>3 DEF Fold, FoldFails, SettlesOn, At, CallType
  <2>2. \A x \in Teams : team'[x].held = team[x].held /\ team'[x].heldMs = team[x].heldMs
    BY <1>1, <1>3 DEF Fold, FoldFails, TeamType
  <2>3. done'.holds = done.holds /\ UNCHANGED setup
    BY <1>1, <1>3 DEF Fold, FoldFails, DoneType
  <2> QED BY <2>1, <2>2, <2>3, HoldsStand
<1>4. ASSUME NEW c \in Procs,
             \/ Consolidate(c) \/ ConsolidateFails(c) \/ BenchmarkClaim(c) \/ Merge(c)
             \/ MailClaim(c) \/ Mail(c) \/ ConcernFails(c) \/ Crash(c)
      PROVE  HoldsOK'
  <2>1. SettlesOn(c)
    <3>1. CASE End(c)
      BY <3>1, CallMoves
    <3>2. CASE \E pc : pc # "settle" /\ Goto(c, pc)
      BY <3>2, CallMoves
    <3>3. CASE Consolidate(c)
      BY <1>1, <3>3 DEF Consolidate, SettlesOn, At, CallType
    <3> QED BY <1>4, <3>1, <3>2, <3>3
            DEF ConsolidateFails, BenchmarkClaim, Merge, MailClaim, Mail, ConcernFails, Crash, Leave
  <2>2. done'.holds = done.holds /\ UNCHANGED <<setup, team>>
    BY <1>1, <1>4 DEF Consolidate, ConsolidateFails, BenchmarkClaim, Merge, MailClaim, Mail,
                      ConcernFails, Crash, DoneType
  <2> QED BY <2>1, <2>2, HoldsStand
<1>5. CASE Deliver
  <2>1. Platform \in Procs /\ UNCHANGED <<setup, team, done>>
    BY <1>5 DEF Deliver, Procs
  <2> DEFINE r == [Idle EXCEPT !.pc = "consolidate", !.seen = event.rank]
  <2>2. r.pc # "settle" /\ calls' = [calls EXCEPT ![Platform] = r]
    BY <1>5 DEF Deliver, Idle
  <2> HIDE DEF r
  <2>3. SettlesOn(Platform)
    BY <2>1, <2>2, CallMoves
  <2> QED BY <2>1, <2>3, HoldsStand
<1>6. CASE UNCHANGED vars
  BY <1>6 DEF vars, HoldsOK, IntervalsOnce, At
<1>7. ASSUME NEW c \in Procs, Continue(c) PROVE HoldsOK'
  BY <1>2, <1>3, <1>4, <1>7, HoldHolds, FinalHolds DEF Continue
<1>8. ASSUME NEW c \in Procs, Fail(c) PROVE HoldsOK'
  BY <1>3, <1>4, <1>8, FinalHolds DEF Fail
<1> QED BY <1>5, <1>6, <1>7, <1>8, PlayHolds DEF Next

-----------------------------------------------------------------------------
(* Consolidation.  Every consolidation was given a final board, and so is  *)
(* the event that starts the next one; a delivery that is being handled    *)
(* has used one of the deliveries up.                                      *)
Folding == {"consolidate", "profiles"}

BoardsOK ==
  /\ BankedIsRanked
  /\ event.pending => event.rank \in done.finals /\ run.status = "finished"
  /\ event.left <= MaxDeliveries
  /\ ~At(Platform, "idle") => event.pending /\ event.left < MaxDeliveries
  /\ \A c \in Procs : calls[c].pc \in Consolidating => run.status = "finished"
  /\ \A c \in Procs : calls[c].pc \in Folding => calls[c].seen \in done.finals

(* What is claimed before it is done is done once: whoever is at it holds  *)
(* the claim alone, and it is not done yet.                                *)
OnceAt(pc, claimed, n) ==
  /\ n <= 1 /\ (~claimed => n = 0)
  /\ \A c \in Procs : At(c, pc) => claimed /\ n = 0
  /\ \A c, d \in Procs : At(c, pc) /\ At(d, pc) => c = d

OnceOK ==
  /\ \A t \in Teams : done.folds[t] = IF team[t].recorded THEN 1 ELSE 0
  /\ OnceAt("merge", run.contributed, done.merges)
  /\ OnceAt("mail", run.mailed, done.mails)

(* A call moves alone, and into no part of a consolidation. *)
Steady(c) ==
  /\ \A x \in Procs \ {c} : calls'[x] = calls[x]
  /\ calls'[c].pc \in Consolidating => calls'[c].pc = calls[c].pc /\ calls'[c].seen = calls[c].seen
  /\ c = Platform /\ calls'[c].pc # "idle" => calls[c].pc # "idle"

(* What consolidation reads and writes stands. *)
Kept ==
  /\ UNCHANGED event
  /\ done'.finals = done.finals /\ done'.banked = done.banked /\ done'.folds = done.folds
  /\ done'.merges = done.merges /\ done'.mails = done.mails
  /\ run'.status = run.status /\ run'.contributed = run.contributed /\ run'.mailed = run.mailed
  /\ \A t \in Teams : team'[t].recorded = team[t].recorded

LEMMA SteadyMoves ==
  ASSUME Shape, NEW c \in Procs
  PROVE  /\ \A pc : pc \notin Consolidating /\ Goto(c, pc) /\ (c # Platform \/ ~At(c, "idle"))
                  => Steady(c)
         /\ End(c) => Steady(c)
         /\ \A r : r.pc \notin Consolidating /\ calls' = [calls EXCEPT ![c] = r]
                   /\ (c # Platform \/ ~At(c, "idle")) => Steady(c)
         /\ UNCHANGED calls => Steady(c)
<1>1. calls \in [Procs -> CallType]
  BY DEF Shape
<1>2. ASSUME NEW pc, pc \notin Consolidating, Goto(c, pc), c # Platform \/ ~At(c, "idle") PROVE Steady(c)
  BY <1>1, <1>2 DEF Goto, Steady, At, CallType
<1>3. ASSUME NEW r, r.pc \notin Consolidating, calls' = [calls EXCEPT ![c] = r],
             c # Platform \/ ~At(c, "idle")
      PROVE  Steady(c)
  BY <1>1, <1>3 DEF Steady, At
<1>4. ASSUME End(c) PROVE Steady(c)
  <2>1. calls'[c].pc = "idle" /\ \A x \in Procs \ {c} : calls'[x] = calls[x]
    BY <1>1, <1>4 DEF End, Idle
  <2> QED BY <2>1 DEF Steady, Consolidating
<1>5. ASSUME UNCHANGED calls PROVE Steady(c)
  BY <1>5 DEF Steady
<1> QED BY <1>2, <1>3, <1>4, <1>5

LEMMA KeptBoards ==
  ASSUME BoardsOK, Kept, NEW c \in Procs, Steady(c)
  PROVE  BoardsOK'
<1>1. BankedIsRanked' /\ event' = event
  BY DEF Kept, BoardsOK, BankedIsRanked
<1>2. ~At(Platform, "idle")' => ~At(Platform, "idle")
  BY DEF Steady, At, Procs
<1>3. \A x \in Procs : calls'[x].pc \in Consolidating => calls[x].pc \in Consolidating
  BY DEF Steady
<1>4. \A x \in Procs : calls'[x].pc \in Folding => calls[x].pc \in Folding /\ calls'[x].seen = calls[x].seen
  BY DEF Steady, Folding, Consolidating
<1> QED BY <1>1, <1>2, <1>3, <1>4 DEF BoardsOK, Kept

LEMMA KeptOnce ==
  ASSUME OnceOK, Kept, NEW c \in Procs, Steady(c)
  PROVE  OnceOK'
<1>1. \A x \in Procs, pc \in {"merge", "mail"} : At(x, pc)' => At(x, pc)
  BY DEF Steady, At, Consolidating
<1> QED BY <1>1 DEF OnceOK, OnceAt, Kept

LEMMA PlayKeeps ==
  ASSUME Shape, NEW c \in Procs, Play(c)
  PROVE  Kept /\ Steady(c)
<1>1. UNCHANGED <<run, event, done>> /\ team \in [Teams -> TeamType]
  BY DEF Shape, Play, Complete, HoldRead, Adjust, TimeUp, RefreshRead, FinalizeRun
<1>2. Kept
  <2>1. ASSUME NEW t, NEW b, Complete(c, t, b) PROVE Kept
    BY <1>1, <2>1 DEF Complete, TeamType, Kept
  <2>2. ASSUME NEW t, Adjust(c, t) \/ TimeUp(c, t) PROVE Kept
    BY <1>1, <2>2 DEF Adjust, TimeUp, TeamType, Kept
  <2> QED BY <1>1, <2>1, <2>2 DEF Play, HoldRead, RefreshRead, FinalizeRun, Kept
<1>3. c # Platform
  BY ProcsAssumption DEF Play, Complete, HoldRead, Adjust, TimeUp, RefreshRead, FinalizeRun, Begin
<1>4. Steady(c)
  <2>1. ASSUME NEW t, NEW b, Complete(c, t, b) PROVE Steady(c)
    BY <1>3, <2>1, SteadyMoves DEF Complete, Consolidating
  <2>2. ASSUME NEW t, NEW b \in BOOLEAN, HoldRead(c, t, b) PROVE Steady(c)
    <3> DEFINE r == [Idle EXCEPT !.pc = IF b THEN "hold" ELSE "resume", !.todo = {t}]
    <3>1. r.pc \notin Consolidating /\ calls' = [calls EXCEPT ![c] = r]
      BY <2>2 DEF HoldRead, Idle, Consolidating
    <3> HIDE DEF r
    <3> QED BY <1>3, <3>1, SteadyMoves
  <2>3. ASSUME NEW t, Adjust(c, t) \/ TimeUp(c, t) PROVE Steady(c)
    BY <1>3, <2>3, SteadyMoves DEF Adjust, TimeUp, Consolidating
  <2>4. ASSUME NEW q, RefreshRead(c, q) PROVE Steady(c)
    <3> DEFINE r == [Idle EXCEPT !.pc = "refreshTeams",
                                 !.publish = Flag(q.publish, run.board.published),
                                 !.freeze  = Flag(q.freeze, run.board.frozen)]
    <3>1. r.pc \notin Consolidating /\ calls' = [calls EXCEPT ![c] = r]
      BY <2>4 DEF RefreshRead, Idle, Consolidating
    <3> HIDE DEF r
    <3> QED BY <1>3, <3>1, SteadyMoves
  <2>5. ASSUME FinalizeRun(c) PROVE Steady(c)
    <3> DEFINE r == [Idle EXCEPT !.pc = "finalRead", !.publish = ~setup.manual]
    <3>1. r.pc \notin Consolidating /\ calls' = [calls EXCEPT ![c] = r]
      BY <2>5 DEF FinalizeRun, Idle, Consolidating
    <3> HIDE DEF r
    <3> QED BY <1>3, <3>1, SteadyMoves
  <2> QED BY <2>1, <2>2, <2>3, <2>4, <2>5 DEF Play
<1> QED BY <1>2, <1>4

LEMMA HoldKeeps ==
  ASSUME Shape, NEW c \in Procs, NEW t \in setup.teams, HoldWrite(c, t) \/ ResumeWrite(c, t)
  PROVE  Kept /\ Steady(c)
<1>1. team \in [Teams -> TeamType] /\ done \in DoneType /\ UNCHANGED <<run, event>>
  BY DEF Shape, HoldWrite, ResumeWrite
<1>2. Kept
  <2>1. CASE HoldWrite(c, t)
    BY <1>1, <2>1 DEF HoldWrite, TeamType, DoneType, Kept
  <2>2. CASE ResumeWrite(c, t)
    BY <1>1, <2>2 DEF ResumeWrite, TeamType, Kept
  <2> QED BY <2>1, <2>2
<1>3. [Idle EXCEPT !.pc = "snapRead"].pc \notin Consolidating /\ ~At(c, "idle")
  BY DEF Idle, Consolidating, HoldWrite, ResumeWrite, At
<1>4. Steady(c)
  BY <1>3, SteadyMoves DEF HoldWrite, ResumeWrite
<1> QED BY <1>2, <1>4

LEMMA BoardKeeps ==
  ASSUME Shape, NEW c \in Procs,
         \/ SnapRead(c) \/ SnapTeams(c) \/ SnapWrite(c) \/ RefreshTeams(c) \/ RefreshWrite(c)
         \/ SoloRead(c) \/ SoloTeams(c) \/ FinalRead(c)
  PROVE  Kept /\ Steady(c)
<1>1. UNCHANGED <<team, event, done>> /\ calls \in [Procs -> CallType] /\ run \in RunType
  BY DEF Shape, SnapRead, SnapTeams, SnapWrite, RefreshTeams, RefreshWrite, SoloRead, SoloTeams,
         FinalRead
<1>2. Kept
  <2>1. run'.status = run.status /\ run'.contributed = run.contributed /\ run'.mailed = run.mailed
    BY <1>1 DEF SnapRead, SnapTeams, SnapWrite, RefreshTeams, RefreshWrite, SoloRead, SoloTeams,
                FinalRead, RunType
  <2> QED BY <1>1, <2>1 DEF Kept
<1>3. ~At(c, "idle")
  BY DEF SnapRead, SnapTeams, SnapWrite, RefreshTeams, RefreshWrite, SoloRead, SoloTeams, FinalRead, At
<1>4. Steady(c)
  <2>1. CASE End(c)
    BY <2>1, SteadyMoves
  <2>2. CASE \E pc : pc \notin Consolidating /\ Goto(c, pc)
    BY <1>3, <2>2, SteadyMoves
  <2>3. CASE SnapTeams(c) \/ RefreshTeams(c) \/ SoloTeams(c)
    BY <1>1, <1>3, <2>1, <2>3 DEF SnapTeams, RefreshTeams, SoloTeams, Steady, At, CallType, Consolidating
  <2>4. "snapTeams" \notin Consolidating /\ "soloTeams" \notin Consolidating
        /\ "finalTeams" \notin Consolidating
    BY DEF Consolidating
  <2> QED BY <2>1, <2>2, <2>3, <2>4 DEF SnapRead, SnapWrite, RefreshWrite, SoloRead, FinalRead
<1> QED BY <1>2, <1>4

LEMMA FinalKeeps ==
  ASSUME Shape, NEW c \in Procs,
         FinalTeams(c) \/ \E t \in setup.teams : Settle(c, t) \/ SettleFails(c, t)
  PROVE  Kept /\ Steady(c)
<1>1. UNCHANGED <<run, event, done>> /\ calls \in [Procs -> CallType] /\ team \in [Teams -> TeamType]
  BY DEF Shape, FinalTeams, Settle, SettleFails
<1>2. Kept
  <2>1. ASSUME NEW t, Settle(c, t) PROVE Kept
    BY <1>1, <2>1 DEF Settle, Kept, TeamType
  <2> QED BY <1>1, <2>1 DEF FinalTeams, SettleFails, Kept
<1>3. Steady(c)
  <2>1. CASE FinalTeams(c)
    <3> DEFINE pc == IF Held = {} THEN "finalWrite" ELSE "settle"
    <3>1. calls' = [calls EXCEPT ![c].pc = pc, ![c].seen = FinalRanks, ![c].todo = Held]
      BY <2>1, FinalTeamsStep
    <3>2. pc \notin Consolidating /\ ~At(c, "idle")
      BY <2>1 DEF FinalTeams, At, Consolidating
    <3> HIDE DEF pc
    <3> QED BY <1>1, <3>1, <3>2 DEF Steady, At, CallType
  <2>2. ASSUME NEW t \in setup.teams, Settled(c, t), At(c, "settle") PROVE Steady(c)
    <3>1. calls'[c].pc \in {"finalWrite", "settle"}
      BY <1>1, <2>2 DEF Settled, CallType, At
    <3>2. \A x \in Procs \ {c} : calls'[x] = calls[x]
      BY <1>1, <2>2 DEF Settled
    <3> QED BY <2>2, <3>1, <3>2 DEF Steady, At, Consolidating
  <2> QED BY <2>1, <2>2 DEF Settle, SettleFails
<1> QED BY <1>2, <1>3

(* Steps of a consolidation, and the end of the run that starts one. *)
LEMMA FinalWriteBoards ==
  ASSUME Shape, BoardsOK, OnceOK, NEW c \in Procs, FinalWrite(c)
  PROVE  BoardsOK' /\ OnceOK'
<1>1. calls \in [Procs -> CallType] /\ run \in RunType /\ event \in EventType /\ done \in DoneType
      /\ UNCHANGED team
  BY DEF Shape, FinalWrite
<1>2. calls'[c].pc = "consolidate" /\ calls'[c].seen = calls[c].seen
      /\ \A x \in Procs \ {c} : calls'[x] = calls[x]
  BY <1>1 DEF FinalWrite, Goto, CallType
<1>3. run'.status = "finished" /\ run'.contributed = run.contributed /\ run'.mailed = run.mailed
  BY <1>1 DEF FinalWrite, RunType
<1>4. /\ done'.finals = done.finals \cup {calls[c].seen} /\ done'.banked = done.banked
      /\ done'.folds = done.folds /\ done'.merges = done.merges /\ done'.mails = done.mails
  BY <1>1 DEF FinalWrite, DoneType
<1>5. /\ event'.left = event.left
      /\ event'.pending => event'.rank \in done'.finals
      /\ event.pending => event'.pending
  <2>1. \/ event' = event
        \/ event'.pending /\ event'.rank = calls[c].seen /\ event'.left = event.left
    BY <1>1 DEF FinalWrite, EventType
  <2> QED BY <1>4, <2>1 DEF BoardsOK
<1>6. BankedIsRanked'
  BY <1>4 DEF BoardsOK, BankedIsRanked
<1>7. ~At(Platform, "idle")' => ~At(Platform, "idle")
  BY <1>2 DEF At, FinalWrite, Procs
<1>8. BoardsOK'
  BY <1>2, <1>3, <1>4, <1>5, <1>6, <1>7 DEF BoardsOK, Folding, Consolidating
<1>9. OnceOK'
  BY <1>1, <1>2, <1>3, <1>4 DEF OnceOK, OnceAt, At
<1> QED BY <1>8, <1>9

LEMMA DeliverBoards ==
  ASSUME Shape, BoardsOK, OnceOK, Deliver
  PROVE  BoardsOK' /\ OnceOK'
<1>1. calls \in [Procs -> CallType] /\ event \in EventType /\ UNCHANGED <<run, team, done>>
      /\ Platform \in Procs
  BY DEF Shape, Deliver, Procs
<1>2. calls'[Platform].pc = "consolidate" /\ calls'[Platform].seen = event.rank
      /\ \A x \in Procs \ {Platform} : calls'[x] = calls[x]
  BY <1>1 DEF Deliver, Idle
<1>3. event'.pending /\ event'.rank = event.rank /\ event'.left = event.left - 1
      /\ event.pending /\ event.left \in Nat
  BY <1>1 DEF Deliver, EventType
<1>4. event'.left < MaxDeliveries /\ event'.left <= MaxDeliveries
  BY <1>3, Numbers DEF BoardsOK
<1>5. BankedIsRanked'
  BY <1>1 DEF BoardsOK, BankedIsRanked
<1>6. BoardsOK'
  BY <1>1, <1>2, <1>3, <1>4, <1>5 DEF BoardsOK, Folding, Consolidating
<1>7. OnceOK'
  BY <1>1, <1>2 DEF OnceOK, OnceAt, At
<1> QED BY <1>6, <1>7

(* A consolidation goes on to its next part, or leaves. *)
LEMMA NextPart ==
  ASSUME Shape, BoardsOK, UNCHANGED event, done'.finals = done.finals, BankedIsRanked',
         run'.status = run.status, NEW c \in Procs, calls[c].pc \in Consolidating,
         \A x \in Procs \ {c} : calls'[x] = calls[x],
         calls'[c].pc \in Folding => calls[c].pc \in Folding /\ calls'[c].seen = calls[c].seen
  PROVE  BoardsOK'
<1>1. ~At(Platform, "idle")' => ~At(Platform, "idle")
  BY DEF At, Consolidating, Procs
<1> QED BY <1>1 DEF BoardsOK

LEMMA LeavesBoards ==
  ASSUME Shape, BoardsOK, NEW c \in Procs, Leave(c), calls[c].pc \in Consolidating,
         done'.finals = done.finals, done'.banked = done.banked, run'.status = run.status
  PROVE  BoardsOK'
<1>1. calls \in [Procs -> CallType] /\ event \in EventType
  BY DEF Shape
<1>2. calls'[c].pc = "idle" /\ \A x \in Procs \ {c} : calls'[x] = calls[x]
  BY <1>1 DEF Leave, End, Idle
<1>3. BankedIsRanked'
  BY DEF BoardsOK, BankedIsRanked
<1>4. CASE c = Platform
  <2>1. event'.rank = event.rank /\ event'.left = event.left
    BY <1>1, <1>4 DEF Leave, EventType
  <2>2. event.pending
    BY <1>4 DEF BoardsOK, At, Consolidating
  <2> QED BY <1>2, <1>3, <1>4, <2>1, <2>2 DEF BoardsOK, At, Folding, Consolidating
<1>5. CASE c # Platform
  <2>1. event' = event /\ (~At(Platform, "idle")' => ~At(Platform, "idle"))
    BY <1>2, <1>5 DEF Leave, At, Procs
  <2> QED BY <1>2, <1>3, <2>1 DEF BoardsOK, Folding, Consolidating
<1> QED BY <1>4, <1>5

(* Nothing is claimed or done, and nobody comes to a claimed part. *)
LEMMA OnceStands ==
  ASSUME OnceOK, NEW c \in Procs, \A x \in Procs \ {c} : calls'[x] = calls[x],
         calls'[c].pc \notin {"merge", "mail"}, UNCHANGED <<run, done, team>>
  PROVE  OnceOK'
  BY DEF OnceOK, OnceAt, At

LEMMA Ends ==
  ASSUME Shape, NEW c \in Procs, End(c)
  PROVE  calls'[c].pc = "idle" /\ \A x \in Procs \ {c} : calls'[x] = calls[x]
  BY DEF Shape, End, Idle

LEMMA Goes ==
  ASSUME Shape, NEW c \in Procs, NEW pc, Goto(c, pc)
  PROVE  calls'[c].pc = pc /\ calls'[c].seen = calls[c].seen /\ \A x \in Procs \ {c} : calls'[x] = calls[x]
  BY DEF Shape, Goto, CallType

LEMMA ConsolidateBoards ==
  ASSUME Shape, BoardsOK, OnceOK, NEW c \in Procs, Consolidate(c) \/ ConsolidateFails(c)
  PROVE  BoardsOK' /\ OnceOK'
<1>1. calls \in [Procs -> CallType] /\ UNCHANGED <<run, team, done>> /\ calls[c].pc = "consolidate"
  BY DEF Shape, Consolidate, ConsolidateFails, At
<1>2. CASE Consolidate(c)
  <2>1. calls'[c].pc = "profiles" /\ calls'[c].seen = calls[c].seen
        /\ \A x \in Procs \ {c} : calls'[x] = calls[x]
    BY <1>1, <1>2 DEF Consolidate, CallType
  <2>2. BankedIsRanked'
    BY <1>1 DEF BoardsOK, BankedIsRanked
  <2>3. BoardsOK'
    BY <1>1, <1>2, <2>1, <2>2, NextPart DEF Consolidate, Folding, Consolidating
  <2> QED BY <1>1, <2>1, <2>3, OnceStands
<1>3. CASE ConsolidateFails(c)
  <2>1. BoardsOK'
    BY <1>1, <1>3, LeavesBoards DEF ConsolidateFails, Consolidating
  <2>2. OnceOK'
    BY <1>1, <1>3, Ends, OnceStands DEF ConsolidateFails, Leave
  <2> QED BY <2>1, <2>2
<1> QED BY <1>2, <1>3

LEMMA FoldBoards ==
  ASSUME Shape, BoardsOK, OnceOK, NEW c \in Procs, NEW t \in setup.teams, Fold(c, t) \/ FoldFails(c, t)
  PROVE  BoardsOK' /\ OnceOK'
<1>1. /\ calls \in [Procs -> CallType] /\ team \in [Teams -> TeamType] /\ done \in DoneType
      /\ UNCHANGED <<run, event>> /\ t \in Teams /\ calls[c].pc = "profiles"
  BY SetupType DEF Shape, Fold, FoldFails, At
<1>2. calls'[c].pc = "profiles" /\ calls'[c].seen = calls[c].seen
      /\ \A x \in Procs \ {c} : calls'[x] = calls[x]
  BY <1>1 DEF Fold, FoldFails, CallType
<1>3. done'.finals = done.finals /\ done'.merges = done.merges /\ done'.mails = done.mails
  BY <1>1 DEF Fold, FoldFails, DoneType
<1>4. BankedIsRanked'
  <2>1. CASE UNCHANGED done
    BY <2>1 DEF BoardsOK, BankedIsRanked
  <2>2. CASE done' = [done EXCEPT !.folds[t] = @ + 1, !.banked[t] = @ \cup {calls[c].seen[t].score}]
    <3>1. done'.banked[t] = done.banked[t] \cup {calls[c].seen[t].score}
      BY <1>1, <2>2 DEF DoneType
    <3>2. \A u \in Teams \ {t} : done'.banked[u] = done.banked[u]
      BY <1>1, <2>2 DEF DoneType
    <3>3. calls[c].seen \in done.finals
      BY <1>1 DEF BoardsOK, Folding
    <3> QED BY <1>3, <3>1, <3>2, <3>3 DEF BoardsOK, BankedIsRanked
  <2> QED BY <2>1, <2>2 DEF Fold, FoldFails
<1>5. BoardsOK'
  BY <1>1, <1>2, <1>3, <1>4, NextPart DEF Folding, Consolidating
<1>6. \A u \in Teams : done'.folds[u] = IF team'[u].recorded THEN 1 ELSE 0
  <2>1. CASE UNCHANGED <<team, done>>
    BY <2>1 DEF OnceOK
  <2>2. CASE /\ ~team[t].recorded /\ team' = [team EXCEPT ![t].recorded = TRUE]
             /\ done' = [done EXCEPT !.folds[t] = @ + 1, !.banked[t] = @ \cup {calls[c].seen[t].score}]
    <3>1. team'[t].recorded /\ done'.folds[t] = done.folds[t] + 1 /\ done.folds[t] = 0
      BY <1>1, <2>2 DEF OnceOK, TeamType, DoneType
    <3>2. \A u \in Teams \ {t} : team'[u] = team[u] /\ done'.folds[u] = done.folds[u]
      BY <1>1, <2>2 DEF DoneType
    <3> QED BY <3>1, <3>2 DEF OnceOK
  <2> QED BY <2>1, <2>2 DEF Fold, FoldFails
<1>7. OnceOK'
  BY <1>1, <1>2, <1>3, <1>6 DEF OnceOK, OnceAt, At
<1> QED BY <1>5, <1>7

LEMMA ClaimBoards ==
  ASSUME Shape, BoardsOK, OnceOK, NEW c \in Procs,
         BenchmarkClaim(c) \/ Merge(c) \/ MailClaim(c) \/ Mail(c)
  PROVE  BoardsOK'
<1>1. /\ calls \in [Procs -> CallType] /\ run \in RunType /\ done \in DoneType
      /\ calls[c].pc \in Consolidating
  BY DEF Shape, BenchmarkClaim, Merge, MailClaim, Mail, At, Consolidating
<1>2. done'.finals = done.finals /\ done'.banked = done.banked
  BY <1>1 DEF BenchmarkClaim, Merge, MailClaim, Mail, DoneType
<1>3. run'.status = run.status
  BY <1>1 DEF BenchmarkClaim, Merge, MailClaim, Mail, RunType
<1>4. BankedIsRanked'
  BY <1>2 DEF BoardsOK, BankedIsRanked
<1>5. CASE Leave(c)
  BY <1>1, <1>2, <1>3, <1>5, LeavesBoards
<1>6. ASSUME NEW pc \in {"merge", "mailClaim", "mail"}, Goto(c, pc), UNCHANGED event PROVE BoardsOK'
  BY <1>1, <1>2, <1>3, <1>4, <1>6, Goes, NextPart DEF Folding
<1> QED BY <1>5, <1>6 DEF BenchmarkClaim, Merge, MailClaim, Mail

LEMMA ClaimOnce ==
  ASSUME Shape, OnceOK, NEW c \in Procs, BenchmarkClaim(c) \/ Merge(c) \/ MailClaim(c) \/ Mail(c)
  PROVE  OnceOK'
<1>1. run \in RunType /\ done \in DoneType /\ UNCHANGED team
  BY DEF Shape, BenchmarkClaim, Merge, MailClaim, Mail
<1>2. CASE BenchmarkClaim(c) /\ ~run.contributed
  <2>1. run'.contributed /\ run'.mailed = run.mailed /\ UNCHANGED done
    BY <1>1, <1>2 DEF BenchmarkClaim, RunType
  <2>2. calls'[c].pc = "merge" /\ \A x \in Procs \ {c} : calls'[x] = calls[x]
    BY <1>2, Goes DEF BenchmarkClaim
  <2> QED BY <1>1, <1>2, <2>1, <2>2 DEF OnceOK, OnceAt, At
<1>3. CASE Merge(c)
  <2>1. done'.merges = done.merges + 1 /\ done'.mails = done.mails /\ done'.folds = done.folds
        /\ UNCHANGED run
    BY <1>1, <1>3 DEF Merge, DoneType
  <2>2. calls'[c].pc = "mailClaim" /\ \A x \in Procs \ {c} : calls'[x] = calls[x]
    BY <1>3, Goes DEF Merge
  <2>3. run.contributed /\ done.merges = 0 /\ \A x \in Procs : At(x, "merge") => x = c
    BY <1>3 DEF Merge, OnceOK, OnceAt
  <2> QED BY <1>1, <2>1, <2>2, <2>3 DEF OnceOK, OnceAt, At
<1>4. CASE MailClaim(c) /\ Goto(c, "mail") /\ ~run.mailed /\ run' = [run EXCEPT !.mailed = TRUE]
  <2>1. run'.mailed /\ run'.contributed = run.contributed /\ UNCHANGED done
    BY <1>1, <1>4 DEF MailClaim, RunType
  <2>2. calls'[c].pc = "mail" /\ \A x \in Procs \ {c} : calls'[x] = calls[x]
    BY <1>4, Goes
  <2> QED BY <1>1, <1>4, <2>1, <2>2 DEF OnceOK, OnceAt, At
<1>5. CASE Mail(c)
  <2>1. done'.mails = done.mails + 1 /\ done'.merges = done.merges /\ done'.folds = done.folds
        /\ UNCHANGED run
    BY <1>1, <1>5 DEF Mail, DoneType
  <2>2. calls'[c].pc = "idle" /\ \A x \in Procs \ {c} : calls'[x] = calls[x]
    BY <1>5, Ends DEF Mail, Leave
  <2>3. run.mailed /\ done.mails = 0 /\ \A x \in Procs : At(x, "mail") => x = c
    BY <1>5 DEF Mail, OnceOK, OnceAt
  <2> QED BY <1>1, <2>1, <2>2, <2>3 DEF OnceOK, OnceAt, At
<1>6. CASE BenchmarkClaim(c) /\ run.contributed
  BY <1>1, <1>6, Goes, OnceStands DEF BenchmarkClaim
<1>7. CASE MailClaim(c) /\ UNCHANGED run /\ Leave(c)
  BY <1>1, <1>7, Ends, OnceStands DEF MailClaim, Leave
<1> QED BY <1>2, <1>3, <1>4, <1>5, <1>6, <1>7 DEF MailClaim

LEMMA FailBoards ==
  ASSUME Shape, BoardsOK, OnceOK, NEW c \in Procs, ConcernFails(c) \/ Crash(c)
  PROVE  BoardsOK' /\ OnceOK'
<1>1. calls \in [Procs -> CallType] /\ event \in EventType /\ UNCHANGED <<run, team, done>>
  BY DEF Shape, ConcernFails, Crash
<1>2. BankedIsRanked'
  BY <1>1 DEF BoardsOK, BankedIsRanked
<1>3. CASE Leave(c) /\ calls[c].pc \in Consolidating
  BY <1>1, <1>3, Ends, LeavesBoards, OnceStands DEF Leave
<1>4. CASE Goto(c, "mailClaim") /\ UNCHANGED event /\ calls[c].pc \in Consolidating
  BY <1>1, <1>2, <1>4, Goes, NextPart, OnceStands DEF Folding
<1>5. CASE Crash(c)
  <2>1. calls'[c].pc = "idle" /\ \A x \in Procs \ {c} : calls'[x] = calls[x]
    BY <1>5, Ends DEF Crash
  <2>2. event'.pending = event.pending /\ event'.rank = event.rank
    BY <1>1, <1>5 DEF Crash, EventType
  <2>3. event'.left <= MaxDeliveries /\ (c # Platform => event'.left = event.left)
    <3>1. CASE c = Platform
      <4>1. event.left < MaxDeliveries /\ event'.left = event.left + 1 /\ event.left \in Nat
        BY <1>1, <1>5, <3>1 DEF Crash, BoardsOK, EventType
      <4> QED BY <3>1, <4>1, Numbers
    <3>2. CASE c # Platform
      BY <1>5, <3>2 DEF Crash, BoardsOK
    <3> QED BY <3>1, <3>2
  <2>4. ~At(Platform, "idle")' => ~At(Platform, "idle") /\ c # Platform
    BY <2>1 DEF At, Procs
  <2>5. BoardsOK'
    BY <1>1, <1>2, <2>1, <2>2, <2>3, <2>4 DEF BoardsOK, Folding, Consolidating
  <2> QED BY <1>1, <2>1, <2>5, OnceStands
<1> QED BY <1>3, <1>4, <1>5 DEF ConcernFails, At, Consolidating

LEMMA StepBoards ==
  Shape /\ BoardsOK /\ OnceOK /\ [Next]_vars => BoardsOK' /\ OnceOK'
<1> SUFFICES ASSUME Shape, BoardsOK, OnceOK, [Next]_vars PROVE BoardsOK' /\ OnceOK'
  OBVIOUS
<1>1. ASSUME NEW c \in Procs, Kept /\ Steady(c) PROVE BoardsOK' /\ OnceOK'
  BY <1>1, KeptBoards, KeptOnce
<1>2. ASSUME NEW c \in Procs, Play(c) PROVE BoardsOK' /\ OnceOK'
  BY <1>1, <1>2, PlayKeeps
<1>3. ASSUME NEW c \in Procs, Continue(c) PROVE BoardsOK' /\ OnceOK'
  BY <1>1, <1>3, HoldKeeps, BoardKeeps, FinalKeeps, FinalWriteBoards, ConsolidateBoards, FoldBoards,
     ClaimBoards, ClaimOnce DEF Continue
<1>4. ASSUME NEW c \in Procs, Fail(c) PROVE BoardsOK' /\ OnceOK'
  BY <1>1, <1>4, FinalKeeps, FoldBoards, ConsolidateBoards, FailBoards DEF Fail
<1>5. CASE UNCHANGED vars
  BY <1>5 DEF vars, BoardsOK, BankedIsRanked, OnceOK, OnceAt, At
<1> QED BY <1>2, <1>3, <1>4, <1>5, DeliverBoards DEF Next

-----------------------------------------------------------------------------
(* The invariant all of it rests on, and what follows from it.             *)

FinalInv == Shape /\ HoldsOK /\ BoardsOK /\ OnceOK

LEMMA InitInv == Init => FinalInv
<1> SUFFICES ASSUME Init PROVE FinalInv
  OBVIOUS
<1>1. Shape
  BY InitShape
<1>2. \A c \in Procs : calls[c].pc = "idle"
  BY DEF Init, Idle
<1>3. \A t \in Teams : /\ team[t].heldMs = 0 /\ team[t].held = FALSE /\ team[t].recorded = FALSE
                       /\ done.holds[t] = 0 /\ done.folds[t] = 0 /\ done.banked[t] = {}
  BY DEF Init
<1>4. done.merges = 0 /\ done.mails = 0 /\ event.pending = FALSE /\ event.left = MaxDeliveries
  BY DEF Init
<1>5. HoldsOK
  BY <1>2, <1>3 DEF HoldsOK, IntervalsOnce, At
<1>6. BoardsOK
  <2>1. BankedIsRanked
    BY <1>3 DEF BankedIsRanked
  <2>2. Platform \in Procs /\ event.left <= MaxDeliveries
    BY <1>4, Numbers DEF Procs
  <2> QED BY <1>2, <1>4, <2>1, <2>2 DEF BoardsOK, At, Consolidating, Folding
<1>7. OnceOK
  BY <1>2, <1>3, <1>4 DEF OnceOK, OnceAt, At
<1> QED BY <1>1, <1>5, <1>6, <1>7 DEF FinalInv

LEMMA FinalInvAlways == Spec => []FinalInv
<1>1. FinalInv /\ [Next]_vars => FinalInv'
  BY StepShape, StepHolds, StepBoards DEF FinalInv
<1> QED BY InitInv, <1>1, PTL DEF Spec

(* Whatever calls run beside each other, fail, die or are delivered again, *)
(* the documents keep their shape, only teams of the run are in a call's   *)
(* hands, and a consolidation that runs has a finished run.                *)
THEOREM FinalizeTypes == Spec => []TypeOK
<1>1. FinalInv => TypeOK
  <2> SUFFICES ASSUME FinalInv PROVE TypeOK
    OBVIOUS
  <2>1. Shape /\ BoardsOK
    BY DEF FinalInv
  <2>2. run \in [status : {"live", "finished"}, contributed : BOOLEAN, mailed : BOOLEAN,
                 board : [rank : Ranks, frozen : BOOLEAN, published : BOOLEAN]]
    BY <2>1 DEF Shape, RunType, BoardType
  <2>3. team \in [Teams -> [score : 0 .. MaxScore, finished : BOOLEAN, held : BOOLEAN,
                            heldMs : 0 .. MaxHolds, recorded : BOOLEAN]]
    BY <2>1 DEF Shape, TeamType
  <2>4. \A c \in Procs : calls[c].seen \in Ranks /\ calls[c].todo \subseteq setup.teams
    BY <2>1 DEF Shape, CallType
  <2>5. event \in [pending : BOOLEAN, rank : Ranks, left : 0 .. MaxDeliveries]
    <3>1. event \in EventType /\ event.left <= MaxDeliveries
      BY <2>1 DEF Shape, BoardsOK
    <3>2. event.left \in 0 .. MaxDeliveries
      BY <3>1, Numbers DEF EventType
    <3> QED BY <3>1, <3>2 DEF EventType
  <2>6. setup \in Setups /\ faults \in 0 .. MaxFaults
    BY <2>1 DEF Shape
  <2>7. \A c \in Procs : calls[c].pc \in {"consolidate", "profiles", "merge", "mailClaim", "mail"}
                           => run.status = "finished"
    BY <2>1 DEF BoardsOK, Consolidating
  <2> QED BY <2>2, <2>3, <2>4, <2>5, <2>6, <2>7 DEF TypeOK
<1> QED BY <1>1, FinalInvAlways, PTL

(* A run is consolidated once: each profile folded once and from a final   *)
(* board, one merge into the benchmark, one mail, no hold interval twice,  *)
(* for any number of finalizes, deliveries, crashes and calls at once.     *)
THEOREM ConsolidatesOnce == Spec => []ConsolidatedOnce
<1>1. FinalInv => ConsolidatedOnce
  <2> SUFFICES ASSUME FinalInv PROVE ConsolidatedOnce
    OBVIOUS
  <2>1. \A t \in Teams : done.folds[t] <= 1
    BY DEF FinalInv, OnceOK
  <2>2. done.merges <= 1 /\ done.mails <= 1
    BY DEF FinalInv, OnceOK, OnceAt
  <2> QED BY <2>1, <2>2 DEF FinalInv, BoardsOK, HoldsOK, ConsolidatedOnce
<1> QED BY <1>1, FinalInvAlways, PTL

(* No snapshot that began before the freeze changes a frozen board: only   *)
(* the organizer's refresh and a finalize write one.                       *)
THEOREM FrozenStands == Spec => FrozenBoardStands
<1> DEFINE Stands == run.board.frozen /\ run'.board.rank # run.board.rank =>
                       \E c \in Procs : RefreshWrite(c) \/ FinalWrite(c)
<1>1. ASSUME Shape, [Next]_vars PROVE [Stands]_vars
  <2>1. run \in RunType
    BY <1>1 DEF Shape
  <2>2. ASSUME NEW c \in Procs, BenchmarkClaim(c) \/ MailClaim(c) PROVE run'.board = run.board
    BY <2>1, <2>2 DEF BenchmarkClaim, MailClaim, RunType
  <2>3. ASSUME NEW c \in Procs, SnapWrite(c), run.board.frozen PROVE run'.board = run.board
    BY <2>3 DEF SnapWrite
  <2>4. ASSUME NEW c \in Procs, Play(c) \/ Fail(c) PROVE UNCHANGED run
    BY <2>4 DEF Play, Complete, HoldRead, Adjust, TimeUp, RefreshRead, FinalizeRun, Fail,
                SettleFails, FoldFails, ConsolidateFails, ConcernFails, Crash
  <2>5. ASSUME NEW c \in Procs, Continue(c)
        PROVE  \/ UNCHANGED run \/ SnapWrite(c) \/ RefreshWrite(c) \/ FinalWrite(c)
               \/ BenchmarkClaim(c) \/ MailClaim(c)
    BY <2>5 DEF Continue, HoldWrite, ResumeWrite, SnapRead, SnapTeams, RefreshTeams, SoloRead,
                SoloTeams, FinalRead, FinalTeams, Settle, Fold, Consolidate, Merge, Mail
  <2>6. CASE Deliver \/ UNCHANGED vars
    BY <2>6 DEF Deliver, vars
  <2> QED BY <1>1, <2>2, <2>3, <2>4, <2>5, <2>6 DEF Next
<1>2. Spec => []Shape
  <2>1. FinalInv => Shape
    BY DEF FinalInv
  <2> QED BY <2>1, FinalInvAlways, PTL
<1> QED BY <1>1, <1>2, PTL DEF Spec, FrozenBoardStands
=============================================================================
