---------------------------- MODULE RunFinalize ----------------------------
(***************************************************************************)
(* The end of a run and the standings it leaves: finalizeRun and the       *)
(* automatic end of a solo run, the leaderboard snapshot and the organizer's *)
(* refresh of it, the settling of staff holds, and what is consolidated    *)
(* once per run: player profiles, the platform benchmark, the summary mail. *)
(*                                                                         *)
(* Every call is split where the code awaits the database, and a call may  *)
(* die at any of those points.  A score is the number of scoring events a  *)
(* team had, a hold the number of intervals settled into heldMs; ranks and *)
(* amounts follow from them and are left out.                              *)
(*                                                                         *)
(* Code: functions/src/runs/index.ts (finalizeRunCore to                   *)
(* refreshLeaderboard, maybeRefreshLeaderboardSnapshot, setTeamHold,       *)
(* completeTaskForTeam), functions/src/index.ts (adjustTeamScore).         *)
(***************************************************************************)
EXTENDS Naturals, FiniteSets

CONSTANTS
  Teams,         \* team documents
  Calls,         \* server calls that may be in flight at once
  Platform,      \* the process Cloud Functions runs the trigger in
  Setups,        \* the kinds of run: who plays, hosted or solo, which calls come
  Refreshes,     \* the publish and freeze arguments of refreshLeaderboard
  MaxScore, MaxHolds,            \* scoring events and holds of one team
  MaxFaults, MaxDeliveries       \* crashes and failures; deliveries of the trigger

AllTools == {"complete", "timeUp", "adjust", "hold", "refresh", "finalize"}

(* A flag given to refreshLeaderboard; "keep" when it is not given. *)
Flags == {"keep", "on", "off"}
Flag(given, stored) == IF given = "keep" THEN stored ELSE given = "on"

(* A solo run is the single-player run of startInstantPlay; without        *)
(* triggers the server hosts callables only.                               *)
SetupsAssumption ==
  \A s \in Setups :
    /\ s.teams \subseteq Teams /\ s.teams # {} /\ s.tools \subseteq AllTools
    /\ {s.solo, s.manual, s.triggers} \subseteq BOOLEAN
    /\ s.solo => Cardinality(s.teams) = 1
ASSUME SetupsAssumption

ASSUME ProcsAssumption == Platform \notin Calls
ASSUME RefreshesAssumption == Refreshes \subseteq [publish : Flags, freeze : Flags]
ASSUME BoundsAssumption == {MaxScore, MaxHolds, MaxFaults, MaxDeliveries} \subseteq Nat

Procs == Calls \cup {Platform}

VARIABLES
  setup,   \* the run's fixed settings
  run,     \* run document: status, leaderboard, the two consolidation claims
  team,    \* team documents
  calls,   \* calls in flight
  event,   \* the run's transition to finished, as the platform delivers it
  done,    \* what left the run: profiles, merges, mails; final boards, holds begun
  faults   \* crashes and failed writes so far

vars == <<setup, run, team, calls, event, done, faults>>

-----------------------------------------------------------------------------
(* buildRankings, down to what it reads of each team. *)
Standing(t) == [score |-> team[t].score, heldMs |-> team[t].heldMs, finished |-> team[t].finished]
Zero        == [score |-> 0, heldMs |-> 0, finished |-> FALSE]
NoRank      == [t \in Teams |-> Zero]
NoBoard     == [rank |-> NoRank, frozen |-> FALSE, published |-> FALSE]

Idle == [pc |-> "idle", seen |-> NoRank, todo |-> {}, publish |-> FALSE, freeze |-> FALSE]

Goto(c, pc)  == calls' = [calls EXCEPT ![c].pc = pc]
End(c)       == calls' = [calls EXCEPT ![c] = Idle]
At(c, pc)    == calls[c].pc = pc
Begin(c, op) == op \in setup.tools /\ c \in Calls /\ At(c, "idle")

Init ==
  /\ setup \in Setups
  /\ run = [status |-> "live", board |-> NoBoard, contributed |-> FALSE, mailed |-> FALSE]
  /\ team = [t \in Teams |-> [score |-> 0, finished |-> FALSE, held |-> FALSE,
                              heldMs |-> 0, recorded |-> FALSE]]
  /\ calls = [c \in Procs |-> Idle]
  /\ event = [pending |-> FALSE, rank |-> NoRank, left |-> MaxDeliveries]
  /\ done = [folds |-> [t \in Teams |-> 0], banked |-> [t \in Teams |-> {}],
             merges |-> 0, mails |-> 0, finals |-> {}, holds |-> [t \in Teams |-> 0]]
  /\ faults = 0

-----------------------------------------------------------------------------
(* The game that goes on.                                                  *)

(* completeTaskForTeam: its transaction re-reads the run's status.  A solo *)
(* run is then checked for its end.                                        *)
Complete(c, t, last) ==
  /\ Begin(c, "complete")
  /\ run.status = "live" /\ ~team[t].finished /\ team[t].score < MaxScore
  /\ team' = [team EXCEPT ![t].score = @ + 1, ![t].finished = last]
  /\ IF setup.solo THEN Goto(c, "soloRead") ELSE UNCHANGED calls
  /\ UNCHANGED <<setup, run, event, done, faults>>

(* The last mission of a team runs out of time: written by its next poll,  *)
(* which neither looks at the run's status nor for the end of a solo run.  *)
TimeUp(c, t) ==
  /\ Begin(c, "timeUp")
  /\ ~team[t].finished
  /\ team' = [team EXCEPT ![t].finished = TRUE]
  /\ UNCHANGED <<setup, run, calls, event, done, faults>>

(* adjustTeamScore, on a finished run too; the board is refreshed after it, *)
(* as it is after a skip, a closing or a send-back.                        *)
Adjust(c, t) ==
  /\ Begin(c, "adjust")
  /\ team[t].score < MaxScore
  /\ team' = [team EXCEPT ![t].score = @ + 1]
  /\ Goto(c, "snapRead")
  /\ UNCHANGED <<setup, run, event, done, faults>>

(* setTeamHold reads the run's status, then writes the team in a transaction. *)
HoldRead(c, t, held) ==
  /\ Begin(c, "hold")
  /\ run.status = "live"
  /\ calls' = [calls EXCEPT ![c] = [Idle EXCEPT !.pc = IF held THEN "hold" ELSE "resume",
                                                !.todo = {t}]]
  /\ UNCHANGED <<setup, run, team, event, done, faults>>

HoldWrite(c, t) ==
  /\ At(c, "hold") /\ calls[c].todo = {t}
  /\ IF team[t].held \/ done.holds[t] = MaxHolds THEN UNCHANGED <<team, done>>
     ELSE /\ team' = [team EXCEPT ![t].held = TRUE]
          /\ done' = [done EXCEPT !.holds[t] = @ + 1]
  /\ End(c)
  /\ UNCHANGED <<setup, run, event, faults>>

(* MUTANT of ResumeWrite: no idempotence guard. *)
ResumeTwice(c, t) ==
  /\ At(c, "resume") /\ calls[c].todo = {t}
  /\ team' = [team EXCEPT ![t].held = FALSE, ![t].heldMs = @ + 1]
  /\ calls' = [calls EXCEPT ![c] = [Idle EXCEPT !.pc = "snapRead"]]
  /\ UNCHANGED <<setup, run, event, done, faults>>

(* A resume of a team that is not held is refused. *)
ResumeWrite(c, t) ==
  /\ At(c, "resume") /\ calls[c].todo = {t}
  /\ IF team[t].held
     THEN /\ team' = [team EXCEPT ![t].held = FALSE, ![t].heldMs = @ + 1]
          /\ calls' = [calls EXCEPT ![c] = [Idle EXCEPT !.pc = "snapRead"]]
     ELSE UNCHANGED team /\ End(c)
  /\ UNCHANGED <<setup, run, event, done, faults>>

-----------------------------------------------------------------------------
(* The leaderboard.                                                        *)

(* maybeRefreshLeaderboardSnapshot: a frozen board is left alone.  *)
SnapRead(c) ==
  /\ At(c, "snapRead")
  /\ IF run.board.frozen THEN End(c) ELSE Goto(c, "snapTeams")
  /\ UNCHANGED <<setup, run, team, event, done, faults>>

SnapTeams(c) ==
  /\ At(c, "snapTeams")
  /\ calls' = [calls EXCEPT ![c].pc = "snapWrite", ![c].seen = [t \in Teams |-> Standing(t)]]
  /\ UNCHANGED <<setup, run, team, event, done, faults>>

(* MUTANT of SnapWrite: the freeze is not looked at again. *)
SnapWriteAnyway(c) ==
  /\ At(c, "snapWrite")
  /\ run' = [run EXCEPT !.board.rank = calls[c].seen]
  /\ End(c)
  /\ UNCHANGED <<setup, team, event, done, faults>>

(* The transaction reads the freeze again and writes field paths, so the   *)
(* organizer's two flags stay.                                             *)
SnapWrite(c) ==
  /\ At(c, "snapWrite")
  /\ run' = IF run.board.frozen THEN run ELSE [run EXCEPT !.board.rank = calls[c].seen]
  /\ End(c)
  /\ UNCHANGED <<setup, team, event, done, faults>>

(* refreshLeaderboard: a flag not given is the one read here. *)
RefreshRead(c, r) ==
  /\ Begin(c, "refresh")
  /\ calls' = [calls EXCEPT ![c] =
       [Idle EXCEPT !.pc = "refreshTeams",
                    !.publish = Flag(r.publish, run.board.published),
                    !.freeze  = Flag(r.freeze, run.board.frozen)]]
  /\ UNCHANGED <<setup, run, team, event, done, faults>>

RefreshTeams(c) ==
  /\ At(c, "refreshTeams")
  /\ calls' = [calls EXCEPT ![c].pc = "refreshWrite", ![c].seen = [t \in Teams |-> Standing(t)]]
  /\ UNCHANGED <<setup, run, team, event, done, faults>>

(* A plain update of the whole leaderboard. *)
RefreshWrite(c) ==
  /\ At(c, "refreshWrite")
  /\ run' = [run EXCEPT !.board = [rank |-> calls[c].seen, frozen |-> calls[c].freeze,
                                   published |-> calls[c].publish]]
  /\ End(c)
  /\ UNCHANGED <<setup, team, event, done, faults>>

-----------------------------------------------------------------------------
(* The end of the run.                                                     *)

(* MUTANT of SoloRead: a frozen board is taken for the end of the run. *)
SoloReadFrozen(c) ==
  /\ At(c, "soloRead")
  /\ IF run.board.frozen THEN End(c) ELSE Goto(c, "soloTeams")
  /\ UNCHANGED <<setup, run, team, event, done, faults>>

(* maybeAutoFinalizeSoloRun *)
SoloRead(c) ==
  /\ At(c, "soloRead")
  /\ IF run.status = "finished" THEN End(c) ELSE Goto(c, "soloTeams")
  /\ UNCHANGED <<setup, run, team, event, done, faults>>

SoloTeams(c) ==
  /\ At(c, "soloTeams")
  /\ IF \A t \in setup.teams : team[t].finished
     THEN calls' = [calls EXCEPT ![c].pc = "finalRead", ![c].publish = TRUE]
     ELSE End(c)
  /\ UNCHANGED <<setup, run, team, event, done, faults>>

(* finalizeRun, by the organizer: the reveal may be staged. *)
FinalizeRun(c) ==
  /\ Begin(c, "finalize")
  /\ calls' = [calls EXCEPT ![c] = [Idle EXCEPT !.pc = "finalRead", !.publish = ~setup.manual]]
  /\ UNCHANGED <<setup, run, team, event, done, faults>>

(* finalizeRunCore *)
FinalRead(c) ==
  /\ At(c, "finalRead")
  /\ IF run.status = "finished" THEN End(c) ELSE Goto(c, "finalTeams")
  /\ UNCHANGED <<setup, run, team, event, done, faults>>

(* Open holds are settled in memory first, for the ranking. *)
FinalTeams(c) ==
  /\ At(c, "finalTeams")
  /\ LET held == {t \in setup.teams : team[t].held}
     IN  calls' = [calls EXCEPT
           ![c].pc = IF held = {} THEN "finalWrite" ELSE "settle",
           ![c].seen = [t \in Teams |->
                          IF t \in held THEN [Standing(t) EXCEPT !.heldMs = @ + 1] ELSE Standing(t)],
           ![c].todo = held]
  /\ UNCHANGED <<setup, run, team, event, done, faults>>

Settled(c, t) ==
  LET rest == calls[c].todo \ {t}
  IN  calls' = [calls EXCEPT ![c].todo = rest,
                             ![c].pc = IF rest = {} THEN "finalWrite" ELSE @]

(* The total computed from what was read, as a plain update. *)
Settle(c, t) ==
  /\ At(c, "settle") /\ t \in calls[c].todo
  /\ team' = [team EXCEPT ![t].held = FALSE, ![t].heldMs = calls[c].seen[t].heldMs]
  /\ Settled(c, t)
  /\ UNCHANGED <<setup, run, event, done, faults>>

SettleFails(c, t) ==
  /\ At(c, "settle") /\ t \in calls[c].todo /\ faults < MaxFaults
  /\ faults' = faults + 1
  /\ Settled(c, t)
  /\ UNCHANGED <<setup, run, team, event, done>>

(* MUTANT of TriggerFires: the guard looks at the wrong side. *)
NeverFires(before) == before = "finished"

(* onRunFinalized acts on the transition into finished. *)
TriggerFires(before) == before # "finished"

(* A plain update: the run may have been finished since finalRead. *)
FinalWrite(c) ==
  /\ At(c, "finalWrite")
  /\ run' = [run EXCEPT !.status = "finished",
                        !.board = [rank |-> calls[c].seen, frozen |-> TRUE,
                                   published |-> calls[c].publish]]
  /\ done' = [done EXCEPT !.finals = @ \cup {calls[c].seen}]
  /\ event' = IF setup.triggers /\ TriggerFires(run.status)
              THEN [event EXCEPT !.pending = TRUE, !.rank = calls[c].seen] ELSE event
  /\ Goto(c, "consolidate")
  /\ UNCHANGED <<setup, team, faults>>

-----------------------------------------------------------------------------
(* runPostFinalizeConsolidation, called inline and by the trigger.         *)

(* At-least-once: an event stays until a delivery of it has ended, and may *)
(* come again after that.                                                  *)
Deliver ==
  /\ event.pending /\ event.left > 0 /\ At(Platform, "idle")
  /\ event' = [event EXCEPT !.left = @ - 1]
  /\ calls' = [calls EXCEPT ![Platform] = [Idle EXCEPT !.pc = "consolidate", !.seen = event.rank]]
  /\ UNCHANGED <<setup, run, team, done, faults>>

(* The last step of a consolidation. *)
Leave(c) ==
  /\ End(c)
  /\ IF c = Platform THEN \E again \in BOOLEAN : event' = [event EXCEPT !.pending = again]
     ELSE UNCHANGED event

Consolidate(c) ==
  /\ At(c, "consolidate")
  /\ calls' = [calls EXCEPT ![c].pc = "profiles",
                            ![c].todo = {t \in setup.teams : team[t].finished /\ ~team[t].recorded}]
  /\ UNCHANGED <<setup, run, team, event, done, faults>>

(* Its reads failed: logged, and this consolidation does nothing. *)
ConsolidateFails(c) ==
  /\ At(c, "consolidate") /\ faults < MaxFaults
  /\ faults' = faults + 1
  /\ Leave(c)
  /\ UNCHANGED <<setup, run, team, done>>

(* recordPlayerResult: the guard and the fold in one transaction, with the *)
(* score of the board this consolidation was given.                        *)
Fold(c, t) ==
  /\ At(c, "profiles") /\ t \in calls[c].todo
  /\ calls' = [calls EXCEPT ![c].todo = @ \ {t}]
  /\ IF team[t].recorded THEN UNCHANGED <<team, done>>
     ELSE /\ team' = [team EXCEPT ![t].recorded = TRUE]
          /\ done' = [done EXCEPT !.folds[t] = @ + 1,
                                  !.banked[t] = @ \cup {calls[c].seen[t].score}]
  /\ UNCHANGED <<setup, run, event, faults>>

FoldFails(c, t) ==
  /\ At(c, "profiles") /\ t \in calls[c].todo /\ faults < MaxFaults
  /\ faults' = faults + 1
  /\ calls' = [calls EXCEPT ![c].todo = @ \ {t}]
  /\ UNCHANGED <<setup, run, team, event, done>>

(* MUTANT of BenchmarkClaim: the claim is not read. *)
BenchmarkClaimBlindly(c) ==
  /\ At(c, "profiles") /\ calls[c].todo = {}
  /\ run' = [run EXCEPT !.contributed = TRUE] /\ Goto(c, "merge")
  /\ UNCHANGED <<setup, team, event, done, faults>>

(* foldPlatformBenchmark: claimed first, merged after. *)
BenchmarkClaim(c) ==
  /\ At(c, "profiles") /\ calls[c].todo = {}
  /\ IF run.contributed THEN UNCHANGED run /\ Goto(c, "mailClaim")
     ELSE run' = [run EXCEPT !.contributed = TRUE] /\ Goto(c, "merge")
  /\ UNCHANGED <<setup, team, event, done, faults>>

Merge(c) ==
  /\ At(c, "merge")
  /\ done' = [done EXCEPT !.merges = @ + 1]
  /\ Goto(c, "mailClaim")
  /\ UNCHANGED <<setup, run, team, event, faults>>

(* sendRunSummaryEmailOnce: not for self-guided runs; claimed, then sent. *)
MailClaim(c) ==
  /\ At(c, "mailClaim")
  /\ IF setup.solo \/ run.mailed THEN UNCHANGED run /\ Leave(c)
     ELSE run' = [run EXCEPT !.mailed = TRUE] /\ Goto(c, "mail") /\ UNCHANGED event
  /\ UNCHANGED <<setup, team, done, faults>>

Mail(c) ==
  /\ At(c, "mail")
  /\ done' = [done EXCEPT !.mails = @ + 1]
  /\ Leave(c)
  /\ UNCHANGED <<setup, run, team, faults>>

(* Each concern is caught on its own: the next one still runs. *)
ConcernFails(c) ==
  /\ faults < MaxFaults /\ faults' = faults + 1
  /\ \/ At(c, "profiles") /\ calls[c].todo = {} /\ Goto(c, "mailClaim") /\ UNCHANGED event
     \/ At(c, "merge") /\ Goto(c, "mailClaim") /\ UNCHANGED event
     \/ (At(c, "mailClaim") \/ At(c, "mail")) /\ Leave(c)
  /\ UNCHANGED <<setup, run, team, done>>

(* The process dies.  An event whose handler dies is delivered again. *)
Crash(c) ==
  /\ ~At(c, "idle") /\ faults < MaxFaults
  /\ faults' = faults + 1
  /\ End(c)
  /\ event' = IF c = Platform THEN [event EXCEPT !.left = @ + 1] ELSE event
  /\ UNCHANGED <<setup, run, team, done>>

-----------------------------------------------------------------------------

Play(c) ==
  \/ \E t \in setup.teams, b \in BOOLEAN : Complete(c, t, b) \/ HoldRead(c, t, b)
  \/ \E t \in setup.teams : Adjust(c, t) \/ TimeUp(c, t)
  \/ \E r \in Refreshes : RefreshRead(c, r)
  \/ FinalizeRun(c)

Continue(c) ==
  \/ \E t \in setup.teams : HoldWrite(c, t) \/ ResumeWrite(c, t)
  \/ SnapRead(c) \/ SnapTeams(c) \/ SnapWrite(c)
  \/ RefreshTeams(c) \/ RefreshWrite(c)
  \/ SoloRead(c) \/ SoloTeams(c)
  \/ FinalRead(c) \/ FinalTeams(c) \/ FinalWrite(c)
  \/ \E t \in setup.teams : Settle(c, t) \/ Fold(c, t)
  \/ Consolidate(c) \/ BenchmarkClaim(c) \/ Merge(c) \/ MailClaim(c) \/ Mail(c)

Fail(c) ==
  \/ \E t \in setup.teams : SettleFails(c, t) \/ FoldFails(c, t)
  \/ ConsolidateFails(c) \/ ConcernFails(c)
  \/ Crash(c)

Next ==
  \/ \E c \in Procs : Play(c) \/ Continue(c) \/ Fail(c)
  \/ Deliver

Spec == Init /\ [][Next]_vars

(* A call that began goes on unless it dies, and an event is delivered.    *)
LiveSpec == Spec /\ \A c \in Procs : WF_vars(Continue(c)) /\ WF_vars(Deliver)

-----------------------------------------------------------------------------
(* Properties.                                                             *)

Ranks == [Teams -> [score : 0 .. MaxScore, heldMs : 0 .. MaxHolds, finished : BOOLEAN]]

(* Documents and calls keep their shape; nobody outside the run is scored, *)
(* held or recorded, and a running consolidation means a finished run.     *)
TypeOK ==
  /\ setup \in Setups
  /\ run \in [status : {"live", "finished"}, contributed : BOOLEAN, mailed : BOOLEAN,
              board : [rank : Ranks, frozen : BOOLEAN, published : BOOLEAN]]
  /\ team \in [Teams -> [score : 0 .. MaxScore, finished : BOOLEAN, held : BOOLEAN,
                         heldMs : 0 .. MaxHolds, recorded : BOOLEAN]]
  /\ \A c \in Procs : calls[c].seen \in Ranks /\ calls[c].todo \subseteq setup.teams
  /\ \A c \in Procs : calls[c].pc \in {"consolidate", "profiles", "merge", "mailClaim", "mail"}
                        => run.status = "finished"
  /\ event \in [pending : BOOLEAN, rank : Ranks, left : 0 .. MaxDeliveries]
  /\ faults \in 0 .. MaxFaults

(* The profile banks the FINAL score: one that some final board showed,    *)
(* never a number read before the board was made.                          *)
BankedIsRanked ==
  \A t \in Teams : \A p \in done.banked[t] : \E b \in done.finals : b[t].score = p

(* No interval of a hold is settled twice, whatever resume, a second       *)
(* finalize and a new hold do between the read and the write of a settle.  *)
IntervalsOnce ==
  \A t \in Teams : team[t].heldMs + (IF team[t].held THEN 1 ELSE 0) <= done.holds[t]

(* "Safe, not a hazard": inline consolidation, the trigger, a second       *)
(* delivery of it, a second finalize and a crash in any of them together   *)
(* fold each profile once and from a final board, merge the benchmark      *)
(* once, send one mail, and settle no hold twice.                          *)
ConsolidatedOnce ==
  /\ \A t \in Teams : done.folds[t] <= 1
  /\ done.merges <= 1 /\ done.mails <= 1
  /\ BankedIsRanked
  /\ IntervalsOnce

(* "A frozen board means stop updating the reveal": no automatic snapshot, *)
(* whenever it began, changes the standings of a frozen board.             *)
FrozenBoardStands ==
  [][run.board.frozen /\ run'.board.rank # run.board.rank =>
       \E c \in Procs : RefreshWrite(c) \/ FinalWrite(c)]_vars

(* Every team the final board shows at the finish gets its result recorded: *)
(* two independent attempts, so one fault is survived where triggers run.  *)
(* A racing second finalize whose board differs is no transition of the    *)
(* run's status: what only that board shows has the inline attempt alone.  *)
FinishersRecorded ==
  \A t \in Teams :
    run.status = "finished" /\ run.board.rank[t].finished
      ~> \/ team[t].recorded
         \/ faults > 0 /\ (~setup.triggers \/ Cardinality(done.finals) > 1)

(* A solo run has nobody to end it: once its player is through, it ends by *)
(* itself.                                                                 *)
SoloRunEnds ==
  setup.solo /\ (\A t \in setup.teams : team[t].finished)
    ~> run.status = "finished" \/ faults > 0

(* A completion is on the final board or was refused: the re-read of the   *)
(* run's status in its transaction "closes the window the pre-txn guard    *)
(* only narrows".                                                          *)
FinalBoardComplete ==
  run.status = "finished" => \A t \in setup.teams : run.board.rank[t].score = team[t].score

(* "A re-finish, or a manual finalize racing the auto path, is a no-op     *)
(* rather than a second status:'finished' write."                          *)
SecondFinalizeIsNoop ==
  [][run.status = "finished" => ~ \E c \in Procs : FinalWrite(c)]_vars

(* "Preserve the previous published flag unless explicitly changed": what  *)
(* was published stays so unless an organizer takes it back.               *)
RevealStands ==
  [][run.board.published => run'.board.published]_vars

(* "A hold must not outlive the run." *)
HoldEndsWithRun ==
  run.status = "finished" => \A t \in setup.teams : ~team[t].held

(* "Last-write-wins is always a correct board": a snapshot never takes a   *)
(* score back that the board already showed.                               *)
BoardNeverGoesBack ==
  [][\A t \in Teams : run.board.rank[t].score <= run'.board.rank[t].score]_vars
=============================================================================
