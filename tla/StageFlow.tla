----------------------------- MODULE StageFlow -----------------------------
(***************************************************************************)
(* The rules that carry ONE team through its stages: unlock gates,         *)
(* exclusive groups, benched missions, partial stages, the retirement of   *)
(* missions the team can no longer reach, and the operator's tools (skip a *)
(* mission, skip a stage, close a mission, force-assign, send back).       *)
(*                                                                         *)
(* StationSlots models how the calls interleave and what they reserve;     *)
(* here every call is its transaction on the team document, so that what   *)
(* a sequence of legal calls adds up to can be explored in full.  Station  *)
(* capacity is abstracted to a choice: a claim may be refused.  Scores,    *)
(* pauses, time windows and holds are not modelled; isFinal is where       *)
(* the Builder leaves it, on the last stage or nowhere.                    *)
(*                                                                         *)
(* Code: packages/shared/src/{gating,mutualExclusion,taskSkip,teamRewind}  *)
(* .ts, functions/src/runs/{helpers,index}.ts.                             *)
(***************************************************************************)
EXTENDS Integers, Sequences, FiniteSets

CONSTANTS
  Missions,   \* every mission of every game template
  Games,      \* the game templates a run may be launched from
  ToolSets    \* the sets of operator tools a run may see in use

AllTools == {"skip", "skipStage", "close", "force", "override", "return"}

(* A stage without requiredTaskCount asks for every mission it has. *)
Unset == -1

(* A template as stagesProblems lets it be saved: gates stay inside the    *)
(* stage and do not wait for one another in a circle, and a required count *)
(* is positive.                                                            *)
GamesAssumption ==
  \A g \in Games :
    /\ g.tasks \in Seq(SUBSET Missions) /\ Len(g.tasks) >= 1
    /\ \A i, j \in DOMAIN g.tasks : i # j => g.tasks[i] \cap g.tasks[j] = {}
    /\ g.gate \in [Missions -> SUBSET Missions]
    /\ \A i \in DOMAIN g.tasks : \A m \in g.tasks[i] : g.gate[m] \subseteq g.tasks[i] \ {m}
    /\ \A i \in DOMAIN g.tasks : \A S \in (SUBSET g.tasks[i]) \ {{}} :
         \E m \in S : g.gate[m] \cap S = {}
    /\ g.groups \in Seq(SUBSET Missions)
    /\ g.required \in [DOMAIN g.tasks -> {Unset} \cup (Nat \ {0})]
    /\ g.benched \subseteq Missions
    /\ \A i \in DOMAIN g.tasks : g.tasks[i] \ g.benched # {}
    /\ g.timed \subseteq Missions
ASSUME GamesAssumption

ASSUME ToolsAssumption == ToolSets \subseteq SUBSET AllTools
ASSUME MissionsAssumption == IsFiniteSet(Missions)

VARIABLES
  game,     \* the template; it cannot change mid-run
  tools,    \* the operator tools in use in this run
  closed,   \* run.taskStatusOverrides: the missions an organizer closed
  doc       \* the team document

vars == <<game, tools, closed, doc>>

Causes == {"none", "operator", "operatorStage", "exclusive",
           "timeLimit", "unreachable", "stageSatisfied"}

Open     == {"unassigned", "assigned"}
Terminal == {"completed", "skipped"}

-----------------------------------------------------------------------------
(* Stages and missions of the template.                                    *)

Stages      == DOMAIN game.tasks
InGame      == UNION {game.tasks[s] : s \in Stages}
StageOf(m)  == CHOOSE s \in Stages : m \in game.tasks[s]

(* playableTasks: the missions that have a record in the run. *)
Playable(s) == game.tasks[s] \ game.benched

(* A record's status; a mission without one reads as unassigned. *)
With(d, S, st, why) ==
  [d EXCEPT !.status = [m \in Missions |-> IF m \in S THEN st ELSE @[m]],
            !.cause  = [m \in Missions |-> IF m \in S THEN why ELSE @[m]]]

Those(d, S, st) == {m \in S : d.status[m] = st}

ActiveStages(d) == {s \in Stages : d.stage[s] = "active"}
InHand(d)       == UNION {Those(d, Playable(s), "assigned") : s \in ActiveStages(d)}

AllDone(d) == \A s \in Stages : d.stage[s] = "completed"

(* `...(allDone ? { status: 'finished' } : {})`, in every write. *)
Stamped(d) == [d EXCEPT !.finished = @ \/ AllDone(d)]

NormalRequired(stored, n) == IF stored = Unset \/ stored > n THEN n ELSE stored

-----------------------------------------------------------------------------
(* mutualExclusion.ts *)

(* The groups that have an effect among the missions of `known`: an id that *)
(* an earlier group claimed is dropped, and a group left with fewer than    *)
(* two is inert and claims nothing.                                         *)
EffectiveGroups(known) ==
  LET left(i, claimed) == (game.groups[i] \cap known) \ claimed
      claimed[i \in 0 .. Len(game.groups)] ==
        IF i = 0 THEN {}
        ELSE claimed[i - 1] \cup
             (IF Cardinality(left(i, claimed[i - 1])) >= 2 THEN left(i, claimed[i - 1]) ELSE {})
  IN  {g \in {left(i, claimed[i - 1]) : i \in DOMAIN game.groups} : Cardinality(g) >= 2}

(* The alternatives of m.  A benched mission is nobody's, and keeps no     *)
(* group alive.                                                            *)
Siblings(m) ==
  (UNION {g \in EffectiveGroups(Playable(StageOf(m))) : m \in g}) \ {m}

MaxCompletable(known, available) ==
  LET groups == EffectiveGroups(known)
  IN  Cardinality((known \ UNION groups) \cap available)
        + Cardinality({g \in groups : g \cap available # {}})

-----------------------------------------------------------------------------
(* gating.ts *)

(* Completed, or skipped by an operator who named this mission. *)
SatisfiesGate(d, m) ==
  \/ d.status[m] = "completed"
  \/ d.status[m] = "skipped" /\ d.cause[m] = "operator"

Satisfied(d) == {m \in InGame \ game.benched : SatisfiesGate(d, m)}

Unlocked(d, m) == game.gate[m] \subseteq Satisfied(d)

(* MUTANT of Alive: what the team is holding is not a seed. *)
AliveWithoutHeld(d, s) ==
  LET T    == game.tasks[s]
      seed == {m \in T : SatisfiesGate(d, m)}
      grown[i \in 0 .. Cardinality(T)] ==
        IF i = 0 THEN seed
        ELSE grown[i - 1] \cup {m \in Those(d, T, "unassigned") : game.gate[m] \subseteq grown[i - 1]}
  IN  grown[Cardinality(T)]

(* The missions that can still be completed, as a least fixpoint from what *)
(* is in hand or satisfies a gate.                                         *)
Alive(d, s) ==
  LET T    == game.tasks[s]
      seed == {m \in T : d.status[m] = "assigned" \/ SatisfiesGate(d, m)}
      grown[i \in 0 .. Cardinality(T)] ==
        IF i = 0 THEN seed
        ELSE grown[i - 1] \cup {m \in Those(d, T, "unassigned") : game.gate[m] \subseteq grown[i - 1]}
  IN  grown[Cardinality(T)]

Unreachable(d, s) == Those(d, game.tasks[s], "unassigned") \ Alive(d, s)

-----------------------------------------------------------------------------
(* helpers.ts: applyStageCompletion *)

(* MUTANT of Retired: dead missions stay unassigned. *)
NothingRetired(d, s) == d

Retired(d, s) == With(d, Unreachable(d, s) \cap Playable(s), "skipped", "unreachable")

(* MUTANT of StageDone: one completion more than required is waited for. *)
StageDoneLate(d, s) ==
  \/ Cardinality(Those(d, Playable(s), "completed"))
       > NormalRequired(d.required[s], Cardinality(Playable(s)))
  \/ \A m \in Playable(s) : d.status[m] \in Terminal

StageDone(d, s) ==
  \/ Cardinality(Those(d, Playable(s), "completed"))
       >= NormalRequired(d.required[s], Cardinality(Playable(s)))
  \/ \A m \in Playable(s) : d.status[m] \in Terminal

(* MUTANT of OpenNext: the next stage stays locked. *)
CompleteOnly(stage, s) == [stage EXCEPT ![s] = "completed"]

OpenNext(stage, s) ==
  [i \in DOMAIN stage |-> IF i = s THEN "completed" ELSE IF i = s + 1 THEN "active" ELSE stage[i]]

Settle(d, s) ==
  LET r == Retired(d, s)
      leftovers == {m \in Playable(s) : r.status[m] \in Open}
  IN  IF StageDone(r, s)
      THEN [With(r, leftovers, "skipped", "stageSatisfied") EXCEPT !.stage = OpenNext(@, s)]
      ELSE r

(* returnTeamTo's loop: settle the reactivated stage and each stage that   *)
(* settling activates in turn.                                             *)
SettleFrom(d, t) ==
  LET settled[i \in (t - 1) .. Len(game.tasks)] ==
        IF i = t - 1 THEN d
        ELSE IF settled[i - 1].stage[i] = "active" THEN Settle(settled[i - 1], i)
        ELSE settled[i - 1]
  IN  settled[Len(game.tasks)]

-----------------------------------------------------------------------------
(* taskSkip.ts: what skipping m does to the team's stage.  It reads the    *)
(* GAME stage, benched missions included.                                  *)
PlanSkip(d, m) ==
  LET s         == StageOf(m)
      ids       == game.tasks[s]
      after     == With(d, {m}, "skipped", "operator")
      gone      == Those(after, ids, "skipped") \cup Unreachable(after, s)
      attain    == MaxCompletable(ids, ids \ gone)
      needed    == NormalRequired(d.required[s], Cardinality(ids))
      lowered   == IF needed < attain THEN needed ELSE attain
      remaining == {x \in ids \ gone : after.status[x] \in Open}
  IN  [required  |-> lowered,
       completes |-> \/ Cardinality(Those(d, ids, "completed")) >= lowered
                     \/ remaining = {}]

(* MUTANT of SkipWritten: no cause is stamped. *)
SkipWithoutCause(d, m) ==
  [With(d, {m}, "skipped", "none") EXCEPT !.required[StageOf(m)] = PlanSkip(d, m).required]

(* The record and the requirement that a skip or a closure writes. *)
SkipWritten(d, m) ==
  [With(d, {m}, "skipped", "operator") EXCEPT !.required[StageOf(m)] = PlanSkip(d, m).required]

-----------------------------------------------------------------------------
(* teamRewind.ts *)

(* MUTANT of Rewound: later stages are not locked again. *)
RewoundKeepingLater(d, t) ==
  [d EXCEPT !.stage[t] = "active", !.required[t] = game.required[t]]

(* Later stages wait again with their records kept, what the team held in  *)
(* them is released, and the template's requirement comes back.            *)
Rewound(d, t) ==
  LET held == UNION {Those(d, Playable(s), "assigned") : s \in {i \in Stages : i > t}}
  IN  [d EXCEPT !.stage    = [s \in Stages |-> IF s = t THEN "active"
                                               ELSE IF s > t THEN "locked" ELSE @[s]],
                !.required[t] = game.required[t],
                !.status   = [m \in Missions |-> IF m \in held THEN "unassigned" ELSE @[m]]]

(* MUTANT of Raised: the requirement stays at the template's. *)
NotRaised(d, t) == d

(* A mission sent back to counts: the requirement rises to make room for it. *)
Raised(d, t) ==
  LET done == Cardinality(Those(d, Playable(t), "completed"))
      size == Cardinality(Playable(t))
      need == IF d.required[t] = Unset THEN size ELSE d.required[t]
      more == IF done + 1 < size THEN done + 1 ELSE size
  IN  IF done >= need THEN [d EXCEPT !.required[t] = more] ELSE d

Reopenable(why) == why \in {"none", "operator", "operatorStage", "stageSatisfied", "unreachable"}

ReopenedMission(d, m) ==
  LET t    == StageOf(m)
      r    == Rewound(d, t)
      away == Those(r, Playable(t), "assigned") \ {m}
  IN  Raised(With(With(r, away, "unassigned", "none"), {m}, "unassigned", "none"), t)

ReopenedStage(d, t) ==
  With(Rewound(d, t),
       {m \in Those(d, Playable(t), "skipped") : Reopenable(d.cause[m])},
       "unassigned", "none")

(* A team sent back is finished only if settling completes every stage. *)
Restamped(d) == [d EXCEPT !.finished = AllDone(d)]

-----------------------------------------------------------------------------
(* buildInitialStages: benched missions get no record, and the required    *)
(* count is clamped to what the stage really has.                          *)
ClampedRequired(g, s) ==
  LET n == Cardinality(g.tasks[s] \ g.benched)
  IN  IF g.required[s] = Unset THEN Unset ELSE NormalRequired(g.required[s], n)

Init ==
  /\ game \in Games
  /\ tools \in ToolSets
  /\ closed = {}
  /\ doc = [stage    |-> [s \in Stages |-> IF s = 1 THEN "active" ELSE "locked"],
            required |-> [s \in Stages |-> ClampedRequired(game, s)],
            status   |-> [m \in Missions |-> "unassigned"],
            cause    |-> [m \in Missions |-> "none"],
            finished |-> FALSE]

Writes(d) == doc' = Stamped(d) /\ UNCHANGED <<game, tools, closed>>

(* The poll's heal: a team with nothing in hand whose stage holds missions *)
(* it can never reach has its stage settled.                               *)
Healed(d) ==
  IF InHand(d) = {} /\ \E s \in ActiveStages(d) : Unreachable(d, s) # {}
  THEN Stamped(Settle(d, CHOOSE s \in ActiveStages(d) : TRUE))
  ELSE d

Heal == Healed(doc) # doc /\ Writes(Healed(doc))

(* Routing's filter, capacity apart. *)
Candidates(d) ==
  {m \in UNION {Those(d, Playable(s), "unassigned") : s \in ActiveStages(d)} :
     m \notin closed /\ Unlocked(d, m)}

(* requestNextTask, after the heal found nothing to do. *)
Assign(m) ==
  /\ InHand(doc) = {} /\ Healed(doc) = doc
  /\ m \in Candidates(doc)
  /\ Writes(With(doc, {m}, "assigned", "none"))

(* MUTANT of CanComplete: an alternative may be completed already. *)
CanCompleteAlternative(d, m) ==
  /\ m \in UNION {Playable(s) : s \in ActiveStages(d)} /\ d.status[m] \in Open
  /\ Unlocked(d, m)

(* completeTaskForTeam: an open mission of the active stage, unlocked, no  *)
(* alternative of it completed.  It need not be the one in hand: a photo   *)
(* may be approved after the team was moved on.                            *)
CanComplete(d, m) ==
  /\ m \in UNION {Playable(s) : s \in ActiveStages(d)} /\ d.status[m] \in Open
  /\ Unlocked(d, m)
  /\ \A x \in Siblings(m) : d.status[x] # "completed"

Complete(m) ==
  /\ CanComplete(doc, m)
  /\ LET s    == StageOf(m)
         lost == {x \in Siblings(m) \cap Playable(s) : doc.status[x] \in Open}
         d    == With(With(doc, {m}, "completed", "none"), lost, "skipped", "exclusive")
     IN  Writes(Settle(d, s))

(* sweepExpiredInFlight: this team's countdown on the mission ran out. *)
TimeUp(m) ==
  /\ m \in InHand(doc) \cap game.timed
  /\ Writes(Settle(With(doc, {m}, "skipped", "timeLimit"), StageOf(m)))

SkipTask(m) ==
  /\ "skip" \in tools
  /\ m \in UNION {Playable(s) : s \in ActiveStages(doc)} /\ doc.status[m] \in Open
  /\ Writes(Settle(SkipWritten(doc, m), StageOf(m)))

(* Every record not completed gets the stage skip's cause, the ones that   *)
(* were skipped before included.                                           *)
SkipStage(s) ==
  /\ "skipStage" \in tools /\ s \in ActiveStages(doc)
  /\ Writes([With(doc, {m \in Playable(s) : doc.status[m] # "completed"}, "skipped", "operatorStage")
               EXCEPT !.stage = OpenNext(@, s)])

(* setRunTaskStatus(closed) and closeTaskForAllTeams for this team: a      *)
(* mission of any stage, settled only where the stage is active.           *)
Close(m) ==
  /\ "close" \in tools /\ m \in InGame \ closed
  /\ closed' = closed \cup {m} /\ UNCHANGED <<game, tools>>
  /\ LET s == StageOf(m)
         d == SkipWritten(doc, m)
     IN  doc' = IF m \notin Playable(s) \/ doc.status[m] \notin Open THEN doc
                ELSE Stamped(IF doc.stage[s] = "active" THEN Settle(d, s) ELSE d)

(* setRunTaskStatus(active): the override goes, the records stay. *)
Reopen(m) ==
  /\ "close" \in tools /\ m \in closed
  /\ closed' = closed \ {m} /\ UNCHANGED <<game, tools, doc>>

(* forceAssignTask: what the team was holding goes back to unassigned;     *)
(* `override` sets the unlock gate aside.                                  *)
ForceAssign(m, override) ==
  /\ (IF override THEN "override" ELSE "force") \in tools
  /\ m \in (UNION {Those(doc, Playable(s), "unassigned") : s \in ActiveStages(doc)}) \ closed
  /\ override \/ Unlocked(doc, m)
  /\ Writes(With(With(doc, InHand(doc), "unassigned", "none"), {m}, "assigned", "none"))

Returns(d) == doc' = Restamped(d) /\ UNCHANGED <<game, tools, closed>>

(* returnTeamTo a mission.  The claim may be refused (a full station), and *)
(* always is for a closed mission: the mission is then left to routing.    *)
CanReturn(m) ==
  /\ m \in UNION {Playable(s) : s \in Stages} /\ doc.status[m] \in Terminal
  /\ doc.stage[StageOf(m)] # "locked"

Returned(d, m, claimed) ==
  LET r == ReopenedMission(d, m)
  IN  SettleFrom(IF claimed THEN With(r, {m}, "assigned", "none") ELSE r, StageOf(m))

ReturnToTask(m, claimed) ==
  /\ "return" \in tools /\ CanReturn(m)
  /\ claimed => m \notin closed
  /\ Returns(Returned(doc, m, claimed))

ReturnToStage(t) ==
  /\ "return" \in tools
  /\ t \in Stages /\ doc.stage[t] # "locked"
  /\ Returns(SettleFrom(ReopenedStage(doc, t), t))

Next ==
  \/ Heal
  \/ \E m \in Missions : Assign(m) \/ Complete(m) \/ TimeUp(m)
  \/ \E m \in Missions : SkipTask(m) \/ Close(m) \/ Reopen(m)
  \/ \E m \in Missions, b \in BOOLEAN : ForceAssign(m, b) \/ ReturnToTask(m, b)
  \/ \E s \in Stages : SkipStage(s)
  \/ \E s \in Stages : ReturnToStage(s)

Spec == Init /\ [][Next]_vars

(* A run without closures and send-backs: nothing taken away for good, and *)
(* nobody moved backwards.                                                 *)
Routine == tools \cap {"close", "return"} = {}

(* A phone polls while its team plays, and a team finishes what it holds.  *)
(* Only routine runs need it: TeamFinishes is about them.                  *)
LiveSpec ==
  /\ Spec
  /\ WF_vars(Routine /\ Heal)
  /\ WF_vars(Routine /\ \E m \in InGame : Assign(m))
  /\ WF_vars(Routine /\ \E m \in InHand(doc) : Complete(m))

-----------------------------------------------------------------------------
(* Properties.                                                             *)

(* The team document keeps its shape: one status and one cause per mission,*)
(* a cause exactly on what was skipped, benched missions never touched.    *)
TypeOK ==
  /\ game \in Games /\ tools \in ToolSets /\ closed \subseteq InGame
  /\ doc.stage \in [Stages -> {"locked", "active", "completed"}]
  /\ doc.required \in [Stages -> {Unset} \cup Nat]
  /\ doc.status \in [Missions -> Open \cup Terminal]
  /\ doc.cause \in [Missions -> Causes]
  /\ doc.finished \in BOOLEAN
  /\ \A m \in Missions : doc.status[m] = "skipped" <=> doc.cause[m] # "none"
  /\ \A m \in game.benched : doc.status[m] = "unassigned"

(* Stages are played in order whatever the operators do, send-back and     *)
(* stage skip included: everything before the active stage is completed,   *)
(* everything after it locked, and the team is finished exactly when no    *)
(* stage is left.  Nothing is left open behind the team, and nothing is in *)
(* its hands outside the active stage, where it holds one mission at most: *)
(* a record assigned elsewhere is a station slot nobody gives back.        *)
StagesInOrder ==
  \E k \in 1 .. Len(game.tasks) + 1 :
    /\ \A s \in Stages : doc.stage[s] = IF s < k THEN "completed"
                                         ELSE IF s = k THEN "active" ELSE "locked"
    /\ doc.finished <=> k = Len(game.tasks) + 1
    /\ \A s \in 1 .. k - 1 : \A m \in Playable(s) : doc.status[m] \in Terminal
    /\ \A s \in Stages \ {k} : Those(doc, game.tasks[s], "assigned") = {}
    /\ Cardinality(InHand(doc)) <= 1

(* "A team may complete at most ONE" of a set of alternatives, through     *)
(* force-assignments, late photo approvals and send-backs alike.           *)
OneAlternative ==
  \A s \in Stages : \A g \in EffectiveGroups(Playable(s)) :
    Cardinality(Those(doc, g, "completed")) <= 1

(* The fixpoint of unreachableTaskIds against its meaning: a mission of the *)
(* active stage is retired exactly when no set of missions the team could   *)
(* still work through, closed under what each waits for, contains it.       *)
RetiresOnlyTheDead ==
  \A s \in ActiveStages(doc) : \A m \in Those(doc, game.tasks[s], "unassigned") :
    m \in Unreachable(doc, s) <=>
      ~ \E S \in SUBSET {x \in game.tasks[s] : doc.status[x] \in Open \/ SatisfiesGate(doc, x)} :
          /\ m \in S
          /\ \A x \in S : doc.status[x] = "unassigned" => game.gate[x] \subseteq S

(* The console's preview tells the truth: planTaskSkip says the stage ends *)
(* exactly when applying the skip ends it ("so the plan and the write      *)
(* agree").  Stages with benched missions are left out: there it does not. *)
PlanTellsTheOutcome ==
  \A s \in ActiveStages(doc) : game.tasks[s] \cap game.benched = {} =>
    \A m \in game.tasks[s] : doc.status[m] \in Open =>
      (PlanSkip(doc, m).completes
         <=> Settle(SkipWritten(doc, m), s).stage[s] = "completed")

(* A team that is not finished has a mission in hand, or its next poll     *)
(* gives it one or moves it on.  A station being full is not counted.      *)
NeverStuck ==
  \/ doc.finished \/ InHand(doc) # {}
  \/ Healed(doc) # doc \/ Candidates(doc) # {}

NoGateOnBenched == \A m \in InGame \ game.benched : game.gate[m] \cap game.benched = {}

(* In a run without closures and send-backs no sequence of completions,    *)
(* skips, expiries and force-assignments strands a team, whatever gates,   *)
(* alternatives and partial counts the stage combines.                     *)
RoutineNeverStrands == Routine /\ NoGateOnBenched => NeverStuck

(* What a team holds it can also complete: its gate is open and no         *)
(* alternative of it is done.                                              *)
HeldCanBeCompleted == \A m \in InHand(doc) : CanComplete(doc, m)

(* The operator's intent wins: a team sent back to a mission that could be *)
(* claimed is on it afterwards, in the active stage; settling the stage    *)
(* does not skip it again at once.                                         *)
SentBackStaysThere ==
  "return" \in tools =>
    \A m \in InGame \ closed : CanReturn(m) =>
      LET d == Returned(doc, m, TRUE)
      IN  InHand(d) = {m} /\ d.stage[StageOf(m)] = "active"

(* Under routine tools every team that keeps playing finishes.             *)
TeamFinishes == Routine /\ NoGateOnBenched /\ "override" \notin tools => <>doc.finished
=============================================================================
