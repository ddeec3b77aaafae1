---------------------------- MODULE StationSlots ----------------------------
(***************************************************************************)
(* Station capacity and mission records of one run.                        *)
(*                                                                         *)
(* A run document carries `taskCounts`, the number of teams each station   *)
(* is taking, and `taskStatusOverrides`; a team document carries the       *)
(* team's mission records, its stages and `activeTaskId`.  The callables   *)
(* of functions/src/runs touch the two documents in steps of their own:    *)
(* a plain read, a transaction on the run, a transaction on the team, a    *)
(* plain update, a release after the commit.  Every such step is one       *)
(* action here, and any number of calls may be between two of them.        *)
(*                                                                         *)
(* Scope: games without unlock gates, exclusive groups and scheduled       *)
(* releases (in them the unlock and heal branches of assignNext do         *)
(* nothing), and a scoring preset that pays points.                        *)
(***************************************************************************)
EXTENDS Integers, FiniteSets

CONSTANTS
  Tasks,          \* the playable missions of the game
  Teams,          \* the teams of the run
  Calls,          \* server calls that may be in flight at the same time
  NumStages,      \* stages are 1 .. NumStages, in their authored order
  StageOf,        \* the stage of each mission
  Required,       \* per stage, the completions buildInitialStages asks for
  Cap,            \* maxConcurrentTeams of each mission
  Locationless,   \* missions no cap applies to
  Expirable,      \* missions with a closing time
  TimeLimited,    \* missions with a countdown of the team's own
  Tools,          \* which entry points the environment uses
  Serial,         \* TRUE: at most one call at a time works on a team
  MaxLeaks,       \* bound: slots per mission that crashes may leak
  NoTask, NoTeam, None   \* "no value" of a mission, a team, a document copy

Stages   == 1 .. NumStages
Statuses == {"active", "paused", "closed"}
RecordStates == {"unassigned", "assigned", "completed", "skipped"}
AllTools == {"start", "next", "complete", "skipTask", "skipStage", "force",
             "checkOut", "status", "sweep", "finalize", "crash"}

ASSUME ConstantsAssumption ==
  /\ IsFiniteSet(Tasks) /\ IsFiniteSet(Teams) /\ IsFiniteSet(Calls)
  /\ NumStages \in Nat \ {0} /\ MaxLeaks \in Nat
  /\ StageOf \in [Tasks -> Stages]
  /\ Required \in [Stages -> Nat]
  /\ Cap \in [Tasks -> Nat \ {0}]
  /\ Locationless \subseteq Tasks
  /\ Expirable \subseteq Tasks /\ TimeLimited \subseteq Tasks
  /\ Tools \subseteq AllTools /\ Serial \in BOOLEAN
  /\ NoTask \notin Tasks /\ NoTeam \notin Teams /\ None \notin [Tasks -> Nat]

\* buildInitialStages asks for at least one completion of a stage with missions.
ASSUME RequirementAssumption == \A k \in Tasks : Required[StageOf[k]] >= 1

VARIABLES
  \* the run document
  runStatus, counts, override, expired,
  \* the team documents
  rec, stages, req, active, launched, paid, earned,
  \* the calls in flight: where each is, and its local variables
  pc, team, task, open, owed, after, draft, closing, todo,
  \* what a finalize in progress has read
  final,
  \* history: slots lost with a crashed call, the teams a closure missed
  leaked, missed

runVars  == <<runStatus, counts, override, expired, final>>
teamVars == <<rec, stages, req, active, launched, paid, earned>>
callVars == <<pc, team, task, open, owed, after, draft, closing, todo>>
history  == <<leaked, missed>>
vars     == <<runVars, teamVars, callVars, history>>

-----------------------------------------------------------------------------
(* Reading a team document *)

StageTasks(s)  == {k \in Tasks : StageOf[k] = s}
Terminal(st)   == st \in {"completed", "skipped"}
InState(r, s, st) == {k \in StageTasks(s) : r[k] = st}

\* findIndex(status === 'active')
IsActiveStage(st, s) ==
  st[s] = "active" /\ \A u \in Stages : u < s => st[u] # "active"
HasActiveStage(st) == \E s \in Stages : st[s] = "active"

Lesser(a, b) == IF a < b THEN a ELSE b

\* applyStageCompletion: a stage is done at its required completions, or when
\* no mission of it is left to play ...
StageDone(r, s, n) ==
  \/ Cardinality(InState(r, s, "completed"))
        >= Lesser(n, Cardinality(StageTasks(s)))
  \/ \A k \in StageTasks(s) : Terminal(r[k])

\* Mutant: the completion releases no leftovers.
NoLeftovers(r, s, n) == {}
\* ... its leftovers are then skipped, and the next stage opens.
Leftovers(r, s, n) ==
  IF StageDone(r, s, n) THEN InState(r, s, "assigned") ELSE {}
SettleRecords(r, s, n) ==
  IF StageDone(r, s, n)
  THEN [k \in Tasks |->
          IF StageOf[k] = s /\ r[k] # "completed" THEN "skipped" ELSE r[k]]
  ELSE r
\* Mutant: the next stage is not opened.
CompleteOnly(st, s) == [u \in Stages |-> IF u = s THEN "completed" ELSE st[u]]
OpenNext(st, s) ==
  [u \in Stages |-> IF u = s THEN "completed"
                    ELSE IF u = s + 1 THEN "active" ELSE st[u]]
\* Mutant: the stage is not looked at.
LeaveStages(st, r, s, n) == st
SettleStages(st, r, s, n) == IF StageDone(r, s, n) THEN OpenNext(st, s) ELSE st

\* planTaskSkip: the requirement once mission k is gone, lowered to what the
\* team can still complete.
LoweredRequirement(r, s, n, k) ==
  Lesser(Lesser(n, Cardinality(StageTasks(s))),
         Cardinality({j \in StageTasks(s) \ {k} : r[j] # "skipped"}))

Finished(t) == \A s \in Stages : stages[t][s] = "completed"

HoldersOf(k) == {t \in Teams : rec[t][k] = "assigned"}

(* Reading the run document *)

HasRoom(k)    == k \in Locationless \/ counts[k] < Cap[k]
Assignable(k) == override[k] = "active"
Decremented(K) ==
  [k \in Tasks |-> IF k \in K /\ counts[k] > 0 THEN counts[k] - 1
                   ELSE counts[k]]

\* Mutant: the counters are archived as they are.
NotReconciled == counts
\* reconcileTaskCounts: a team holds a slot iff its activeTaskId is set.
Reconciled == [k \in Tasks |-> Cardinality({t \in Teams : active[t] = k})]

-----------------------------------------------------------------------------
(* The calls *)

Idle(c) == pc[c] = "idle"

\* May a call that works on team t begin?
TeamFree(t) ==
  Serial => /\ final = None
            /\ \A d \in Calls : \/ Idle(d)
                                \/ closing[d] = NoTask /\ team[d] \in Teams \ {t}
RunFree == Serial => final = None /\ \A d \in Calls : Idle(d)

Begin(c, tool, t) == Idle(c) /\ tool \in Tools /\ TeamFree(t)

\* Call c goes on at step `step`, for team t and mission k, owing slots K.
GoOn(c, step, t, k, K, next) ==
  /\ pc'    = [pc EXCEPT ![c] = step]
  /\ team'  = [team EXCEPT ![c] = t]
  /\ task'  = [task EXCEPT ![c] = k]
  /\ owed'  = [owed EXCEPT ![c] = K]
  /\ after' = [after EXCEPT ![c] = next]

\* The work on one team is over: the call returns, or a closure takes up its
\* next team.
Return(c) ==
  /\ GoOn(c, IF closing[c] = NoTask THEN "idle" ELSE "close",
          NoTeam, NoTask, {}, "return")
  /\ open'  = [open EXCEPT ![c] = {}]
  /\ draft' = [draft EXCEPT ![c] = None]

Init ==
  /\ runStatus = "active"
  /\ counts = [k \in Tasks |-> 0]
  /\ override = [k \in Tasks |-> "active"]
  /\ expired = {}
  /\ final = None
  /\ rec = [t \in Teams |-> [k \in Tasks |-> "unassigned"]]
  /\ stages = [t \in Teams |->
                 [s \in Stages |-> IF s = 1 THEN "active" ELSE "locked"]]
  /\ req = [t \in Teams |-> Required]
  /\ active = [t \in Teams |-> NoTask]
  /\ launched = [t \in Teams |-> "start" \notin Tools]
  /\ paid = [t \in Teams |-> [k \in Tasks |-> 0]]
  /\ earned = [t \in Teams |-> [k \in Tasks |-> FALSE]]
  /\ pc = [c \in Calls |-> "idle"]
  /\ team = [c \in Calls |-> NoTeam]
  /\ task = [c \in Calls |-> NoTask]
  /\ open = [c \in Calls |-> {}]
  /\ owed = [c \in Calls |-> {}]
  /\ after = [c \in Calls |-> "return"]
  /\ draft = [c \in Calls |-> None]
  /\ closing = [c \in Calls |-> NoTask]
  /\ todo = [c \in Calls |-> {}]
  /\ leaked = [k \in Tasks |-> 0]
  /\ missed = [k \in Tasks |-> {}]

-----------------------------------------------------------------------------
(* assignNextInActiveStage: read the team, sweep what expired, reserve a     *)
(* slot on the run, claim the mission on the team.                           *)

\* requestNextTask
RequestNext(c, t) ==
  /\ Begin(c, "next", t)
  /\ GoOn(c, "read", t, NoTask, {}, "return")
  /\ UNCHANGED <<runVars, teamVars, history, open, draft, closing, todo>>

\* The early returns: not launched, no active stage, a mission already in
\* hand, nothing left unassigned.
NothingToAssign(c) ==
  LET t == team[c] IN
  /\ pc[c] = "read"
  /\ \/ ~launched[t]
     \/ ~HasActiveStage(stages[t])
     \/ \E s \in Stages :
          /\ IsActiveStage(stages[t], s)
          /\ InState(rec[t], s, "assigned") \cap expired = {}
          /\ \/ InState(rec[t], s, "assigned") # {}
             \/ InState(rec[t], s, "unassigned") = {}
  /\ Return(c)
  /\ UNCHANGED <<runVars, teamVars, history, closing, todo>>

\* The candidates routing will choose among, as this read saw them.
ReadOpen(c) ==
  LET t == team[c] IN
  /\ pc[c] = "read"
  /\ launched[t]
  /\ \E s \in Stages :
       /\ IsActiveStage(stages[t], s)
       /\ InState(rec[t], s, "assigned") = {}
       /\ InState(rec[t], s, "unassigned") # {}
       /\ open' = [open EXCEPT ![c] = InState(rec[t], s, "unassigned")]
  /\ pc' = [pc EXCEPT ![c] = "reserve"]
  /\ UNCHANGED <<runVars, teamVars, history, team, task, owed, after, draft,
                 closing, todo>>

\* A closing time has passed; a countdown may be up at any moment after the
\* mission was assigned.
Lapsed == expired \cup TimeLimited

\* sweepExpiredInFlight: the team document as it will be written back.
Swept(t, s, k) ==
  LET r == [rec[t] EXCEPT ![k] = "skipped"]
      n == req[t][s]
  IN  [rec    |-> SettleRecords(r, s, n),
       stages |-> SettleStages(stages[t], r, s, n),
       req    |-> req[t],
       earned |-> [earned[t] EXCEPT ![k] = FALSE]]

\* What routing continues with after a sweep: the swept copy, not a new read.
OpenIn(d) ==
  {k \in Tasks : /\ IsActiveStage(d.stages, StageOf[k])
                 /\ d.rec[k] = "unassigned"
                 /\ InState(d.rec, StageOf[k], "assigned") = {}}

SweepInFlight(c, t, routing) ==
  \E s \in Stages : \E k \in InState(rec[t], s, "assigned") \cap Lapsed :
    LET d == Swept(t, s, k) IN
    /\ IsActiveStage(stages[t], s)
    /\ GoOn(c, "persist", t, k, {},
            IF routing /\ OpenIn(d) # {} THEN "reserve" ELSE "return")
    /\ open' = [open EXCEPT ![c] = IF routing THEN OpenIn(d) ELSE {}]
    /\ draft' = [draft EXCEPT ![c] = d]

SweepRead(c) ==
  /\ pc[c] = "read"
  /\ launched[team[c]]
  /\ SweepInFlight(c, team[c], TRUE)
  /\ UNCHANGED <<runVars, teamVars, history, closing, todo>>

\* getMyTeamState by the controller's device: the same sweep, no routing.
PollRead(c, t) ==
  /\ Begin(c, "sweep", t)
  /\ SweepInFlight(c, t, FALSE)
  /\ UNCHANGED <<runVars, teamVars, history, closing, todo>>

\* teamRef.update({ stages, activeTaskId: null }): a plain write of the copy.
Persist(c) ==
  LET t == team[c]  d == draft[c] IN
  /\ pc[c] = "persist"
  /\ rec'    = [rec EXCEPT ![t] = d.rec]
  /\ stages' = [stages EXCEPT ![t] = d.stages]
  /\ req'    = [req EXCEPT ![t] = d.req]
  /\ earned' = [earned EXCEPT ![t] = d.earned]
  /\ active' = [active EXCEPT ![t] = NoTask]
  /\ GoOn(c, "release", t, NoTask, {task[c]}, after[c])
  /\ draft'  = [draft EXCEPT ![c] = None]
  /\ UNCHANGED <<runVars, launched, paid, history, open, closing, todo>>

\* The update is refused under contention: the poll catches it, routing ends.
PersistFails(c) ==
  /\ pc[c] = "persist"
  /\ Return(c)
  /\ UNCHANGED <<runVars, teamVars, history, closing, todo>>

\* Mutant: a closed or paused mission is offered all the same.
CandidatesOfAnyStatus(c) == {k \in open[c] : k \notin expired /\ HasRoom(k)}
\* Mutant: the cap is not looked at.
CandidatesUncapped(c) == {k \in open[c] : Assignable(k) /\ k \notin expired}
\* assignTask: cap check and increment in one transaction on the run.  The
\* priority score's choice is left open.
Candidates(c) == {k \in open[c] : Assignable(k) /\ k \notin expired /\ HasRoom(k)}

Reserve(c) ==
  /\ pc[c] = "reserve"
  /\ \E k \in Candidates(c) :
       /\ counts' = [counts EXCEPT ![k] = @ + 1]
       /\ GoOn(c, "claim", team[c], k, {k}, "return")
  /\ open' = [open EXCEPT ![c] = {}]
  /\ UNCHANGED <<runStatus, override, expired, final, teamVars, history, draft,
                 closing, todo>>

\* stationsFull / allLocked / none
NoCandidate(c) ==
  /\ pc[c] = "reserve"
  /\ Candidates(c) = {}
  /\ Return(c)
  /\ UNCHANGED <<runVars, teamVars, history, closing, todo>>

\* Mutant: the claim does not look for a mission already in hand.
ClaimBlindly(c) ==
  /\ pc[c] = "claim"
  /\ rec' = [rec EXCEPT ![team[c]][task[c]] = "assigned"]
  /\ active' = [active EXCEPT ![team[c]] = task[c]]
  /\ Return(c)
  /\ UNCHANGED <<runVars, stages, req, launched, paid, earned, history,
                 closing, todo>>

\* The claim transaction re-reads the team; it looks for a mission in hand in
\* the stage it read before, and for nothing else.
Claim(c) ==
  LET t == team[c]  k == task[c] IN
  /\ pc[c] = "claim"
  /\ InState(rec[t], StageOf[k], "assigned") = {}
  /\ rec' = [rec EXCEPT ![t][k] = "assigned"]
  /\ active' = [active EXCEPT ![t] = k]
  /\ Return(c)
  /\ UNCHANGED <<runVars, stages, req, launched, paid, earned, history,
                 closing, todo>>

\* Mutant: the loser of the race keeps its reservation.
ClaimRefusedForgets(c) ==
  /\ pc[c] = "claim"
  /\ InState(rec[team[c]], StageOf[task[c]], "assigned") # {}
  /\ Return(c)
  /\ UNCHANGED <<runVars, teamVars, history, closing, todo>>

\* Lost the race, or the transaction failed: the reservation is reversed.
ClaimRefused(c) ==
  /\ pc[c] = "claim"
  /\ \/ InState(rec[team[c]], StageOf[task[c]], "assigned") # {}
     \/ "crash" \in Tools
  /\ GoOn(c, "release", team[c], NoTask, owed[c], "return")
  /\ UNCHANGED <<runVars, teamVars, history, open, draft, closing, todo>>

\* releaseTask: one slot back, guarded at zero.
Release(c) ==
  /\ pc[c] = "release"
  /\ \E k \in owed[c] :
       /\ counts' = Decremented({k})
       /\ owed' = [owed EXCEPT ![c] = @ \ {k}]
  /\ UNCHANGED <<runStatus, override, expired, final, teamVars, history,
                 pc, team, task, open, after, draft, closing, todo>>

Released(c) ==
  /\ pc[c] = "release"
  /\ owed[c] = {}
  /\ IF after[c] = "return"
     THEN Return(c)
     ELSE /\ GoOn(c, after[c], team[c], NoTask, {}, "return")
          /\ UNCHANGED <<open, draft>>
  /\ UNCHANGED <<runVars, teamVars, history, closing, todo>>

-----------------------------------------------------------------------------
(* The other entry points *)

\* startTeams, for one team: read it ...
StartRead(c, t) ==
  /\ Begin(c, "start", t)
  /\ ~launched[t]
  /\ GoOn(c, "start", t, NoTask, {}, "return")
  /\ draft' = [draft EXCEPT ![c] = [rec |-> rec[t], stages |-> stages[t],
                                    req |-> req[t], earned |-> earned[t]]]
  /\ UNCHANGED <<runVars, teamVars, history, open, closing, todo>>

\* ... and write launched and the stages it read, in a batch; then assign.
StartWrite(c) ==
  LET t == team[c]  d == draft[c] IN
  /\ pc[c] = "start"
  /\ launched' = [launched EXCEPT ![t] = TRUE]
  /\ rec'    = [rec EXCEPT ![t] = d.rec]
  /\ stages' = [stages EXCEPT ![t] = d.stages]
  /\ req'    = [req EXCEPT ![t] = d.req]
  /\ earned' = [earned EXCEPT ![t] = d.earned]
  /\ GoOn(c, "read", t, NoTask, {}, "return")
  /\ draft'  = [draft EXCEPT ![c] = None]
  /\ UNCHANGED <<runVars, active, paid, history, open, closing, todo>>

\* Awards are counted up to 2, enough to tell "paid twice" from "paid once".
PaidAgain(n) == IF n < 2 THEN n + 1 ELSE n

\* Mutant: a slot is given up even by a team that holds none.
AlwaysHeld(t, k) == TRUE
\* completeTaskForTeam: one transaction on team and run.  The mission need
\* not be the one in hand (an approval, a direct call); the slot is given up
\* only if it is.
HeldSlot(t, k) == active[t] = k \/ rec[t][k] = "assigned"

Complete(c, t, k) ==
  LET s == StageOf[k]
      r == [rec[t] EXCEPT ![k] = "completed"]
      n == req[t][s]
  IN
  /\ Begin(c, "complete", t)
  /\ runStatus # "finished"
  /\ launched[t]
  /\ rec[t][k] \in {"unassigned", "assigned"}
  /\ stages[t][s] = "active"
  /\ rec'    = [rec EXCEPT ![t] = SettleRecords(r, s, n)]
  /\ stages' = [stages EXCEPT ![t] = SettleStages(stages[t], r, s, n)]
  /\ active' = [active EXCEPT ![t] = NoTask]
  /\ earned' = [earned EXCEPT ![t][k] = TRUE]
  /\ paid'   = [paid EXCEPT ![t][k] = PaidAgain(@)]
  /\ counts' = Decremented((IF HeldSlot(t, k) THEN {k} ELSE {})
                             \cup Leftovers(r, s, n))
  /\ GoOn(c, "read", t, NoTask, {}, "return")
  /\ UNCHANGED <<runStatus, override, expired, final, req, launched, history,
                 open, draft, closing, todo>>

\* skipTaskForTeam: the run is checked first, the team's transaction follows.
SkipTaskOpen(c, t, k) ==
  /\ Begin(c, "skipTask", t)
  /\ runStatus # "finished"
  /\ GoOn(c, "skip", t, k, {}, "return")
  /\ UNCHANGED <<runVars, teamVars, history, open, draft, closing, todo>>

CanSkip(t, k) ==
  IsActiveStage(stages[t], StageOf[k]) /\ ~Terminal(rec[t][k])

SkipTask(c) ==
  LET t == team[c]  k == task[c]  s == StageOf[k]
      r == [rec[t] EXCEPT ![k] = "skipped"]
      n == LoweredRequirement(rec[t], s, req[t][s], k)
  IN
  /\ pc[c] = "skip"
  /\ CanSkip(t, k)
  /\ rec'    = [rec EXCEPT ![t] = SettleRecords(r, s, n)]
  /\ stages' = [stages EXCEPT ![t] = SettleStages(stages[t], r, s, n)]
  /\ req'    = [req EXCEPT ![t][s] = n]
  /\ active' = [active EXCEPT ![t] = NoTask]
  /\ earned' = [earned EXCEPT ![t][k] = TRUE]
  /\ paid'   = [paid EXCEPT ![t][k] = PaidAgain(@)]
  /\ GoOn(c, "release", t, NoTask,
          ({k} \cap InState(rec[t], s, "assigned")) \cup Leftovers(r, s, n),
          "read")
  /\ UNCHANGED <<runVars, launched, history, open, draft, closing, todo>>

SkipTaskRefused(c) ==
  /\ pc[c] = "skip"
  /\ ~CanSkip(team[c], task[c])
  /\ Return(c)
  /\ UNCHANGED <<runVars, teamVars, history, closing, todo>>

\* skipStage: every mission of the stage that is not completed is skipped and
\* paid its consolation, one already skipped included.
SkipStage(c, t) ==
  \E s \in Stages :
    LET gone == {k \in StageTasks(s) : rec[t][k] # "completed"} IN
    /\ Begin(c, "skipStage", t)
    /\ IsActiveStage(stages[t], s)
    /\ rec'    = [rec EXCEPT ![t] = [k \in Tasks |->
                    IF k \in gone THEN "skipped" ELSE @[k]]]
    /\ earned' = [earned EXCEPT ![t] = [k \in Tasks |-> k \in gone \/ @[k]]]
    /\ paid'   = [paid EXCEPT ![t] = [k \in Tasks |->
                    IF k \in gone THEN PaidAgain(@[k]) ELSE @[k]]]
    /\ stages' = [stages EXCEPT ![t] = OpenNext(@, s)]
    /\ active' = [active EXCEPT ![t] = NoTask]
    /\ GoOn(c, "release", t, NoTask, InState(rec[t], s, "assigned"), "return")
    /\ UNCHANGED <<runVars, req, launched, history, open, draft, closing, todo>>

\* Mutant: the team keeps its activeTaskId.
CheckOutHalf(c, t, k) ==
  /\ Begin(c, "checkOut", t)
  /\ HeldSlot(t, k)
  /\ rec' = [rec EXCEPT ![t][k] = "unassigned"]
  /\ GoOn(c, "release", t, NoTask, {k}, "return")
  /\ UNCHANGED <<runVars, stages, req, active, launched, paid, earned, history,
                 open, draft, closing, todo>>

\* checkOutTask
CheckOut(c, t, k) ==
  /\ Begin(c, "checkOut", t)
  /\ HeldSlot(t, k)
  /\ rec' = [rec EXCEPT ![t][k] = "unassigned"]
  /\ active' = [active EXCEPT ![t] = IF @ = k THEN NoTask ELSE @]
  /\ GoOn(c, "release", t, NoTask, {k}, "return")
  /\ UNCHANGED <<runVars, stages, req, launched, paid, earned, history,
                 open, draft, closing, todo>>

\* Mutant: any mission of the stage can be forced, a finished one included.
CanForceAny(t, k) == IsActiveStage(stages[t], StageOf[k]) /\ rec[t][k] # "assigned"
\* forceAssignTask: reads, then claimSpecificTask on the run (the marshal may
\* override an expiry, never the cap or a pause), then the team.
CanForce(t, k) ==
  IsActiveStage(stages[t], StageOf[k]) /\ rec[t][k] = "unassigned"

ForceRead(c, t, k) ==
  /\ Begin(c, "force", t)
  /\ runStatus # "finished"
  /\ CanForce(t, k)
  /\ GoOn(c, "forceClaim", t, k, {}, "return")
  /\ UNCHANGED <<runVars, teamVars, history, open, draft, closing, todo>>

ForceClaim(c) ==
  LET k == task[c] IN
  /\ pc[c] = "forceClaim"
  /\ Assignable(k) /\ HasRoom(k)
  /\ counts' = [counts EXCEPT ![k] = @ + 1]
  /\ GoOn(c, "forceTeam", team[c], k, {k}, "return")
  /\ UNCHANGED <<runStatus, override, expired, final, teamVars, history, open,
                 draft, closing, todo>>

ForceRefused(c) ==
  /\ pc[c] = "forceClaim"
  /\ ~(Assignable(task[c]) /\ HasRoom(task[c]))
  /\ Return(c)
  /\ UNCHANGED <<runVars, teamVars, history, closing, todo>>

\* The mission in hand goes back to unassigned and its slot is owed.
ForceTeam(c) ==
  LET t == team[c]  k == task[c]
      displaced == InState(rec[t], StageOf[k], "assigned")
  IN
  /\ pc[c] = "forceTeam"
  /\ CanForce(t, k)
  /\ rec' = [rec EXCEPT ![t] = [j \in Tasks |->
               IF j = k THEN "assigned"
               ELSE IF j \in displaced THEN "unassigned" ELSE @[j]]]
  /\ active' = [active EXCEPT ![t] = k]
  /\ GoOn(c, "release", t, NoTask, displaced, "return")
  /\ UNCHANGED <<runVars, stages, req, launched, paid, earned, history,
                 open, draft, closing, todo>>

ForceUndone(c) ==
  /\ pc[c] = "forceTeam"
  /\ ~CanForce(team[c], task[c])
  /\ GoOn(c, "release", team[c], NoTask, owed[c], "return")
  /\ UNCHANGED <<runVars, teamVars, history, open, draft, closing, todo>>

\* setRunTaskStatus: the availability is read to decide whether this is a
\* closure; pc holds the one about to be written.
SetStatusRead(c, k, st) ==
  /\ Idle(c) /\ "status" \in Tools /\ RunFree
  /\ GoOn(c, st, NoTeam, k, {}, "return")
  /\ closing' = [closing EXCEPT ![c] =
       IF st = "closed" /\ override[k] # "closed" THEN k ELSE NoTask]
  /\ UNCHANGED <<runVars, teamVars, history, open, draft, todo>>

\* A write on its way that gives mission k to team t, or gives it back as
\* playable, without looking at its record again.
Strays(t, k) ==
  \E c \in Calls :
    /\ team[c] = t
    /\ \/ pc[c] = "claim" /\ task[c] = k
       \/ pc[c] \in {"persist", "start"} /\ ~Terminal(draft[c].rec[k])

\* A mission is closed on the word of an earlier read that it was closed
\* already: no team is told.  Otherwise nobody is missed yet.
MissedAtWrite(c) ==
  LET k == task[c] IN
  missed' = [missed EXCEPT ![k] =
               IF pc[c] = "closed" /\ closing[c] = NoTask
               THEN IF override[k] = "closed" THEN @ ELSE Teams
               ELSE {}]

SetStatusWrite(c) ==
  LET k == task[c] IN
  /\ pc[c] \in Statuses
  /\ override' = [override EXCEPT ![k] = pc[c]]
  /\ todo' = [todo EXCEPT ![c] = IF closing[c] = NoTask THEN {} ELSE Teams]
  /\ MissedAtWrite(c)
  /\ Return(c)
  /\ UNCHANGED <<runStatus, counts, expired, final, teamVars, leaked, closing>>

\* closeTaskForAllTeams, one team: applyTaskClosure in a transaction, then
\* the release and, for a team that stood on the mission, the next one.
CloseTeam(c, t) ==
  LET k == closing[c]  s == StageOf[k]
      r == [rec[t] EXCEPT ![k] = "skipped"]
      n == LoweredRequirement(rec[t], s, req[t][s], k)
      playing == stages[t][s] = "active"
  IN
  /\ pc[c] = "close" /\ t \in todo[c]
  /\ ~Terminal(rec[t][k])
  /\ rec'    = [rec EXCEPT ![t] = IF playing THEN SettleRecords(r, s, n) ELSE r]
  /\ stages' = [stages EXCEPT ![t] =
                  IF playing THEN SettleStages(@, r, s, n) ELSE @]
  /\ req'    = [req EXCEPT ![t][s] = n]
  /\ earned' = [earned EXCEPT ![t][k] = FALSE]
  /\ active' = [active EXCEPT ![t] = IF HeldSlot(t, k) THEN NoTask ELSE @]
  /\ GoOn(c, "release", t, NoTask,
          (IF rec[t][k] = "assigned" THEN {k} ELSE {})
             \cup (IF playing THEN Leftovers(r, s, n) ELSE {}),
          IF HeldSlot(t, k) THEN "read" ELSE "return")
  /\ todo' = [todo EXCEPT ![c] = @ \ {t}]
  /\ missed' = [missed EXCEPT ![k] = IF Strays(t, k) THEN @ \cup {t} ELSE @]
  /\ UNCHANGED <<runVars, launched, paid, leaked, open, draft, closing>>

\* The record is already terminal, or this team's transaction failed (the
\* loop logs it and goes on).
CloseSkips(c, t) ==
  /\ pc[c] = "close" /\ t \in todo[c]
  /\ Terminal(rec[t][closing[c]]) \/ "crash" \in Tools
  /\ todo' = [todo EXCEPT ![c] = @ \ {t}]
  /\ missed' = [missed EXCEPT ![closing[c]] =
                  IF /\ Terminal(rec[t][closing[c]]) /\ active[t] # closing[c]
                     /\ ~Strays(t, closing[c])
                  THEN @ ELSE @ \cup {t}]
  /\ UNCHANGED <<runVars, teamVars, leaked, pc, team, task, open, owed, after,
                 draft, closing>>

CloseDone(c) ==
  /\ pc[c] = "close" /\ todo[c] = {}
  /\ pc' = [pc EXCEPT ![c] = "idle"]
  /\ closing' = [closing EXCEPT ![c] = NoTask]
  /\ UNCHANGED <<runVars, teamVars, history, team, task, open, owed, after,
                 draft, todo>>

\* finalizeRunCore: the teams are read, the run is overwritten.
FinalizeRead ==
  /\ "finalize" \in Tools /\ RunFree
  /\ runStatus # "finished" /\ final = None
  /\ final' = Reconciled
  /\ UNCHANGED <<runStatus, counts, override, expired, teamVars, callVars,
                 history>>

FinalizeWrite ==
  /\ final # None
  /\ runStatus' = "finished"
  /\ counts' = final
  /\ final' = None
  /\ UNCHANGED <<override, expired, teamVars, callVars, history>>

\* A closing time passes.
Expire(k) ==
  /\ "sweep" \in Tools
  /\ k \in Expirable \ expired
  /\ expired' = expired \cup {k}
  /\ UNCHANGED <<runStatus, counts, override, final, teamVars, callVars, history>>

\* The process dies inside a call, or a release runs out of retries: what the
\* call still owed is never given back.
Crash(c) ==
  /\ "crash" \in Tools
  /\ ~Idle(c)
  /\ \A k \in owed[c] : leaked[k] < MaxLeaks
  /\ leaked' = [k \in Tasks |->
                  IF k \in owed[c] THEN leaked[k] + 1 ELSE leaked[k]]
  /\ missed' = [k \in Tasks |->
                  IF k = closing[c] THEN missed[k] \cup todo[c] ELSE missed[k]]
  /\ GoOn(c, "idle", NoTeam, NoTask, {}, "return")
  /\ open'    = [open EXCEPT ![c] = {}]
  /\ draft'   = [draft EXCEPT ![c] = None]
  /\ closing' = [closing EXCEPT ![c] = NoTask]
  /\ todo'    = [todo EXCEPT ![c] = {}]
  /\ UNCHANGED <<runVars, teamVars>>

-----------------------------------------------------------------------------
\* The steps a call takes on its own once it has begun.
Routing(c) ==
  \/ NothingToAssign(c) \/ ReadOpen(c) \/ SweepRead(c)
  \/ Persist(c) \/ PersistFails(c)
  \/ Reserve(c) \/ NoCandidate(c) \/ Claim(c) \/ ClaimRefused(c)
  \/ Release(c) \/ Released(c)
Continuing(c) ==
  \/ Routing(c)
  \/ StartWrite(c)
  \/ SkipTask(c) \/ SkipTaskRefused(c)
  \/ ForceClaim(c) \/ ForceRefused(c) \/ ForceTeam(c) \/ ForceUndone(c)
  \/ SetStatusWrite(c)
  \/ \E t \in Teams : CloseTeam(c, t) \/ CloseSkips(c, t)
  \/ CloseDone(c)

\* What players, operators and the clock may begin.
Beginning(c) ==
  \/ \E t \in Teams :
       \/ RequestNext(c, t) \/ PollRead(c, t) \/ StartRead(c, t)
       \/ SkipStage(c, t)
       \/ \E k \in Tasks :
            \/ Complete(c, t, k) \/ SkipTaskOpen(c, t, k)
            \/ CheckOut(c, t, k) \/ ForceRead(c, t, k)
  \/ \E k \in Tasks, st \in Statuses : SetStatusRead(c, k, st)

Next ==
  \/ \E c \in Calls : Beginning(c) \/ Continuing(c) \/ Crash(c)
  \/ \E k \in Tasks : Expire(k)
  \/ FinalizeRead \/ FinalizeWrite

Spec == Init /\ [][Next]_vars

-----------------------------------------------------------------------------
(* What is claimed of it *)

DocCopies ==
  [rec : [Tasks -> RecordStates], stages : [Stages -> {"locked", "active", "completed"}],
   req : [Stages -> Nat], earned : [Tasks -> BOOLEAN]]
ASSUME CopiesAssumption == None \notin DocCopies
Steps == Statuses \cup
  {"idle", "read", "persist", "reserve", "claim", "release", "start", "skip",
   "forceClaim", "forceTeam", "close"}

RunTypeOK ==
  /\ runStatus \in {"active", "finished"}
  /\ counts \in [Tasks -> Nat]
  /\ override \in [Tasks -> Statuses]
  /\ expired \subseteq Expirable
  /\ final \in {None} \cup [Tasks -> Nat]
TeamsTypeOK ==
  /\ rec \in [Teams -> [Tasks -> RecordStates]]
  /\ stages \in [Teams -> [Stages -> {"locked", "active", "completed"}]]
  /\ req \in [Teams -> [Stages -> Nat]]
  /\ active \in [Teams -> Tasks \cup {NoTask}]
  /\ launched \in [Teams -> BOOLEAN]
  /\ paid \in [Teams -> [Tasks -> 0 .. 2]]
  /\ earned \in [Teams -> [Tasks -> BOOLEAN]]
CallsTypeOK ==
  /\ pc \in [Calls -> Steps]
  /\ team \in [Calls -> Teams \cup {NoTeam}]
  /\ task \in [Calls -> Tasks \cup {NoTask}]
  /\ open \in [Calls -> SUBSET Tasks]
  /\ owed \in [Calls -> SUBSET Tasks]
  /\ after \in [Calls -> {"return", "read", "reserve"}]
  /\ draft \in [Calls -> {None} \cup DocCopies]
  /\ closing \in [Calls -> Tasks \cup {NoTask}]
  /\ todo \in [Calls -> SUBSET Teams]
HistoryTypeOK == leaked \in [Tasks -> Nat] /\ missed \in [Tasks -> SUBSET Teams]

\* The type of every variable.
TypeOK == RunTypeOK /\ TeamsTypeOK /\ CallsTypeOK /\ HistoryTypeOK

\* What a call has in its hands at each of its steps: the team it works on,
\* the mission, the copy it will write, and the slots that are its to give
\* back -- none, unless it has reserved one or is releasing.
CallWellFormed(c) ==
  /\ pc[c] \notin Statuses \cup {"idle", "close"} => team[c] \in Teams
  /\ pc[c] \in Statuses \cup {"persist", "claim", "skip", "forceClaim", "forceTeam"}
       => task[c] \in Tasks
  /\ pc[c] \in {"persist", "start"} => draft[c] \in DocCopies
  /\ pc[c] = "close" => closing[c] \in Tasks
  /\ pc[c] \in {"claim", "forceTeam"} => owed[c] = {task[c]}
  /\ pc[c] \notin {"claim", "forceTeam", "release"} => owed[c] = {}
  /\ pc[c] \notin {"release", "persist"} => after[c] = "return"
CallsWellFormed == \A c \in Calls : CallWellFormed(c)

OwingOf(k) == {c \in Calls : k \in owed[c]}

\* While the run is on, no counter passes its station's cap, whatever calls
\* interleave (assignTask and claimSpecificTask check and increment in one
\* transaction).
CapRespected ==
  runStatus = "active" =>
    \A k \in Tasks \ Locationless : counts[k] <= Cap[k]

\* No slot is leaked or freed twice: a counter is the teams at the station,
\* plus the slots calls have in transit, plus those lost with a crashed call.
SlotAccounting ==
  runStatus = "active" =>
    \A k \in Tasks :
      counts[k] = Cardinality(HoldersOf(k)) + Cardinality(OwingOf(k)) + leaked[k]

\* The cap as the street sees it: the teams actually sent to a station.
NeverOvercrowded ==
  runStatus = "active" =>
    \A k \in Tasks \ Locationless : Cardinality(HoldersOf(k)) <= Cap[k]

\* A team never has two missions of one stage in hand: concurrent requests
\* for the same team settle on one claim.
OneMissionInHand ==
  \A t \in Teams, s \in Stages :
    Cardinality(InState(rec[t], s, "assigned")) <= 1

\* activeTaskId, when set, names a mission the records have as assigned.
ActiveIsAssigned ==
  \A t \in Teams : active[t] # NoTask => rec[t][active[t]] = "assigned"

\* Call c has mission k of team t from a read that the record has outlived:
\* among the candidates it routes with, as the one it is about to claim, or in
\* a copy it is about to write back that says otherwise.
ReadBefore(c, t, k) ==
  /\ team[c] = t
  /\ \/ k \in open[c]
     \/ pc[c] = "claim" /\ task[c] = k
     \/ pc[c] \in {"persist", "start"} /\ draft[c].rec[k] # rec[t][k]
Writing(c) == pc[c] \in {"claim", "persist", "start"} /\ pc'[c] # pc[c]

\* A completed or skipped record yields only to a call that had read the team
\* before the stamp, at its own write: no other step changes it, and no call
\* that begins or reads after the stamp ever gets into that position.  (A
\* check-out may also act on an activeTaskId that a start left behind.)
StampsYieldOnlyToOlderReads ==
  [][\A t \in Teams, k \in Tasks : Terminal(rec[t][k]) =>
       \/ /\ rec'[t][k] = rec[t][k]
          /\ \A c \in Calls : ReadBefore(c, t, k)' => ReadBefore(c, t, k)
       \/ \E c \in Calls : ReadBefore(c, t, k) /\ Writing(c)
       \/ active[t] = k]_vars

\* The first stamp on a record is final: a completed or skipped mission is
\* never handed out again, nor changed from one to the other.
FirstStampIsFinal ==
  [][\A t \in Teams, k \in Tasks :
       Terminal(rec[t][k]) => rec'[t][k] = rec[t][k]]_vars

\* What the live board reads (the team's score) and what the final ranking
\* reads (the records) agree: a mission with an award is paid exactly once.
ScoreAgreesWithRecords ==
  \A t \in Teams, k \in Tasks : paid[t][k] = IF earned[t][k] THEN 1 ELSE 0

\* Team t is still to be visited by a call that closes mission k.
OnTheList(t, k) ==
  \E c \in Calls : closing[c] = k /\ t \in todo[c]

\* While a mission is closed, no team has it in hand or before it, whatever
\* overlaps the closure and whoever dies, except the teams it has still to
\* visit and those it missed: at its visit a write of an older read was on its
\* way to the team, or the visit failed, or the call died before it, or an
\* older decision closed the mission without any visit.  What was taken from a
\* team at its visit is never handed out again.
ClosedMeansGone ==
  \A k \in Tasks : override[k] = "closed" =>
    \A t \in Teams : Terminal(rec[t][k]) \/ OnTheList(t, k) \/ t \in missed[k]

\* ... and a closure misses nobody.
NobodyIsMissed == \A k \in Tasks : missed[k] = {}

\* A team in a stage always has a mission of it left to play.
NeverStranded ==
  \A t \in Teams, s \in Stages :
    stages[t][s] = "active" => \E k \in StageTasks(s) : ~Terminal(rec[t][k])

\* Taking a mission out of play leaves it to the teams that already have it.
HoldersKeepTheirMission ==
  [][\A t \in Teams, k \in Tasks :
       override[k] # "active" /\ rec[t][k] = "assigned"
          => rec'[t][k] \in {"assigned", "completed"}]_vars

\* Only a team that has been launched has a mission in hand.
OnlyLaunchedPlay ==
  \A t \in Teams, k \in Tasks : rec[t][k] = "assigned" => launched[t]

\* Once a run is finished nobody is sent to a station any more.
NoAssignmentAfterFinish ==
  [][runStatus = "finished" =>
       \A k \in Tasks : HoldersOf(k)' \subseteq HoldersOf(k)]_vars

\* Finishing a run heals what crashes leaked: no archived counter is above
\* the number of teams still at the station.
LeaksHealAtFinish ==
  [][runStatus' # runStatus =>
       \A k \in Tasks : counts'[k] <= Cardinality(HoldersOf(k))]_vars

\* ... and none is below it either.
FinalCountsHonest ==
  [][runStatus' # runStatus =>
       \A k \in Tasks : counts'[k] >= Cardinality(HoldersOf(k))]_vars

\* Fairness.  A call that has begun goes on to its end (the server runs it);
\* a phone keeps asking for the next mission, and a team that has one in hand
\* completes it in the end: players poll many times over one mission, so the
\* completion gets its turn again and again without being the only one.
CallsProceed == \A c \in Calls : WF_vars(Continuing(c))
PhonesPoll   == \A t \in Teams : WF_vars(\E c \in Calls : RequestNext(c, t))
TeamsPlay    ==
  \A t \in Teams :
    SF_vars(\E c \in Calls, k \in Tasks :
              rec[t][k] = "assigned" /\ Complete(c, t, k))
LiveSpec == Spec /\ CallsProceed /\ PhonesPoll /\ TeamsPlay

\* Every team gets through the game, however full the stations are: a slot
\* given back reaches the teams that wait for it.
EveryTeamFinishes == \A t \in Teams : <>Finished(t)

\* When nothing of a stage is doable any more -- its missions are done,
\* skipped or past their closing time -- the stage completes.
NothingDoable(t, s) ==
  /\ stages[t][s] = "active"
  /\ \A k \in StageTasks(s) :
       Terminal(rec[t][k]) \/ (rec[t][k] = "unassigned" /\ k \in expired)
ExhaustedStageCompletes ==
  \A t \in Teams, s \in Stages :
    NothingDoable(t, s) ~> stages[t][s] = "completed"

\* The abstract ledger this implements.
Ledger == INSTANCE SlotLedger WITH
  Stations <- Tasks, Holders <- Teams, Carriers <- Calls,
  Room <- Cap, Unlimited <- Locationless,
  count <- counts, lost <- leaked,
  holds <- [k \in Tasks |-> HoldersOf(k)],
  carries <- [k \in Tasks |-> OwingOf(k)]
ImplementsLedger == Ledger!LSpec

=============================================================================
