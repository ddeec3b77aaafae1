------------------------- MODULE StationSlotsProofs -------------------------
(***************************************************************************)
(* What holds of station slots for any number of teams, missions, stages   *)
(* and calls, however they interleave and wherever they die: the types,    *)
(* the caps, one mission in hand at a time, and that a team in a stage has *)
(* a mission of it left to play.                                           *)
(*                                                                         *)
(* A call that read a team writes the copy back later, so each invariant   *)
(* about the records is stated of the documents and of the copies on their *)
(* way (CopiesMove: where a copy comes from).                              *)
(***************************************************************************)
EXTENDS StationSlots, FiniteSetTheorems, TLAPS

USE DEF RecordStates, Statuses, Steps

-----------------------------------------------------------------------------
(* The operators the actions are built from *)

\* A subset of the missions of a stage can be counted.
LEMMA StageIsFinite ==
  ASSUME NEW s, NEW S \in SUBSET StageTasks(s)
  PROVE  IsFiniteSet(S) /\ Cardinality(S) \in Nat
<1>1. StageTasks(s) \subseteq Tasks /\ IsFiniteSet(Tasks)
  BY ConstantsAssumption DEF StageTasks
<1>2. IsFiniteSet(S)
  BY <1>1, FS_Subset
<1> QED
  BY <1>2, FS_CardinalityType

\* Settling a stage leaves a team's records records of the same kind.
LEMMA SettledRecordsType ==
  ASSUME NEW r \in [Tasks -> RecordStates], NEW s, NEW n
  PROVE  SettleRecords(r, s, n) \in [Tasks -> RecordStates]
BY DEF SettleRecords

\* ... and its stages stages.
LEMMA SettledStagesType ==
  ASSUME NEW st \in [Stages -> {"locked", "active", "completed"}],
         NEW r, NEW s, NEW n
  PROVE  /\ OpenNext(st, s) \in [Stages -> {"locked", "active", "completed"}]
         /\ SettleStages(st, r, s, n)
              \in [Stages -> {"locked", "active", "completed"}]
BY DEF SettleStages, OpenNext

\* A lowered requirement is a number, and never more than the old one.
LEMMA LoweredRequirementType ==
  ASSUME NEW r, NEW s, NEW n \in Nat, NEW k
  PROVE  LoweredRequirement(r, s, n, k) \in Nat
         /\ LoweredRequirement(r, s, n, k) <= n
<1> DEFINE left == {j \in StageTasks(s) \ {k} : r[j] # "skipped"}
<1>1. Cardinality(StageTasks(s)) \in Nat /\ Cardinality(left) \in Nat
  BY StageIsFinite
<1> HIDE DEF left
<1>2. LoweredRequirement(r, s, n, k)
        = Lesser(Lesser(n, Cardinality(StageTasks(s))), Cardinality(left))
  BY DEF LoweredRequirement, left
<1> QED
  BY <1>1, <1>2 DEF Lesser

\* The guarded decrement keeps counters at or above zero and raises none.
LEMMA DecrementedType ==
  ASSUME counts \in [Tasks -> Nat], NEW K
  PROVE  /\ Decremented(K) \in [Tasks -> Nat]
         /\ \A k \in Tasks : Decremented(K)[k] <= counts[k]
BY DEF Decremented

\* The counts a finalize recomputes are numbers.
LEMMA ReconciledType == Reconciled \in [Tasks -> Nat]
<1> SUFFICES ASSUME NEW k \in Tasks
             PROVE  Cardinality({t \in Teams : active[t] = k}) \in Nat
  BY DEF Reconciled
<1>1. IsFiniteSet({t \in Teams : active[t] = k})
  BY ConstantsAssumption, FS_Subset
<1> QED
  BY <1>1, FS_CardinalityType

-----------------------------------------------------------------------------
(* Types, and what a call has in its hands *)

LEMMA InitialTypes == Init => TypeOK /\ CallsWellFormed
BY ConstantsAssumption
   DEF Init, TypeOK, RunTypeOK, TeamsTypeOK, CallsTypeOK, HistoryTypeOK,
       CallsWellFormed, CallWellFormed, Stages

\* Where call c goes on, its locals keep their types, and every other call is
\* as it was.
OthersKept(c) ==
  \A d \in Calls \ {c} :
    /\ pc'[d] = pc[d] /\ team'[d] = team[d] /\ task'[d] = task[d]
    /\ owed'[d] = owed[d] /\ after'[d] = after[d]

LEMMA GoOnType ==
  ASSUME CallsTypeOK, NEW c \in Calls,
         NEW step \in Steps, NEW t \in Teams \cup {NoTeam},
         NEW k \in Tasks \cup {NoTask}, NEW K \in SUBSET Tasks,
         NEW next \in {"return", "read", "reserve"},
         GoOn(c, step, t, k, K, next)
  PROVE  /\ pc' \in [Calls -> Steps]
         /\ team' \in [Calls -> Teams \cup {NoTeam}]
         /\ task' \in [Calls -> Tasks \cup {NoTask}]
         /\ owed' \in [Calls -> SUBSET Tasks]
         /\ after' \in [Calls -> {"return", "read", "reserve"}]
         /\ pc'[c] = step /\ team'[c] = t /\ task'[c] = k
         /\ owed'[c] = K /\ after'[c] = next
         /\ OthersKept(c)
BY DEF CallsTypeOK, GoOn, OthersKept

\* The other calls stay well formed when their copies and closures are kept.
LEMMA OthersWellFormed ==
  ASSUME NEW c \in Calls, CallsWellFormed, OthersKept(c), CallWellFormed(c)',
         \A d \in Calls \ {c} : draft'[d] = draft[d] /\ closing'[d] = closing[d]
  PROVE  CallsWellFormed'
<1> SUFFICES ASSUME NEW d \in Calls \ {c}
             PROVE  CallWellFormed(d)'
  BY DEF CallsWellFormed
<1>1. CallWellFormed(d)
  BY DEF CallsWellFormed
<1> QED
  BY <1>1 DEF CallWellFormed, OthersKept

\* Returning from a team.
LEMMA ReturnType ==
  ASSUME CallsTypeOK, CallsWellFormed, NEW c \in Calls, Return(c),
         UNCHANGED <<closing, todo>>
  PROVE  CallsTypeOK' /\ CallsWellFormed'
<1> DEFINE step == IF closing[c] = NoTask THEN "idle" ELSE "close"
<1>1. GoOn(c, step, NoTeam, NoTask, {}, "return")
  BY DEF Return
<1>2. step \in Steps
  OBVIOUS
<1>3. step \in {"idle", "close"} /\ (step = "close" => closing[c] \in Tasks)
  BY DEF CallsTypeOK
<1> HIDE DEF step
<1>4. /\ open' \in [Calls -> SUBSET Tasks] /\ draft' \in [Calls -> {None} \cup DocCopies]
      /\ \A d \in Calls \ {c} : draft'[d] = draft[d]
  BY DEF Return, CallsTypeOK
<1>5. CallsTypeOK'
  BY <1>1, <1>2, <1>4, GoOnType DEF CallsTypeOK
<1>6. pc'[c] = step /\ owed'[c] = {} /\ after'[c] = "return" /\ OthersKept(c)
  BY <1>1, <1>2, GoOnType
<1>7. CallWellFormed(c)'
  BY <1>3, <1>6 DEF CallWellFormed
<1>8. CallsWellFormed'
  BY <1>4, <1>6, <1>7, OthersWellFormed
<1> QED
  BY <1>5, <1>8

\* Going on to a step with the right things in hand.
LEMMA CallStepType ==
  ASSUME CallsTypeOK, CallsWellFormed, NEW c \in Calls,
         NEW step \in Steps, NEW t \in Teams \cup {NoTeam},
         NEW k \in Tasks \cup {NoTask}, NEW K \in SUBSET Tasks,
         NEW next \in {"return", "read", "reserve"},
         GoOn(c, step, t, k, K, next),
         open' \in [Calls -> SUBSET Tasks],
         draft' \in [Calls -> {None} \cup DocCopies],
         UNCHANGED <<closing, todo>>,
         \A d \in Calls \ {c} : draft'[d] = draft[d],
         step \notin Statuses \cup {"idle", "close"}, t \in Teams,
         step \in {"persist", "claim", "skip", "forceClaim", "forceTeam"}
            => k \in Tasks,
         step \in {"persist", "start"} => draft'[c] \in DocCopies,
         step \in {"claim", "forceTeam"} => K = {k},
         step \notin {"claim", "forceTeam", "release"} => K = {},
         step \notin {"release", "persist"} => next = "return"
  PROVE  CallsTypeOK' /\ CallsWellFormed'
<1>0. /\ pc' \in [Calls -> Steps] /\ team' \in [Calls -> Teams \cup {NoTeam}]
      /\ task' \in [Calls -> Tasks \cup {NoTask}]
      /\ owed' \in [Calls -> SUBSET Tasks]
      /\ after' \in [Calls -> {"return", "read", "reserve"}]
  BY GoOnType
<1>1. CallsTypeOK'
  BY <1>0 DEF CallsTypeOK
<1>2. /\ pc'[c] = step /\ team'[c] = t /\ task'[c] = k
      /\ owed'[c] = K /\ after'[c] = next /\ OthersKept(c)
  BY GoOnType
<1>3. CallWellFormed(c)'
  BY <1>2 DEF CallWellFormed
<1>4. CallsWellFormed'
  BY <1>2, <1>3, OthersWellFormed
<1> QED
  BY <1>1, <1>4

\* What a sweep is about to write back is a team document.
LEMMA SweptType ==
  ASSUME TeamsTypeOK, NEW t \in Teams, NEW s \in Stages, NEW k \in Tasks
  PROVE  Swept(t, s, k) \in DocCopies
<1> DEFINE r == [rec[t] EXCEPT ![k] = "skipped"]
<1>1. r \in [Tasks -> RecordStates] /\ req[t] \in [Stages -> Nat]
      /\ stages[t] \in [Stages -> {"locked", "active", "completed"}]
      /\ [earned[t] EXCEPT ![k] = FALSE] \in [Tasks -> BOOLEAN]
  BY DEF TeamsTypeOK
<1> HIDE DEF r
<1>2. /\ SettleRecords(r, s, req[t][s]) \in [Tasks -> RecordStates]
      /\ SettleStages(stages[t], r, s, req[t][s])
            \in [Stages -> {"locked", "active", "completed"}]
  BY <1>1, SettledRecordsType, SettledStagesType
<1> QED
  BY <1>1, <1>2 DEF Swept, DocCopies, r

-----------------------------------------------------------------------------
(* One lemma per kind of call: its steps keep the types *)

Typed == TypeOK /\ CallsWellFormed

LEMMA SweepKeepsTypes ==
  ASSUME Typed, NEW c \in Calls, NEW t \in Teams, NEW routing \in BOOLEAN,
         SweepInFlight(c, t, routing),
         UNCHANGED <<runVars, teamVars, history, closing, todo>>
  PROVE  Typed'
<1> USE DEF Typed, TypeOK, history, runVars, teamVars
<1>1. RunTypeOK' /\ TeamsTypeOK' /\ HistoryTypeOK'
  BY DEF RunTypeOK, TeamsTypeOK, HistoryTypeOK
<1>2. PICK s \in Stages :
        \E k \in InState(rec[t], s, "assigned") \cap Lapsed :
          LET d == Swept(t, s, k) IN
          /\ GoOn(c, "persist", t, k, {},
                  IF routing /\ OpenIn(d) # {} THEN "reserve" ELSE "return")
          /\ open' = [open EXCEPT ![c] = IF routing THEN OpenIn(d) ELSE {}]
          /\ draft' = [draft EXCEPT ![c] = d]
  BY DEF SweepInFlight
<1>c. PICK k \in InState(rec[t], s, "assigned") \cap Lapsed :
        LET d == Swept(t, s, k) IN
        /\ GoOn(c, "persist", t, k, {},
                IF routing /\ OpenIn(d) # {} THEN "reserve" ELSE "return")
        /\ open' = [open EXCEPT ![c] = IF routing THEN OpenIn(d) ELSE {}]
        /\ draft' = [draft EXCEPT ![c] = d]
  BY <1>2
<1> DEFINE d == Swept(t, s, k)
<1>3. k \in Tasks
  BY DEF InState, StageTasks
<1>4. d \in DocCopies
  BY <1>3, SweptType
<1>5. OpenIn(d) \subseteq Tasks
  BY DEF OpenIn
<1> HIDE DEF d
<1>6. /\ GoOn(c, "persist", t, k, {},
              IF routing /\ OpenIn(d) # {} THEN "reserve" ELSE "return")
      /\ open' = [open EXCEPT ![c] = IF routing THEN OpenIn(d) ELSE {}]
      /\ draft' = [draft EXCEPT ![c] = d]
  BY <1>c DEF d
<1>7. /\ open' \in [Calls -> SUBSET Tasks]
      /\ draft' \in [Calls -> {None} \cup DocCopies]
      /\ draft'[c] = d /\ \A e \in Calls \ {c} : draft'[e] = draft[e]
  BY <1>4, <1>5, <1>6 DEF CallsTypeOK
<1> DEFINE next == IF routing /\ OpenIn(d) # {} THEN "reserve" ELSE "return"
<1>8. next \in {"return", "read", "reserve"} /\ GoOn(c, "persist", t, k, {}, next)
  BY <1>6
<1> HIDE DEF next
<1>9. CallsTypeOK' /\ CallsWellFormed'
  BY <1>3, <1>4, <1>7, <1>8, CallStepType
<1> QED
  BY <1>1, <1>9

LEMMA RoutingKeepsTypes ==
  ASSUME Typed, NEW c \in Calls, Routing(c)
  PROVE  Typed'
<1> USE DEF Typed, TypeOK, history, runVars, teamVars
<1>a. pc[c] # "idle" /\ pc[c] # "close" /\ pc[c] \notin Statuses => team[c] \in Teams
  BY DEF CallsWellFormed, CallWellFormed
<1>b. /\ open \in [Calls -> SUBSET Tasks] /\ open' = open
         => open' \in [Calls -> SUBSET Tasks]
      /\ draft' = draft => /\ draft' \in [Calls -> {None} \cup DocCopies]
                          /\ \A d \in Calls \ {c} : draft'[d] = draft[d]
  BY DEF CallsTypeOK
<1>1. CASE NothingToAssign(c)
  BY <1>1, ReturnType
     DEF NothingToAssign, RunTypeOK, TeamsTypeOK, HistoryTypeOK
<1>2. CASE ReadOpen(c)
  <2>1. RunTypeOK' /\ TeamsTypeOK' /\ HistoryTypeOK'
    BY <1>2 DEF ReadOpen, RunTypeOK, TeamsTypeOK, HistoryTypeOK
  <2>2. \A s : InState(rec[team[c]], s, "unassigned") \subseteq Tasks
    BY DEF InState, StageTasks
  <2>3. CallsTypeOK'
    BY <1>2, <2>2 DEF ReadOpen, CallsTypeOK
  <2>4. CallWellFormed(c)' /\ OthersKept(c)
    BY <1>2 DEF ReadOpen, CallsTypeOK, CallsWellFormed, CallWellFormed, OthersKept
  <2>5. CallsWellFormed'
    BY <1>2, <2>4, OthersWellFormed DEF ReadOpen
  <2> QED
    BY <2>1, <2>3, <2>5
<1>3. CASE SweepRead(c)
  BY <1>3, <1>a, SweepKeepsTypes DEF SweepRead
<1>4. CASE Persist(c)
  <2>1. team[c] \in Teams /\ task[c] \in Tasks /\ draft[c] \in DocCopies
    BY <1>4 DEF Persist, CallsWellFormed, CallWellFormed
  <2>2. TeamsTypeOK'
    BY <1>4, <2>1 DEF Persist, TeamsTypeOK, DocCopies
  <2>3. RunTypeOK' /\ HistoryTypeOK'
    BY <1>4 DEF Persist, RunTypeOK, HistoryTypeOK
  <2>4. after[c] \in {"return", "read", "reserve"}
    BY DEF CallsTypeOK
  <2>5. /\ open' \in [Calls -> SUBSET Tasks]
        /\ draft' \in [Calls -> {None} \cup DocCopies]
        /\ \A d \in Calls \ {c} : draft'[d] = draft[d]
    BY <1>4 DEF Persist, CallsTypeOK
  <2>6. GoOn(c, "release", team[c], NoTask, {task[c]}, after[c])
        /\ UNCHANGED <<closing, todo>>
    BY <1>4 DEF Persist
  <2>7. CallsTypeOK' /\ CallsWellFormed'
    BY <2>1, <2>4, <2>5, <2>6, CallStepType
  <2> QED
    BY <2>2, <2>3, <2>7
<1>5. CASE PersistFails(c)
  BY <1>5, ReturnType DEF PersistFails, RunTypeOK, TeamsTypeOK, HistoryTypeOK
<1>6. CASE Reserve(c)
  <2>1. PICK k \in Candidates(c) :
          /\ counts' = [counts EXCEPT ![k] = @ + 1]
          /\ GoOn(c, "claim", team[c], k, {k}, "return")
    BY <1>6 DEF Reserve
  <2>2. k \in Tasks /\ team[c] \in Teams
    BY <1>6, <1>a DEF Reserve, Candidates, CallsTypeOK
  <2>3. RunTypeOK' /\ TeamsTypeOK' /\ HistoryTypeOK'
    <3>1. counts' \in [Tasks -> Nat]
      BY <2>1, <2>2 DEF RunTypeOK
    <3>2. RunTypeOK'
      BY <1>6, <3>1 DEF Reserve, RunTypeOK
    <3>3. TeamsTypeOK' /\ HistoryTypeOK'
      BY <1>6 DEF Reserve, TeamsTypeOK, HistoryTypeOK
    <3> QED
      BY <3>2, <3>3
  <2>4. open' \in [Calls -> SUBSET Tasks]
    BY <1>6 DEF Reserve, CallsTypeOK
  <2>5. CallsTypeOK' /\ CallsWellFormed'
    BY <1>6, <1>b, <2>1, <2>2, <2>4, CallStepType DEF Reserve
  <2> QED
    BY <2>3, <2>5
<1>7. CASE NoCandidate(c)
  BY <1>7, ReturnType DEF NoCandidate, RunTypeOK, TeamsTypeOK, HistoryTypeOK
<1>8. CASE Claim(c)
  <2>1. team[c] \in Teams /\ task[c] \in Tasks
    BY <1>8 DEF Claim, CallsWellFormed, CallWellFormed
  <2>2. TeamsTypeOK' /\ RunTypeOK' /\ HistoryTypeOK'
    BY <1>8, <2>1 DEF Claim, TeamsTypeOK, RunTypeOK, HistoryTypeOK
  <2> QED
    BY <1>8, <2>2, ReturnType DEF Claim
<1>9. CASE ClaimRefused(c)
  <2>1. RunTypeOK' /\ TeamsTypeOK' /\ HistoryTypeOK'
    BY <1>9 DEF ClaimRefused, RunTypeOK, TeamsTypeOK, HistoryTypeOK
  <2>2. owed[c] \in SUBSET Tasks /\ team[c] \in Teams
    BY <1>9, <1>a DEF ClaimRefused, CallsTypeOK
  <2>3. CallsTypeOK' /\ CallsWellFormed'
    BY <1>9, <1>b, <2>2, CallStepType DEF ClaimRefused, CallsTypeOK
  <2> QED
    BY <2>1, <2>3
<1>10. CASE Release(c)
  <2>1. PICK k \in owed[c] : /\ counts' = Decremented({k})
                             /\ owed' = [owed EXCEPT ![c] = @ \ {k}]
    BY <1>10 DEF Release
  <2>2. RunTypeOK' /\ TeamsTypeOK' /\ HistoryTypeOK'
    BY <1>10, <2>1, DecrementedType
       DEF Release, RunTypeOK, TeamsTypeOK, HistoryTypeOK
  <2>3. CallsTypeOK'
    BY <1>10, <2>1 DEF Release, CallsTypeOK
  <2>4. CallWellFormed(c)' /\ OthersKept(c)
    BY <1>10, <2>1
       DEF Release, CallsTypeOK, CallsWellFormed, CallWellFormed, OthersKept
  <2>5. CallsWellFormed'
    BY <1>10, <2>4, OthersWellFormed DEF Release
  <2> QED
    BY <2>2, <2>3, <2>5
<1>11. CASE Released(c)
  <2>1. RunTypeOK' /\ TeamsTypeOK' /\ HistoryTypeOK'
    BY <1>11 DEF Released, RunTypeOK, TeamsTypeOK, HistoryTypeOK
  <2>2. CASE after[c] = "return"
    BY <1>11, <2>1, <2>2, ReturnType DEF Released
  <2>3. CASE after[c] # "return"
    <3>1. GoOn(c, after[c], team[c], NoTask, {}, "return")
          /\ UNCHANGED <<open, draft, closing, todo>>
      BY <1>11, <2>3 DEF Released
    <3>2. after[c] \in {"read", "reserve"} /\ after[c] \in Steps
      BY <2>3 DEF CallsTypeOK
    <3>3. team[c] \in Teams
      BY <1>11, <1>a DEF Released
    <3>4. CallsTypeOK' /\ CallsWellFormed'
      BY <3>1, <3>2, <3>3, <1>b, CallStepType DEF CallsTypeOK
    <3> QED
      BY <2>1, <3>4
  <2> QED
    BY <2>2, <2>3
<1> QED
  BY <1>1, <1>2, <1>3, <1>4, <1>5, <1>6, <1>7, <1>8, <1>9, <1>10, <1>11
     DEF Routing

\* Settling a stage of one team's document.
LEMMA SettlingKeepsTypes ==
  ASSUME TeamsTypeOK, NEW t \in Teams, NEW k \in Tasks, NEW s \in Stages,
         NEW mark \in RecordStates, NEW n \in Nat
  PROVE  LET r == [rec[t] EXCEPT ![k] = mark] IN
         /\ r \in [Tasks -> RecordStates]
         /\ SettleRecords(r, s, n) \in [Tasks -> RecordStates]
         /\ SettleStages(stages[t], r, s, n)
               \in [Stages -> {"locked", "active", "completed"}]
         /\ OpenNext(stages[t], s)
               \in [Stages -> {"locked", "active", "completed"}]
         /\ Leftovers(r, s, n) \subseteq Tasks
<1> DEFINE r == [rec[t] EXCEPT ![k] = mark]
<1>1. r \in [Tasks -> RecordStates]
      /\ stages[t] \in [Stages -> {"locked", "active", "completed"}]
  BY DEF TeamsTypeOK
<1>2. Leftovers(r, s, n) \subseteq Tasks
  BY DEF Leftovers, InState, StageTasks
<1> HIDE DEF r
<1>3. /\ SettleRecords(r, s, n) \in [Tasks -> RecordStates]
      /\ SettleStages(stages[t], r, s, n)
            \in [Stages -> {"locked", "active", "completed"}]
      /\ OpenNext(stages[t], s)
            \in [Stages -> {"locked", "active", "completed"}]
  BY <1>1, SettledRecordsType, SettledStagesType
<1> QED
  BY <1>1, <1>2, <1>3 DEF r

\* The stage of a mission.
LEMMA StageOfType == \A k \in Tasks : StageOf[k] \in Stages
BY ConstantsAssumption

\* Copies that stay as they are.
LEMMA KeptLocals ==
  ASSUME CallsTypeOK
  PROVE  /\ open' = open => open' \in [Calls -> SUBSET Tasks]
         /\ draft' = draft => draft' \in [Calls -> {None} \cup DocCopies]
BY DEF CallsTypeOK

LEMMA StartKeepsTypes ==
  ASSUME Typed, NEW c \in Calls,
         StartWrite(c) \/ \E t \in Teams : StartRead(c, t)
  PROVE  Typed'
<1> USE DEF Typed, TypeOK, history, runVars, teamVars
<1>1. ASSUME NEW t \in Teams, StartRead(c, t)
      PROVE  Typed'
  <2> DEFINE copy == [rec |-> rec[t], stages |-> stages[t],
                      req |-> req[t], earned |-> earned[t]]
  <2>1. copy \in DocCopies
    BY DEF TeamsTypeOK, DocCopies
  <2> HIDE DEF copy
  <2>2. draft' = [draft EXCEPT ![c] = copy] /\ open' = open
        /\ UNCHANGED <<closing, todo>> /\ GoOn(c, "start", t, NoTask, {}, "return")
    BY <1>1 DEF StartRead, copy
  <2>3. /\ draft' \in [Calls -> {None} \cup DocCopies] /\ draft'[c] = copy
        /\ \A d \in Calls \ {c} : draft'[d] = draft[d]
    BY <2>1, <2>2 DEF CallsTypeOK
  <2>4. CallsTypeOK' /\ CallsWellFormed'
    BY <2>1, <2>2, <2>3, KeptLocals, CallStepType
  <2> QED
    BY <1>1, <2>4 DEF StartRead, RunTypeOK, TeamsTypeOK, HistoryTypeOK
<1>2. CASE StartWrite(c)
  <2>1. team[c] \in Teams /\ draft[c] \in DocCopies
    BY <1>2 DEF StartWrite, CallsWellFormed, CallWellFormed
  <2>2. RunTypeOK' /\ TeamsTypeOK' /\ HistoryTypeOK'
    BY <1>2, <2>1 DEF StartWrite, RunTypeOK, TeamsTypeOK, HistoryTypeOK, DocCopies
  <2>3. /\ draft' \in [Calls -> {None} \cup DocCopies]
        /\ \A d \in Calls \ {c} : draft'[d] = draft[d]
    BY <1>2 DEF StartWrite, CallsTypeOK
  <2>4. CallsTypeOK' /\ CallsWellFormed'
    BY <1>2, <2>1, <2>3, KeptLocals, CallStepType DEF StartWrite
  <2> QED
    BY <2>2, <2>4
<1> QED
  BY <1>1, <1>2

LEMMA CompleteKeepsTypes ==
  ASSUME Typed, NEW c \in Calls, NEW t \in Teams, NEW k \in Tasks,
         Complete(c, t, k)
  PROVE  Typed'
<1> USE DEF Typed, TypeOK, history, runVars, teamVars
<1> DEFINE s == StageOf[k]
           r == [rec[t] EXCEPT ![k] = "completed"]
           n == req[t][s]
<1>1. s \in Stages /\ n \in Nat
  BY StageOfType DEF TeamsTypeOK
<1>2. /\ SettleRecords(r, s, n) \in [Tasks -> RecordStates]
      /\ SettleStages(stages[t], r, s, n)
            \in [Stages -> {"locked", "active", "completed"}]
  BY <1>1, SettlingKeepsTypes
<1>3. /\ rec'    = [rec EXCEPT ![t] = SettleRecords(r, s, n)]
      /\ stages' = [stages EXCEPT ![t] = SettleStages(stages[t], r, s, n)]
  BY DEF Complete
<1> HIDE DEF s, r, n
<1>4. /\ rec' \in [Teams -> [Tasks -> RecordStates]]
      /\ stages' \in [Teams -> [Stages -> {"locked", "active", "completed"}]]
  BY <1>2, <1>3 DEF TeamsTypeOK
<1>5. /\ active' \in [Teams -> Tasks \cup {NoTask}]
      /\ earned' \in [Teams -> [Tasks -> BOOLEAN]]
      /\ paid' \in [Teams -> [Tasks -> 0 .. 2]]
  BY DEF Complete, TeamsTypeOK, PaidAgain
<1>6. TeamsTypeOK'
  BY <1>4, <1>5 DEF Complete, TeamsTypeOK
<1>7. PICK K : counts' = Decremented(K)
  BY DEF Complete
<1>8. RunTypeOK' /\ HistoryTypeOK'
  BY <1>7, DecrementedType DEF Complete, RunTypeOK, HistoryTypeOK
<1>9. CallsTypeOK' /\ CallsWellFormed'
  BY KeptLocals, CallStepType DEF Complete
<1> QED
  BY <1>6, <1>8, <1>9

LEMMA SkipKeepsTypes ==
  ASSUME Typed, NEW c \in Calls,
         \/ SkipTask(c) \/ SkipTaskRefused(c)
         \/ \E t \in Teams : SkipStage(c, t)
         \/ \E t \in Teams, k \in Tasks : SkipTaskOpen(c, t, k)
  PROVE  Typed'
<1> USE DEF Typed, TypeOK, history, runVars, teamVars
<1>1. ASSUME NEW t \in Teams, NEW k \in Tasks, SkipTaskOpen(c, t, k)
      PROVE  Typed'
  <2>1. CallsTypeOK' /\ CallsWellFormed'
    BY <1>1, KeptLocals, CallStepType DEF SkipTaskOpen
  <2> QED
    BY <1>1, <2>1 DEF SkipTaskOpen, RunTypeOK, TeamsTypeOK, HistoryTypeOK
<1>2. CASE SkipTaskRefused(c)
  BY <1>2, ReturnType DEF SkipTaskRefused, RunTypeOK, TeamsTypeOK, HistoryTypeOK
<1>3. CASE SkipTask(c)
  <2> DEFINE t == team[c]
             k == task[c]
             s == StageOf[k]
             r == [rec[t] EXCEPT ![k] = "skipped"]
             n == LoweredRequirement(rec[t], s, req[t][s], k)
             K == ({k} \cap InState(rec[t], s, "assigned")) \cup Leftovers(r, s, n)
  <2>1. t \in Teams /\ k \in Tasks
    BY <1>3 DEF SkipTask, CallsWellFormed, CallWellFormed
  <2>2. s \in Stages /\ n \in Nat
    BY <2>1, StageOfType, LoweredRequirementType DEF TeamsTypeOK
  <2>3. /\ rec'    = [rec EXCEPT ![t] = SettleRecords(r, s, n)]
        /\ stages' = [stages EXCEPT ![t] = SettleStages(stages[t], r, s, n)]
        /\ req'    = [req EXCEPT ![t][s] = n]
        /\ active' = [active EXCEPT ![t] = NoTask]
        /\ earned' = [earned EXCEPT ![t][k] = TRUE]
        /\ paid'   = [paid EXCEPT ![t][k] = PaidAgain(@)]
        /\ GoOn(c, "release", t, NoTask, K, "read")
        /\ UNCHANGED <<open, draft, closing, todo, launched>>
    BY <1>3 DEF SkipTask
  <2> HIDE DEF t, k, s, n
  <2>4. /\ SettleRecords(r, s, n) \in [Tasks -> RecordStates]
        /\ SettleStages(stages[t], r, s, n)
              \in [Stages -> {"locked", "active", "completed"}]
        /\ K \in SUBSET Tasks
    BY <2>1, <2>2, SettlingKeepsTypes
  <2> HIDE DEF r, K
  <2>5. CallsTypeOK' /\ CallsWellFormed'
    BY <2>1, <2>3, <2>4, KeptLocals, CallStepType
  <2>6. /\ rec' \in [Teams -> [Tasks -> RecordStates]]
        /\ stages' \in [Teams -> [Stages -> {"locked", "active", "completed"}]]
        /\ req' \in [Teams -> [Stages -> Nat]]
    BY <2>1, <2>2, <2>3, <2>4 DEF TeamsTypeOK
  <2>7. TeamsTypeOK'
    BY <2>1, <2>3, <2>6 DEF TeamsTypeOK, PaidAgain
  <2> QED
    BY <1>3, <2>5, <2>7 DEF SkipTask, RunTypeOK, HistoryTypeOK
<1>4. ASSUME NEW t \in Teams, SkipStage(c, t)
      PROVE  Typed'
  <2>1. PICK s \in Stages :
          /\ rec'    = [rec EXCEPT ![t] = [k \in Tasks |->
                IF k \in {j \in StageTasks(s) : rec[t][j] # "completed"}
                THEN "skipped" ELSE @[k]]]
          /\ earned' = [earned EXCEPT ![t] = [k \in Tasks |->
                k \in {j \in StageTasks(s) : rec[t][j] # "completed"} \/ @[k]]]
          /\ paid'   = [paid EXCEPT ![t] = [k \in Tasks |->
                IF k \in {j \in StageTasks(s) : rec[t][j] # "completed"}
                THEN PaidAgain(@[k]) ELSE @[k]]]
          /\ stages' = [stages EXCEPT ![t] = OpenNext(@, s)]
          /\ active' = [active EXCEPT ![t] = NoTask]
          /\ GoOn(c, "release", t, NoTask, InState(rec[t], s, "assigned"), "return")
          /\ UNCHANGED <<runVars, req, launched, history, open, draft, closing, todo>>
    BY <1>4 DEF SkipStage
  <2> DEFINE gone == {k \in StageTasks(s) : rec[t][k] # "completed"}
  <2> HIDE DEF gone
  <2>2. InState(rec[t], s, "assigned") \in SUBSET Tasks
    BY DEF InState, StageTasks
  <2>3. CallsTypeOK' /\ CallsWellFormed'
    BY <2>1, <2>2, KeptLocals, CallStepType
  <2>4. rec' \in [Teams -> [Tasks -> RecordStates]]
    BY <2>1 DEF TeamsTypeOK
  <2>5. earned' \in [Teams -> [Tasks -> BOOLEAN]]
    BY <2>1 DEF TeamsTypeOK
  <2>6. paid' \in [Teams -> [Tasks -> 0 .. 2]]
    BY <2>1 DEF TeamsTypeOK, PaidAgain
  <2>7. stages' \in [Teams -> [Stages -> {"locked", "active", "completed"}]]
    <3>1. stages[t] \in [Stages -> {"locked", "active", "completed"}]
      BY DEF TeamsTypeOK
    <3>2. OpenNext(stages[t], s) \in [Stages -> {"locked", "active", "completed"}]
      BY <3>1, SettledStagesType
    <3> QED
      BY <2>1, <3>2 DEF TeamsTypeOK
  <2>8. TeamsTypeOK'
    BY <2>1, <2>4, <2>5, <2>6, <2>7 DEF TeamsTypeOK
  <2> QED
    BY <2>1, <2>3, <2>8 DEF RunTypeOK, HistoryTypeOK
<1> QED
  BY <1>1, <1>2, <1>3, <1>4

LEMMA CheckOutKeepsTypes ==
  ASSUME Typed, NEW c \in Calls, NEW t \in Teams, NEW k \in Tasks,
         CheckOut(c, t, k)
  PROVE  Typed'
<1> USE DEF Typed, TypeOK, history, runVars, teamVars
<1>1. CallsTypeOK' /\ CallsWellFormed'
  BY KeptLocals, CallStepType DEF CheckOut
<1>2. TeamsTypeOK'
  BY DEF CheckOut, TeamsTypeOK
<1> QED
  BY <1>1, <1>2 DEF CheckOut, RunTypeOK, HistoryTypeOK

LEMMA ForceKeepsTypes ==
  ASSUME Typed, NEW c \in Calls,
         \/ ForceClaim(c) \/ ForceRefused(c) \/ ForceTeam(c) \/ ForceUndone(c)
         \/ \E t \in Teams, k \in Tasks : ForceRead(c, t, k)
  PROVE  Typed'
<1> USE DEF Typed, TypeOK, history, runVars, teamVars
<1>1. ASSUME NEW t \in Teams, NEW k \in Tasks, ForceRead(c, t, k)
      PROVE  Typed'
  <2>1. CallsTypeOK' /\ CallsWellFormed'
    BY <1>1, KeptLocals, CallStepType DEF ForceRead
  <2> QED
    BY <1>1, <2>1 DEF ForceRead, RunTypeOK, TeamsTypeOK, HistoryTypeOK
<1>2. CASE ForceClaim(c)
  <2>1. team[c] \in Teams /\ task[c] \in Tasks
    BY <1>2 DEF ForceClaim, CallsWellFormed, CallWellFormed
  <2>2. CallsTypeOK' /\ CallsWellFormed'
    BY <1>2, <2>1, KeptLocals, CallStepType DEF ForceClaim
  <2> QED
    BY <1>2, <2>1, <2>2 DEF ForceClaim, RunTypeOK, TeamsTypeOK, HistoryTypeOK
<1>3. CASE ForceRefused(c)
  BY <1>3, ReturnType DEF ForceRefused, RunTypeOK, TeamsTypeOK, HistoryTypeOK
<1>4. CASE ForceTeam(c)
  <2> DEFINE t == team[c]
             k == task[c]
             displaced == InState(rec[t], StageOf[k], "assigned")
  <2>1. t \in Teams /\ k \in Tasks
    BY <1>4 DEF ForceTeam, CallsWellFormed, CallWellFormed
  <2>2. displaced \in SUBSET Tasks
    BY DEF InState, StageTasks
  <2>3. /\ rec' = [rec EXCEPT ![t] = [j \in Tasks |->
               IF j = k THEN "assigned"
               ELSE IF j \in displaced THEN "unassigned" ELSE @[j]]]
        /\ active' = [active EXCEPT ![t] = k]
        /\ GoOn(c, "release", t, NoTask, displaced, "return")
        /\ UNCHANGED <<runVars, stages, req, launched, paid, earned, history,
                       open, draft, closing, todo>>
    BY <1>4 DEF ForceTeam
  <2> HIDE DEF t, k, displaced
  <2>4. CallsTypeOK' /\ CallsWellFormed'
    BY <2>1, <2>2, <2>3, KeptLocals, CallStepType
  <2>5. TeamsTypeOK'
    BY <2>1, <2>3 DEF TeamsTypeOK
  <2> QED
    BY <2>3, <2>4, <2>5 DEF RunTypeOK, HistoryTypeOK
<1>5. CASE ForceUndone(c)
  <2>1. team[c] \in Teams /\ owed[c] \in SUBSET Tasks
    BY <1>5 DEF ForceUndone, CallsWellFormed, CallWellFormed, CallsTypeOK
  <2>2. CallsTypeOK' /\ CallsWellFormed'
    BY <1>5, <2>1, KeptLocals, CallStepType DEF ForceUndone
  <2> QED
    BY <1>5, <2>2 DEF ForceUndone, RunTypeOK, TeamsTypeOK, HistoryTypeOK
<1> QED
  BY <1>1, <1>2, <1>3, <1>4, <1>5

LEMMA ClosureKeepsTypes ==
  ASSUME Typed, NEW c \in Calls,
         \/ SetStatusWrite(c) \/ CloseDone(c)
         \/ \E t \in Teams : CloseTeam(c, t) \/ CloseSkips(c, t)
         \/ \E k \in Tasks, st \in Statuses : SetStatusRead(c, k, st)
  PROVE  Typed'
<1> USE DEF Typed, TypeOK, history, runVars, teamVars
<1>1. ASSUME NEW k \in Tasks, NEW st \in Statuses, SetStatusRead(c, k, st)
      PROVE  Typed'
  <2>1. GoOn(c, st, NoTeam, k, {}, "return")
    BY <1>1 DEF SetStatusRead
  <2>2. /\ pc' \in [Calls -> Steps] /\ team' \in [Calls -> Teams \cup {NoTeam}]
        /\ task' \in [Calls -> Tasks \cup {NoTask}]
        /\ owed' \in [Calls -> SUBSET Tasks]
        /\ after' \in [Calls -> {"return", "read", "reserve"}]
        /\ pc'[c] = st /\ task'[c] = k /\ owed'[c] = {} /\ after'[c] = "return"
        /\ OthersKept(c)
    BY <2>1, GoOnType
  <2>3. CallsTypeOK'
    BY <1>1, <2>2 DEF SetStatusRead, CallsTypeOK
  <2>4. CallWellFormed(c)'
    BY <2>2 DEF CallWellFormed
  <2>5. \A d \in Calls \ {c} : draft'[d] = draft[d] /\ closing'[d] = closing[d]
    BY <1>1 DEF SetStatusRead, CallsTypeOK
  <2>6. CallsWellFormed'
    BY <2>2, <2>4, <2>5, OthersWellFormed
  <2> QED
    BY <1>1, <2>3, <2>6
       DEF SetStatusRead, RunTypeOK, TeamsTypeOK, HistoryTypeOK
<1>2. CASE SetStatusWrite(c)
  <2>1. task[c] \in Tasks
    BY <1>2 DEF SetStatusWrite, CallsWellFormed, CallWellFormed
  <2>2. RunTypeOK' /\ TeamsTypeOK' /\ HistoryTypeOK'
    BY <1>2, <2>1 DEF SetStatusWrite, MissedAtWrite, RunTypeOK, TeamsTypeOK, HistoryTypeOK
  <2>3. /\ todo' \in [Calls -> SUBSET Teams] /\ closing' = closing
        /\ Return(c)
    BY <1>2 DEF SetStatusWrite, CallsTypeOK
  <2> DEFINE step == IF closing[c] = NoTask THEN "idle" ELSE "close"
  <2>4. /\ step \in Steps /\ GoOn(c, step, NoTeam, NoTask, {}, "return")
        /\ step \in {"idle", "close"} /\ (step = "close" => closing[c] \in Tasks)
    BY <2>3 DEF Return, CallsTypeOK
  <2> HIDE DEF step
  <2>5. /\ pc' \in [Calls -> Steps] /\ team' \in [Calls -> Teams \cup {NoTeam}]
        /\ task' \in [Calls -> Tasks \cup {NoTask}]
        /\ owed' \in [Calls -> SUBSET Tasks]
        /\ after' \in [Calls -> {"return", "read", "reserve"}]
        /\ pc'[c] = step /\ owed'[c] = {} /\ after'[c] = "return"
        /\ OthersKept(c)
    BY <2>4, GoOnType
  <2>6. /\ open' \in [Calls -> SUBSET Tasks]
        /\ draft' \in [Calls -> {None} \cup DocCopies]
        /\ \A d \in Calls \ {c} : draft'[d] = draft[d] /\ closing'[d] = closing[d]
    BY <2>3 DEF Return, CallsTypeOK
  <2>7. CallsTypeOK'
    BY <2>3, <2>5, <2>6 DEF CallsTypeOK
  <2>8. CallWellFormed(c)'
    BY <2>3, <2>4, <2>5 DEF CallWellFormed
  <2>9. CallsWellFormed'
    BY <2>5, <2>6, <2>8, OthersWellFormed
  <2> QED
    BY <2>2, <2>7, <2>9
<1>3. CASE CloseDone(c)
  <2>1. closing[c] \in Tasks
    BY <1>3 DEF CloseDone, CallsWellFormed, CallWellFormed
  <2>2. RunTypeOK' /\ TeamsTypeOK' /\ HistoryTypeOK'
    BY <1>3, <2>1 DEF CloseDone, RunTypeOK, TeamsTypeOK, HistoryTypeOK
  <2>3. CallsTypeOK'
    BY <1>3 DEF CloseDone, CallsTypeOK
  <2>4. CallWellFormed(c)' /\ OthersKept(c)
    BY <1>3 DEF CloseDone, CallsTypeOK, CallsWellFormed, CallWellFormed, OthersKept
  <2>5. \A d \in Calls \ {c} : draft'[d] = draft[d] /\ closing'[d] = closing[d]
    BY <1>3 DEF CloseDone, CallsTypeOK
  <2>6. CallsWellFormed'
    BY <2>4, <2>5, OthersWellFormed
  <2> QED
    BY <2>2, <2>3, <2>6
<1>4. ASSUME NEW t \in Teams, CloseSkips(c, t)
      PROVE  Typed'
  <2>1. RunTypeOK' /\ TeamsTypeOK' /\ HistoryTypeOK'
    BY <1>4 DEF CloseSkips, RunTypeOK, TeamsTypeOK, HistoryTypeOK
  <2>2. CallsTypeOK'
    BY <1>4 DEF CloseSkips, CallsTypeOK
  <2>3. CallsWellFormed'
    BY <1>4 DEF CloseSkips, CallsWellFormed, CallWellFormed
  <2> QED
    BY <2>1, <2>2, <2>3
<1>5. ASSUME NEW t \in Teams, CloseTeam(c, t)
      PROVE  Typed'
  <2> DEFINE k == closing[c]
             s == StageOf[k]
             r == [rec[t] EXCEPT ![k] = "skipped"]
             n == LoweredRequirement(rec[t], s, req[t][s], k)
             playing == stages[t][s] = "active"
             K == (IF rec[t][k] = "assigned" THEN {k} ELSE {})
                    \cup (IF playing THEN Leftovers(r, s, n) ELSE {})
             next == IF HeldSlot(t, k) THEN "read" ELSE "return"
  <2>1. k \in Tasks
    BY <1>5 DEF CloseTeam, CallsWellFormed, CallWellFormed
  <2>2. s \in Stages /\ n \in Nat
    BY <2>1, StageOfType, LoweredRequirementType DEF TeamsTypeOK
  <2>3. /\ rec'    = [rec EXCEPT ![t] = IF playing THEN SettleRecords(r, s, n) ELSE r]
        /\ stages' = [stages EXCEPT ![t] =
                        IF playing THEN SettleStages(@, r, s, n) ELSE @]
        /\ req'    = [req EXCEPT ![t][s] = n]
        /\ earned' = [earned EXCEPT ![t][k] = FALSE]
        /\ active' = [active EXCEPT ![t] = IF HeldSlot(t, k) THEN NoTask ELSE @]
        /\ GoOn(c, "release", t, NoTask, K, next)
        /\ todo' = [todo EXCEPT ![c] = @ \ {t}]
        /\ UNCHANGED <<runVars, launched, paid, leaked, open, draft, closing>>
        /\ missed' \in [Tasks -> SUBSET Teams]
    BY <1>5 DEF CloseTeam, HistoryTypeOK
  <2>4. next \in {"return", "read", "reserve"}
    OBVIOUS
  <2> HIDE DEF k, s, n
  <2>5. /\ r \in [Tasks -> RecordStates]
        /\ SettleRecords(r, s, n) \in [Tasks -> RecordStates]
        /\ SettleStages(stages[t], r, s, n)
              \in [Stages -> {"locked", "active", "completed"}]
        /\ Leftovers(r, s, n) \subseteq Tasks
    BY <2>1, <2>2, SettlingKeepsTypes
  <2>a. K \in SUBSET Tasks
    BY <2>1, <2>5
  <2> HIDE DEF r, K, playing, next
  <2>b. GoOn(c, "release", t, NoTask, K, next)
    BY <2>3
  <2>c. CallsTypeOK /\ "release" \in Steps
    OBVIOUS
  <2>6. /\ pc' \in [Calls -> Steps] /\ team' \in [Calls -> Teams \cup {NoTeam}]
        /\ task' \in [Calls -> Tasks \cup {NoTask}]
        /\ owed' \in [Calls -> SUBSET Tasks]
        /\ after' \in [Calls -> {"return", "read", "reserve"}]
        /\ pc'[c] = "release" /\ team'[c] = t /\ OthersKept(c)
    <3> HIDE DEF Typed, TypeOK, Steps
    <3> QED
      BY <2>1, <2>4, <2>a, <2>b, <2>c DEF GoOn, CallsTypeOK, OthersKept
  <2>7. CallsTypeOK'
    BY <2>3, <2>6 DEF CallsTypeOK
  <2>8. CallWellFormed(c)'
    BY <2>6 DEF CallWellFormed
  <2>9. CallsWellFormed'
    BY <2>3, <2>6, <2>8, OthersWellFormed
  <2>10. /\ rec' \in [Teams -> [Tasks -> RecordStates]]
         /\ stages' \in [Teams -> [Stages -> {"locked", "active", "completed"}]]
         /\ req' \in [Teams -> [Stages -> Nat]]
    BY <2>1, <2>2, <2>3, <2>5 DEF TeamsTypeOK
  <2>11. TeamsTypeOK'
    BY <2>1, <2>3, <2>10 DEF TeamsTypeOK
  <2> QED
    BY <2>3, <2>7, <2>9, <2>11 DEF Typed, RunTypeOK, HistoryTypeOK
<1> QED
  BY <1>1, <1>2, <1>3, <1>4, <1>5

LEMMA RunStepsKeepTypes ==
  ASSUME Typed,
         \/ FinalizeRead \/ FinalizeWrite
         \/ \E k \in Tasks : Expire(k)
         \/ \E c \in Calls : Crash(c)
  PROVE  Typed'
<1> USE DEF Typed, TypeOK, history, runVars, teamVars, callVars
<1>1. CASE FinalizeRead
  BY <1>1, ReconciledType
     DEF FinalizeRead, RunTypeOK, TeamsTypeOK, CallsTypeOK, HistoryTypeOK,
         CallsWellFormed, CallWellFormed
<1>2. CASE FinalizeWrite
  BY <1>2 DEF FinalizeWrite, RunTypeOK, TeamsTypeOK, CallsTypeOK, HistoryTypeOK,
              CallsWellFormed, CallWellFormed
<1>3. ASSUME NEW k \in Tasks, Expire(k)
      PROVE  Typed'
  BY <1>3 DEF Expire, RunTypeOK, TeamsTypeOK, CallsTypeOK, HistoryTypeOK,
              CallsWellFormed, CallWellFormed
<1>4. ASSUME NEW c \in Calls, Crash(c)
      PROVE  Typed'
  <2>1. GoOn(c, "idle", NoTeam, NoTask, {}, "return")
    BY <1>4 DEF Crash
  <2>2. /\ pc' \in [Calls -> Steps] /\ team' \in [Calls -> Teams \cup {NoTeam}]
        /\ task' \in [Calls -> Tasks \cup {NoTask}]
        /\ owed' \in [Calls -> SUBSET Tasks]
        /\ after' \in [Calls -> {"return", "read", "reserve"}]
        /\ pc'[c] = "idle" /\ owed'[c] = {} /\ after'[c] = "return"
        /\ OthersKept(c)
    BY <2>1, GoOnType
  <2>3. CallsTypeOK'
    BY <1>4, <2>2 DEF Crash, CallsTypeOK
  <2>4. CallWellFormed(c)'
    BY <2>2 DEF CallWellFormed
  <2>5. \A d \in Calls \ {c} : draft'[d] = draft[d] /\ closing'[d] = closing[d]
    <3>1. draft' = [draft EXCEPT ![c] = None] /\ closing' = [closing EXCEPT ![c] = NoTask]
      BY <1>4 DEF Crash
    <3> QED
      BY <3>1 DEF CallsTypeOK
  <2>6. CallsWellFormed'
    BY <2>2, <2>4, <2>5, OthersWellFormed
  <2>7. todo[c] \subseteq Teams
    BY DEF CallsTypeOK
  <2>8. RunTypeOK' /\ TeamsTypeOK' /\ HistoryTypeOK'
    BY <1>4, <2>7 DEF Crash, RunTypeOK, TeamsTypeOK, HistoryTypeOK
  <2> QED
    BY <2>3, <2>6, <2>8
<1> QED
  BY <1>1, <1>2, <1>3, <1>4

\* Every step keeps the types and keeps the calls well formed.
LEMMA TypedIsInductive == Typed /\ [Next]_vars => Typed'
<1> SUFFICES ASSUME Typed, [Next]_vars PROVE Typed'
  OBVIOUS
<1>1. CASE UNCHANGED vars
  BY <1>1 DEF vars, runVars, teamVars, callVars, history, Typed, TypeOK, RunTypeOK,
              TeamsTypeOK, CallsTypeOK, HistoryTypeOK, CallsWellFormed,
              CallWellFormed
<1>2. ASSUME NEW c \in Calls, Beginning(c)
      PROVE  Typed'
  <2>1. ASSUME NEW t \in Teams, RequestNext(c, t)
        PROVE  Typed'
    <3> USE DEF Typed, TypeOK, history, runVars, teamVars
    <3>1. CallsTypeOK' /\ CallsWellFormed'
      BY <2>1, KeptLocals, CallStepType DEF RequestNext
    <3> QED
      BY <2>1, <3>1 DEF RequestNext, RunTypeOK, TeamsTypeOK, HistoryTypeOK
  <2>2. ASSUME NEW t \in Teams, PollRead(c, t)
        PROVE  Typed'
    BY <2>2, SweepKeepsTypes DEF PollRead
  <2> QED
    BY <1>2, <2>1, <2>2, StartKeepsTypes, SkipKeepsTypes, CompleteKeepsTypes,
       CheckOutKeepsTypes, ForceKeepsTypes, ClosureKeepsTypes DEF Beginning
<1>3. ASSUME NEW c \in Calls, Continuing(c)
      PROVE  Typed'
  BY <1>3, RoutingKeepsTypes, StartKeepsTypes, SkipKeepsTypes, ForceKeepsTypes,
     ClosureKeepsTypes DEF Continuing
<1> QED
  BY <1>1, <1>2, <1>3, RunStepsKeepTypes DEF Next

\* Whatever the numbers of teams, missions, stages and calls: every variable
\* keeps its type, and every call has in its hands what its step needs -- a
\* slot it has reserved or is giving back, and no other (the handlers of
\* functions/src/runs and functions/src/routing).
THEOREM TypesHold == Spec => [](TypeOK /\ CallsWellFormed)
<1>1. Init => Typed
  BY InitialTypes DEF Typed
<1> QED
  BY <1>1, TypedIsInductive, PTL DEF Spec, Typed

-----------------------------------------------------------------------------
(* Station caps *)

\* What a step may do to the counters while the run goes on: lower them, or
\* take one slot of a station that has room.
CountersMove ==
  runStatus' = runStatus /\
    \A k \in Tasks : \/ counts'[k] <= counts[k]
                     \/ HasRoom(k) /\ counts'[k] = counts[k] + 1

\* Only the end of a run does anything else.
LEMMA CountersOnlyMove ==
  ASSUME Typed, [Next]_vars
  PROVE  CountersMove \/ FinalizeWrite
<1> USE DEF runVars, teamVars
<1>1. counts \in [Tasks -> Nat] /\ \A k \in Tasks : counts[k] <= counts[k]
  BY DEF Typed, TypeOK, RunTypeOK
<1>2. ASSUME UNCHANGED <<runStatus, counts>> PROVE CountersMove
  BY <1>1, <1>2 DEF CountersMove
<1>3. ASSUME NEW K, counts' = Decremented(K), runStatus' = runStatus
      PROVE  CountersMove
  BY <1>1, <1>3, DecrementedType DEF CountersMove
<1>4. ASSUME NEW k \in Tasks, HasRoom(k), counts' = [counts EXCEPT ![k] = @ + 1],
             runStatus' = runStatus
      PROVE  CountersMove
  BY <1>1, <1>4 DEF CountersMove
<1>5. CASE UNCHANGED vars
  BY <1>2, <1>5 DEF vars
<1>6. ASSUME NEW c \in Calls, Beginning(c)
      PROVE  CountersMove
  <2>1. ASSUME NEW t \in Teams, NEW k \in Tasks, Complete(c, t, k)
        PROVE  CountersMove
    BY <2>1, <1>3 DEF Complete
  <2> QED
    BY <1>2, <1>6, <2>1
       DEF Beginning, RequestNext, PollRead, StartRead, SkipStage, SkipTaskOpen,
           CheckOut, ForceRead, SetStatusRead
<1>7. ASSUME NEW c \in Calls, Continuing(c)
      PROVE  CountersMove
  <2>1. CASE Reserve(c)
    <3>1. PICK k \in Candidates(c) : counts' = [counts EXCEPT ![k] = @ + 1]
      BY <2>1 DEF Reserve
    <3>2. k \in Tasks /\ HasRoom(k)
      BY DEF Candidates, Typed, TypeOK, CallsTypeOK
    <3> QED
      BY <2>1, <3>1, <3>2, <1>4 DEF Reserve
  <2>2. CASE Release(c)
    BY <2>2, <1>3 DEF Release
  <2>3. CASE ForceClaim(c)
    BY <2>3, <1>4 DEF ForceClaim, Typed, CallsWellFormed, CallWellFormed
  <2>4. CASE Routing(c)
    BY <1>2, <2>1, <2>2, <2>4
       DEF Routing, NothingToAssign, ReadOpen, SweepRead, Persist, PersistFails,
           NoCandidate, Claim, ClaimRefused, Released
  <2> QED
    BY <1>2, <1>7, <2>3, <2>4
       DEF Continuing, StartWrite, SkipTask, SkipTaskRefused, ForceRefused,
           ForceTeam, ForceUndone, SetStatusWrite, CloseTeam, CloseSkips, CloseDone
<1>8. ASSUME NEW c \in Calls, Crash(c)
      PROVE  CountersMove
  BY <1>2, <1>8 DEF Crash
<1>9. ASSUME NEW k \in Tasks, Expire(k)
      PROVE  CountersMove
  BY <1>2, <1>9 DEF Expire
<1>10. CASE FinalizeRead
  BY <1>2, <1>10 DEF FinalizeRead
<1> QED
  BY <1>5, <1>6, <1>7, <1>8, <1>9, <1>10 DEF Next

\* assignTask and claimSpecificTask check the cap and increment in one
\* transaction: whatever the interleaving and the crashes, and with every
\* entry point in use, no counter of a live run passes its station's cap.
THEOREM CapsHold == Spec => []CapRespected
<1>1. Init => Typed /\ CapRespected
  <2>1. Init => CapRespected
    BY ConstantsAssumption DEF Init, CapRespected
  <2> QED
    BY <2>1, InitialTypes DEF Typed
<1>2. ASSUME Typed, CapRespected, [Next]_vars
      PROVE  CapRespected'
  <2>1. CASE FinalizeWrite
    BY <2>1 DEF FinalizeWrite, CapRespected
  <2>2. CASE CountersMove
    <3> SUFFICES ASSUME runStatus = "active", NEW k \in Tasks \ Locationless
                 PROVE  counts'[k] <= Cap[k]
      BY <2>2 DEF CapRespected, CountersMove
    <3>1. counts[k] \in Nat /\ counts'[k] \in Nat /\ Cap[k] \in Nat
      BY <1>2, TypedIsInductive, ConstantsAssumption
         DEF Typed, TypeOK, RunTypeOK
    <3>2. counts[k] <= Cap[k]
      BY <1>2 DEF CapRespected
    <3> QED
      BY <2>2, <3>1, <3>2 DEF CountersMove, HasRoom
  <2> QED
    BY <1>2, <2>1, <2>2, CountersOnlyMove
<1> QED
  BY <1>1, <1>2, TypedIsInductive, PTL DEF Spec

-----------------------------------------------------------------------------
(* Which steps write a team document *)

\* The steps that change the records, the stages or the requirements of a team.
Writes(c) ==
  \/ Persist(c) \/ StartWrite(c) \/ Claim(c) \/ SkipTask(c) \/ ForceTeam(c)
  \/ \E t \in Teams :
       \/ SkipStage(c, t) \/ CloseTeam(c, t)
       \/ \E k \in Tasks : Complete(c, t, k) \/ CheckOut(c, t, k)

\* The steps of a call that leave every team document alone.
LEMMA OtherBeginnings ==
  ASSUME NEW c \in Calls, Beginning(c)
  PROVE  Writes(c) \/ UNCHANGED teamVars
<1>1. ASSUME NEW t \in Teams, RequestNext(c, t) \/ PollRead(c, t) \/ StartRead(c, t)
      PROVE  UNCHANGED teamVars
  BY <1>1 DEF RequestNext, PollRead, StartRead
<1>2. ASSUME NEW t \in Teams, NEW k \in Tasks,
             SkipTaskOpen(c, t, k) \/ ForceRead(c, t, k)
      PROVE  UNCHANGED teamVars
  BY <1>2 DEF SkipTaskOpen, ForceRead
<1>3. ASSUME NEW k \in Tasks, NEW st \in Statuses, SetStatusRead(c, k, st)
      PROVE  UNCHANGED teamVars
  BY <1>3 DEF SetStatusRead
<1> QED
  BY <1>1, <1>2, <1>3 DEF Beginning, Writes

LEMMA OtherRouting ==
  ASSUME NEW c \in Calls, Routing(c)
  PROVE  Writes(c) \/ UNCHANGED teamVars
<1>1. CASE NothingToAssign(c) \/ ReadOpen(c) \/ SweepRead(c) \/ PersistFails(c)
  BY <1>1 DEF NothingToAssign, ReadOpen, SweepRead, PersistFails
<1>2. CASE Reserve(c) \/ NoCandidate(c) \/ ClaimRefused(c) \/ Release(c) \/ Released(c)
  BY <1>2 DEF Reserve, NoCandidate, ClaimRefused, Release, Released
<1> QED
  BY <1>1, <1>2 DEF Routing, Writes

LEMMA OtherSteps ==
  ASSUME [Next]_vars
  PROVE  (\E c \in Calls : Writes(c)) \/ UNCHANGED teamVars
<1>1. ASSUME NEW c \in Calls, Continuing(c)
      PROVE  Writes(c) \/ UNCHANGED teamVars
  <2>1. CASE SkipTaskRefused(c) \/ ForceClaim(c) \/ ForceRefused(c) \/ ForceUndone(c)
    BY <2>1 DEF SkipTaskRefused, ForceClaim, ForceRefused, ForceUndone
  <2>2. CASE SetStatusWrite(c) \/ CloseDone(c)
    BY <2>2 DEF SetStatusWrite, CloseDone
  <2>3. ASSUME NEW t \in Teams, CloseSkips(c, t)
        PROVE  UNCHANGED teamVars
    BY <2>3 DEF CloseSkips
  <2> QED
    BY <1>1, <2>1, <2>2, <2>3, OtherRouting DEF Continuing, Writes
<1>2. ASSUME NEW c \in Calls, Crash(c) PROVE UNCHANGED teamVars
  BY <1>2 DEF Crash
<1>3. CASE UNCHANGED vars
  BY <1>3 DEF vars
<1>4. ASSUME NEW k \in Tasks, Expire(k) PROVE UNCHANGED teamVars
  BY <1>4 DEF Expire
<1>5. CASE FinalizeRead \/ FinalizeWrite
  BY <1>5 DEF FinalizeRead, FinalizeWrite
<1> QED
  BY <1>1, <1>2, <1>3, <1>4, <1>5, OtherBeginnings DEF Next

\* The copies calls keep between a read and a write: each was kept, dropped, or
\* is of the document just read -- as it is, or as a sweep leaves it.
CopyKept(c) == draft'[c] = draft[c] \/ draft'[c] = None
CopyRead(c) ==
  \E t \in Teams :
    \/ draft'[c] = [rec |-> rec[t], stages |-> stages[t],
                    req |-> req[t], earned |-> earned[t]]
    \/ \E s \in Stages : \E k \in InState(rec[t], s, "assigned") :
          IsActiveStage(stages[t], s) /\ draft'[c] = Swept(t, s, k)
CopiesMove ==
  \A c \in Calls : CopyKept(c) \/ (CopyRead(c) /\ UNCHANGED teamVars)

LEMMA CopiesOnlyMove ==
  ASSUME Typed, [Next]_vars
  PROVE  CopiesMove
<1>0. draft \in [Calls -> {None} \cup DocCopies]
  BY DEF Typed, TypeOK, CallsTypeOK
<1>1. ASSUME UNCHANGED draft PROVE CopiesMove
  BY <1>1 DEF CopiesMove, CopyKept
<1>2. ASSUME NEW c \in Calls, draft' = [draft EXCEPT ![c] = None]
      PROVE  CopiesMove
  BY <1>0, <1>2 DEF CopiesMove, CopyKept
<1>3. ASSUME NEW c \in Calls, Return(c) PROVE CopiesMove
  BY <1>2, <1>3 DEF Return
<1>4. ASSUME NEW c \in Calls, NEW t \in Teams, NEW routing,
             SweepInFlight(c, t, routing), UNCHANGED teamVars
      PROVE  CopiesMove
  <2>s. PICK s \in Stages : \E k \in InState(rec[t], s, "assigned") :
          /\ IsActiveStage(stages[t], s)
          /\ draft' = [draft EXCEPT ![c] = Swept(t, s, k)]
    BY <1>4 DEF SweepInFlight
  <2>1. PICK k \in InState(rec[t], s, "assigned") :
          /\ IsActiveStage(stages[t], s)
          /\ draft' = [draft EXCEPT ![c] = Swept(t, s, k)]
    BY <2>s
  <2>2. draft'[c] = Swept(t, s, k) /\ \A d \in Calls \ {c} : draft'[d] = draft[d]
    BY <1>0, <2>1
  <2> QED
    BY <1>4, <2>1, <2>2 DEF CopiesMove, CopyKept, CopyRead
<1>5. ASSUME NEW c \in Calls, NEW t \in Teams, StartRead(c, t)
      PROVE  CopiesMove
  <2> DEFINE copy == [rec |-> rec[t], stages |-> stages[t],
                      req |-> req[t], earned |-> earned[t]]
  <2>1. draft' = [draft EXCEPT ![c] = copy] /\ UNCHANGED teamVars
    BY <1>5 DEF StartRead
  <2> HIDE DEF copy
  <2>2. draft'[c] = copy /\ \A d \in Calls \ {c} : draft'[d] = draft[d]
    BY <1>0, <2>1
  <2> QED
    BY <2>1, <2>2 DEF CopiesMove, CopyKept, CopyRead, copy
<1>6. ASSUME NEW c \in Calls, Beginning(c) PROVE CopiesMove
  <2>1. ASSUME NEW t \in Teams, PollRead(c, t) PROVE CopiesMove
    BY <2>1, <1>4 DEF PollRead
  <2>2. ASSUME NEW t \in Teams, NEW k \in Tasks,
               \/ Complete(c, t, k) \/ SkipTaskOpen(c, t, k)
               \/ CheckOut(c, t, k) \/ ForceRead(c, t, k)
        PROVE  CopiesMove
    BY <2>2, <1>1 DEF Complete, SkipTaskOpen, CheckOut, ForceRead
  <2>3. ASSUME NEW t \in Teams, RequestNext(c, t) \/ SkipStage(c, t)
        PROVE  CopiesMove
    BY <2>3, <1>1 DEF RequestNext, SkipStage
  <2>4. ASSUME NEW k \in Tasks, NEW st \in Statuses, SetStatusRead(c, k, st)
        PROVE  CopiesMove
    BY <2>4, <1>1 DEF SetStatusRead
  <2> QED
    BY <1>5, <1>6, <2>1, <2>2, <2>3, <2>4 DEF Beginning
<1>7. ASSUME NEW c \in Calls, Routing(c) PROVE CopiesMove
  <2>1. CASE SweepRead(c)
    <3>1. team[c] \in Teams
      BY <2>1 DEF SweepRead, Typed, CallsWellFormed, CallWellFormed
    <3>2. SweepInFlight(c, team[c], TRUE) /\ UNCHANGED teamVars
      BY <2>1 DEF SweepRead
    <3> QED
      BY <3>1, <3>2, <1>4
  <2>2. CASE NothingToAssign(c) \/ PersistFails(c) \/ NoCandidate(c) \/ Claim(c)
    BY <2>2, <1>3 DEF NothingToAssign, PersistFails, NoCandidate, Claim
  <2>3. CASE ReadOpen(c) \/ Reserve(c) \/ ClaimRefused(c) \/ Release(c)
    BY <2>3, <1>1 DEF ReadOpen, Reserve, ClaimRefused, Release
  <2>4. CASE Persist(c) \/ Released(c)
    BY <2>4, <1>1, <1>2, <1>3 DEF Persist, Released
  <2> QED
    BY <1>7, <2>1, <2>2, <2>3, <2>4 DEF Routing
<1>8. ASSUME NEW c \in Calls, Continuing(c) PROVE CopiesMove
  <2>1. CASE SkipTask(c) \/ ForceClaim(c) \/ ForceTeam(c) \/ ForceUndone(c)
    BY <2>1, <1>1 DEF SkipTask, ForceClaim, ForceTeam, ForceUndone
  <2>2. CASE StartWrite(c) \/ SkipTaskRefused(c) \/ ForceRefused(c) \/ SetStatusWrite(c)
    BY <2>2, <1>2, <1>3 DEF StartWrite, SkipTaskRefused, ForceRefused, SetStatusWrite
  <2>3. ASSUME NEW t \in Teams, CloseTeam(c, t) \/ CloseSkips(c, t)
        PROVE  CopiesMove
    BY <2>3, <1>1 DEF CloseTeam, CloseSkips
  <2>4. CASE CloseDone(c)
    BY <2>4, <1>1 DEF CloseDone
  <2> QED
    BY <1>7, <1>8, <2>1, <2>2, <2>3, <2>4 DEF Continuing
<1>9. ASSUME NEW c \in Calls, Crash(c) PROVE CopiesMove
  BY <1>9, <1>2 DEF Crash
<1>10. CASE UNCHANGED vars
  BY <1>10, <1>1 DEF vars, callVars
<1>11. ASSUME NEW k \in Tasks, Expire(k) PROVE CopiesMove
  BY <1>11, <1>1 DEF Expire, callVars
<1>12. CASE FinalizeRead \/ FinalizeWrite
  BY <1>12, <1>1 DEF FinalizeRead, FinalizeWrite, callVars
<1> QED
  BY <1>6, <1>8, <1>9, <1>10, <1>11, <1>12 DEF Next

-----------------------------------------------------------------------------
(* One mission in hand *)

\* No two missions of one stage are assigned in the records r.
OneAssigned(r) ==
  \A j, k \in Tasks :
    StageOf[j] = StageOf[k] /\ r[j] = "assigned" /\ r[k] = "assigned" => j = k
OneInHand ==
  /\ \A t \in Teams : OneAssigned(rec[t])
  /\ \A c \in Calls : draft[c] # None => OneAssigned(draft[c].rec)

\* Taking missions out of hand keeps it so.
LEMMA FewerAssigned ==
  ASSUME NEW r, OneAssigned(r), NEW q,
         \A k \in Tasks : q[k] = "assigned" => r[k] = "assigned"
  PROVE  OneAssigned(q)
BY DEF OneAssigned

LEMMA SettledOne ==
  ASSUME NEW r \in [Tasks -> RecordStates], OneAssigned(r), NEW k \in Tasks,
         NEW s, NEW n, NEW v \in {"completed", "skipped", "unassigned"}
  PROVE  /\ OneAssigned([r EXCEPT ![k] = v])
         /\ OneAssigned(SettleRecords([r EXCEPT ![k] = v], s, n))
<1> DEFINE q == [r EXCEPT ![k] = v]
<1>1. q \in [Tasks -> RecordStates] /\ \A j \in Tasks : q[j] = "assigned" => r[j] = "assigned"
  OBVIOUS
<1> HIDE DEF q
<1>2. \A j \in Tasks : SettleRecords(q, s, n)[j] = "assigned" => q[j] = "assigned"
  BY DEF SettleRecords
<1>3. OneAssigned(q)
  BY <1>1, FewerAssigned
<1>4. OneAssigned(SettleRecords(q, s, n))
  BY <1>2, <1>3, FewerAssigned
<1> QED
  BY <1>3, <1>4 DEF q

LEMMA WriteKeepsOne ==
  ASSUME Typed, OneInHand, NEW c \in Calls, Writes(c)
  PROVE  \A t \in Teams : OneAssigned(rec'[t])
<1>0. rec \in [Teams -> [Tasks -> RecordStates]]
  BY DEF Typed, TypeOK, TeamsTypeOK
<1>1. ASSUME NEW t \in Teams, NEW r, rec' = [rec EXCEPT ![t] = r], OneAssigned(r)
      PROVE  \A u \in Teams : OneAssigned(rec'[u])
  BY <1>0, <1>1 DEF OneInHand
<1>2. /\ \A t \in Teams : rec[t] \in [Tasks -> RecordStates] /\ OneAssigned(rec[t])
      /\ pc[c] \notin Statuses \cup {"idle", "close"} => team[c] \in Teams
      /\ pc[c] \in {"claim", "skip", "forceTeam"} => task[c] \in Tasks
  BY <1>0 DEF OneInHand, Typed, CallsWellFormed, CallWellFormed
<1>3. CASE Persist(c) \/ StartWrite(c)
  <2>1. /\ team[c] \in Teams /\ draft[c] # None
        /\ rec' = [rec EXCEPT ![team[c]] = draft[c].rec]
    BY <1>3, CopiesAssumption
       DEF Persist, StartWrite, Typed, CallsWellFormed, CallWellFormed
  <2> QED
    BY <2>1, <1>1 DEF OneInHand
<1>4. CASE Claim(c)
  <2>1. PICK t \in Teams, k \in Tasks : t = team[c] /\ k = task[c]
    BY <1>2, <1>4 DEF Claim
  <2> DEFINE r == [rec[t] EXCEPT ![k] = "assigned"]
  <2>2. rec' = [rec EXCEPT ![t] = r] /\ InState(rec[t], StageOf[k], "assigned") = {}
    BY <1>4, <2>1, <1>0 DEF Claim
  <2>3. \A j \in Tasks : r[j] = "assigned" /\ j # k => StageOf[j] # StageOf[k] /\ rec[t][j] = "assigned"
    BY <1>2, <2>2 DEF InState, StageTasks
  <2>4. OneAssigned(rec[t])
    BY <1>2
  <2>5. OneAssigned(r)
    BY <2>3, <2>4 DEF OneAssigned
  <2> QED
    BY <2>2, <2>5, <1>1
<1>5. CASE SkipTask(c)
  <2>1. PICK t \in Teams, k \in Tasks : t = team[c] /\ k = task[c]
    BY <1>2, <1>5 DEF SkipTask
  <2>2. rec' = [rec EXCEPT ![t] =
                 SettleRecords([rec[t] EXCEPT ![k] = "skipped"], StageOf[k],
                   LoweredRequirement(rec[t], StageOf[k], req[t][StageOf[k]], k))]
    BY <1>5, <2>1 DEF SkipTask
  <2> QED
    BY <1>1, <1>2, <2>2, SettledOne
<1>6. CASE ForceTeam(c)
  <2>1. PICK t \in Teams, k \in Tasks : t = team[c] /\ k = task[c]
    BY <1>2, <1>6 DEF ForceTeam
  <2> DEFINE D == InState(rec[t], StageOf[k], "assigned")
             r == [j \in Tasks |-> IF j = k THEN "assigned"
                                   ELSE IF j \in D THEN "unassigned" ELSE rec[t][j]]
  <2>2. rec' = [rec EXCEPT ![t] = r]
    BY <1>6, <2>1 DEF ForceTeam
  <2>3. \A j \in Tasks : r[j] = "assigned" /\ j # k => StageOf[j] # StageOf[k] /\ rec[t][j] = "assigned"
    BY DEF InState, StageTasks
  <2>4. OneAssigned(rec[t])
    BY <1>2
  <2>5. OneAssigned(r)
    BY <2>3, <2>4 DEF OneAssigned
  <2> QED
    BY <2>2, <2>5, <1>1
<1>7. ASSUME NEW t \in Teams, SkipStage(c, t)
      PROVE  \A u \in Teams : OneAssigned(rec'[u])
  <2>1. PICK gone \in SUBSET Tasks :
          rec' = [rec EXCEPT ![t] = [k \in Tasks |->
                    IF k \in gone THEN "skipped" ELSE rec[t][k]]]
    BY <1>7, <1>0 DEF SkipStage, StageTasks
  <2>2. OneAssigned([k \in Tasks |-> IF k \in gone THEN "skipped" ELSE rec[t][k]])
    BY <1>2, FewerAssigned
  <2> QED
    BY <2>1, <2>2, <1>1
<1>8. ASSUME NEW t \in Teams, CloseTeam(c, t)
      PROVE  \A u \in Teams : OneAssigned(rec'[u])
  <2>1. PICK k \in Tasks : k = closing[c]
    BY <1>8 DEF CloseTeam, Typed, CallsWellFormed, CallWellFormed
  <2> DEFINE r == [rec[t] EXCEPT ![k] = "skipped"]
             q == SettleRecords(r, StageOf[k],
                    LoweredRequirement(rec[t], StageOf[k], req[t][StageOf[k]], k))
  <2>2. rec' = [rec EXCEPT ![t] = IF stages[t][StageOf[k]] = "active" THEN q ELSE r]
    BY <1>8, <2>1 DEF CloseTeam
  <2>3. OneAssigned(r) /\ OneAssigned(q)
    BY <1>2, SettledOne
  <2> QED
    BY <2>2, <2>3, <1>1
<1>9. ASSUME NEW t \in Teams, NEW k \in Tasks, Complete(c, t, k)
      PROVE  \A u \in Teams : OneAssigned(rec'[u])
  <2>1. rec' = [rec EXCEPT ![t] = SettleRecords([rec[t] EXCEPT ![k] = "completed"],
                                                StageOf[k], req[t][StageOf[k]])]
    BY <1>9 DEF Complete
  <2> QED
    BY <1>1, <1>2, <2>1, SettledOne
<1>10. ASSUME NEW t \in Teams, NEW k \in Tasks, CheckOut(c, t, k)
       PROVE  \A u \in Teams : OneAssigned(rec'[u])
  <2>1. rec' = [rec EXCEPT ![t] = [rec[t] EXCEPT ![k] = "unassigned"]]
    BY <1>10, <1>0 DEF CheckOut
  <2> QED
    BY <1>1, <1>2, <2>1, SettledOne
<1> QED
  BY <1>3, <1>4, <1>5, <1>6, <1>7, <1>8, <1>9, <1>10 DEF Writes

LEMMA OneInHandIsInductive ==
  ASSUME Typed, OneInHand, [Next]_vars
  PROVE  OneInHand'
<1>1. \A t \in Teams : OneAssigned(rec'[t])
  BY OtherSteps, WriteKeepsOne DEF OneInHand, teamVars
<1>2. ASSUME NEW c \in Calls, draft'[c] # None
      PROVE  OneAssigned(draft'[c].rec)
  <2>1. CASE CopyKept(c)
    BY <1>2, <2>1 DEF CopyKept, OneInHand
  <2>2. ASSUME NEW t \in Teams, draft'[c] = [rec |-> rec[t], stages |-> stages[t],
                                             req |-> req[t], earned |-> earned[t]]
        PROVE  OneAssigned(draft'[c].rec)
    BY <2>2 DEF OneInHand
  <2>3. ASSUME NEW t \in Teams, NEW s \in Stages,
               NEW k \in InState(rec[t], s, "assigned"), draft'[c] = Swept(t, s, k)
        PROVE  OneAssigned(draft'[c].rec)
    <3>1. draft'[c].rec = SettleRecords([rec[t] EXCEPT ![k] = "skipped"], s, req[t][s])
      BY <2>3 DEF Swept
    <3>2. k \in Tasks /\ rec[t] \in [Tasks -> RecordStates] /\ OneAssigned(rec[t])
      BY DEF InState, StageTasks, OneInHand, Typed, TypeOK, TeamsTypeOK
    <3>3. OneAssigned(SettleRecords([rec[t] EXCEPT ![k] = "skipped"], s, req[t][s]))
      BY <3>2, SettledOne
    <3> QED
      BY <3>1, <3>3
  <2> QED
    BY <2>1, <2>2, <2>3, CopiesOnlyMove DEF CopiesMove, CopyRead
<1> QED
  BY <1>1, <1>2 DEF OneInHand

\* The claim transaction looks for a mission in hand, a marshal's sending
\* displaces the one there is, and a copy written back is of such a document:
\* however many requests of one team overlap, whatever tools are in use and
\* whatever dies, a team never has two missions of one stage in hand.
THEOREM OneMissionHolds == Spec => []OneMissionInHand
<1>1. Init => Typed /\ OneInHand
  BY InitialTypes DEF Init, Typed, OneInHand, OneAssigned
<1>2. Typed /\ OneInHand /\ [Next]_vars => (Typed /\ OneInHand)'
  BY TypedIsInductive, OneInHandIsInductive
<1>3. ASSUME OneInHand PROVE OneMissionInHand
  <2> SUFFICES ASSUME NEW t \in Teams, NEW s \in Stages
               PROVE  Cardinality(InState(rec[t], s, "assigned")) <= 1
    BY DEF OneMissionInHand
  <2> DEFINE A == InState(rec[t], s, "assigned")
  <2>1. CASE A = {}
    BY <2>1, FS_EmptySet
  <2>2. ASSUME NEW k \in A PROVE Cardinality(A) = 1
    <3>1. A = {k}
      BY <1>3, <2>2 DEF OneInHand, OneAssigned, InState, StageTasks
    <3> QED
      BY <3>1, FS_Singleton
  <2>3. Cardinality({}) = 0
    BY FS_EmptySet
  <2> QED
    BY <2>1, <2>2, <2>3
<1> QED
  BY <1>1, <1>2, <1>3, PTL DEF Spec

-----------------------------------------------------------------------------
(* Stages are played in their order *)

\* What comes before a stage that has been opened is completed, and the first
\* stage is open from the start.
Ordered(st) ==
  /\ st[1] # "locked"
  /\ \A u, v \in Stages : u < v /\ st[v] # "locked" => st[u] = "completed"

\* Completing the active stage and opening the next.
LEMMA OpenNextOrders ==
  ASSUME NEW st \in [Stages -> {"locked", "active", "completed"}], Ordered(st),
         NEW s \in Stages, st[s] = "active"
  PROVE  /\ Ordered(OpenNext(st, s))
         /\ OpenNext(st, s)[s] = "completed"
         /\ s + 1 \in Stages => st[s + 1] = "locked"
         /\ \A u \in Stages : OpenNext(st, s)[u] # st[u] => u \in {s, s + 1}
<1>1. /\ \A u \in Stages : u \in Nat /\ u >= 1
      /\ 1 \in Stages
  BY ConstantsAssumption DEF Stages
<1>2. \A u \in Stages : OpenNext(st, s)[u] = IF u = s THEN "completed"
                        ELSE IF u = s + 1 THEN "active" ELSE st[u]
  BY DEF OpenNext
<1>3. ASSUME s + 1 \in Stages PROVE st[s + 1] = "locked"
  BY <1>1, <1>3 DEF Ordered
<1>4. ASSUME NEW u \in Stages, NEW v \in Stages, u < v, OpenNext(st, s)[v] # "locked"
      PROVE  OpenNext(st, s)[u] = "completed"
  <2>1. CASE v <= s
    BY <1>1, <1>2, <1>4, <2>1 DEF Ordered
  <2>2. CASE v = s + 1
    BY <1>1, <1>2, <1>4, <2>2 DEF Ordered
  <2>3. CASE v > s + 1
    BY <1>1, <1>2, <1>4, <2>3 DEF Ordered
  <2> QED
    BY <1>1, <2>1, <2>2, <2>3
<1>5. OpenNext(st, s)[1] # "locked"
  BY <1>1, <1>2 DEF Ordered
<1> QED
  BY <1>1, <1>2, <1>3, <1>4, <1>5 DEF Ordered

-----------------------------------------------------------------------------
(* Nobody is stranded *)

\* The document has its stages in order, and a mission to play in every stage
\* that is not completed.
Playable(r, st) ==
  /\ Ordered(st)
  /\ \A s \in Stages :
       st[s] # "completed" => \E k \in StageTasks(s) : ~Terminal(r[k])

\* A write that takes missions out of the active stage and settles it.
LEMMA SettledPlayable ==
  ASSUME NEW q, NEW st \in [Stages -> {"locked", "active", "completed"}],
         Playable(q, st), NEW s \in Stages, st[s] = "active",
         NEW r \in [Tasks -> RecordStates], NEW n,
         \A k \in Tasks : StageOf[k] # s => r[k] = q[k]
  PROVE  Playable(SettleRecords(r, s, n), SettleStages(st, r, s, n))
<1>1. CASE ~StageDone(r, s, n)
  <2>1. SettleRecords(r, s, n) = r /\ SettleStages(st, r, s, n) = st
    BY <1>1 DEF SettleRecords, SettleStages
  <2>2. \E k \in StageTasks(s) : ~Terminal(r[k])
    BY <1>1 DEF StageDone
  <2>3. ASSUME NEW u \in Stages, u # s, st[u] # "completed"
        PROVE  \E k \in StageTasks(u) : ~Terminal(r[k])
    BY <2>3 DEF Playable, StageTasks
  <2> QED
    BY <2>1, <2>2, <2>3 DEF Playable
<1>2. CASE StageDone(r, s, n)
  <2>1. /\ SettleStages(st, r, s, n) = OpenNext(st, s)
        /\ \A k \in Tasks : StageOf[k] # s => SettleRecords(r, s, n)[k] = q[k]
    BY <1>2 DEF SettleRecords, SettleStages
  <2>2. /\ Ordered(OpenNext(st, s)) /\ OpenNext(st, s)[s] = "completed"
        /\ s + 1 \in Stages => st[s + 1] = "locked"
        /\ \A u \in Stages : OpenNext(st, s)[u] # st[u] => u \in {s, s + 1}
    BY OpenNextOrders DEF Playable
  <2>3. ASSUME NEW u \in Stages, OpenNext(st, s)[u] # "completed"
        PROVE  \E k \in StageTasks(u) : ~Terminal(SettleRecords(r, s, n)[k])
    <3>1. u # s /\ st[u] # "completed"
      BY <2>2, <2>3
    <3>2. PICK k \in StageTasks(u) : ~Terminal(q[k])
      BY <3>1 DEF Playable
    <3> QED
      BY <2>1, <3>1, <3>2 DEF StageTasks
  <2> QED
    BY <2>1, <2>2, <2>3 DEF Playable
<1> QED
  BY <1>1, <1>2

\* Putting a mission back into play never strands.
LEMMA MorePlayable ==
  ASSUME NEW q, NEW st, Playable(q, st), NEW r,
         \A k \in Tasks : ~Terminal(q[k]) => ~Terminal(r[k])
  PROVE  Playable(r, st)
BY DEF Playable, StageTasks

AllPlayable ==
  /\ \A t \in Teams : Playable(rec[t], stages[t])
  /\ \A c \in Calls : draft[c] # None => Playable(draft[c].rec, draft[c].stages)

\* The scope: no mission of a stage still to come is closed for all teams.
NoEarlyClosing == "status" \notin Tools \/ NumStages = 1
Unclosed == "status" \notin Tools => \A c \in Calls : closing[c] = NoTask

LEMMA UnclosedStays ==
  ASSUME Typed, Unclosed, [Next]_vars
  PROVE  Unclosed'
<1> SUFFICES ASSUME "status" \notin Tools
             PROVE  \A c \in Calls : closing'[c] = NoTask
  BY DEF Unclosed
<1>0. \A c \in Calls : closing[c] = NoTask
  BY DEF Unclosed
<1>1. closing \in [Calls -> Tasks \cup {NoTask}]
  BY DEF Typed, TypeOK, CallsTypeOK
<1>2. ASSUME UNCHANGED closing PROVE \A c \in Calls : closing'[c] = NoTask
  BY <1>0, <1>2
<1>3. ASSUME NEW c \in Calls, closing' = [closing EXCEPT ![c] = NoTask]
      PROVE  \A d \in Calls : closing'[d] = NoTask
  BY <1>0, <1>1, <1>3
<1>4. ASSUME NEW c \in Calls, Beginning(c) PROVE UNCHANGED closing
  <2>1. ASSUME NEW t \in Teams,
               RequestNext(c, t) \/ PollRead(c, t) \/ StartRead(c, t) \/ SkipStage(c, t)
        PROVE  UNCHANGED closing
    BY <2>1 DEF RequestNext, PollRead, StartRead, SkipStage
  <2>2. ASSUME NEW t \in Teams, NEW k \in Tasks,
               \/ Complete(c, t, k) \/ SkipTaskOpen(c, t, k)
               \/ CheckOut(c, t, k) \/ ForceRead(c, t, k)
        PROVE  UNCHANGED closing
    BY <2>2 DEF Complete, SkipTaskOpen, CheckOut, ForceRead
  <2> QED
    BY <1>4, <2>1, <2>2 DEF Beginning, SetStatusRead
<1>5. ASSUME NEW c \in Calls, Routing(c) PROVE UNCHANGED closing
  <2>1. CASE NothingToAssign(c) \/ ReadOpen(c) \/ SweepRead(c) \/ PersistFails(c) \/ Persist(c)
    BY <2>1 DEF NothingToAssign, ReadOpen, SweepRead, PersistFails, Persist
  <2>2. CASE Reserve(c) \/ NoCandidate(c) \/ ClaimRefused(c) \/ Release(c)
             \/ Released(c) \/ Claim(c)
    BY <2>2 DEF Reserve, NoCandidate, ClaimRefused, Release, Released, Claim
  <2> QED
    BY <1>5, <2>1, <2>2 DEF Routing
<1>6. ASSUME NEW c \in Calls, Continuing(c) PROVE \A d \in Calls : closing'[d] = NoTask
  <2>1. CASE SkipTask(c) \/ SkipTaskRefused(c) \/ ForceClaim(c) \/ ForceRefused(c)
             \/ ForceTeam(c) \/ ForceUndone(c)
    BY <2>1, <1>2
       DEF SkipTask, SkipTaskRefused, ForceClaim, ForceRefused, ForceTeam, ForceUndone
  <2>2. CASE StartWrite(c) \/ SetStatusWrite(c)
    BY <2>2, <1>2 DEF StartWrite, SetStatusWrite
  <2>3. ASSUME NEW t \in Teams, CloseTeam(c, t) \/ CloseSkips(c, t)
        PROVE  UNCHANGED closing
    BY <2>3 DEF CloseTeam, CloseSkips
  <2>4. CASE CloseDone(c)
    BY <2>4, <1>3 DEF CloseDone
  <2> QED
    BY <1>2, <1>5, <1>6, <2>1, <2>2, <2>3, <2>4 DEF Continuing
<1>7. ASSUME NEW c \in Calls, Crash(c) PROVE \A d \in Calls : closing'[d] = NoTask
  BY <1>7, <1>3 DEF Crash
<1>8. CASE UNCHANGED vars
  BY <1>8, <1>2 DEF vars, callVars
<1>9. ASSUME NEW k \in Tasks, Expire(k) PROVE UNCHANGED closing
  BY <1>9 DEF Expire, callVars
<1>10. CASE FinalizeRead \/ FinalizeWrite
  BY <1>10, <1>2 DEF FinalizeRead, FinalizeWrite, callVars
<1> QED
  BY <1>2, <1>4, <1>6, <1>7, <1>8, <1>9, <1>10 DEF Next

LEMMA WriteKeepsPlayable ==
  ASSUME NoEarlyClosing, Typed, Unclosed, AllPlayable, NEW c \in Calls, Writes(c)
  PROVE  \A t \in Teams : Playable(rec'[t], stages'[t])
<1>0. /\ rec \in [Teams -> [Tasks -> RecordStates]]
      /\ stages \in [Teams -> [Stages -> {"locked", "active", "completed"}]]
  BY DEF Typed, TypeOK, TeamsTypeOK
<1>1. ASSUME NEW t \in Teams, NEW r, NEW st, Playable(r, st),
             rec' = [rec EXCEPT ![t] = r], stages' = [stages EXCEPT ![t] = st]
      PROVE  \A u \in Teams : Playable(rec'[u], stages'[u])
  BY <1>0, <1>1 DEF AllPlayable
<1>2. ASSUME NEW t \in Teams, NEW r, Playable(r, stages[t]),
             rec' = [rec EXCEPT ![t] = r], UNCHANGED stages
      PROVE  \A u \in Teams : Playable(rec'[u], stages'[u])
  BY <1>0, <1>2 DEF AllPlayable
<1>3. /\ \A t \in Teams : /\ rec[t] \in [Tasks -> RecordStates]
                          /\ stages[t] \in [Stages -> {"locked", "active", "completed"}]
                          /\ Playable(rec[t], stages[t])
      /\ pc[c] \notin Statuses \cup {"idle", "close"} => team[c] \in Teams
      /\ pc[c] \in {"claim", "skip", "forceTeam"} => task[c] \in Tasks
      /\ \A k \in Tasks : StageOf[k] \in Stages
  BY <1>0, StageOfType DEF AllPlayable, Typed, CallsWellFormed, CallWellFormed
<1>4. CASE Persist(c) \/ StartWrite(c)
  <2>1. /\ team[c] \in Teams /\ draft[c] # None
        /\ rec' = [rec EXCEPT ![team[c]] = draft[c].rec]
        /\ stages' = [stages EXCEPT ![team[c]] = draft[c].stages]
    BY <1>4, CopiesAssumption
       DEF Persist, StartWrite, Typed, CallsWellFormed, CallWellFormed
  <2> QED
    BY <2>1, <1>1 DEF AllPlayable
<1>5. CASE Claim(c)
  <2>1. PICK t \in Teams, k \in Tasks : t = team[c] /\ k = task[c]
    BY <1>3, <1>5 DEF Claim
  <2> DEFINE r == [rec[t] EXCEPT ![k] = "assigned"]
  <2>2. rec' = [rec EXCEPT ![t] = r] /\ UNCHANGED stages
    BY <1>5, <2>1, <1>0 DEF Claim
  <2>3. Playable(r, stages[t])
    <3>1. \A j \in Tasks : ~Terminal(rec[t][j]) => ~Terminal(r[j])
      BY <1>3 DEF Terminal
    <3> QED
      BY <1>3, <3>1, MorePlayable
  <2> QED
    BY <2>2, <2>3, <1>2
<1>6. ASSUME NEW t \in Teams, NEW k \in Tasks, NEW v \in {"completed", "skipped"},
             NEW n, stages[t][StageOf[k]] = "active",
             rec' = [rec EXCEPT ![t] =
                       SettleRecords([rec[t] EXCEPT ![k] = v], StageOf[k], n)],
             stages' = [stages EXCEPT ![t] =
                          SettleStages(stages[t], [rec[t] EXCEPT ![k] = v], StageOf[k], n)]
      PROVE  \A u \in Teams : Playable(rec'[u], stages'[u])
  <2> DEFINE r == [rec[t] EXCEPT ![k] = v]
  <2>1. r \in [Tasks -> RecordStates] /\ \A j \in Tasks : StageOf[j] # StageOf[k] => r[j] = rec[t][j]
    BY <1>3
  <2> HIDE DEF r
  <2>2. Playable(SettleRecords(r, StageOf[k], n), SettleStages(stages[t], r, StageOf[k], n))
    BY <1>3, <1>6, <2>1, SettledPlayable
  <2> QED
    BY <1>1, <1>6, <2>2 DEF r
<1>7. CASE SkipTask(c)
  <2>1. PICK t \in Teams, k \in Tasks : t = team[c] /\ k = task[c]
    BY <1>3, <1>7 DEF SkipTask
  <2> DEFINE n == LoweredRequirement(rec[t], StageOf[k], req[t][StageOf[k]], k)
  <2>2. /\ stages[t][StageOf[k]] = "active"
        /\ rec' = [rec EXCEPT ![t] =
                     SettleRecords([rec[t] EXCEPT ![k] = "skipped"], StageOf[k], n)]
        /\ stages' = [stages EXCEPT ![t] =
                     SettleStages(stages[t], [rec[t] EXCEPT ![k] = "skipped"], StageOf[k], n)]
    BY <1>7, <2>1 DEF SkipTask, CanSkip, IsActiveStage
  <2> QED
    BY <1>6, <2>2
<1>8. CASE ForceTeam(c)
  <2>1. PICK t \in Teams, k \in Tasks : t = team[c] /\ k = task[c]
    BY <1>3, <1>8 DEF ForceTeam
  <2> DEFINE D == InState(rec[t], StageOf[k], "assigned")
             r == [j \in Tasks |-> IF j = k THEN "assigned"
                                   ELSE IF j \in D THEN "unassigned" ELSE rec[t][j]]
  <2>2. rec' = [rec EXCEPT ![t] = r] /\ UNCHANGED stages
    BY <1>8, <2>1 DEF ForceTeam
  <2>3. Playable(r, stages[t])
    <3>1. \A j \in Tasks : ~Terminal(rec[t][j]) => ~Terminal(r[j])
      BY <1>3 DEF Terminal
    <3> QED
      BY <1>3, <3>1, MorePlayable
  <2> QED
    BY <2>2, <2>3, <1>2
<1>9. ASSUME NEW t \in Teams, SkipStage(c, t)
      PROVE  \A u \in Teams : Playable(rec'[u], stages'[u])
  <2>1. PICK s \in Stages :
          /\ stages[t][s] = "active"
          /\ rec' = [rec EXCEPT ![t] = [k \in Tasks |->
                IF k \in {j \in StageTasks(s) : rec[t][j] # "completed"}
                THEN "skipped" ELSE rec[t][k]]]
          /\ stages' = [stages EXCEPT ![t] = OpenNext(stages[t], s)]
    BY <1>9, <1>0 DEF SkipStage, IsActiveStage
  <2> DEFINE r == [k \in Tasks |->
                IF k \in {j \in StageTasks(s) : rec[t][j] # "completed"}
                THEN "skipped" ELSE rec[t][k]]
  <2>2. /\ Ordered(OpenNext(stages[t], s)) /\ OpenNext(stages[t], s)[s] = "completed"
        /\ s + 1 \in Stages => stages[t][s + 1] = "locked"
        /\ \A u \in Stages : OpenNext(stages[t], s)[u] # stages[t][u] => u \in {s, s + 1}
    BY <1>3, <2>1, OpenNextOrders DEF Playable
  <2>3. \A k \in Tasks : StageOf[k] # s => r[k] = rec[t][k]
    BY DEF StageTasks
  <2>4. ASSUME NEW u \in Stages, OpenNext(stages[t], s)[u] # "completed"
        PROVE  \E k \in StageTasks(u) : ~Terminal(r[k])
    <3>1. u # s /\ stages[t][u] # "completed"
      BY <2>2, <2>4
    <3>2. PICK k \in StageTasks(u) : ~Terminal(rec[t][k])
      BY <1>3, <3>1 DEF Playable
    <3> QED
      BY <2>3, <3>1, <3>2 DEF StageTasks
  <2>5. Playable(r, OpenNext(stages[t], s))
    BY <2>2, <2>4 DEF Playable
  <2> QED
    BY <2>1, <2>5, <1>1
<1>10. ASSUME NEW t \in Teams, CloseTeam(c, t)
       PROVE  \A u \in Teams : Playable(rec'[u], stages'[u])
  <2>1. PICK k \in Tasks : k = closing[c]
    BY <1>10 DEF CloseTeam, Typed, CallsWellFormed, CallWellFormed
  <2> DEFINE r == [rec[t] EXCEPT ![k] = "skipped"]
             n == LoweredRequirement(rec[t], StageOf[k], req[t][StageOf[k]], k)
  <2>2. NumStages = 1 /\ StageOf[k] = 1
    BY <2>1, <1>3, ConstantsAssumption DEF Unclosed, NoEarlyClosing, Stages
  <2>3. CASE stages[t][StageOf[k]] = "active"
    <3>1. /\ rec' = [rec EXCEPT ![t] = SettleRecords(r, StageOf[k], n)]
          /\ stages' = [stages EXCEPT ![t] = SettleStages(stages[t], r, StageOf[k], n)]
      BY <1>10, <2>1, <2>3, <1>0 DEF CloseTeam
    <3> QED
      BY <2>3, <3>1, <1>6
  <2>4. CASE stages[t][StageOf[k]] # "active"
    <3>1. rec' = [rec EXCEPT ![t] = r] /\ stages' = stages
      BY <1>10, <2>1, <2>4, <1>0 DEF CloseTeam
    <3>2. \A s \in Stages : stages[t][s] = "completed"
      BY <2>2, <2>4, <1>3 DEF Playable, Ordered, Stages
    <3>3. Playable(r, stages[t])
      BY <3>2, <1>3 DEF Playable
    <3> QED
      BY <3>1, <3>3, <1>2
  <2> QED
    BY <2>3, <2>4
<1>11. ASSUME NEW t \in Teams, NEW k \in Tasks, Complete(c, t, k)
       PROVE  \A u \in Teams : Playable(rec'[u], stages'[u])
  <2> DEFINE n == req[t][StageOf[k]]
  <2>1. /\ stages[t][StageOf[k]] = "active"
        /\ rec' = [rec EXCEPT ![t] =
                     SettleRecords([rec[t] EXCEPT ![k] = "completed"], StageOf[k], n)]
        /\ stages' = [stages EXCEPT ![t] =
                     SettleStages(stages[t], [rec[t] EXCEPT ![k] = "completed"], StageOf[k], n)]
    BY <1>11 DEF Complete
  <2> QED
    BY <1>6, <2>1
<1>12. ASSUME NEW t \in Teams, NEW k \in Tasks, CheckOut(c, t, k)
       PROVE  \A u \in Teams : Playable(rec'[u], stages'[u])
  <2> DEFINE r == [rec[t] EXCEPT ![k] = "unassigned"]
  <2>1. rec' = [rec EXCEPT ![t] = r] /\ UNCHANGED stages
    BY <1>12, <1>0 DEF CheckOut
  <2>2. Playable(r, stages[t])
    <3>1. \A j \in Tasks : ~Terminal(rec[t][j]) => ~Terminal(r[j])
      BY <1>3 DEF Terminal
    <3> QED
      BY <1>3, <3>1, MorePlayable
  <2> QED
    BY <2>1, <2>2, <1>2
<1> QED
  BY <1>4, <1>5, <1>7, <1>8, <1>9, <1>10, <1>11, <1>12 DEF Writes

LEMMA AllPlayableIsInductive ==
  ASSUME NoEarlyClosing, Typed, Unclosed, AllPlayable, [Next]_vars
  PROVE  AllPlayable'
<1>1. \A t \in Teams : Playable(rec'[t], stages'[t])
  BY OtherSteps, WriteKeepsPlayable DEF AllPlayable, teamVars
<1>2. ASSUME NEW c \in Calls, draft'[c] # None
      PROVE  Playable(draft'[c].rec, draft'[c].stages)
  <2>1. CASE CopyKept(c)
    BY <1>2, <2>1 DEF CopyKept, AllPlayable
  <2>2. ASSUME NEW t \in Teams, draft'[c] = [rec |-> rec[t], stages |-> stages[t],
                                             req |-> req[t], earned |-> earned[t]]
        PROVE  Playable(draft'[c].rec, draft'[c].stages)
    BY <2>2 DEF AllPlayable
  <2>3. ASSUME NEW t \in Teams, NEW s \in Stages,
               NEW k \in InState(rec[t], s, "assigned"),
               IsActiveStage(stages[t], s), draft'[c] = Swept(t, s, k)
        PROVE  Playable(draft'[c].rec, draft'[c].stages)
    <3> DEFINE r == [rec[t] EXCEPT ![k] = "skipped"]
    <3>1. /\ draft'[c].rec = SettleRecords(r, s, req[t][s])
          /\ draft'[c].stages = SettleStages(stages[t], r, s, req[t][s])
      BY <2>3 DEF Swept
    <3>2. /\ k \in Tasks /\ StageOf[k] = s /\ Playable(rec[t], stages[t])
          /\ rec[t] \in [Tasks -> RecordStates]
          /\ stages[t] \in [Stages -> {"locked", "active", "completed"}]
          /\ stages[t][s] = "active"
      BY <2>3 DEF InState, StageTasks, AllPlayable, Typed, TypeOK, TeamsTypeOK, IsActiveStage
    <3>3. r \in [Tasks -> RecordStates] /\ \A j \in Tasks : StageOf[j] # s => r[j] = rec[t][j]
      BY <3>2
    <3> HIDE DEF r
    <3>4. Playable(SettleRecords(r, s, req[t][s]), SettleStages(stages[t], r, s, req[t][s]))
      BY <3>2, <3>3, SettledPlayable
    <3> QED
      BY <3>1, <3>4
  <2> QED
    BY <2>1, <2>2, <2>3, CopiesOnlyMove DEF CopiesMove, CopyRead
<1> QED
  BY <1>1, <1>2 DEF AllPlayable

\* A team in a stage always has a mission of it left to play, whatever calls
\* interleave, write back old copies or die: applyStageCompletion closes a stage
\* with its last mission.  Every stage must have a mission to begin with, and
\* none of a stage still to come is closed for all teams.
THEOREM NobodyStranded ==
  ASSUME NoEarlyClosing, \A s \in Stages : StageTasks(s) # {}
  PROVE  Spec => []NeverStranded
<1>1. Init => Typed /\ Unclosed /\ AllPlayable
  <2> SUFFICES ASSUME Init PROVE Unclosed /\ AllPlayable
    BY InitialTypes DEF Typed
  <2>1. Unclosed /\ \A c \in Calls : draft[c] = None
    BY DEF Init, Unclosed
  <2>2. ASSUME NEW t \in Teams PROVE Playable(rec[t], stages[t])
    <3>1. /\ \A k \in Tasks : rec[t][k] = "unassigned"
          /\ \A s \in Stages : stages[t][s] = IF s = 1 THEN "active" ELSE "locked"
          /\ 1 \in Stages /\ \A s \in Stages : s \in Nat /\ s >= 1
      BY ConstantsAssumption DEF Init, Stages
    <3>2. Ordered(stages[t])
      BY <3>1 DEF Ordered
    <3>3. \A s \in Stages : \E k \in StageTasks(s) : ~Terminal(rec[t][k])
      BY <3>1 DEF StageTasks, Terminal
    <3> QED
      BY <3>2, <3>3 DEF Playable
  <2> QED
    BY <2>1, <2>2 DEF AllPlayable
<1>2. Typed /\ Unclosed /\ AllPlayable /\ [Next]_vars => (Typed /\ Unclosed /\ AllPlayable)'
  BY TypedIsInductive, UnclosedStays, AllPlayableIsInductive
<1>3. AllPlayable => NeverStranded
  BY DEF AllPlayable, Playable, NeverStranded
<1> QED
  BY <1>1, <1>2, <1>3, PTL DEF Spec

-----------------------------------------------------------------------------
(* A stage ends with the completion that meets its requirement *)

\* The requirement of stage s is met, or would be if the stage were looked at.
Met(r, s, n) ==
  Cardinality(InState(r, s, "completed")) >= Lesser(n, Cardinality(StageTasks(s)))

\* A team document as its transactions keep it: stages in order; nothing played
\* of a stage to come, whose requirement is nil only if all of it is closed;
\* and an active stage either wants more, or came with nothing to play.
Sound(r, st, n) ==
  /\ Ordered(st)
  /\ \A s \in Stages :
       /\ st[s] = "locked" =>
            /\ \A k \in StageTasks(s) : r[k] \in {"unassigned", "skipped"}
            /\ n[s] >= 1 \/ \A k \in StageTasks(s) : r[k] = "skipped"
       /\ st[s] = "active" =>
            ~Met(r, s, n[s]) \/ \A k \in StageTasks(s) : Terminal(r[k])

\* Stage s has been played, or is played and wants more.
Begun(r, st, n, s) ==
  st[s] = "completed" \/ (st[s] = "active" /\ ~Met(r, s, n[s]))

\* A write of a document that keeps it sound and takes no stage back.
Advances(r, st, n, q, su, m) ==
  /\ Sound(q, su, m)
  /\ \A u \in Stages : Begun(r, st, n, u) => Begun(q, su, m, u)

\* What happens in one stage is nothing to the others.
LEMMA OtherStagesKept ==
  ASSUME NEW r, NEW q, NEW s, NEW u, u # s,
         \A k \in Tasks : StageOf[k] # s => q[k] = r[k]
  PROVE  /\ \A k \in StageTasks(u) : q[k] = r[k]
         /\ \A st : InState(q, u, st) = InState(r, u, st)
         /\ \A n : Met(q, u, n) <=> Met(r, u, n)
<1>1. \A k \in StageTasks(u) : q[k] = r[k]
  BY DEF StageTasks
<1>2. \A st : InState(q, u, st) = InState(r, u, st)
  BY <1>1 DEF InState
<1> QED
  BY <1>1, <1>2 DEF Met

\* A stage nobody has played wants something, unless it has nothing to play.
LEMMA FreshStage ==
  ASSUME NEW r, NEW s, NEW n \in Nat,
         \A k \in StageTasks(s) : r[k] \in {"unassigned", "skipped"},
         n >= 1 \/ \A k \in StageTasks(s) : r[k] = "skipped"
  PROVE  ~Met(r, s, n) \/ \A k \in StageTasks(s) : Terminal(r[k])
<1>1. CASE \A k \in StageTasks(s) : r[k] = "skipped"
  BY <1>1 DEF Terminal
<1>2. CASE n >= 1 /\ StageTasks(s) # {}
  <2>1. InState(r, s, "completed") = {}
    BY DEF InState
  <2>2. Cardinality(InState(r, s, "completed")) = 0
    BY <2>1, FS_EmptySet
  <2>3. IsFiniteSet(StageTasks(s)) /\ Cardinality(StageTasks(s)) \in Nat
    BY StageIsFinite
  <2>4. Cardinality(StageTasks(s)) # 0
    BY <1>2, <2>3, FS_EmptySet
  <2> QED
    BY <1>2, <2>2, <2>3, <2>4 DEF Met, Lesser
<1>3. CASE StageTasks(s) = {}
  BY <1>3
<1> QED
  BY <1>1, <1>2, <1>3

LEMMA OpenNextSound ==
  ASSUME NEW r, NEW st \in [Stages -> {"locked", "active", "completed"}],
         NEW n \in [Stages -> Nat], Sound(r, st, n),
         NEW s \in Stages, st[s] = "active",
         NEW q, \A k \in Tasks : StageOf[k] # s => q[k] = r[k],
         NEW m \in [Stages -> Nat], \A u \in Stages \ {s} : m[u] = n[u]
  PROVE  Advances(r, st, n, q, OpenNext(st, s), m)
<1> DEFINE su == OpenNext(st, s)
<1>1. /\ Ordered(su) /\ su[s] = "completed"
      /\ s + 1 \in Stages => st[s + 1] = "locked"
      /\ \A u \in Stages : su[u] # st[u] => u \in {s, s + 1}
  BY OpenNextOrders DEF Sound
<1>2. s + 1 \in Stages => su[s + 1] = "active"
  <2>1. s \in Int
    BY ConstantsAssumption DEF Stages
  <2>2. s + 1 # s
    BY <2>1
  <2> QED
    BY <2>2 DEF OpenNext
<1> HIDE DEF su
<1>3. ASSUME NEW u \in Stages, u # s
      PROVE  /\ su[u] = "locked" =>
                  /\ \A k \in StageTasks(u) : q[k] \in {"unassigned", "skipped"}
                  /\ m[u] >= 1 \/ \A k \in StageTasks(u) : q[k] = "skipped"
             /\ su[u] = "active" =>
                  ~Met(q, u, m[u]) \/ \A k \in StageTasks(u) : Terminal(q[k])
  <2>1. /\ \A k \in StageTasks(u) : q[k] = r[k]
        /\ m[u] = n[u] /\ (Met(q, u, m[u]) <=> Met(r, u, n[u]))
    BY <1>3, OtherStagesKept
  <2>2. CASE u = s + 1
    <3>1. st[u] = "locked" /\ su[u] = "active" /\ n[u] \in Nat
      BY <1>1, <1>2, <2>2
    <3>2. ~Met(r, u, n[u]) \/ \A k \in StageTasks(u) : Terminal(r[k])
      BY <3>1, FreshStage DEF Sound
    <3> QED
      BY <2>1, <3>1, <3>2
  <2>3. CASE u # s + 1
    BY <1>1, <1>3, <2>1, <2>3 DEF Sound
  <2> QED
    BY <2>2, <2>3
<1>4. Sound(q, su, m)
  BY <1>1, <1>3 DEF Sound
<1>5. ASSUME NEW u \in Stages, Begun(r, st, n, u)
      PROVE  Begun(q, su, m, u)
  <2>1. CASE u = s
    BY <1>1, <2>1 DEF Begun
  <2>2. CASE u # s
    <3>0. m[u] = n[u] /\ \A i : Met(q, u, i) <=> Met(r, u, i)
      BY <2>2, OtherStagesKept
    <3>1. m[u] = n[u] /\ (Met(q, u, m[u]) <=> Met(r, u, n[u]))
      BY <3>0
    <3>2. su[u] = st[u]
      BY <1>1, <1>5, <2>2 DEF Begun
    <3> QED
      BY <1>5, <3>1, <3>2 DEF Begun
  <2> QED
    BY <2>1, <2>2
<1> QED
  BY <1>4, <1>5 DEF Advances, su

\* A write that stays in a stage that has been begun, and leaves it wanting.
LEMMA PlayedSound ==
  ASSUME NEW r, NEW st, NEW n, Sound(r, st, n),
         NEW s \in Stages, NEW q, \A k \in Tasks : StageOf[k] # s => q[k] = r[k],
         NEW m, \A u \in Stages \ {s} : m[u] = n[u],
         Begun(q, st, m, s)
  PROVE  Advances(r, st, n, q, st, m)
<1>1. ASSUME NEW u \in Stages, u # s
      PROVE  /\ \A k \in StageTasks(u) : q[k] = r[k]
             /\ m[u] = n[u] /\ (Met(q, u, m[u]) <=> Met(r, u, n[u]))
  <2>1. m[u] = n[u]
    BY <1>1
  <2>2. \A k \in StageTasks(u) : q[k] = r[k]
    BY <1>1 DEF StageTasks
  <2>3. InState(q, u, "completed") = InState(r, u, "completed")
    BY <2>2 DEF InState
  <2> QED
    BY <2>1, <2>2, <2>3 DEF Met
<1>2. Sound(q, st, m)
  BY <1>1 DEF Sound, Begun
<1>3. \A u \in Stages : Begun(r, st, n, u) => Begun(q, st, m, u)
  BY <1>1 DEF Begun
<1> QED
  BY <1>2, <1>3 DEF Advances

\* A write that settles the active stage.
LEMMA SettledSound ==
  ASSUME NEW r, NEW st \in [Stages -> {"locked", "active", "completed"}],
         NEW n \in [Stages -> Nat], Sound(r, st, n),
         NEW s \in Stages, st[s] = "active",
         NEW q \in [Tasks -> RecordStates], \A k \in Tasks : StageOf[k] # s => q[k] = r[k],
         NEW m \in [Stages -> Nat], \A u \in Stages \ {s} : m[u] = n[u]
  PROVE  Advances(r, st, n, SettleRecords(q, s, m[s]), SettleStages(st, q, s, m[s]), m)
<1>1. CASE StageDone(q, s, m[s])
  <2> DEFINE p == SettleRecords(q, s, m[s])
  <2>1. /\ \A k \in Tasks : StageOf[k] # s => p[k] = r[k]
        /\ SettleStages(st, q, s, m[s]) = OpenNext(st, s)
    BY <1>1 DEF SettleRecords, SettleStages
  <2> HIDE DEF p
  <2>2. Advances(r, st, n, p, OpenNext(st, s), m)
    BY <2>1, OpenNextSound
  <2> QED
    BY <2>1, <2>2 DEF p
<1>2. CASE ~StageDone(q, s, m[s])
  <2>1. SettleRecords(q, s, m[s]) = q /\ SettleStages(st, q, s, m[s]) = st
    BY <1>2 DEF SettleRecords, SettleStages
  <2>2. Begun(q, st, m, s)
    BY <1>2 DEF Begun, StageDone, Met
  <2>3. Advances(r, st, n, q, st, m)
    BY <2>2, PlayedSound
  <2> QED
    BY <2>1, <2>3
<1> QED
  BY <1>1, <1>2

\* A write that completes nothing leaves a stage that wants more wanting.
LEMMA NoneCompleted ==
  ASSUME NEW r, NEW q, NEW s, NEW n \in Nat, ~Met(r, s, n),
         \A k \in StageTasks(s) : q[k] = "completed" => r[k] = "completed"
  PROVE  ~Met(q, s, n)
<1>1. InState(q, s, "completed") \subseteq InState(r, s, "completed")
  BY DEF InState
<1>2. /\ IsFiniteSet(InState(r, s, "completed"))
      /\ Cardinality(InState(r, s, "completed")) \in Nat
      /\ Cardinality(InState(q, s, "completed")) \in Nat
      /\ Cardinality(StageTasks(s)) \in Nat
  <2>1. InState(r, s, "completed") \subseteq StageTasks(s) /\ InState(q, s, "completed") \subseteq StageTasks(s)
    BY DEF InState
  <2> QED
    BY <2>1, StageIsFinite
<1>3. Cardinality(InState(q, s, "completed")) <= Cardinality(InState(r, s, "completed"))
  BY <1>1, <1>2, FS_Subset
<1> QED
  BY <1>2, <1>3 DEF Met, Lesser

\* Closing a mission of a stage to come: the requirement is nil only when
\* nothing of the stage is left.
LEMMA ClosedAheadSound ==
  ASSUME NEW r \in [Tasks -> RecordStates], NEW st, NEW n \in [Stages -> Nat],
         Sound(r, st, n), NEW s \in Stages, st[s] = "locked",
         NEW k \in StageTasks(s), ~Terminal(r[k]), NEW q, NEW m,
         q = [r EXCEPT ![k] = "skipped"],
         m = [n EXCEPT ![s] = LoweredRequirement(r, s, n[s], k)]
  PROVE  Advances(r, st, n, q, st, m)
<1> DEFINE left == {j \in StageTasks(s) \ {k} : r[j] # "skipped"}
<1>1. /\ k \in Tasks /\ StageOf[k] = s
      /\ \A j \in Tasks : j # k => q[j] = r[j]
      /\ q[k] = "skipped"
  BY DEF StageTasks
<1>2. m[s] = Lesser(Lesser(n[s], Cardinality(StageTasks(s))), Cardinality(left))
  BY DEF LoweredRequirement
<1>3. ASSUME NEW j \in left PROVE m[s] >= 1
  <2>1. IsFiniteSet(left) /\ Cardinality(left) \in Nat
    BY StageIsFinite
  <2>2. IsFiniteSet(StageTasks(s)) /\ Cardinality(StageTasks(s)) \in Nat
    BY StageIsFinite
  <2>3. Cardinality(left) # 0 /\ Cardinality(StageTasks(s)) # 0
    BY <2>1, <2>2, <1>3, FS_EmptySet
  <2>4. n[s] >= 1 /\ n[s] \in Nat
    BY DEF Sound, Terminal
  <2> HIDE DEF left
  <2> QED
    BY <1>2, <2>1, <2>2, <2>3, <2>4 DEF Lesser
<1>4. left = {} => \A j \in StageTasks(s) : q[j] = "skipped"
  BY <1>1 DEF StageTasks
<1>5. \A u \in Stages \ {s} : \A j \in StageTasks(u) : q[j] = r[j]
  BY <1>1 DEF StageTasks
<1>6. ASSUME NEW u \in Stages, u # s
      PROVE  m[u] = n[u] /\ (Met(q, u, m[u]) <=> Met(r, u, n[u]))
  <2>1. InState(q, u, "completed") = InState(r, u, "completed")
    BY <1>5, <1>6 DEF InState
  <2> QED
    BY <1>6, <2>1 DEF Met
<1>7. \A j \in StageTasks(s) : q[j] \in {"unassigned", "skipped"}
  BY <1>1 DEF Sound, StageTasks
<1>8. Sound(q, st, m)
  <2>1. m[s] >= 1 \/ \A j \in StageTasks(s) : q[j] = "skipped"
    BY <1>3, <1>4
  <2> HIDE DEF left
  <2> QED
    BY <2>1, <1>5, <1>6, <1>7 DEF Sound
<1>9. \A u \in Stages : Begun(r, st, n, u) => Begun(q, st, m, u)
  BY <1>6 DEF Begun
<1> QED
  BY <1>8, <1>9 DEF Advances

\* What one step does to all the team documents.
SoundTeams == \A t \in Teams : Sound(rec[t], stages[t], req[t])
TeamsAdvance ==
  \A t \in Teams :
    Advances(rec[t], stages[t], req[t], rec'[t], stages'[t], req'[t])
BegunBy(t, s) == Begun(rec[t], stages[t], req[t], s)

LEMMA OneTeamAdvances ==
  ASSUME Typed, SoundTeams, NEW t \in Teams, NEW r, NEW st, NEW n,
         Advances(rec[t], stages[t], req[t], r, st, n),
         rec' = [rec EXCEPT ![t] = r], stages' = [stages EXCEPT ![t] = st],
         req' = [req EXCEPT ![t] = n]
  PROVE  TeamsAdvance
<1>1. /\ rec'[t] = r /\ stages'[t] = st /\ req'[t] = n
      /\ \A u \in Teams \ {t} : rec'[u] = rec[u] /\ stages'[u] = stages[u] /\ req'[u] = req[u]
  BY DEF Typed, TypeOK, TeamsTypeOK
<1>2. \A u \in Teams : Advances(rec[u], stages[u], req[u], rec[u], stages[u], req[u])
  BY DEF Advances, SoundTeams
<1> QED
  BY <1>1, <1>2 DEF TeamsAdvance

\* One mission is completed or skipped and its stage is settled.
LEMMA SettlingAdvances ==
  ASSUME Typed, SoundTeams, NEW t \in Teams, NEW k \in Tasks,
         NEW v \in {"completed", "skipped"}, NEW n \in Nat,
         stages[t][StageOf[k]] = "active",
         rec' = [rec EXCEPT ![t] =
                   SettleRecords([rec[t] EXCEPT ![k] = v], StageOf[k], n)],
         stages' = [stages EXCEPT ![t] =
                      SettleStages(stages[t], [rec[t] EXCEPT ![k] = v], StageOf[k], n)],
         req' = [req EXCEPT ![t] = [req[t] EXCEPT ![StageOf[k]] = n]]
  PROVE  TeamsAdvance
<1> DEFINE s == StageOf[k]
           q == [rec[t] EXCEPT ![k] = v]
           m == [req[t] EXCEPT ![s] = n]
<1>1. /\ rec[t] \in [Tasks -> RecordStates] /\ req[t] \in [Stages -> Nat]
      /\ stages[t] \in [Stages -> {"locked", "active", "completed"}]
      /\ s \in Stages /\ Sound(rec[t], stages[t], req[t])
  BY StageOfType DEF Typed, TypeOK, TeamsTypeOK, SoundTeams
<1>2. /\ q \in [Tasks -> RecordStates] /\ \A j \in Tasks : StageOf[j] # s => q[j] = rec[t][j]
      /\ m \in [Stages -> Nat] /\ m[s] = n /\ \A u \in Stages \ {s} : m[u] = req[t][u]
      /\ stages[t][s] = "active"
  BY <1>1
<1>3. /\ rec' = [rec EXCEPT ![t] = SettleRecords(q, s, m[s])]
      /\ stages' = [stages EXCEPT ![t] = SettleStages(stages[t], q, s, m[s])]
      /\ req' = [req EXCEPT ![t] = m]
  BY <1>2
<1> HIDE DEF s, q, m
<1>4. Advances(rec[t], stages[t], req[t],
               SettleRecords(q, s, m[s]), SettleStages(stages[t], q, s, m[s]), m)
  BY <1>1, <1>2, SettledSound
<1>5. PICK p, st, i : /\ p = SettleRecords(q, s, m[s]) /\ i = m
                     /\ st = SettleStages(stages[t], q, s, m[s])
  OBVIOUS
<1>6. /\ rec' = [rec EXCEPT ![t] = p] /\ stages' = [stages EXCEPT ![t] = st]
      /\ req' = [req EXCEPT ![t] = i]
      /\ Advances(rec[t], stages[t], req[t], p, st, i)
  BY <1>3, <1>4, <1>5
<1>7. Typed /\ SoundTeams /\ t \in Teams
  OBVIOUS
<1> QED
  BY ONLY <1>6, <1>7, OneTeamAdvances

\* A mission of a stage that has been begun is put into hand, or taken out.
Handled(r, q, s) ==
  /\ \A k \in Tasks : StageOf[k] # s => q[k] = r[k]
  /\ \A k \in Tasks : q[k] = "completed" => r[k] = "completed"

LEMMA HandlingAdvances ==
  ASSUME Typed, SoundTeams, NEW t \in Teams, NEW s \in Stages, BegunBy(t, s),
         NEW q, Handled(rec[t], q, s),
         rec' = [rec EXCEPT ![t] = q], UNCHANGED <<stages, req>>
  PROVE  TeamsAdvance
<1>0. /\ \A k \in Tasks : StageOf[k] # s => q[k] = rec[t][k]
      /\ \A k \in Tasks : q[k] = "completed" => rec[t][k] = "completed"
  BY DEF Handled
<1>1. /\ stages' = [stages EXCEPT ![t] = stages[t]] /\ req' = [req EXCEPT ![t] = req[t]]
      /\ req[t][s] \in Nat /\ Sound(rec[t], stages[t], req[t])
  BY DEF Typed, TypeOK, TeamsTypeOK, SoundTeams
<1>2. \A k \in StageTasks(s) : q[k] = "completed" => rec[t][k] = "completed"
  BY <1>0 DEF StageTasks
<1>3. Begun(q, stages[t], req[t], s)
  BY <1>1, <1>2, NoneCompleted DEF BegunBy, Begun
<1>4. Advances(rec[t], stages[t], req[t], q, stages[t], req[t])
  BY <1>0, <1>1, <1>3, PlayedSound
<1>5. PICK st, n : st = stages[t] /\ n = req[t]
  OBVIOUS
<1>6. /\ stages' = [stages EXCEPT ![t] = st] /\ req' = [req EXCEPT ![t] = n]
      /\ Advances(rec[t], stages[t], req[t], q, st, n)
  BY <1>1, <1>4, <1>5
<1> QED
  BY <1>6, OneTeamAdvances

\* A stage with a mission of it in hand, or open and active, has been begun.
LEMMA InHandIsBegun ==
  ASSUME Typed, SoundTeams, NEW t \in Teams, NEW k \in Tasks,
         \/ rec[t][k] = "assigned"
         \/ rec[t][k] = "unassigned" /\ stages[t][StageOf[k]] = "active"
  PROVE  BegunBy(t, StageOf[k])
<1>1. /\ k \in StageTasks(StageOf[k]) /\ ~Terminal(rec[t][k])
      /\ StageOf[k] \in Stages
      /\ stages[t][StageOf[k]] \in {"locked", "active", "completed"}
  BY StageOfType DEF StageTasks, Terminal, Typed, TypeOK, TeamsTypeOK
<1> QED
  BY <1>1 DEF SoundTeams, Sound, BegunBy, Begun

\* The transactions on a team, a claim on a stage that has been begun among
\* them, keep its document sound.
LEMMA TransactionsAdvance ==
  ASSUME Typed, SoundTeams, ActiveIsAssigned, NEW c \in Calls, Writes(c),
         ~Persist(c), ~StartWrite(c),
         Claim(c) => BegunBy(team[c], StageOf[task[c]])
  PROVE  TeamsAdvance
<1>0. /\ rec \in [Teams -> [Tasks -> RecordStates]]
      /\ stages \in [Teams -> [Stages -> {"locked", "active", "completed"}]]
      /\ req \in [Teams -> [Stages -> Nat]]
  BY DEF Typed, TypeOK, TeamsTypeOK
<1>1. /\ \A t \in Teams : /\ rec[t] \in [Tasks -> RecordStates]
                          /\ stages[t] \in [Stages -> {"locked", "active", "completed"}]
                          /\ req[t] \in [Stages -> Nat]
      /\ pc[c] \notin Statuses \cup {"idle", "close"} => team[c] \in Teams
      /\ pc[c] \in {"claim", "skip", "forceTeam"} => task[c] \in Tasks
      /\ \A k \in Tasks : StageOf[k] \in Stages
  BY <1>0, StageOfType DEF Typed, CallsWellFormed, CallWellFormed
<1>2. CASE Claim(c)
  <2>1. PICK t \in Teams, k \in Tasks : t = team[c] /\ k = task[c]
    BY <1>1, <1>2 DEF Claim
  <2>2. PICK q : q = [rec[t] EXCEPT ![k] = "assigned"]
    OBVIOUS
  <2>3. rec' = [rec EXCEPT ![t] = q] /\ UNCHANGED <<stages, req>>
    BY <1>0, <1>2, <2>1, <2>2 DEF Claim
  <2>4. Handled(rec[t], q, StageOf[k])
    BY <1>1, <2>2 DEF Handled
  <2>5. BegunBy(t, StageOf[k])
    BY <1>2, <2>1
  <2> QED
    BY <1>1, <2>3, <2>4, <2>5, HandlingAdvances
<1>3. CASE ForceTeam(c)
  <2>1. PICK t \in Teams, k \in Tasks : t = team[c] /\ k = task[c]
    BY <1>1, <1>3 DEF ForceTeam
  <2>2. PICK q : q = [j \in Tasks |->
               IF j = k THEN "assigned"
               ELSE IF j \in InState(rec[t], StageOf[k], "assigned")
                    THEN "unassigned" ELSE rec[t][j]]
    OBVIOUS
  <2>3. rec' = [rec EXCEPT ![t] = q] /\ UNCHANGED <<stages, req>> /\ CanForce(t, k)
    BY <1>3, <2>1, <2>2 DEF ForceTeam
  <2>4. Handled(rec[t], q, StageOf[k])
    BY <1>1, <2>2 DEF Handled, InState, StageTasks
  <2>5. BegunBy(t, StageOf[k])
    BY <2>3, InHandIsBegun DEF CanForce, IsActiveStage
  <2> QED
    BY <1>1, <2>3, <2>4, <2>5, HandlingAdvances
<1>4. ASSUME NEW t \in Teams, NEW k \in Tasks, CheckOut(c, t, k)
      PROVE  TeamsAdvance
  <2>1. PICK q : q = [rec[t] EXCEPT ![k] = "unassigned"]
    OBVIOUS
  <2>2. rec' = [rec EXCEPT ![t] = q] /\ UNCHANGED <<stages, req>>
    BY <1>0, <1>4, <2>1 DEF CheckOut
  <2>3. Handled(rec[t], q, StageOf[k])
    BY <1>1, <2>1 DEF Handled
  <2>4. rec[t][k] = "assigned"
    BY <1>4, ConstantsAssumption DEF CheckOut, HeldSlot, ActiveIsAssigned
  <2>5. BegunBy(t, StageOf[k])
    BY <2>4, InHandIsBegun
  <2> QED
    BY <1>1, <2>2, <2>3, <2>5, HandlingAdvances
<1>5. ASSUME NEW t \in Teams, NEW k \in Tasks, Complete(c, t, k)
      PROVE  TeamsAdvance
  <2>1. PICK n \in Nat : n = req[t][StageOf[k]]
    BY <1>1
  <2>2. req' = [req EXCEPT ![t] = [req[t] EXCEPT ![StageOf[k]] = n]]
    BY <1>0, <1>5, <2>1 DEF Complete
  <2>3. /\ stages[t][StageOf[k]] = "active"
        /\ rec' = [rec EXCEPT ![t] =
                     SettleRecords([rec[t] EXCEPT ![k] = "completed"], StageOf[k], n)]
        /\ stages' = [stages EXCEPT ![t] =
                     SettleStages(stages[t], [rec[t] EXCEPT ![k] = "completed"], StageOf[k], n)]
    BY <1>5, <2>1 DEF Complete
  <2> QED
    BY <2>2, <2>3, SettlingAdvances
<1>6. CASE SkipTask(c)
  <2>1. PICK t \in Teams, k \in Tasks : t = team[c] /\ k = task[c]
    BY <1>1, <1>6 DEF SkipTask
  <2>2. PICK n \in Nat : n = LoweredRequirement(rec[t], StageOf[k], req[t][StageOf[k]], k)
    BY <1>1, LoweredRequirementType
  <2>3. req' = [req EXCEPT ![t] = [req[t] EXCEPT ![StageOf[k]] = n]]
    BY <1>0, <1>6, <2>1, <2>2 DEF SkipTask
  <2>4. /\ stages[t][StageOf[k]] = "active"
        /\ rec' = [rec EXCEPT ![t] =
                     SettleRecords([rec[t] EXCEPT ![k] = "skipped"], StageOf[k], n)]
        /\ stages' = [stages EXCEPT ![t] =
                     SettleStages(stages[t], [rec[t] EXCEPT ![k] = "skipped"], StageOf[k], n)]
    BY <1>6, <2>1, <2>2 DEF SkipTask, CanSkip, IsActiveStage
  <2> QED
    BY <2>3, <2>4, SettlingAdvances
<1>7. ASSUME NEW t \in Teams, SkipStage(c, t)
      PROVE  TeamsAdvance
  <2>1. PICK s \in Stages :
          /\ stages[t][s] = "active"
          /\ rec' = [rec EXCEPT ![t] = [k \in Tasks |->
                IF k \in {j \in StageTasks(s) : rec[t][j] # "completed"}
                THEN "skipped" ELSE rec[t][k]]]
          /\ stages' = [stages EXCEPT ![t] = OpenNext(stages[t], s)]
    BY <1>7, <1>0 DEF SkipStage, IsActiveStage
  <2>2. PICK q : q = [k \in Tasks |->
                IF k \in {j \in StageTasks(s) : rec[t][j] # "completed"}
                THEN "skipped" ELSE rec[t][k]]
    OBVIOUS
  <2>3. \A j \in Tasks : StageOf[j] # s => q[j] = rec[t][j]
    BY <2>2 DEF StageTasks
  <2>4. PICK su, n : su = OpenNext(stages[t], s) /\ n = req[t]
    OBVIOUS
  <2>5. Advances(rec[t], stages[t], req[t], q, su, n)
    BY <1>1, <2>1, <2>3, <2>4, OpenNextSound DEF SoundTeams
  <2>6. /\ rec' = [rec EXCEPT ![t] = q] /\ stages' = [stages EXCEPT ![t] = su]
        /\ req' = [req EXCEPT ![t] = n]
    BY <1>0, <1>7, <2>1, <2>2, <2>4 DEF SkipStage
  <2> QED
    BY <2>5, <2>6, OneTeamAdvances
<1>8. ASSUME NEW t \in Teams, CloseTeam(c, t)
      PROVE  TeamsAdvance
  <2>1. PICK k \in Tasks : k = closing[c]
    BY <1>8 DEF CloseTeam, Typed, CallsWellFormed, CallWellFormed
  <2>2. PICK n \in Nat : n = LoweredRequirement(rec[t], StageOf[k], req[t][StageOf[k]], k)
    BY <1>1, LoweredRequirementType
  <2>3. PICK q, m : /\ q = [rec[t] EXCEPT ![k] = "skipped"]
                    /\ m = [req[t] EXCEPT ![StageOf[k]] = n]
    OBVIOUS
  <2>4. req' = [req EXCEPT ![t] = m] /\ ~Terminal(rec[t][k])
    BY <1>0, <1>8, <2>1, <2>2, <2>3 DEF CloseTeam
  <2>5. CASE stages[t][StageOf[k]] = "active"
    <3>1. /\ rec' = [rec EXCEPT ![t] =
                       SettleRecords([rec[t] EXCEPT ![k] = "skipped"], StageOf[k], n)]
          /\ stages' = [stages EXCEPT ![t] =
                       SettleStages(stages[t], [rec[t] EXCEPT ![k] = "skipped"], StageOf[k], n)]
      BY <1>0, <1>8, <2>1, <2>2, <2>5 DEF CloseTeam
    <3> QED
      BY <2>3, <2>4, <2>5, <3>1, SettlingAdvances
  <2>6. CASE stages[t][StageOf[k]] # "active"
    <3>1. PICK st : st = stages[t]
      OBVIOUS
    <3>2. rec' = [rec EXCEPT ![t] = q] /\ stages' = [stages EXCEPT ![t] = st]
      BY <1>0, <1>8, <2>1, <2>3, <2>6, <3>1 DEF CloseTeam
    <3>3. /\ \A j \in Tasks : StageOf[j] # StageOf[k] => q[j] = rec[t][j]
          /\ \A u \in Stages \ {StageOf[k]} : m[u] = req[t][u]
          /\ Sound(rec[t], stages[t], req[t]) /\ k \in StageTasks(StageOf[k])
      BY <1>1, <2>3 DEF SoundTeams, StageTasks
    <3>4. CASE stages[t][StageOf[k]] = "completed"
      <4>1. Begun(q, st, m, StageOf[k])
        BY <3>1, <3>4 DEF Begun
      <4>2. Advances(rec[t], stages[t], req[t], q, st, m)
        BY <1>1, <3>1, <3>3, <4>1, PlayedSound
      <4> QED
        BY <2>4, <3>2, <4>2, OneTeamAdvances
    <3>5. CASE stages[t][StageOf[k]] = "locked"
      <4>1. Advances(rec[t], stages[t], req[t], q, st, m)
        BY <1>1, <2>2, <2>3, <2>4, <3>1, <3>3, <3>5, ClosedAheadSound
      <4> QED
        BY <2>4, <3>2, <4>1, OneTeamAdvances
    <3>6. stages[t][StageOf[k]] \in {"locked", "active", "completed"}
      BY <1>1
    <3> QED
      BY <2>6, <3>4, <3>5, <3>6
  <2> QED
    BY <2>5, <2>6
<1> QED
  BY <1>2, <1>3, <1>4, <1>5, <1>6, <1>7, <1>8 DEF Writes

=============================================================================
