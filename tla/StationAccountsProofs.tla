------------------------ MODULE StationAccountsProofs ------------------------
(***************************************************************************)
(* Slot accounting for any number of teams, missions, stages and calls:    *)
(* what the counters of a run say about the teams at its stations, and     *)
(* that the steps of StationSlots are steps of SlotLedger.  Then, one call *)
(* at a time: stamped records are final, the end of a run heals what       *)
(* crashes leaked, and a closure that is reported is complete.             *)
(*                                                                         *)
(* Orderly is the scope of the accounting.  Tracked is what is known of    *)
(* teams and calls there; every step then is one of a few moves of slots   *)
(* (SlotsMove), which keep the accounts balanced and are ledger steps.     *)
(***************************************************************************)
EXTENDS StationSlotsProofs

USE DEF RecordStates, Statuses, Steps

-----------------------------------------------------------------------------
(* Slot accounting *)

\* One when team t is at station k; one when call c carries a slot of it.
Held(t, k)    == IF rec[t][k] = "assigned" THEN 1 ELSE 0
Carried(c, k) == IF k \in owed[c] THEN 1 ELSE 0

\* Adding or taking away one element changes a count by one.
LEMMA CountOne ==
  ASSUME NEW S, NEW T, IsFiniteSet(S), NEW x, S \ {x} = T \ {x}
  PROVE  /\ Cardinality(S) \in Nat /\ Cardinality(T) \in Nat
         /\ Cardinality(T) = Cardinality(S) - (IF x \in S THEN 1 ELSE 0)
                                            + (IF x \in T THEN 1 ELSE 0)
         /\ Cardinality(S) >= IF x \in S THEN 1 ELSE 0
<1> DEFINE rest == S \ {x}
<1>1. IsFiniteSet(rest) /\ Cardinality(rest) \in Nat
      /\ Cardinality(rest) = IF x \in S THEN Cardinality(S) - 1 ELSE Cardinality(S)
  BY FS_RemoveElement, FS_CardinalityType
<1>2. Cardinality(S) \in Nat
  BY FS_CardinalityType
<1>3. T = IF x \in T THEN rest \cup {x} ELSE rest
  OBVIOUS
<1>4. x \notin rest
  OBVIOUS
<1>5. Cardinality(rest \cup {x}) = Cardinality(rest) + 1
  BY <1>1, <1>4, FS_AddElement
<1> HIDE DEF rest
<1>6. Cardinality(T) = IF x \in T THEN Cardinality(rest) + 1 ELSE Cardinality(rest)
  BY <1>3, <1>5
<1> QED
  BY <1>1, <1>2, <1>6

\* The teams at a station, when only team t's record changes.
LEMMA HoldersMove ==
  ASSUME NEW t \in Teams, NEW k \in Tasks,
         \A u \in Teams \ {t} : rec'[u] = rec[u]
  PROVE  /\ Cardinality(HoldersOf(k)) \in Nat
         /\ Cardinality(HoldersOf(k))' = Cardinality(HoldersOf(k)) - Held(t, k)
                                                                 + Held(t, k)'
         /\ Cardinality(HoldersOf(k)) >= Held(t, k)
<1>1. IsFiniteSet(HoldersOf(k))
  BY ConstantsAssumption, FS_Subset DEF HoldersOf
<1>2. HoldersOf(k) \ {t} = HoldersOf(k)' \ {t}
  BY DEF HoldersOf
<1>3. /\ t \in HoldersOf(k) <=> rec[t][k] = "assigned"
      /\ t \in HoldersOf(k)' <=> rec'[t][k] = "assigned"
  BY DEF HoldersOf
<1> QED
  BY <1>1, <1>2, <1>3, CountOne DEF Held

\* The calls carrying a slot of it, when only call c moves.
LEMMA OwingMove ==
  ASSUME NEW c \in Calls, NEW k \in Tasks,
         \A d \in Calls \ {c} : owed'[d] = owed[d]
  PROVE  /\ Cardinality(OwingOf(k)) \in Nat
         /\ Cardinality(OwingOf(k))' = Cardinality(OwingOf(k)) - Carried(c, k)
                                                             + Carried(c, k)'
         /\ Cardinality(OwingOf(k)) >= Carried(c, k)
<1>1. IsFiniteSet(OwingOf(k))
  BY ConstantsAssumption, FS_Subset DEF OwingOf
<1>2. OwingOf(k) \ {c} = OwingOf(k)' \ {c}
  BY DEF OwingOf
<1>3. /\ c \in OwingOf(k) <=> k \in owed[c]
      /\ c \in OwingOf(k)' <=> k \in owed'[c]
  BY DEF OwingOf
<1> QED
  BY <1>1, <1>2, <1>3, CountOne DEF Carried

\* A step that touches one team and one call keeps the accounts if the counter
\* moves by as much as that team and that call do.
LEMMA AccountsBalance ==
  ASSUME Typed, Typed', SlotAccounting, NEW c \in Calls, NEW t \in Teams,
         \A u \in Teams \ {t} : rec'[u] = rec[u],
         \A d \in Calls \ {c} : owed'[d] = owed[d],
         leaked' = leaked, runStatus' = runStatus,
         runStatus = "active" =>
           \A k \in Tasks :
             counts'[k] - Held(t, k)' - Carried(c, k)'
               = counts[k] - Held(t, k) - Carried(c, k)
  PROVE  SlotAccounting'
<1> SUFFICES ASSUME runStatus = "active", NEW k \in Tasks
             PROVE  counts'[k] = Cardinality(HoldersOf(k))'
                                 + Cardinality(OwingOf(k))' + leaked[k]
  BY DEF SlotAccounting
<1>1. counts[k] = Cardinality(HoldersOf(k)) + Cardinality(OwingOf(k)) + leaked[k]
  BY DEF SlotAccounting
<1>2. counts[k] \in Nat /\ counts'[k] \in Nat /\ leaked[k] \in Nat
  BY DEF Typed, TypeOK, RunTypeOK, HistoryTypeOK
<1>3. /\ Held(t, k) \in 0 .. 1 /\ Held(t, k)' \in 0 .. 1
      /\ Carried(c, k) \in 0 .. 1 /\ Carried(c, k)' \in 0 .. 1
  BY DEF Held, Carried
<1>4. counts'[k] - Held(t, k)' - Carried(c, k)'
        = counts[k] - Held(t, k) - Carried(c, k)
  OBVIOUS
<1>5. /\ Cardinality(HoldersOf(k)) \in Nat
      /\ Cardinality(HoldersOf(k))' = Cardinality(HoldersOf(k)) - Held(t, k)
                                                              + Held(t, k)'
  BY HoldersMove
<1>6. /\ Cardinality(OwingOf(k)) \in Nat
      /\ Cardinality(OwingOf(k))' = Cardinality(OwingOf(k)) - Carried(c, k)
                                                          + Carried(c, k)'
  BY OwingMove
<1> DEFINE h == Cardinality(HoldersOf(k))     hh == Cardinality(HoldersOf(k))'
           o == Cardinality(OwingOf(k))       oo == Cardinality(OwingOf(k))'
           a == Held(t, k)                    aa == Held(t, k)'
           b == Carried(c, k)                 bb == Carried(c, k)'
           n == counts[k]                     nn == counts'[k]
           x == leaked[k]
<1>7. /\ n = h + o + x /\ n \in Nat /\ nn \in Nat /\ x \in Nat
      /\ a \in 0 .. 1 /\ aa \in 0 .. 1 /\ b \in 0 .. 1 /\ bb \in 0 .. 1
      /\ nn - aa - bb = n - a - b
      /\ h \in Nat /\ hh = h - a + aa /\ o \in Nat /\ oo = o - b + bb
  BY <1>1, <1>2, <1>3, <1>4, <1>5, <1>6
<1>8. nn = hh + oo + x
  <2> HIDE DEF h, hh, o, oo, a, aa, b, bb, n, nn, x
  <2> QED
    BY <1>7
<1> QED
  BY <1>8

\* A counter covers the team at the station and the call on its way: a guarded
\* decrement for either of them is a decrement.
LEMMA CounterCovers ==
  ASSUME Typed, SlotAccounting, runStatus = "active",
         NEW c \in Calls, NEW t \in Teams, NEW k \in Tasks
  PROVE  counts[k] \in Nat /\ counts[k] >= Held(t, k) + Carried(c, k)
<1>1. counts[k] = Cardinality(HoldersOf(k)) + Cardinality(OwingOf(k)) + leaked[k]
  BY DEF SlotAccounting
<1>2. counts[k] \in Nat /\ leaked[k] \in Nat
  BY DEF Typed, TypeOK, RunTypeOK, HistoryTypeOK
<1>3. Cardinality(HoldersOf(k)) \in Nat /\ Cardinality(HoldersOf(k)) >= Held(t, k)
  <2>1. Cardinality(HoldersOf(k)) \in Nat
    BY ConstantsAssumption, FS_Subset, FS_CardinalityType DEF HoldersOf
  <2>2. IsFiniteSet(HoldersOf(k)) /\ HoldersOf(k) \ {t} = HoldersOf(k) \ {t}
    BY ConstantsAssumption, FS_Subset DEF HoldersOf
  <2>3. Cardinality(HoldersOf(k)) >= IF t \in HoldersOf(k) THEN 1 ELSE 0
    BY <2>2, CountOne
  <2> QED
    BY <2>1, <2>3 DEF HoldersOf, Held
<1>4. Cardinality(OwingOf(k)) \in Nat /\ Cardinality(OwingOf(k)) >= Carried(c, k)
  <2>1. Cardinality(OwingOf(k)) \in Nat
    BY ConstantsAssumption, FS_Subset, FS_CardinalityType DEF OwingOf
  <2>2. IsFiniteSet(OwingOf(k)) /\ OwingOf(k) \ {c} = OwingOf(k) \ {c}
    BY ConstantsAssumption, FS_Subset DEF OwingOf
  <2>3. Cardinality(OwingOf(k)) >= IF c \in OwingOf(k) THEN 1 ELSE 0
    BY <2>2, CountOne
  <2> QED
    BY <2>1, <2>3 DEF OwingOf, Carried
<1>5. Held(t, k) \in 0 .. 1 /\ Carried(c, k) \in 0 .. 1
  BY DEF Held, Carried
<1> QED
  BY <1>1, <1>2, <1>3, <1>4, <1>5

-----------------------------------------------------------------------------
(* Who works on a team *)

\* A step of call c leaves the locals of the other calls alone.
Undisturbed(c) ==
  \A d \in Calls \ {c} :
    /\ pc'[d] = pc[d] /\ team'[d] = team[d] /\ task'[d] = task[d]
    /\ owed'[d] = owed[d] /\ open'[d] = open[d] /\ draft'[d] = draft[d]
    /\ closing'[d] = closing[d] /\ todo'[d] = todo[d] /\ after'[d] = after[d]

LEMMA GoOnUndisturbed ==
  ASSUME Typed, NEW c \in Calls, NEW step, NEW t, NEW k, NEW K, NEW next,
         GoOn(c, step, t, k, K, next),
         \/ UNCHANGED open \/ \E v : open' = [open EXCEPT ![c] = v],
         \/ UNCHANGED draft \/ \E v : draft' = [draft EXCEPT ![c] = v],
         \/ UNCHANGED closing \/ \E v : closing' = [closing EXCEPT ![c] = v],
         \/ UNCHANGED todo \/ \E v : todo' = [todo EXCEPT ![c] = v]
  PROVE  Undisturbed(c)
BY DEF GoOn, Undisturbed, Typed, TypeOK, CallsTypeOK

LEMMA ReturnUndisturbed ==
  ASSUME Typed, NEW c \in Calls, Return(c), UNCHANGED closing,
         \/ UNCHANGED todo \/ \E v : todo' = [todo EXCEPT ![c] = v]
  PROVE  Undisturbed(c)
BY GoOnUndisturbed DEF Return

LEMMA BeginningUndisturbed ==
  ASSUME Typed, NEW c \in Calls, Beginning(c)
  PROVE  Undisturbed(c)
<1>1. ASSUME NEW t \in Teams, RequestNext(c, t) PROVE Undisturbed(c)
  BY <1>1, GoOnUndisturbed DEF RequestNext
<1>2. ASSUME NEW t \in Teams, PollRead(c, t) PROVE Undisturbed(c)
  <2>1. PICK k, next, v, w : /\ GoOn(c, "persist", t, k, {}, next)
                             /\ open' = [open EXCEPT ![c] = v]
                             /\ draft' = [draft EXCEPT ![c] = w]
    BY <1>2 DEF PollRead, SweepInFlight
  <2> QED
    BY <1>2, <2>1, GoOnUndisturbed DEF PollRead
<1>3. ASSUME NEW t \in Teams, StartRead(c, t) PROVE Undisturbed(c)
  BY <1>3, GoOnUndisturbed DEF StartRead
<1>4. ASSUME NEW t \in Teams, SkipStage(c, t) PROVE Undisturbed(c)
  <2>1. PICK s \in Stages :
          /\ GoOn(c, "release", t, NoTask, InState(rec[t], s, "assigned"), "return")
          /\ UNCHANGED <<open, draft, closing, todo>>
    BY <1>4 DEF SkipStage
  <2> QED
    BY <2>1, GoOnUndisturbed
<1>5. ASSUME NEW t \in Teams, NEW k \in Tasks, Complete(c, t, k) PROVE Undisturbed(c)
  BY <1>5, GoOnUndisturbed DEF Complete
<1>6. ASSUME NEW t \in Teams, NEW k \in Tasks,
             SkipTaskOpen(c, t, k) \/ CheckOut(c, t, k) \/ ForceRead(c, t, k)
      PROVE  Undisturbed(c)
  BY <1>6, GoOnUndisturbed DEF SkipTaskOpen, CheckOut, ForceRead
<1>7. ASSUME NEW k \in Tasks, NEW st \in Statuses, SetStatusRead(c, k, st)
      PROVE  Undisturbed(c)
  BY <1>7, GoOnUndisturbed DEF SetStatusRead
<1> QED
  BY <1>1, <1>2, <1>3, <1>4, <1>5, <1>6, <1>7 DEF Beginning

LEMMA RoutingUndisturbed ==
  ASSUME Typed, NEW c \in Calls, Routing(c)
  PROVE  Undisturbed(c) /\ UNCHANGED <<closing, todo, final>> /\ ~Idle(c)
         /\ (pc'[c] # "idle" => team'[c] = team[c] \/ closing[c] # NoTask)
         /\ (pc'[c] = "idle" => closing[c] = NoTask)
<1> DEFINE G == /\ Undisturbed(c) /\ UNCHANGED <<closing, todo, final>> /\ ~Idle(c)
                /\ (pc'[c] # "idle" => team'[c] = team[c] \/ closing[c] # NoTask)
                /\ (pc'[c] = "idle" => closing[c] = NoTask)
<1> USE DEF runVars, Idle
<1>0. /\ pc \in [Calls -> Steps] /\ team \in [Calls -> Teams \cup {NoTeam}]
      /\ open \in [Calls -> SUBSET Tasks] /\ after[c] # "idle" /\ draft = draft
      /\ owed \in [Calls -> SUBSET Tasks]
  BY DEF Typed, TypeOK, CallsTypeOK
<1>1. ASSUME NEW step, step # "idle", NEW k, NEW K, NEW next,
             GoOn(c, step, team[c], k, K, next)
      PROVE  pc'[c] # "idle" /\ team'[c] = team[c]
  BY <1>0, <1>1 DEF GoOn
<1>2. ASSUME Return(c), UNCHANGED <<closing, todo, final>>, pc[c] # "idle"
      PROVE  G
  <2>1. Undisturbed(c)
    BY <1>2, ReturnUndisturbed
  <2>2. pc'[c] = IF closing[c] = NoTask THEN "idle" ELSE "close"
    BY <1>0, <1>2 DEF Return, GoOn
  <2> QED
    BY <1>2, <2>1, <2>2
<1>3. CASE NothingToAssign(c) \/ PersistFails(c) \/ NoCandidate(c) \/ Claim(c)
  BY <1>3, <1>2 DEF NothingToAssign, PersistFails, NoCandidate, Claim
<1>4. CASE ReadOpen(c)
  BY <1>0, <1>4 DEF ReadOpen, Undisturbed
<1>5. CASE SweepRead(c)
  <2>1. PICK k, next, v, w : /\ GoOn(c, "persist", team[c], k, {}, next)
                             /\ open' = [open EXCEPT ![c] = v]
                             /\ draft' = [draft EXCEPT ![c] = w]
    BY <1>5 DEF SweepRead, SweepInFlight
  <2>2. Undisturbed(c)
    BY <1>5, <2>1, GoOnUndisturbed DEF SweepRead
  <2> QED
    BY <1>1, <1>5, <2>1, <2>2 DEF SweepRead
<1>6. CASE Persist(c)
  <2>1. Undisturbed(c)
    BY <1>6, GoOnUndisturbed DEF Persist
  <2> QED
    BY <1>1, <1>6, <2>1 DEF Persist
<1>7. CASE Reserve(c)
  <2>1. PICK k : GoOn(c, "claim", team[c], k, {k}, "return")
    BY <1>7 DEF Reserve
  <2>2. Undisturbed(c)
    BY <1>7, <2>1, GoOnUndisturbed DEF Reserve
  <2> QED
    BY <1>1, <1>7, <2>1, <2>2 DEF Reserve
<1>8. CASE ClaimRefused(c)
  <2>1. Undisturbed(c)
    BY <1>8, GoOnUndisturbed DEF ClaimRefused
  <2> QED
    BY <1>1, <1>8, <2>1 DEF ClaimRefused
<1>9. CASE Release(c)
  BY <1>0, <1>9 DEF Release, Undisturbed
<1>10. CASE Released(c)
  <2>1. CASE after[c] = "return"
    BY <1>2, <1>10, <2>1 DEF Released
  <2>2. CASE after[c] # "return"
    <3>1. GoOn(c, after[c], team[c], NoTask, {}, "return")
          /\ UNCHANGED <<open, draft, closing, todo, final>> /\ pc[c] = "release"
      BY <1>10, <2>2 DEF Released
    <3>2. Undisturbed(c)
      BY <3>1, GoOnUndisturbed
    <3> QED
      BY <1>0, <1>1, <3>1, <3>2
  <2> QED
    BY <2>1, <2>2
<1> QED
  BY <1>3, <1>4, <1>5, <1>6, <1>7, <1>8, <1>9, <1>10 DEF Routing

\* What a call does once it has begun: it stays with its team, or works for a
\* closure, until it is idle again.
LEMMA ContinuingUndisturbed ==
  ASSUME Typed, NEW c \in Calls, Continuing(c) \/ Crash(c)
  PROVE  /\ Undisturbed(c) /\ UNCHANGED final /\ ~Idle(c)
         /\ pc'[c] = "idle" => closing'[c] = NoTask
         /\ pc'[c] # "idle" =>
              closing'[c] = closing[c] /\ (team'[c] = team[c] \/ closing[c] # NoTask)
<1> DEFINE G == /\ Undisturbed(c) /\ UNCHANGED final /\ ~Idle(c)
                /\ pc'[c] = "idle" => closing'[c] = NoTask
                /\ pc'[c] # "idle" =>
                     closing'[c] = closing[c] /\ (team'[c] = team[c] \/ closing[c] # NoTask)
<1> USE DEF runVars, Idle
<1>0. /\ pc \in [Calls -> Steps] /\ team \in [Calls -> Teams \cup {NoTeam}]
      /\ todo \in [Calls -> SUBSET Teams] /\ closing \in [Calls -> Tasks \cup {NoTask}]
      /\ NoTask \notin Tasks /\ CallWellFormed(c)
  BY ConstantsAssumption DEF Typed, TypeOK, CallsTypeOK, CallsWellFormed
<1>1. ASSUME NEW step, step # "idle", NEW k, NEW K, NEW next,
             GoOn(c, step, team[c], k, K, next), UNCHANGED <<closing, final>>,
             Undisturbed(c), pc[c] # "idle"
      PROVE  G
  BY <1>0, <1>1 DEF GoOn
<1>2. ASSUME Return(c), UNCHANGED <<closing, final>>, pc[c] # "idle",
             \/ UNCHANGED todo \/ \E v : todo' = [todo EXCEPT ![c] = v]
      PROVE  G
  <2>1. Undisturbed(c)
    BY <1>2, ReturnUndisturbed
  <2>2. pc'[c] = IF closing[c] = NoTask THEN "idle" ELSE "close"
    BY <1>0, <1>2 DEF Return, GoOn
  <2> QED
    BY <1>2, <2>1, <2>2
<1>3. CASE Routing(c)
  <2>1. Undisturbed(c) /\ UNCHANGED <<closing, todo, final>> /\ ~Idle(c)
        /\ (pc'[c] # "idle" => team'[c] = team[c] \/ closing[c] # NoTask)
        /\ (pc'[c] = "idle" => closing[c] = NoTask)
    BY <1>3, RoutingUndisturbed
  <2> QED
    BY <2>1
<1>4. CASE StartWrite(c)
  <2>1. Undisturbed(c)
    BY <1>4, GoOnUndisturbed DEF StartWrite
  <2> QED
    BY <1>1, <1>4, <2>1 DEF StartWrite
<1>5. CASE SkipTask(c)
  <2>1. PICK K : GoOn(c, "release", team[c], NoTask, K, "read")
    BY <1>5 DEF SkipTask
  <2>2. UNCHANGED <<open, draft, closing, todo, final>> /\ pc[c] = "skip"
    BY <1>5 DEF SkipTask
  <2>3. Undisturbed(c)
    BY <2>1, <2>2, GoOnUndisturbed
  <2> QED
    BY <1>1, <2>1, <2>2, <2>3
<1>6. CASE SkipTaskRefused(c) \/ ForceRefused(c)
  BY <1>2, <1>6 DEF SkipTaskRefused, ForceRefused
<1>7. CASE ForceClaim(c)
  <2>1. Undisturbed(c)
    BY <1>7, GoOnUndisturbed DEF ForceClaim
  <2> QED
    BY <1>1, <1>7, <2>1 DEF ForceClaim
<1>8. CASE ForceTeam(c)
  <2>1. PICK K : GoOn(c, "release", team[c], NoTask, K, "return")
    BY <1>8 DEF ForceTeam
  <2>2. UNCHANGED <<open, draft, closing, todo, final>> /\ pc[c] = "forceTeam"
    BY <1>8 DEF ForceTeam
  <2>3. Undisturbed(c)
    BY <2>1, <2>2, GoOnUndisturbed
  <2> QED
    BY <1>1, <2>1, <2>2, <2>3
<1>9. CASE ForceUndone(c)
  <2>1. Undisturbed(c)
    BY <1>9, GoOnUndisturbed DEF ForceUndone
  <2> QED
    BY <1>1, <1>9, <2>1 DEF ForceUndone
<1>10. CASE SetStatusWrite(c)
  <2>1. /\ Return(c) /\ UNCHANGED <<closing, final>> /\ pc[c] # "idle"
        /\ \E v : todo' = [todo EXCEPT ![c] = v]
    BY <1>10 DEF SetStatusWrite
  <2> QED
    BY <1>2, <2>1
<1>11. ASSUME NEW t \in Teams, CloseTeam(c, t) PROVE G
  <2>1. PICK K, next : GoOn(c, "release", t, NoTask, K, next)
    BY <1>11 DEF CloseTeam
  <2>2. /\ UNCHANGED <<open, draft, closing, final>> /\ pc[c] = "close"
        /\ \E v : todo' = [todo EXCEPT ![c] = v]
    BY <1>11 DEF CloseTeam
  <2>3. Undisturbed(c)
    BY <2>1, <2>2, GoOnUndisturbed
  <2>4. closing[c] # NoTask /\ pc'[c] = "release"
    BY <1>0, <2>1, <2>2 DEF CallWellFormed, GoOn
  <2> QED
    BY <2>2, <2>3, <2>4
<1>12. ASSUME NEW t \in Teams, CloseSkips(c, t) PROVE G
  BY <1>0, <1>12 DEF CloseSkips, Undisturbed
<1>13. CASE CloseDone(c)
  BY <1>0, <1>13 DEF CloseDone, Undisturbed
<1>14. CASE Crash(c)
  <2>1. Undisturbed(c)
    BY <1>14, GoOnUndisturbed DEF Crash
  <2>2. closing'[c] = NoTask /\ pc'[c] = "idle" /\ UNCHANGED final /\ ~Idle(c)
    BY <1>0, <1>14 DEF Crash, GoOn
  <2> QED
    BY <2>1, <2>2
<1> QED
  BY <1>3, <1>4, <1>5, <1>6, <1>7, <1>8, <1>9, <1>10, <1>11, <1>12, <1>13, <1>14
     DEF Continuing

\* One call at a time: of two calls on their way each has a team of its own,
\* a change of availability and the end of the run wait for the others, and
\* they for it.
Alone ==
  /\ \A c \in Calls : Idle(c) => closing[c] = NoTask
  /\ Serial =>
       /\ final # None => \A c \in Calls : Idle(c)
       /\ \A c, d \in Calls :
            c # d /\ ~Idle(c) /\ ~Idle(d) =>
              closing[c] = NoTask /\ team[c] \in Teams /\ team[c] # team[d]

LEMMA AloneStays ==
  ASSUME Typed, Alone, [Next]_vars
  PROVE  Alone'
<1> USE DEF Idle
<1>0. /\ pc \in [Calls -> Steps] /\ team \in [Calls -> Teams \cup {NoTeam}]
      /\ closing \in [Calls -> Tasks \cup {NoTask}]
  BY DEF Typed, TypeOK, CallsTypeOK
<1>1. CASE UNCHANGED <<pc, team, closing, final>>
  BY <1>1 DEF Alone
<1>2. ASSUME NEW c \in Calls, Continuing(c) \/ Crash(c)
      PROVE  Alone'
  <2>1. /\ Undisturbed(c) /\ UNCHANGED final /\ ~Idle(c)
        /\ pc'[c] = "idle" => closing'[c] = NoTask
        /\ pc'[c] # "idle" =>
             closing'[c] = closing[c] /\ (team'[c] = team[c] \/ closing[c] # NoTask)
    BY <1>2, ContinuingUndisturbed
  <2> QED
    BY <2>1 DEF Alone, Undisturbed
<1>3. ASSUME NEW c \in Calls, Beginning(c)
      PROVE  Alone'
  <2>1. Undisturbed(c)
    BY <1>3, BeginningUndisturbed
  <2>2. ASSUME NEW t \in Teams, Idle(c), TeamFree(t), closing' = closing, final' = final,
               pc'[c] # "idle", team'[c] = t
        PROVE  Alone'
    BY <2>1, <2>2 DEF Alone, Undisturbed, TeamFree
  <2>3. ASSUME NEW step, NEW t \in Teams, NEW k, NEW K, NEW next, step # "idle",
               GoOn(c, step, t, k, K, next), Idle(c), TeamFree(t),
               UNCHANGED <<closing, final>>
        PROVE  Alone'
    BY <1>0, <2>2, <2>3 DEF GoOn
  <2>4. ASSUME NEW t \in Teams, PollRead(c, t) PROVE Alone'
    <3>1. PICK k, next : GoOn(c, "persist", t, k, {}, next)
      BY <2>4 DEF PollRead, SweepInFlight
    <3> QED
      BY <2>3, <2>4, <3>1 DEF PollRead, Begin, runVars
  <2>5. ASSUME NEW t \in Teams, RequestNext(c, t) \/ StartRead(c, t) PROVE Alone'
    BY <2>3, <2>5 DEF RequestNext, StartRead, Begin, runVars
  <2>6. ASSUME NEW t \in Teams, SkipStage(c, t) PROVE Alone'
    <3>1. PICK K : GoOn(c, "release", t, NoTask, K, "return")
      BY <2>6 DEF SkipStage
    <3> QED
      BY <2>3, <2>6, <3>1 DEF SkipStage, Begin, runVars
  <2>7. ASSUME NEW t \in Teams, NEW k \in Tasks, Complete(c, t, k) PROVE Alone'
    BY <2>3, <2>7 DEF Complete, Begin
  <2>8. ASSUME NEW t \in Teams, NEW k \in Tasks,
               SkipTaskOpen(c, t, k) \/ CheckOut(c, t, k) \/ ForceRead(c, t, k)
        PROVE  Alone'
    BY <2>3, <2>8 DEF SkipTaskOpen, CheckOut, ForceRead, Begin, runVars
  <2>9. ASSUME NEW k \in Tasks, NEW st \in Statuses, SetStatusRead(c, k, st)
        PROVE  Alone'
    <3>1. /\ pc'[c] = st /\ Idle(c) /\ RunFree /\ UNCHANGED final
      BY <1>0, <2>9 DEF SetStatusRead, GoOn, runVars
    <3> QED
      BY <2>1, <3>1 DEF Alone, Undisturbed, RunFree
  <2> QED
    BY <1>3, <2>4, <2>5, <2>6, <2>7, <2>8, <2>9 DEF Beginning
<1>4. CASE FinalizeRead
  BY <1>4 DEF FinalizeRead, RunFree, Alone, callVars
<1>5. CASE FinalizeWrite
  BY <1>5 DEF FinalizeWrite, Alone, callVars
<1> QED
  BY <1>1, <1>2, <1>3, <1>4, <1>5 DEF Next, Expire, vars, runVars, callVars

\* The steps that lead to a write of a copy or to a claim; after any other step
\* the call is at neither.
Leading(c) ==
  \/ \E t \in Teams : StartRead(c, t) \/ PollRead(c, t)
  \/ SweepRead(c) \/ Persist(c) \/ ReadOpen(c) \/ Reserve(c)
  \/ Release(c) \/ Released(c)
Elsewhere(c) ==
  /\ pc'[c] \notin {"start", "persist", "reserve", "claim"}
  /\ pc'[c] = "release" => after'[c] # "reserve"

LEMMA WhereCallsGo ==
  ASSUME Typed, NEW c \in Calls, Beginning(c) \/ Continuing(c) \/ Crash(c)
  PROVE  Leading(c) \/ Elsewhere(c)
<1>0. /\ pc \in [Calls -> Steps] /\ after \in [Calls -> {"return", "read", "reserve"}]
      /\ closing \in [Calls -> Tasks \cup {NoTask}] /\ owed \in [Calls -> SUBSET Tasks]
  BY DEF Typed, TypeOK, CallsTypeOK
<1>1. ASSUME NEW step, NEW t, NEW k, NEW K, NEW next, GoOn(c, step, t, k, K, next),
             step \notin {"start", "persist", "reserve", "claim"},
             step = "release" => next # "reserve"
      PROVE  Elsewhere(c)
  BY <1>0, <1>1 DEF GoOn, Elsewhere
<1>2. ASSUME Return(c) PROVE Elsewhere(c)
  BY <1>1, <1>2 DEF Return
<1>3. ASSUME Beginning(c) PROVE Leading(c) \/ Elsewhere(c)
  <2>1. ASSUME NEW t \in Teams, RequestNext(c, t) PROVE Elsewhere(c)
    BY <2>1, <1>1 DEF RequestNext
  <2>2. ASSUME NEW t \in Teams, SkipStage(c, t) PROVE Elsewhere(c)
    <3>1. PICK K : GoOn(c, "release", t, NoTask, K, "return")
      BY <2>2 DEF SkipStage
    <3> QED
      BY <3>1, <1>1
  <2>3. ASSUME NEW t \in Teams, NEW k \in Tasks, Complete(c, t, k) PROVE Elsewhere(c)
    BY <2>3, <1>1 DEF Complete
  <2>4. ASSUME NEW t \in Teams, NEW k \in Tasks,
               SkipTaskOpen(c, t, k) \/ CheckOut(c, t, k) \/ ForceRead(c, t, k)
        PROVE  Elsewhere(c)
    BY <2>4, <1>1 DEF SkipTaskOpen, CheckOut, ForceRead
  <2>5. ASSUME NEW k \in Tasks, NEW st \in Statuses, SetStatusRead(c, k, st)
        PROVE  Elsewhere(c)
    BY <2>5, <1>1 DEF SetStatusRead
  <2> QED
    BY <1>3, <2>1, <2>2, <2>3, <2>4, <2>5 DEF Beginning, Leading
<1>4. ASSUME Routing(c) PROVE Leading(c) \/ Elsewhere(c)
  <2>1. CASE NothingToAssign(c) \/ PersistFails(c) \/ NoCandidate(c) \/ Claim(c)
    BY <2>1, <1>2 DEF NothingToAssign, PersistFails, NoCandidate, Claim
  <2>2. CASE ClaimRefused(c)
    BY <2>2, <1>1 DEF ClaimRefused
  <2> QED
    BY <1>4, <2>1, <2>2 DEF Routing, Leading
<1>5. ASSUME Continuing(c) PROVE Leading(c) \/ Elsewhere(c)
  <2>1. CASE StartWrite(c) \/ ForceClaim(c) \/ ForceUndone(c)
    BY <2>1, <1>1 DEF StartWrite, ForceClaim, ForceUndone
  <2>2. CASE SkipTaskRefused(c) \/ ForceRefused(c) \/ SetStatusWrite(c)
    BY <2>2, <1>2 DEF SkipTaskRefused, ForceRefused, SetStatusWrite
  <2>3. CASE SkipTask(c)
    <3>1. PICK K : GoOn(c, "release", team[c], NoTask, K, "read")
      BY <2>3 DEF SkipTask
    <3> QED
      BY <3>1, <1>1
  <2>4. CASE ForceTeam(c)
    <3>1. PICK K : GoOn(c, "release", team[c], NoTask, K, "return")
      BY <2>4 DEF ForceTeam
    <3> QED
      BY <3>1, <1>1
  <2>5. ASSUME NEW t \in Teams, CloseTeam(c, t) PROVE Elsewhere(c)
    <3>1. PICK K, next : GoOn(c, "release", t, NoTask, K, next) /\ next # "reserve"
      BY <2>5 DEF CloseTeam
    <3> QED
      BY <3>1, <1>1
  <2>6. ASSUME NEW t \in Teams, CloseSkips(c, t) PROVE Elsewhere(c)
    BY <2>6 DEF CloseSkips, Elsewhere
  <2>7. CASE CloseDone(c)
    BY <1>0, <2>7 DEF CloseDone, Elsewhere
  <2> QED
    BY <1>4, <1>5, <2>1, <2>2, <2>3, <2>4, <2>5, <2>6, <2>7 DEF Continuing
<1>6. ASSUME Crash(c) PROVE Elsewhere(c)
  BY <1>6, <1>1 DEF Crash
<1> QED
  BY <1>3, <1>5, <1>6

\* One call at a time: a call on its way has its team to itself.
LEMMA OwnTeam ==
  ASSUME Typed, Alone, Serial, NEW c \in Calls, Writes(c),
         Beginning(c) \/ Continuing(c),
         NEW d \in Calls \ {c}, ~Idle(d), NEW u \in Teams, team[d] = u
  PROVE  rec'[u] = rec[u] /\ stages'[u] = stages[u] /\ req'[u] = req[u]
<1>0. /\ rec \in [Teams -> [Tasks -> RecordStates]] /\ req \in [Teams -> [Stages -> Nat]]
      /\ stages \in [Teams -> [Stages -> {"locked", "active", "completed"}]]
      /\ CallWellFormed(c) /\ NoTask \notin Tasks
  BY ConstantsAssumption DEF Typed, TypeOK, TeamsTypeOK, CallsWellFormed
<1>1. ASSUME NEW t, t # u,
             \/ UNCHANGED rec \/ \E v : rec' = [rec EXCEPT ![t] = v],
             \/ UNCHANGED stages \/ \E v : stages' = [stages EXCEPT ![t] = v],
             \/ UNCHANGED req \/ \E v : req' = [req EXCEPT ![t] = v]
      PROVE  rec'[u] = rec[u] /\ stages'[u] = stages[u] /\ req'[u] = req[u]
  BY <1>0, <1>1
<1>2. ASSUME NEW t \in Teams, TeamFree(t) PROVE t # u
  BY <1>2 DEF TeamFree
<1>3. ~Idle(c) => team[c] # u
  BY DEF Alone
<1>4. CASE Persist(c) \/ StartWrite(c)
  BY <1>1, <1>3, <1>4 DEF Persist, StartWrite, Idle
<1>5. CASE Claim(c)
  <2>1. rec' = [rec EXCEPT ![team[c]] = [rec[team[c]] EXCEPT ![task[c]] = "assigned"]]
    BY <1>0, <1>5 DEF Claim, CallWellFormed
  <2> QED
    BY <1>1, <1>3, <1>5, <2>1 DEF Claim, Idle
<1>6. CASE SkipTask(c)
  <2>1. \E v : req' = [req EXCEPT ![team[c]] = v]
    BY <1>0, <1>6 DEF SkipTask, CallWellFormed
  <2>2. \E v : rec' = [rec EXCEPT ![team[c]] = v]
    BY <1>6 DEF SkipTask
  <2>3. \E v : stages' = [stages EXCEPT ![team[c]] = v]
    BY <1>6 DEF SkipTask
  <2>4. team[c] # u
    BY <1>3, <1>6 DEF SkipTask, Idle
  <2> QED
    BY <1>1, <2>1, <2>2, <2>3, <2>4
<1>7. CASE ForceTeam(c)
  <2>1. \E v : rec' = [rec EXCEPT ![team[c]] = v]
    BY <1>0, <1>7 DEF ForceTeam, CallWellFormed
  <2> QED
    BY <1>1, <1>3, <1>7, <2>1 DEF ForceTeam, Idle
<1>8. ASSUME NEW t \in Teams, SkipStage(c, t)
      PROVE  rec'[u] = rec[u] /\ stages'[u] = stages[u] /\ req'[u] = req[u]
  <2>1. (\E v : rec' = [rec EXCEPT ![t] = v]) /\ (\E v : stages' = [stages EXCEPT ![t] = v])
        /\ UNCHANGED req /\ TeamFree(t)
    BY <1>0, <1>8 DEF SkipStage, Begin
  <2> QED
    BY <1>1, <1>2, <2>1
<1>9. ASSUME NEW t \in Teams, CloseTeam(c, t) PROVE FALSE
  BY <1>0, <1>9 DEF CloseTeam, Alone, CallWellFormed, Idle
<1>10. ASSUME NEW t \in Teams, NEW k \in Tasks, Complete(c, t, k)
       PROVE  rec'[u] = rec[u] /\ stages'[u] = stages[u] /\ req'[u] = req[u]
  BY <1>1, <1>2, <1>10 DEF Complete, Begin
<1>11. ASSUME NEW t \in Teams, NEW k \in Tasks, CheckOut(c, t, k)
       PROVE  rec'[u] = rec[u] /\ stages'[u] = stages[u] /\ req'[u] = req[u]
  <2>1. rec' = [rec EXCEPT ![t] = [rec[t] EXCEPT ![k] = "unassigned"]]
    BY <1>0, <1>11 DEF CheckOut
  <2> QED
    BY <1>1, <1>2, <1>11, <2>1 DEF CheckOut, Begin
<1> QED
  BY <1>4, <1>5, <1>6, <1>7, <1>8, <1>9, <1>10, <1>11 DEF Writes

-----------------------------------------------------------------------------
(* What calls keep in mind between their steps *)

\* The scope of what follows: either one call at a time works on a team; or any
\* calls interleave, no team is launched late and no mission expires or is
\* timed, so that every write of a team document is a transaction.
OnlyTransactions == Tools \cap {"start", "sweep"} = {} /\ TimeLimited = {}
Orderly == Serial \/ OnlyTransactions

NoPlainWrites ==
  expired = {} /\ \A c \in Calls : pc[c] \notin {"persist", "start"}

\* The copy a call is about to write is of the document as it is.
CopyCurrent(c) ==
  LET t == team[c]  k == task[c]  s == StageOf[k]  d == draft[c]
      r == [rec[t] EXCEPT ![k] = "skipped"]
  IN
  /\ pc[c] = "start" => d.rec = rec[t] /\ d.stages = stages[t] /\ d.req = req[t]
  /\ pc[c] = "persist" =>
       /\ rec[t][k] = "assigned" /\ stages[t][s] = "active"
       /\ d.rec = SettleRecords(r, s, req[t][s])
       /\ d.stages = SettleStages(stages[t], r, s, req[t][s])
       /\ d.req = req[t]

\* The missions a call may claim are of a stage its team has begun, and, one
\* call at a time, the team has not touched them.
Claimable(t, k) == BegunBy(t, StageOf[k]) /\ (Serial => rec[t][k] = "unassigned")
ClaimReady(c) ==
  /\ pc[c] = "reserve" \/ (pc[c] = "release" /\ after[c] = "reserve") =>
       \A k \in open[c] : Claimable(team[c], k)
  /\ pc[c] = "claim" => Claimable(team[c], task[c])
  /\ pc[c] = "persist" =>
       \A k \in open[c] : /\ draft[c].stages[StageOf[k]] = "active"
                          /\ draft[c].rec[k] = "unassigned"

Tracked ==
  /\ Typed /\ Alone /\ OneInHand /\ SoundTeams /\ ActiveIsAssigned
  /\ OnlyTransactions => NoPlainWrites
  /\ \A c \in Calls : CopyCurrent(c) /\ ClaimReady(c)

\* A step writes a team document or leaves them all alone.
LEMMA StepWrites ==
  ASSUME NEW c \in Calls, Beginning(c) \/ Continuing(c) \/ Crash(c)
  PROVE  \/ Writes(c) /\ (Beginning(c) \/ Continuing(c))
         \/ UNCHANGED teamVars
<1>1. ASSUME Continuing(c) PROVE Writes(c) \/ UNCHANGED teamVars
  <2>1. CASE SkipTaskRefused(c) \/ ForceClaim(c) \/ ForceRefused(c) \/ ForceUndone(c)
    BY <2>1 DEF SkipTaskRefused, ForceClaim, ForceRefused, ForceUndone
  <2>2. CASE SetStatusWrite(c) \/ CloseDone(c)
    BY <2>2 DEF SetStatusWrite, CloseDone
  <2>3. ASSUME NEW t \in Teams, CloseSkips(c, t)
        PROVE  UNCHANGED teamVars
    BY <2>3 DEF CloseSkips
  <2> QED
    BY <1>1, <2>1, <2>2, <2>3, OtherRouting DEF Continuing, Writes
<1>2. ASSUME Crash(c) PROVE UNCHANGED teamVars
  BY <1>2 DEF Crash
<1> QED
  BY <1>1, <1>2, OtherBeginnings

LEMMA WritesAdvance ==
  ASSUME Tracked, NEW c \in Calls, Writes(c)
  PROVE  TeamsAdvance
<1>0. /\ rec \in [Teams -> [Tasks -> RecordStates]] /\ req \in [Teams -> [Stages -> Nat]]
      /\ stages \in [Teams -> [Stages -> {"locked", "active", "completed"}]]
      /\ Typed /\ SoundTeams /\ ActiveIsAssigned /\ CallWellFormed(c)
      /\ CopyCurrent(c) /\ ClaimReady(c)
  BY DEF Tracked, Typed, TypeOK, TeamsTypeOK, CallsWellFormed
<1>1. CASE Persist(c)
  <2>1. PICK t \in Teams, k \in Tasks : t = team[c] /\ k = task[c]
    BY <1>0, <1>1 DEF Persist, CallWellFormed
  <2>2. PICK n \in Nat : n = req[t][StageOf[k]]
    BY <1>0, StageOfType
  <2>3. /\ rec' = [rec EXCEPT ![t] =
                     SettleRecords([rec[t] EXCEPT ![k] = "skipped"], StageOf[k], n)]
        /\ stages' = [stages EXCEPT ![t] =
                     SettleStages(stages[t], [rec[t] EXCEPT ![k] = "skipped"], StageOf[k], n)]
        /\ stages[t][StageOf[k]] = "active"
        /\ req' = [req EXCEPT ![t] = req[t]]
    BY <1>0, <1>1, <2>1, <2>2 DEF Persist, CopyCurrent
  <2>4. req' = [req EXCEPT ![t] = [req[t] EXCEPT ![StageOf[k]] = n]]
    BY <1>0, <2>2, <2>3
  <2> QED
    BY <1>0, <2>3, <2>4, SettlingAdvances
<1>2. CASE StartWrite(c)
  <2>1. team[c] \in Teams
    BY <1>0, <1>2 DEF StartWrite, CallWellFormed
  <2>2. UNCHANGED <<rec, stages, req>>
    BY <1>0, <1>2, <2>1 DEF StartWrite, CopyCurrent
  <2> QED
    BY <1>0, <2>2 DEF TeamsAdvance, Advances, SoundTeams
<1>3. CASE ~Persist(c) /\ ~StartWrite(c)
  <2>1. Claim(c) => BegunBy(team[c], StageOf[task[c]])
    BY <1>0 DEF Claim, ClaimReady, Claimable
  <2> QED
    BY <1>0, <1>3, <2>1, TransactionsAdvance
<1> QED
  BY <1>1, <1>2, <1>3

\* No step takes a stage back.
LEMMA StepsAdvance ==
  ASSUME Tracked, [Next]_vars
  PROVE  TeamsAdvance
<1>1. ASSUME UNCHANGED teamVars PROVE TeamsAdvance
  BY <1>1 DEF teamVars, TeamsAdvance, Advances, Tracked, SoundTeams
<1> QED
  BY <1>1, OtherSteps, WritesAdvance

\* What the sweep of an expired mission leaves in a call's hands.
LEMMA SweepReady ==
  ASSUME Typed, NEW c \in Calls, NEW t \in Teams, NEW routing,
         SweepInFlight(c, t, routing), UNCHANGED teamVars
  PROVE  CopyCurrent(c)' /\ ClaimReady(c)'
<1>0. /\ pc \in [Calls -> Steps] /\ team \in [Calls -> Teams \cup {NoTeam}]
      /\ task \in [Calls -> Tasks \cup {NoTask}] /\ open \in [Calls -> SUBSET Tasks]
      /\ draft \in [Calls -> {None} \cup DocCopies]
  BY DEF Typed, TypeOK, CallsTypeOK
<1>s. PICK s \in Stages : \E k \in InState(rec[t], s, "assigned") \cap Lapsed :
        LET d == Swept(t, s, k) IN
        /\ IsActiveStage(stages[t], s)
        /\ GoOn(c, "persist", t, k, {},
                IF routing /\ OpenIn(d) # {} THEN "reserve" ELSE "return")
        /\ open' = [open EXCEPT ![c] = IF routing THEN OpenIn(d) ELSE {}]
        /\ draft' = [draft EXCEPT ![c] = d]
  BY DEF SweepInFlight
<1>1. PICK k \in InState(rec[t], s, "assigned") \cap Lapsed :
        LET d == Swept(t, s, k) IN
        /\ IsActiveStage(stages[t], s)
        /\ GoOn(c, "persist", t, k, {},
                IF routing /\ OpenIn(d) # {} THEN "reserve" ELSE "return")
        /\ open' = [open EXCEPT ![c] = IF routing THEN OpenIn(d) ELSE {}]
        /\ draft' = [draft EXCEPT ![c] = d]
  BY <1>s
<1>2. PICK d : d = Swept(t, s, k)
  OBVIOUS
<1>3. /\ pc'[c] = "persist" /\ team'[c] = t /\ task'[c] = k /\ draft'[c] = d
      /\ open'[c] \subseteq OpenIn(d) /\ IsActiveStage(stages[t], s)
  BY <1>0, <1>1, <1>2 DEF GoOn
<1>4. /\ k \in Tasks /\ StageOf[k] = s /\ rec[t][k] = "assigned"
      /\ stages[t][s] = "active"
  BY <1>3 DEF InState, StageTasks, IsActiveStage
<1>5. /\ d.rec = SettleRecords([rec[t] EXCEPT ![k] = "skipped"], s, req[t][s])
      /\ d.stages = SettleStages(stages[t], [rec[t] EXCEPT ![k] = "skipped"], s, req[t][s])
      /\ d.req = req[t]
  BY <1>2 DEF Swept
<1>6. CopyCurrent(c)'
  BY <1>3, <1>4, <1>5 DEF CopyCurrent, teamVars
<1>7. \A j \in OpenIn(d) : d.stages[StageOf[j]] = "active" /\ d.rec[j] = "unassigned"
  BY DEF OpenIn, IsActiveStage
<1>8. ClaimReady(c)'
  BY <1>3, <1>7 DEF ClaimReady
<1> QED
  BY <1>6, <1>8

\* While a copy is in a call's hands nobody else writes the document.
LEMMA CopiesStayCurrent ==
  ASSUME Orderly, Tracked, OnlyTransactions => NoPlainWrites', NEW c \in Calls,
         Beginning(c) \/ Continuing(c) \/ Crash(c)
  PROVE  \A d \in Calls : CopyCurrent(d)'
<1>0. /\ pc \in [Calls -> Steps] /\ after \in [Calls -> {"return", "read", "reserve"}]
      /\ draft \in [Calls -> {None} \cup DocCopies] /\ closing \in [Calls -> Tasks \cup {NoTask}]
      /\ team \in [Calls -> Teams \cup {NoTeam}]
      /\ Typed /\ Alone /\ \A d \in Calls : CopyCurrent(d) /\ CallWellFormed(d)
  BY DEF Tracked, Typed, TypeOK, CallsTypeOK, CallsWellFormed
<1>1. Undisturbed(c)
  BY <1>0, BeginningUndisturbed, ContinuingUndisturbed
<1>2. ASSUME NEW d \in Calls, d # c PROVE CopyCurrent(d)'
  <2>1. /\ pc'[d] = pc[d] /\ team'[d] = team[d] /\ task'[d] = task[d] /\ draft'[d] = draft[d]
    BY <1>1, <1>2 DEF Undisturbed
  <2>2. CASE pc[d] \notin {"start", "persist"}
    BY <2>1, <2>2 DEF CopyCurrent
  <2>3. CASE pc[d] \in {"start", "persist"}
    <3>1. Serial
      BY <2>1, <2>3 DEF Orderly, NoPlainWrites
    <3>2. PICK u \in Teams : u = team[d]
      BY <1>0, <2>3 DEF CallWellFormed
    <3>3. rec'[u] = rec[u] /\ stages'[u] = stages[u] /\ req'[u] = req[u]
      <4>1. CASE UNCHANGED teamVars
        BY <4>1 DEF teamVars
      <4>2. CASE Writes(c) /\ (Beginning(c) \/ Continuing(c))
        BY <1>0, <1>2, <2>3, <3>1, <3>2, <4>2, OwnTeam DEF Idle
      <4> QED
        BY <4>1, <4>2, StepWrites
    <3>4. CopyCurrent(d)
      BY <1>0
    <3> QED
      BY <2>1, <3>2, <3>3, <3>4 DEF CopyCurrent
  <2> QED
    BY <2>2, <2>3
<1>3. CopyCurrent(c)'
  <2>1. ASSUME pc'[c] \notin {"start", "persist"} PROVE CopyCurrent(c)'
    BY <2>1 DEF CopyCurrent
  <2>2. ASSUME NEW t \in Teams, StartRead(c, t) PROVE CopyCurrent(c)'
    <3>1. PICK e : e = [rec |-> rec[t], stages |-> stages[t],
                        req |-> req[t], earned |-> earned[t]]
      OBVIOUS
    <3>2. pc'[c] = "start" /\ team'[c] = t /\ draft'[c] = e /\ UNCHANGED teamVars
      BY <1>0, <2>2, <3>1 DEF StartRead, GoOn
    <3> QED
      BY <3>1, <3>2 DEF CopyCurrent, teamVars
  <2>3. ASSUME NEW t \in Teams, PollRead(c, t) PROVE CopyCurrent(c)'
    BY <1>0, <2>3, SweepReady DEF PollRead
  <2>4. CASE SweepRead(c)
    <3>1. /\ team[c] \in Teams /\ SweepInFlight(c, team[c], TRUE) /\ UNCHANGED teamVars
      BY <1>0, <2>4 DEF SweepRead, CallWellFormed
    <3> QED
      BY <1>0, <3>1, SweepReady
  <2>5. CASE Persist(c) \/ ReadOpen(c) \/ Reserve(c) \/ Release(c)
    BY <1>0, <2>1, <2>5 DEF Persist, ReadOpen, Reserve, Release, GoOn
  <2>6. CASE Released(c)
    BY <1>0, <2>1, <2>6 DEF Released, Return, GoOn
  <2>7. Leading(c) \/ Elsewhere(c)
    BY <1>0, WhereCallsGo
  <2> QED
    BY <2>1, <2>2, <2>3, <2>4, <2>5, <2>6, <2>7 DEF Leading, Elsewhere
<1> QED
  BY <1>2, <1>3

\* What may be claimed stays so until it is.
LEMMA ClaimsStayReady ==
  ASSUME Tracked, Typed', SoundTeams', TeamsAdvance, NEW c \in Calls,
         Beginning(c) \/ Continuing(c) \/ Crash(c)
  PROVE  \A d \in Calls : ClaimReady(d)'
<1>0. /\ pc \in [Calls -> Steps] /\ after \in [Calls -> {"return", "read", "reserve"}]
      /\ draft \in [Calls -> {None} \cup DocCopies] /\ closing \in [Calls -> Tasks \cup {NoTask}]
      /\ team \in [Calls -> Teams \cup {NoTeam}] /\ open \in [Calls -> SUBSET Tasks]
      /\ rec \in [Teams -> [Tasks -> RecordStates]]
      /\ stages \in [Teams -> [Stages -> {"locked", "active", "completed"}]]
      /\ Typed /\ Alone /\ SoundTeams
      /\ \A d \in Calls : ClaimReady(d) /\ CopyCurrent(d) /\ CallWellFormed(d)
  BY DEF Tracked, Typed, TypeOK, TeamsTypeOK, CallsTypeOK, CallsWellFormed
<1>1. Undisturbed(c)
  BY <1>0, BeginningUndisturbed, ContinuingUndisturbed
<1>b. \A t \in Teams, k \in Tasks : BegunBy(t, StageOf[k]) => BegunBy(t, StageOf[k])'
  BY StageOfType DEF BegunBy, TeamsAdvance, Advances
<1>2. ASSUME NEW d \in Calls, d # c PROVE ClaimReady(d)'
  <2>1. /\ pc'[d] = pc[d] /\ team'[d] = team[d] /\ task'[d] = task[d]
        /\ draft'[d] = draft[d] /\ open'[d] = open[d] /\ after'[d] = after[d]
    BY <1>1, <1>2 DEF Undisturbed
  <2>2. ASSUME NEW t \in Teams, t = team[d], pc[d] # "idle", NEW k \in Tasks, Claimable(t, k)
        PROVE  Claimable(t, k)'
    <3>1. ASSUME Serial PROVE rec'[t][k] = rec[t][k]
      <4>1. CASE UNCHANGED teamVars
        BY <4>1 DEF teamVars
      <4>2. CASE Writes(c) /\ (Beginning(c) \/ Continuing(c))
        BY <1>0, <1>2, <2>2, <3>1, <4>2, OwnTeam DEF Idle
      <4> QED
        BY <4>1, <4>2, StepWrites
    <3> QED
      BY <1>b, <2>2, <3>1 DEF Claimable
  <2>3. /\ ClaimReady(d) /\ open[d] \subseteq Tasks
        /\ pc[d] \in {"reserve", "release", "claim"} => team[d] \in Teams
        /\ pc[d] = "claim" => task[d] \in Tasks
    BY <1>0 DEF CallWellFormed
  <2> QED
    BY <2>1, <2>2, <2>3 DEF ClaimReady
<1>3. ClaimReady(c)'
  <2>1. ASSUME Elsewhere(c) PROVE ClaimReady(c)'
    BY <2>1 DEF ClaimReady, Elsewhere
  <2>2. ASSUME NEW t \in Teams, StartRead(c, t) PROVE ClaimReady(c)'
    BY <1>0, <2>2 DEF ClaimReady, StartRead, GoOn
  <2>3. ASSUME NEW t \in Teams, PollRead(c, t) PROVE ClaimReady(c)'
    BY <1>0, <2>3, SweepReady DEF PollRead
  <2>4. CASE SweepRead(c)
    <3>1. /\ team[c] \in Teams /\ SweepInFlight(c, team[c], TRUE) /\ UNCHANGED teamVars
      BY <1>0, <2>4 DEF SweepRead, CallWellFormed
    <3> QED
      BY <1>0, <3>1, SweepReady
  <2>5. CASE Persist(c)
    <3>1. PICK t \in Teams : t = team[c]
      BY <1>0, <2>5 DEF Persist, CallWellFormed
    <3>2. /\ pc'[c] = "release" /\ team'[c] = t /\ open'[c] = open[c]
          /\ rec'[t] = draft[c].rec /\ stages'[t] = draft[c].stages
      BY <1>0, <2>5, <3>1 DEF Persist, GoOn
    <3>3. ASSUME NEW k \in open[c] PROVE Claimable(t, k)'
      <4>1. k \in Tasks /\ stages'[t][StageOf[k]] = "active" /\ rec'[t][k] = "unassigned"
        BY <1>0, <2>5, <3>2, <3>3 DEF ClaimReady, Persist
      <4>2. BegunBy(t, StageOf[k])'
        <5>1. /\ k \in StageTasks(StageOf[k]) /\ ~Terminal(rec'[t][k]) /\ StageOf[k] \in Stages
          BY <4>1, StageOfType DEF StageTasks, Terminal
        <5> QED
          BY <4>1, <5>1 DEF SoundTeams, Sound, BegunBy, Begun
      <4> QED
        BY <4>1, <4>2 DEF Claimable
    <3> QED
      BY <3>2, <3>3 DEF ClaimReady
  <2>6. CASE ReadOpen(c)
    <3>1. PICK t \in Teams : t = team[c]
      BY <1>0, <2>6 DEF ReadOpen, CallWellFormed
    <3>2. PICK s \in Stages : /\ IsActiveStage(stages[t], s)
                              /\ open' = [open EXCEPT ![c] = InState(rec[t], s, "unassigned")]
      BY <2>6, <3>1 DEF ReadOpen
    <3>3. /\ pc'[c] = "reserve" /\ team'[c] = t /\ UNCHANGED teamVars
          /\ open'[c] = InState(rec[t], s, "unassigned")
      BY <1>0, <2>6, <3>1, <3>2 DEF ReadOpen
    <3>4. ASSUME NEW k \in open'[c] PROVE Claimable(t, k)'
      <4>1. k \in Tasks /\ StageOf[k] = s /\ rec[t][k] = "unassigned" /\ stages[t][s] = "active"
        BY <3>2, <3>3 DEF InState, StageTasks, IsActiveStage
      <4>2. BegunBy(t, StageOf[k])
        BY <1>0, <4>1, InHandIsBegun
      <4> QED
        BY <1>b, <3>3, <4>1, <4>2 DEF Claimable, teamVars
    <3> QED
      BY <3>3, <3>4 DEF ClaimReady
  <2>7. CASE Reserve(c)
    <3>1. PICK k \in Candidates(c) : GoOn(c, "claim", team[c], k, {k}, "return")
      BY <2>7 DEF Reserve
    <3>2. /\ pc'[c] = "claim" /\ team'[c] = team[c] /\ task'[c] = k
          /\ k \in open[c] /\ k \in Tasks /\ team[c] \in Teams /\ UNCHANGED teamVars
          /\ pc[c] = "reserve"
      BY <1>0, <2>7, <3>1 DEF Reserve, GoOn, Candidates, CallWellFormed, Typed, TypeOK, CallsTypeOK
    <3>3. Claimable(team[c], k)
      BY <1>0, <3>2 DEF ClaimReady
    <3>4. PICK t \in Teams : t = team[c]
      BY <3>2
    <3>5. Claimable(t, k)'
      BY <1>b, <3>2, <3>3, <3>4 DEF Claimable, teamVars
    <3> QED
      BY <3>2, <3>4, <3>5 DEF ClaimReady
  <2>8. ASSUME Release(c) \/ Released(c), after[c] = "reserve"
        PROVE  ClaimReady(c)'
    <3>1. PICK t \in Teams : t = team[c]
      BY <1>0, <2>8 DEF Release, Released, CallWellFormed
    <3>2. /\ UNCHANGED <<open, teamVars>> /\ team'[c] = t
          /\ pc[c] = "release" /\ pc'[c] \in {"release", "reserve"}
      BY <1>0, <2>8, <3>1 DEF Release, Released, GoOn
    <3>3. ASSUME NEW k \in open[c] PROVE Claimable(t, k)'
      <4>1. k \in Tasks /\ Claimable(t, k)
        BY <1>0, <2>8, <3>1, <3>2 DEF ClaimReady
      <4> QED
        BY <1>b, <3>2, <4>1 DEF Claimable, teamVars
    <3> QED
      BY <3>2, <3>3 DEF ClaimReady
  <2>9. ASSUME Release(c) \/ Released(c), after[c] # "reserve"
        PROVE  ClaimReady(c)'
    <3>1. Elsewhere(c)
      BY <1>0, <2>9 DEF Release, Released, Return, GoOn, Elsewhere
    <3> QED
      BY <2>1, <3>1
  <2>11. Leading(c) \/ Elsewhere(c)
    BY <1>0, WhereCallsGo
  <2> QED
    BY <2>1, <2>2, <2>3, <2>4, <2>5, <2>6, <2>7, <2>8, <2>9, <2>11 DEF Leading
<1> QED
  BY <1>2, <1>3

\* The clock alone makes a mission expire, the end of the run alone ends it.
LEMMA ExpiryUntouched ==
  ASSUME NEW c \in Calls, Beginning(c) \/ Continuing(c) \/ Crash(c)
  PROVE  UNCHANGED <<expired, runStatus, final>>
<1> USE DEF runVars
<1>1. ASSUME Beginning(c) PROVE UNCHANGED <<expired, runStatus, final>>
  <2>1. ASSUME NEW t \in Teams, RequestNext(c, t) \/ PollRead(c, t) \/ StartRead(c, t)
        PROVE  UNCHANGED <<expired, runStatus, final>>
    BY <2>1 DEF RequestNext, PollRead, StartRead
  <2>2. ASSUME NEW t \in Teams, SkipStage(c, t) PROVE UNCHANGED <<expired, runStatus, final>>
    BY <2>2 DEF SkipStage
  <2>3. ASSUME NEW t \in Teams, NEW k \in Tasks,
               \/ Complete(c, t, k) \/ SkipTaskOpen(c, t, k)
               \/ CheckOut(c, t, k) \/ ForceRead(c, t, k)
        PROVE  UNCHANGED <<expired, runStatus, final>>
    BY <2>3 DEF Complete, SkipTaskOpen, CheckOut, ForceRead
  <2>4. ASSUME NEW k \in Tasks, NEW st \in Statuses, SetStatusRead(c, k, st)
        PROVE  UNCHANGED <<expired, runStatus, final>>
    BY <2>4 DEF SetStatusRead
  <2> QED
    BY <1>1, <2>1, <2>2, <2>3, <2>4 DEF Beginning
<1>2. ASSUME Routing(c) PROVE UNCHANGED <<expired, runStatus, final>>
  <2>1. CASE NothingToAssign(c) \/ ReadOpen(c) \/ SweepRead(c) \/ Persist(c) \/ PersistFails(c)
    BY <2>1 DEF NothingToAssign, ReadOpen, SweepRead, Persist, PersistFails
  <2>2. CASE Reserve(c) \/ NoCandidate(c) \/ Claim(c) \/ ClaimRefused(c)
             \/ Release(c) \/ Released(c)
    BY <2>2 DEF Reserve, NoCandidate, Claim, ClaimRefused, Release, Released
  <2> QED
    BY <1>2, <2>1, <2>2 DEF Routing
<1>3. ASSUME Continuing(c) PROVE UNCHANGED <<expired, runStatus, final>>
  <2>1. CASE StartWrite(c) \/ SkipTask(c) \/ SkipTaskRefused(c) \/ ForceClaim(c)
             \/ ForceRefused(c) \/ ForceTeam(c) \/ ForceUndone(c)
    BY <2>1 DEF StartWrite, SkipTask, SkipTaskRefused, ForceClaim, ForceRefused,
                ForceTeam, ForceUndone
  <2>2. CASE SetStatusWrite(c) \/ CloseDone(c)
    BY <2>2 DEF SetStatusWrite, CloseDone
  <2>3. ASSUME NEW t \in Teams, CloseTeam(c, t) \/ CloseSkips(c, t)
        PROVE  UNCHANGED <<expired, runStatus, final>>
    BY <2>3 DEF CloseTeam, CloseSkips
  <2> QED
    BY <1>2, <1>3, <2>1, <2>2, <2>3 DEF Continuing
<1>4. ASSUME Crash(c) PROVE UNCHANGED <<expired, runStatus, final>>
  BY <1>4 DEF Crash
<1> QED
  BY <1>1, <1>3, <1>4

LEMMA OnlyTransactionsStay ==
  ASSUME OnlyTransactions, Typed, NoPlainWrites, [Next]_vars
  PROVE  NoPlainWrites'
<1> USE DEF NoPlainWrites, OnlyTransactions
<1>0. /\ pc \in [Calls -> Steps] /\ after \in [Calls -> {"return", "read", "reserve"}]
      /\ closing \in [Calls -> Tasks \cup {NoTask}]
  BY DEF Typed, TypeOK, CallsTypeOK
<1>1. ASSUME NEW c \in Calls, Beginning(c) \/ Continuing(c) \/ Crash(c)
      PROVE  expired' = expired /\ pc'[c] \notin {"persist", "start"}
  <2>1. ASSUME NEW t \in Teams, PollRead(c, t) \/ StartRead(c, t)
        PROVE  FALSE
    BY <2>1 DEF PollRead, StartRead, Begin
  <2>2. ~SweepRead(c) /\ ~Persist(c) /\ ~PersistFails(c) /\ ~StartWrite(c)
    BY DEF SweepRead, SweepInFlight, Lapsed, Persist, PersistFails, StartWrite
  <2>3. pc'[c] \notin {"persist", "start"}
    <3>1. CASE Elsewhere(c)
      BY <3>1 DEF Elsewhere
    <3>2. CASE ReadOpen(c) \/ Reserve(c) \/ Release(c)
      BY <1>0, <3>2 DEF ReadOpen, Reserve, Release, GoOn
    <3>3. CASE Released(c)
      BY <1>0, <3>3 DEF Released, Return, GoOn
    <3> QED
      BY <1>1, <2>1, <2>2, <3>1, <3>2, <3>3, WhereCallsGo DEF Leading
  <2>4. expired' = expired
    BY <1>1, ExpiryUntouched
  <2> QED
    BY <2>3, <2>4
<1>2. ASSUME NEW c \in Calls, Beginning(c) \/ Continuing(c) \/ Crash(c)
      PROVE  NoPlainWrites'
  <2>1. Undisturbed(c)
    BY <1>2, BeginningUndisturbed, ContinuingUndisturbed
  <2> QED
    BY <1>1, <1>2, <2>1 DEF Undisturbed
<1>3. CASE UNCHANGED vars
  BY <1>3 DEF vars, callVars, runVars
<1>4. ASSUME NEW k \in Tasks, Expire(k)
      PROVE  FALSE
  BY <1>4 DEF Expire
<1>5. CASE FinalizeRead \/ FinalizeWrite
  BY <1>5 DEF FinalizeRead, FinalizeWrite, callVars
<1> QED
  BY <1>2, <1>3, <1>4, <1>5 DEF Next

-----------------------------------------------------------------------------
(* How slots move *)

\* Settling a stage takes from the team exactly its leftovers.
LEMMA SettledHolds ==
  ASSUME NEW r \in [Tasks -> RecordStates], NEW s, NEW n, NEW k \in Tasks
  PROVE  /\ SettleRecords(r, s, n)[k] = "assigned"
               <=> r[k] = "assigned" /\ k \notin Leftovers(r, s, n)
         /\ k \in Leftovers(r, s, n) => r[k] = "assigned"
BY DEF SettleRecords, Leftovers, InState, StageTasks

\* Going on with the slots K: the other calls' are as they were.
LEMMA GoOnOwes ==
  ASSUME Typed, NEW c \in Calls, NEW step, NEW t, NEW k, NEW K, NEW next,
         GoOn(c, step, t, k, K, next)
  PROVE  /\ owed'[c] = K
         /\ \A d \in Calls \ {c} : owed'[d] = owed[d]
         /\ K = owed[c] => owed' = owed
BY DEF GoOn, Typed, TypeOK, CallsTypeOK

\* Returning gives up no slot of a call that has none.
LEMMA ReturnOwes ==
  ASSUME Typed, NEW c \in Calls, Return(c)
  PROVE  /\ owed'[c] = {}
         /\ \A d \in Calls \ {c} : owed'[d] = owed[d]
         /\ owed[c] = {} => owed' = owed
BY GoOnOwes DEF Return

\* Team t leaves exactly the stations in `gone`.
GivesUp(t, gone) ==
  \A j \in Tasks : IF j \in gone THEN Held(t, j) = 1 /\ Held(t, j)' = 0
                                 ELSE Held(t, j)' = Held(t, j)
OnlyTeam(t) == \A u \in Teams \ {t} : rec'[u] = rec[u]
OnlyCall(c) == \A d \in Calls \ {c} : owed'[d] = owed[d]

\* The ways the slots of a live run move: nothing happens to them; a call takes
\* one; hands it to a team and takes over what the team gives up; takes over
\* what a team gives up; a team gives up slots that are free at once; a call
\* gives one back; a call dies with what it has.
SlotsKept == UNCHANGED <<rec, active, owed, counts, leaked>>
Takes(c, k) ==
  /\ HasRoom(k) /\ owed[c] = {} /\ owed'[c] = {k} /\ OnlyCall(c)
  /\ counts' = [counts EXCEPT ![k] = @ + 1]
  /\ UNCHANGED <<rec, active, leaked>>
Hands(c, t, k, gone) ==
  /\ owed[c] = {k} /\ owed'[c] = gone /\ OnlyCall(c) /\ OnlyTeam(t)
  /\ k \notin gone /\ Held(t, k) = 0 /\ Held(t, k)' = 1
  /\ \A j \in Tasks \ {k} :
       IF j \in gone THEN Held(t, j) = 1 /\ Held(t, j)' = 0
                     ELSE Held(t, j)' = Held(t, j)
  /\ UNCHANGED <<counts, leaked>>
Leaves(c, t, gone) ==
  /\ owed[c] = {} /\ owed'[c] = gone /\ OnlyCall(c) /\ OnlyTeam(t)
  /\ GivesUp(t, gone)
  /\ UNCHANGED <<counts, leaked>>
Vacates(c, t, gone) ==
  /\ owed[c] = {} /\ OnlyTeam(t) /\ GivesUp(t, gone) /\ counts' = Decremented(gone)
  /\ UNCHANGED <<owed, leaked>>
GivesBack(c, k) ==
  /\ k \in owed[c] /\ owed'[c] = owed[c] \ {k} /\ OnlyCall(c)
  /\ counts' = Decremented({k})
  /\ UNCHANGED <<rec, active, leaked>>
Loses(c) ==
  /\ owed'[c] = {} /\ OnlyCall(c)
  /\ leaked' = [k \in Tasks |-> IF k \in owed[c] THEN leaked[k] + 1 ELSE leaked[k]]
  /\ UNCHANGED <<rec, active, counts>>

SlotsMove ==
  \/ SlotsKept
  \/ \E c \in Calls : Loses(c)
  \/ \E c \in Calls, k \in Tasks :
       team[c] \in Teams /\ (Takes(c, k) \/ GivesBack(c, k))
  \/ \E c \in Calls, t \in Teams, k \in Tasks, gone \in SUBSET Tasks : Hands(c, t, k, gone)
  \/ \E c \in Calls, t \in Teams, gone \in SUBSET Tasks : Leaves(c, t, gone)
  \/ \E c \in Calls, t \in Teams, gone \in SUBSET Tasks :
       runStatus = "active" /\ Vacates(c, t, gone)

\* What a step does to the slots, and to the mission a team has in hand.
Moves == SlotsMove /\ ActiveIsAssigned'

\* The hand of one team at most is touched.
OnlyHand(t) == \A u \in Teams \ {t} : rec'[u] = rec[u] /\ active'[u] = active[u]

LEMMA HandsMove ==
  ASSUME ActiveIsAssigned, NEW t \in Teams, OnlyHand(t),
         active'[t] # NoTask => rec'[t][active'[t]] = "assigned"
  PROVE  ActiveIsAssigned'
BY DEF ActiveIsAssigned, OnlyHand

LEMMA NoHandMoves ==
  ASSUME ActiveIsAssigned, UNCHANGED <<rec, active>>
  PROVE  ActiveIsAssigned'
BY DEF ActiveIsAssigned

\* A team gives up missions, its stage settles, the call takes their slots
\* along or frees them at once.
LEMMA SettlingGivesUp ==
  ASSUME Typed, NEW t \in Teams, NEW k \in Tasks, NEW s, NEW n,
         NEW mark \in {"completed", "skipped"},
         rec' = [rec EXCEPT ![t] =
                   SettleRecords([rec[t] EXCEPT ![k] = mark], s, n)]
  PROVE  LET gone == (IF rec[t][k] = "assigned" THEN {k} ELSE {})
                       \cup Leftovers([rec[t] EXCEPT ![k] = mark], s, n)
         IN  GivesUp(t, gone) /\ gone \in SUBSET Tasks
<1> DEFINE r == [rec[t] EXCEPT ![k] = mark]
<1>1. r \in [Tasks -> RecordStates] /\ rec[t] \in [Tasks -> RecordStates]
      /\ rec \in [Teams -> [Tasks -> RecordStates]]
  BY DEF Typed, TypeOK, TeamsTypeOK
<1>2. \A j \in Tasks : r[j] = "assigned" <=> rec[t][j] = "assigned" /\ j # k
  BY <1>1
<1>3. rec'[t] = SettleRecords(r, s, n)
  BY <1>1
<1> HIDE DEF r
<1>4. ASSUME NEW j \in Tasks
      PROVE  /\ rec'[t][j] = "assigned" <=> r[j] = "assigned" /\ j \notin Leftovers(r, s, n)
             /\ j \in Leftovers(r, s, n) => r[j] = "assigned"
  BY <1>1, <1>3, SettledHolds
<1>5. GivesUp(t, (IF rec[t][k] = "assigned" THEN {k} ELSE {})
                     \cup Leftovers(r, s, n))
  BY <1>2, <1>4 DEF Held, GivesUp
<1>6. Leftovers(r, s, n) \subseteq Tasks
  BY DEF Leftovers, InState, StageTasks
<1> QED
  BY <1>5, <1>6 DEF r

\* Steps at which no slot moves.
LEMMA QuietSteps ==
  ASSUME Tracked, UNCHANGED <<rec, active, owed, counts, leaked>>
  PROVE  Moves
BY NoHandMoves DEF Tracked, Moves, SlotsMove, SlotsKept

\* A team leaves stations in a call's step.
LEMMA LeavingMoves ==
  ASSUME Tracked, NEW c \in Calls, NEW t \in Teams, NEW gone \in SUBSET Tasks,
         owed[c] = {}, owed'[c] = gone, OnlyCall(c), OnlyHand(t), GivesUp(t, gone),
         active'[t] # NoTask => rec'[t][active'[t]] = "assigned",
         UNCHANGED <<counts, leaked>>
  PROVE  Moves
<1>1. ActiveIsAssigned'
  BY HandsMove DEF Tracked
<1>2. Leaves(c, t, gone)
  BY DEF Leaves, OnlyHand, OnlyTeam
<1> QED
  BY <1>1, <1>2 DEF Moves, SlotsMove

LEMMA RoutingMoves ==
  ASSUME Tracked, NEW c \in Calls, Routing(c)
  PROVE  Moves
<1> USE DEF runVars, teamVars, history
<1>1. /\ Typed /\ ActiveIsAssigned /\ OneInHand /\ CallWellFormed(c) /\ CopyCurrent(c)
      /\ counts \in [Tasks -> Nat] /\ owed \in [Calls -> SUBSET Tasks]
      /\ rec \in [Teams -> [Tasks -> RecordStates]]
      /\ active \in [Teams -> Tasks \cup {NoTask}]
  BY DEF Tracked, Typed, TypeOK, RunTypeOK, TeamsTypeOK, CallsTypeOK, CallsWellFormed
<1>2. CASE NothingToAssign(c) \/ NoCandidate(c) \/ PersistFails(c)
  <2>1. owed' = owed
    BY <1>1, <1>2, ReturnOwes DEF NothingToAssign, NoCandidate, PersistFails, CallWellFormed
  <2> QED
    BY <1>2, <2>1, QuietSteps DEF NothingToAssign, NoCandidate, PersistFails
<1>3. CASE ReadOpen(c)
  BY <1>3, QuietSteps DEF ReadOpen
<1>4. CASE SweepRead(c)
  <2>1. PICK k, next : GoOn(c, "persist", team[c], k, {}, next)
    BY <1>4 DEF SweepRead, SweepInFlight
  <2>2. owed' = owed
    BY <1>1, <1>4, <2>1, GoOnOwes DEF SweepRead, CallWellFormed
  <2> QED
    BY <1>4, <2>2, QuietSteps DEF SweepRead
<1>5. CASE Persist(c)
  <2>1. PICK t \in Teams, k \in Tasks : t = team[c] /\ k = task[c]
    BY <1>1, <1>5 DEF Persist, CallWellFormed
  <2>2. PICK s, n : s = StageOf[k] /\ n = req[t][s]
    OBVIOUS
  <2> DEFINE r == [rec[t] EXCEPT ![k] = "skipped"]
  <2>3. /\ rec' = [rec EXCEPT ![t] = SettleRecords(r, s, n)]
        /\ active' = [active EXCEPT ![t] = NoTask] /\ rec[t][k] = "assigned"
        /\ GoOn(c, "release", t, NoTask, {k}, after[c]) /\ owed[c] = {}
        /\ UNCHANGED <<counts, leaked>>
    BY <1>1, <1>5, <2>1, <2>2 DEF Persist, CopyCurrent, CallWellFormed
  <2>4. GivesUp(t, (IF rec[t][k] = "assigned" THEN {k} ELSE {}) \cup Leftovers(r, s, n))
    BY <1>1, <2>3, SettlingGivesUp
  <2>5. Leftovers(r, s, n) = {}
    <3> SUFFICES ASSUME NEW j \in Leftovers(r, s, n) PROVE FALSE
      OBVIOUS
    <3>1. j \in Tasks /\ StageOf[j] = StageOf[k] /\ r[j] = "assigned"
      BY <2>2 DEF Leftovers, InState, StageTasks
    <3>2. j # k /\ rec[t][j] = "assigned"
      BY <1>1, <3>1
    <3> QED
      BY <1>1, <2>3, <3>1, <3>2 DEF OneInHand, OneAssigned
  <2>6. GivesUp(t, {k})
    BY <2>3, <2>4, <2>5
  <2>7. /\ owed'[c] = {k} /\ OnlyCall(c) /\ OnlyHand(t) /\ active'[t] = NoTask
        /\ {k} \in SUBSET Tasks
    BY <1>1, <2>3, GoOnOwes DEF OnlyCall, OnlyHand
  <2> QED
    BY <2>3, <2>6, <2>7, LeavingMoves
<1>6. CASE Reserve(c)
  <2>1. PICK k \in Candidates(c) :
          /\ counts' = [counts EXCEPT ![k] = @ + 1]
          /\ GoOn(c, "claim", team[c], k, {k}, "return")
    BY <1>6 DEF Reserve
  <2>2. /\ owed[c] = {} /\ owed'[c] = {k} /\ k \in Tasks /\ OnlyCall(c) /\ HasRoom(k)
        /\ team[c] \in Teams
    BY <1>1, <1>6, <2>1, GoOnOwes
       DEF Reserve, CallWellFormed, Candidates, Typed, TypeOK, CallsTypeOK, OnlyCall
  <2>3. UNCHANGED <<rec, active, leaked>>
    BY <1>6 DEF Reserve
  <2>4. Takes(c, k)
    BY <2>1, <2>2, <2>3 DEF Takes
  <2>5. ActiveIsAssigned'
    BY <1>1, <2>3, NoHandMoves
  <2> QED
    BY <2>2, <2>4, <2>5 DEF Moves, SlotsMove
<1>7. CASE Claim(c)
  <2>1. PICK t \in Teams, k \in Tasks : t = team[c] /\ k = task[c]
    BY <1>1, <1>7 DEF Claim, CallWellFormed
  <2>2. owed[c] = {k} /\ owed'[c] = {} /\ OnlyCall(c)
    BY <1>1, <1>7, <2>1, ReturnOwes DEF Claim, CallWellFormed, OnlyCall
  <2>3. /\ rec[t][k] # "assigned"
        /\ rec' = [rec EXCEPT ![t][k] = "assigned"]
        /\ active' = [active EXCEPT ![t] = k]
        /\ UNCHANGED <<counts, leaked>>
    BY <1>7, <2>1 DEF Claim, InState, StageTasks
  <2>4. /\ OnlyTeam(t) /\ OnlyHand(t) /\ active'[t] = k /\ rec'[t][k] = "assigned"
        /\ \A j \in Tasks \ {k} : rec'[t][j] = rec[t][j]
    BY <1>1, <2>3 DEF OnlyTeam, OnlyHand
  <2>5. Hands(c, t, k, {})
    BY <2>2, <2>3, <2>4 DEF Hands, Held
  <2>6. ActiveIsAssigned'
    BY <1>1, <2>4, HandsMove
  <2>7. {} \in SUBSET Tasks
    OBVIOUS
  <2> QED
    BY <2>5, <2>6, <2>7 DEF Moves, SlotsMove
<1>8. CASE ClaimRefused(c)
  <2>1. owed' = owed
    BY <1>1, <1>8, GoOnOwes DEF ClaimRefused
  <2> QED
    BY <1>8, <2>1, QuietSteps DEF ClaimRefused
<1>9. CASE Release(c)
  <2>1. PICK k \in owed[c] : /\ counts' = Decremented({k})
                             /\ owed' = [owed EXCEPT ![c] = @ \ {k}]
    BY <1>9 DEF Release
  <2>2. k \in Tasks /\ team[c] \in Teams /\ UNCHANGED <<rec, active, leaked>>
    BY <1>1, <1>9 DEF Release, CallWellFormed
  <2>3. GivesBack(c, k)
    BY <1>1, <2>1, <2>2 DEF GivesBack, OnlyCall
  <2>4. ActiveIsAssigned'
    BY <1>1, <2>2, NoHandMoves
  <2> QED
    BY <2>2, <2>3, <2>4 DEF Moves, SlotsMove
<1>10. CASE Released(c)
  <2>1. owed' = owed
    BY <1>1, <1>10, ReturnOwes, GoOnOwes DEF Released
  <2> QED
    BY <1>10, <2>1, QuietSteps DEF Released
<1> QED
  BY <1>2, <1>3, <1>4, <1>5, <1>6, <1>7, <1>8, <1>9, <1>10 DEF Routing

LEMMA CompleteMoves ==
  ASSUME Tracked, NEW c \in Calls, NEW t \in Teams, NEW k \in Tasks,
         Complete(c, t, k)
  PROVE  Moves
<1> DEFINE s == StageOf[k]
           r == [rec[t] EXCEPT ![k] = "completed"]
           n == req[t][s]
           gone == (IF rec[t][k] = "assigned" THEN {k} ELSE {})
                     \cup Leftovers(r, s, n)
<1>1. /\ Typed /\ ActiveIsAssigned /\ CallWellFormed(c)
      /\ rec \in [Teams -> [Tasks -> RecordStates]]
      /\ active \in [Teams -> Tasks \cup {NoTask}]
  BY DEF Tracked, Typed, TypeOK, TeamsTypeOK, CallsWellFormed
<1>2. rec' = [rec EXCEPT ![t] = SettleRecords(r, s, n)]
  BY DEF Complete
<1>3. HeldSlot(t, k) <=> rec[t][k] = "assigned"
  BY <1>1, ConstantsAssumption DEF HeldSlot, ActiveIsAssigned
<1>4. counts' = Decremented(gone)
  BY <1>3 DEF Complete
<1>5. GivesUp(t, gone) /\ gone \in SUBSET Tasks
  BY <1>1, <1>2, SettlingGivesUp
<1>6. /\ owed[c] = {} /\ GoOn(c, "read", t, NoTask, {}, "return")
      /\ active' = [active EXCEPT ![t] = NoTask]
      /\ runStatus = "active" /\ UNCHANGED leaked
  BY <1>1 DEF Complete, Begin, Idle, history, Typed, TypeOK, RunTypeOK, CallWellFormed
<1>7. owed' = owed
  BY <1>1, <1>6, GoOnOwes
<1>8. OnlyTeam(t) /\ OnlyHand(t) /\ active'[t] = NoTask
  BY <1>1, <1>2, <1>6 DEF OnlyTeam, OnlyHand
<1> HIDE DEF gone
<1>9. Vacates(c, t, gone)
  BY <1>4, <1>5, <1>6, <1>7, <1>8 DEF Vacates
<1>10. ActiveIsAssigned'
  BY <1>1, <1>8, HandsMove
<1> QED
  BY <1>5, <1>6, <1>9, <1>10 DEF Moves, SlotsMove

LEMMA SkipMoves ==
  ASSUME Tracked, NEW c \in Calls,
         SkipTask(c) \/ \E t \in Teams : SkipStage(c, t)
  PROVE  Moves
<1> USE DEF history, runVars
<1>1. /\ Typed /\ ActiveIsAssigned /\ CallWellFormed(c)
      /\ rec \in [Teams -> [Tasks -> RecordStates]]
      /\ active \in [Teams -> Tasks \cup {NoTask}]
  BY DEF Tracked, Typed, TypeOK, TeamsTypeOK, CallsWellFormed
<1>2. CASE SkipTask(c)
  <2>1. PICK t \in Teams, k \in Tasks : t = team[c] /\ k = task[c]
    BY <1>1, <1>2 DEF SkipTask, CallWellFormed
  <2> DEFINE s == StageOf[k]
             r == [rec[t] EXCEPT ![k] = "skipped"]
             n == LoweredRequirement(rec[t], s, req[t][s], k)
             gone == (IF rec[t][k] = "assigned" THEN {k} ELSE {})
                       \cup Leftovers(r, s, n)
  <2>2. /\ rec' = [rec EXCEPT ![t] = SettleRecords(r, s, n)]
        /\ active' = [active EXCEPT ![t] = NoTask]
        /\ UNCHANGED <<counts, leaked>>
        /\ GoOn(c, "release", t, NoTask,
                ({k} \cap InState(rec[t], s, "assigned")) \cup Leftovers(r, s, n),
                "read")
    BY <1>2, <2>1 DEF SkipTask
  <2>3. {k} \cap InState(rec[t], s, "assigned")
          = IF rec[t][k] = "assigned" THEN {k} ELSE {}
    BY DEF InState, StageTasks
  <2>4. GivesUp(t, gone) /\ gone \in SUBSET Tasks
    BY <1>1, <2>2, SettlingGivesUp
  <2> HIDE DEF n
  <2>5. GoOn(c, "release", t, NoTask, gone, "read")
    BY <2>2, <2>3
  <2> HIDE DEF r, s, gone
  <2>6. owed[c] = {} /\ owed'[c] = gone /\ OnlyCall(c)
    BY <1>1, <1>2, <2>5, GoOnOwes DEF SkipTask, CallWellFormed, OnlyCall
  <2>7. OnlyHand(t) /\ active'[t] = NoTask
    BY <1>1, <2>2 DEF OnlyHand
  <2> QED
    BY <2>2, <2>4, <2>6, <2>7, LeavingMoves
<1>3. ASSUME NEW t \in Teams, SkipStage(c, t)
      PROVE  Moves
  <2>1. PICK s \in Stages :
          /\ rec'    = [rec EXCEPT ![t] = [k \in Tasks |->
                IF k \in {j \in StageTasks(s) : rec[t][j] # "completed"}
                THEN "skipped" ELSE @[k]]]
          /\ active' = [active EXCEPT ![t] = NoTask]
          /\ GoOn(c, "release", t, NoTask, InState(rec[t], s, "assigned"), "return")
          /\ UNCHANGED <<counts, leaked>>
    BY <1>3 DEF SkipStage
  <2> DEFINE gone == InState(rec[t], s, "assigned")
  <2>2. owed[c] = {} /\ owed'[c] = gone /\ OnlyCall(c)
    BY <1>1, <1>3, <2>1, GoOnOwes DEF SkipStage, Begin, Idle, CallWellFormed, OnlyCall
  <2>3. GivesUp(t, gone) /\ gone \in SUBSET Tasks
    BY <1>1, <2>1 DEF Held, InState, StageTasks, GivesUp
  <2>4. OnlyHand(t) /\ active'[t] = NoTask
    BY <1>1, <2>1 DEF OnlyHand
  <2> QED
    BY <2>1, <2>2, <2>3, <2>4, LeavingMoves
<1> QED
  BY <1>2, <1>3

LEMMA CheckOutMoves ==
  ASSUME Tracked, NEW c \in Calls, NEW t \in Teams, NEW k \in Tasks,
         CheckOut(c, t, k)
  PROVE  Moves
<1>1. /\ Typed /\ ActiveIsAssigned /\ CallWellFormed(c)
      /\ rec \in [Teams -> [Tasks -> RecordStates]]
      /\ active \in [Teams -> Tasks \cup {NoTask}]
  BY DEF Tracked, Typed, TypeOK, TeamsTypeOK, CallsWellFormed
<1>2. rec[t][k] = "assigned"
  BY <1>1, ConstantsAssumption DEF CheckOut, HeldSlot, ActiveIsAssigned
<1>3. /\ rec' = [rec EXCEPT ![t][k] = "unassigned"]
      /\ active' = [active EXCEPT ![t] = IF @ = k THEN NoTask ELSE @]
      /\ GoOn(c, "release", t, NoTask, {k}, "return")
      /\ UNCHANGED <<counts, leaked>>
      /\ owed[c] = {}
  BY <1>1 DEF CheckOut, Begin, Idle, CallWellFormed, runVars, history
<1>4. owed'[c] = {k} /\ OnlyCall(c)
  BY <1>1, <1>3, GoOnOwes DEF OnlyCall
<1>5. GivesUp(t, {k}) /\ {k} \in SUBSET Tasks
  BY <1>1, <1>2, <1>3 DEF Held, GivesUp
<1>6. OnlyHand(t) /\ (active'[t] # NoTask => rec'[t][active'[t]] = "assigned")
  BY <1>1, <1>3 DEF OnlyHand, ActiveIsAssigned
<1> QED
  BY <1>3, <1>4, <1>5, <1>6, LeavingMoves

\* A marshal's assignment: the slot changes hands, what it displaces is owed.
LEMMA ForceMoves ==
  ASSUME Tracked, NEW c \in Calls,
         \/ ForceClaim(c) \/ ForceTeam(c) \/ ForceUndone(c)
  PROVE  Moves
<1> USE DEF history, runVars, teamVars
<1>1. /\ Typed /\ ActiveIsAssigned /\ CallWellFormed(c)
      /\ rec \in [Teams -> [Tasks -> RecordStates]]
      /\ active \in [Teams -> Tasks \cup {NoTask}]
      /\ counts \in [Tasks -> Nat]
  BY DEF Tracked, Typed, TypeOK, RunTypeOK, TeamsTypeOK, CallsWellFormed
<1>2. CASE ForceUndone(c)
  <2>1. owed' = owed
    BY <1>1, <1>2, GoOnOwes DEF ForceUndone
  <2> QED
    BY <1>2, <2>1, QuietSteps DEF ForceUndone
<1>3. CASE ForceClaim(c)
  <2>1. PICK t \in Teams, k \in Tasks : t = team[c] /\ k = task[c]
    BY <1>1, <1>3 DEF ForceClaim, CallWellFormed
  <2>2. /\ counts' = [counts EXCEPT ![k] = @ + 1] /\ HasRoom(k)
        /\ GoOn(c, "forceTeam", t, k, {k}, "return")
        /\ owed[c] = {} /\ UNCHANGED <<rec, active, leaked>>
    BY <1>1, <1>3, <2>1 DEF ForceClaim, CallWellFormed
  <2>3. owed'[c] = {k} /\ OnlyCall(c)
    BY <1>1, <2>2, GoOnOwes DEF OnlyCall
  <2>4. Takes(c, k)
    BY <2>2, <2>3 DEF Takes
  <2>5. ActiveIsAssigned'
    BY <1>1, <2>2, NoHandMoves
  <2> QED
    BY <2>1, <2>4, <2>5 DEF Moves, SlotsMove
<1>4. CASE ForceTeam(c)
  <2>1. PICK t \in Teams, k \in Tasks : t = team[c] /\ k = task[c]
    BY <1>1, <1>4 DEF ForceTeam, CallWellFormed
  <2> DEFINE displaced == InState(rec[t], StageOf[k], "assigned")
  <2>2. /\ rec' = [rec EXCEPT ![t] = [j \in Tasks |->
               IF j = k THEN "assigned"
               ELSE IF j \in displaced THEN "unassigned" ELSE @[j]]]
        /\ active' = [active EXCEPT ![t] = k]
        /\ GoOn(c, "release", t, NoTask, displaced, "return")
        /\ UNCHANGED <<counts, leaked>>
        /\ owed[c] = {k} /\ rec[t][k] = "unassigned"
    BY <1>1, <1>4, <2>1 DEF ForceTeam, CallWellFormed, CanForce
  <2>3. /\ k \notin displaced /\ \A j \in displaced : rec[t][j] = "assigned"
        /\ displaced \in SUBSET Tasks
    BY <2>2 DEF InState, StageTasks
  <2> HIDE DEF displaced
  <2>4. owed'[c] = displaced /\ OnlyCall(c)
    BY <1>1, <2>2, GoOnOwes DEF OnlyCall
  <2>5. /\ OnlyTeam(t) /\ OnlyHand(t) /\ active'[t] = k /\ rec'[t][k] = "assigned"
        /\ \A j \in Tasks \ {k} :
             rec'[t][j] = IF j \in displaced THEN "unassigned" ELSE rec[t][j]
    BY <1>1, <2>2 DEF OnlyTeam, OnlyHand
  <2>6. Hands(c, t, k, displaced)
    BY <2>2, <2>3, <2>4, <2>5 DEF Hands, Held
  <2>7. ActiveIsAssigned'
    BY <1>1, <2>5, HandsMove
  <2> QED
    BY <2>3, <2>6, <2>7 DEF Moves, SlotsMove
<1> QED
  BY <1>2, <1>3, <1>4

\* Closing a mission a team has not in hand leaves the team what it has: the
\* stage is not met by it as long as there is more to play.
LEMMA ClosingSparesTheRest ==
  ASSUME NEW r \in [Tasks -> RecordStates], NEW st, NEW q \in [Stages -> Nat],
         Sound(r, st, q), NEW s \in Stages, st[s] = "active",
         NEW k \in StageTasks(s), NEW j \in StageTasks(s), j # k,
         ~Terminal(r[k]), r[j] = "assigned"
  PROVE  Leftovers([r EXCEPT ![k] = "skipped"], s, LoweredRequirement(r, s, q[s], k)) = {}
<1> DEFINE p == [r EXCEPT ![k] = "skipped"]
           done == InState(r, s, "completed")
           left == {i \in StageTasks(s) \ {k} : r[i] # "skipped"}
           n == LoweredRequirement(r, s, q[s], k)
<1>1. ~Met(r, s, q[s])
  BY DEF Sound, Terminal
<1>2. InState(p, s, "completed") = done
  BY DEF InState, StageTasks, Terminal
<1>3. done \cup {j} \subseteq left /\ j \notin done
  BY DEF InState, Terminal
<1>4. /\ IsFiniteSet(done) /\ IsFiniteSet(left) /\ IsFiniteSet(StageTasks(s))
      /\ Cardinality(done) \in Nat /\ Cardinality(left) \in Nat
      /\ Cardinality(StageTasks(s)) \in Nat
  <2>1. done \subseteq StageTasks(s) /\ left \subseteq StageTasks(s)
    BY DEF InState
  <2> QED
    BY <2>1, StageIsFinite
<1>5. Cardinality(done) < Cardinality(left)
  <2>1. Cardinality(done \cup {j}) = Cardinality(done) + 1
    BY <1>3, <1>4, FS_AddElement
  <2>2. Cardinality(done \cup {j}) <= Cardinality(left)
    BY <1>3, <1>4, FS_Subset
  <2> QED
    BY <1>4, <2>1, <2>2
<1>6. /\ Cardinality(done) < Lesser(q[s], Cardinality(StageTasks(s)))
      /\ n = Lesser(Lesser(q[s], Cardinality(StageTasks(s))), Cardinality(left))
      /\ q[s] \in Nat
  BY <1>1, <1>4 DEF Met, LoweredRequirement, Lesser
<1>7. ~Terminal(p[j])
  BY DEF StageTasks, Terminal
<1> HIDE DEF p, done, left, n
<1>8. Cardinality(done) < Lesser(n, Cardinality(StageTasks(s)))
  BY <1>4, <1>5, <1>6 DEF Lesser
<1>9. ~StageDone(p, s, n)
  <2>1. Cardinality(InState(p, s, "completed")) < Lesser(n, Cardinality(StageTasks(s)))
    BY <1>2, <1>8
  <2>2. Lesser(n, Cardinality(StageTasks(s))) \in Nat
    BY <1>4, <1>6 DEF Lesser
  <2> QED
    BY <1>2, <1>4, <1>7, <2>1, <2>2 DEF StageDone
<1>10. Leftovers(p, s, n) = {}
  BY <1>9 DEF Leftovers
<1> QED
  BY <1>10 DEF p, n

LEMMA CloseMoves ==
  ASSUME Tracked, NEW c \in Calls, NEW t \in Teams, CloseTeam(c, t)
  PROVE  Moves
<1>1. /\ Typed /\ ActiveIsAssigned /\ CallWellFormed(c) /\ Sound(rec[t], stages[t], req[t])
      /\ rec \in [Teams -> [Tasks -> RecordStates]]
      /\ active \in [Teams -> Tasks \cup {NoTask}]
      /\ req \in [Teams -> [Stages -> Nat]]
  BY DEF Tracked, SoundTeams, Typed, TypeOK, TeamsTypeOK, CallsWellFormed
<1>2. PICK k \in Tasks, s \in Stages : k = closing[c] /\ s = StageOf[k]
  BY <1>1, StageOfType DEF CloseTeam, CallWellFormed
<1> DEFINE r == [rec[t] EXCEPT ![k] = "skipped"]
           n == LoweredRequirement(rec[t], s, req[t][s], k)
           playing == stages[t][s] = "active"
           gone == (IF rec[t][k] = "assigned" THEN {k} ELSE {})
                     \cup (IF playing THEN Leftovers(r, s, n) ELSE {})
<1>3. /\ rec' = [rec EXCEPT ![t] = IF playing THEN SettleRecords(r, s, n) ELSE r]
      /\ active' = [active EXCEPT ![t] = IF HeldSlot(t, k) THEN NoTask ELSE @]
      /\ GoOn(c, "release", t, NoTask, gone, IF HeldSlot(t, k) THEN "read" ELSE "return")
      /\ ~Terminal(rec[t][k]) /\ owed[c] = {} /\ UNCHANGED <<counts, leaked>>
  BY <1>1, <1>2 DEF CloseTeam, CallWellFormed, runVars, history
<1>4. HeldSlot(t, k) <=> rec[t][k] = "assigned"
  BY <1>1, ConstantsAssumption DEF HeldSlot, ActiveIsAssigned
<1>5. owed'[c] = gone /\ OnlyCall(c)
  <2> HIDE DEF gone
  <2> QED
    BY <1>1, <1>3, GoOnOwes DEF OnlyCall
<1>6. r \in [Tasks -> RecordStates]
      /\ \A j \in Tasks : r[j] = "assigned" <=> rec[t][j] = "assigned" /\ j # k
  BY <1>1
<1>7. GivesUp(t, gone) /\ gone \in SUBSET Tasks
  <2>1. CASE playing
    <3>1. rec' = [rec EXCEPT ![t] = SettleRecords(r, s, n)]
      BY <1>3, <2>1
    <3> HIDE DEF n
    <3>2. LET g == (IF rec[t][k] = "assigned" THEN {k} ELSE {}) \cup Leftovers(r, s, n)
          IN  GivesUp(t, g) /\ g \in SUBSET Tasks
      BY <1>1, <3>1, SettlingGivesUp
    <3> QED
      BY <2>1, <3>2
  <2>2. CASE ~playing
    <3>1. rec'[t] = r
      BY <1>1, <1>3, <2>2
    <3>2. gone = IF rec[t][k] = "assigned" THEN {k} ELSE {}
      BY <2>2
    <3> HIDE DEF gone, r
    <3> QED
      BY <1>6, <3>1, <3>2 DEF GivesUp, Held
  <2> QED
    BY <2>1, <2>2
<1>8. OnlyHand(t)
  BY <1>1, <1>3 DEF OnlyHand
<1>9. ASSUME active'[t] # NoTask PROVE rec'[t][active'[t]] = "assigned"
  <2>1. PICK j \in Tasks : j = active[t] /\ rec[t][j] = "assigned"
    BY <1>1, <1>3, <1>9 DEF ActiveIsAssigned
  <2>2. active'[t] = j /\ j # k
    BY <1>1, <1>3, <1>9, <2>1 DEF HeldSlot
  <2>3. CASE ~playing
    BY <1>1, <1>3, <1>6, <2>1, <2>2, <2>3
  <2>4. CASE playing
    <3>1. rec'[t] = SettleRecords(r, s, n)
      BY <1>1, <1>3, <2>4
    <3>2. j \notin Leftovers(r, s, n)
      <4>1. CASE StageOf[j] = s
        <5>1. k \in StageTasks(s) /\ j \in StageTasks(s)
          BY <1>2, <4>1 DEF StageTasks
        <5>2. /\ rec[t] \in [Tasks -> RecordStates] /\ req[t] \in [Stages -> Nat]
              /\ stages[t][s] = "active"
          BY <1>1, <2>4
        <5>3. /\ Sound(rec[t], stages[t], req[t]) /\ ~Terminal(rec[t][k])
              /\ rec[t][j] = "assigned" /\ j # k
          BY <1>1, <1>3, <2>1, <2>2
        <5>4. Leftovers(r, s, n) = {}
          BY <5>1, <5>2, <5>3, ClosingSparesTheRest
        <5> QED
          BY <5>4
      <4>2. CASE StageOf[j] # s
        BY <4>2 DEF Leftovers, InState, StageTasks
      <4> QED
        BY <4>1, <4>2
    <3>3. r[j] = "assigned"
      BY <1>6, <2>1, <2>2
    <3> HIDE DEF r, n
    <3> QED
      BY <1>6, <2>2, <3>1, <3>2, <3>3, SettledHolds
  <2> QED
    BY <2>3, <2>4
<1> HIDE DEF gone
<1> QED
  BY <1>3, <1>5, <1>7, <1>8, <1>9, LeavingMoves

\* Every step moves slots in one of those ways, or ends the run.
LEMMA StepMoves ==
  ASSUME Tracked, NEW c \in Calls, Beginning(c) \/ Continuing(c) \/ Crash(c)
  PROVE  Moves
<1> USE DEF runVars, teamVars, history
<1>1. /\ Typed /\ ActiveIsAssigned /\ CallWellFormed(c) /\ CopyCurrent(c)
      /\ rec \in [Teams -> [Tasks -> RecordStates]]
      /\ leaked \in [Tasks -> Nat]
      /\ Idle(c) => owed[c] = {}
  BY DEF Tracked, Typed, TypeOK, TeamsTypeOK, HistoryTypeOK, CallsWellFormed,
         CallWellFormed, Idle
<1>2. ASSUME Beginning(c) PROVE Moves
  <2>1. ASSUME NEW t \in Teams, RequestNext(c, t) \/ StartRead(c, t)
        PROVE  Moves
    <3>1. owed' = owed
      BY <1>1, <2>1, GoOnOwes DEF RequestNext, StartRead, Begin
    <3> QED
      BY <2>1, <3>1, QuietSteps DEF RequestNext, StartRead
  <2>2. ASSUME NEW t \in Teams, PollRead(c, t) PROVE Moves
    <3>1. PICK k, next : GoOn(c, "persist", t, k, {}, next)
      BY <2>2 DEF PollRead, SweepInFlight
    <3>2. owed' = owed
      BY <1>1, <2>2, <3>1, GoOnOwes DEF PollRead, Begin
    <3> QED
      BY <2>2, <3>2, QuietSteps DEF PollRead
  <2>3. ASSUME NEW k \in Tasks, NEW st \in Statuses, SetStatusRead(c, k, st)
        PROVE  Moves
    <3>1. owed' = owed
      BY <1>1, <2>3, GoOnOwes DEF SetStatusRead
    <3> QED
      BY <2>3, <3>1, QuietSteps DEF SetStatusRead
  <2>4. ASSUME NEW t \in Teams, NEW k \in Tasks,
               SkipTaskOpen(c, t, k) \/ ForceRead(c, t, k)
        PROVE  Moves
    <3>1. owed' = owed
      BY <1>1, <2>4, GoOnOwes DEF SkipTaskOpen, ForceRead, Begin
    <3> QED
      BY <2>4, <3>1, QuietSteps DEF SkipTaskOpen, ForceRead
  <2> QED
    BY <1>2, <2>1, <2>2, <2>3, <2>4, CompleteMoves, SkipMoves, CheckOutMoves
       DEF Beginning
<1>3. ASSUME Continuing(c) PROVE Moves
  <2>1. CASE SkipTaskRefused(c) \/ ForceRefused(c)
    <3>1. owed' = owed
      BY <1>1, <2>1, ReturnOwes DEF SkipTaskRefused, ForceRefused, CallWellFormed
    <3> QED
      BY <2>1, <3>1, QuietSteps DEF SkipTaskRefused, ForceRefused
  <2>2. CASE SetStatusWrite(c)
    <3>1. owed' = owed
      BY <1>1, <2>2, ReturnOwes DEF SetStatusWrite, CallWellFormed
    <3> QED
      BY <2>2, <3>1, QuietSteps DEF SetStatusWrite
  <2>3. CASE StartWrite(c)
    <3>1. owed' = owed
      BY <1>1, <2>3, GoOnOwes DEF StartWrite, CallWellFormed
    <3>2. rec' = rec
      BY <1>1, <2>3 DEF StartWrite, CopyCurrent, CallWellFormed
    <3> QED
      BY <2>3, <3>1, <3>2, QuietSteps DEF StartWrite
  <2>4. ASSUME NEW t \in Teams, CloseSkips(c, t) PROVE Moves
    BY <2>4, QuietSteps DEF CloseSkips
  <2>5. CASE CloseDone(c)
    BY <2>5, QuietSteps DEF CloseDone
  <2> QED
    BY <1>3, <2>1, <2>2, <2>3, <2>4, <2>5, RoutingMoves, SkipMoves, ForceMoves,
       CloseMoves DEF Continuing
<1>4. ASSUME Crash(c) PROVE Moves
  <2>1. /\ GoOn(c, "idle", NoTeam, NoTask, {}, "return")
        /\ leaked' = [k \in Tasks |-> IF k \in owed[c] THEN leaked[k] + 1 ELSE leaked[k]]
        /\ UNCHANGED <<rec, active, counts>>
    BY <1>4 DEF Crash
  <2>2. Loses(c)
    BY <1>1, <2>1, GoOnOwes DEF Loses, OnlyCall
  <2> QED
    BY <1>1, <2>1, <2>2, NoHandMoves DEF Moves, SlotsMove
<1> QED
  BY <1>2, <1>3, <1>4

Ends == runStatus' = "finished" /\ UNCHANGED <<rec, active, owed, leaked>>

LEMMA NextMoves ==
  ASSUME Tracked, [Next]_vars
  PROVE  \/ Moves /\ UNCHANGED runStatus
         \/ FinalizeWrite /\ Ends /\ ActiveIsAssigned'
<1> USE DEF runVars, teamVars, callVars, history
<1>1. ASSUME NEW c \in Calls, Beginning(c) \/ Continuing(c) \/ Crash(c)
      PROVE  Moves /\ UNCHANGED runStatus
  BY <1>1, StepMoves, ExpiryUntouched
<1>2. CASE UNCHANGED vars
  BY <1>2, QuietSteps DEF vars
<1>3. ASSUME NEW k \in Tasks, Expire(k)
      PROVE  Moves /\ UNCHANGED runStatus
  BY <1>3, QuietSteps DEF Expire
<1>4. CASE FinalizeRead
  BY <1>4, QuietSteps DEF FinalizeRead
<1>5. CASE FinalizeWrite
  <2>1. Ends
    BY <1>5 DEF FinalizeWrite, Ends
  <2> QED
    BY <1>5, <2>1, NoHandMoves DEF Ends, Tracked
<1> QED
  BY <1>1, <1>2, <1>3, <1>4, <1>5 DEF Next

LEMMA TrackedIsInductive ==
  ASSUME Orderly, Tracked, [Next]_vars
  PROVE  Tracked'
<1>1. Typed /\ Alone /\ OneInHand
  BY DEF Tracked
<1>2. Typed' /\ Alone' /\ OneInHand' /\ TeamsAdvance
  BY <1>1, TypedIsInductive, AloneStays, OneInHandIsInductive, StepsAdvance
<1>3. OnlyTransactions => NoPlainWrites'
  BY <1>1, OnlyTransactionsStay DEF Tracked
<1>4. SoundTeams'
  BY <1>2 DEF TeamsAdvance, Advances, SoundTeams
<1>5. ActiveIsAssigned'
  BY NextMoves DEF Moves
<1>6. \A c \in Calls : CopyCurrent(c)' /\ ClaimReady(c)'
  <2>1. ASSUME NEW c \in Calls, Beginning(c) \/ Continuing(c) \/ Crash(c)
        PROVE  \A d \in Calls : CopyCurrent(d)' /\ ClaimReady(d)'
    BY <1>2, <1>3, <1>4, <2>1, CopiesStayCurrent, ClaimsStayReady
  <2>2. ASSUME UNCHANGED <<teamVars, callVars>>
        PROVE  \A d \in Calls : CopyCurrent(d)' /\ ClaimReady(d)'
    BY <2>2 DEF Tracked, teamVars, callVars, CopyCurrent, ClaimReady, Claimable, BegunBy
  <2>3. CASE UNCHANGED vars
    BY <2>2, <2>3 DEF vars
  <2>4. ASSUME NEW k \in Tasks, Expire(k)
        PROVE  \A d \in Calls : CopyCurrent(d)' /\ ClaimReady(d)'
    BY <2>2, <2>4 DEF Expire
  <2>5. CASE FinalizeRead \/ FinalizeWrite
    BY <2>2, <2>5 DEF FinalizeRead, FinalizeWrite
  <2> QED
    BY <2>1, <2>3, <2>4, <2>5 DEF Next
<1>7. (OnlyTransactions => NoPlainWrites)'
  BY <1>3 DEF OnlyTransactions
<1> QED
  BY <1>2, <1>4, <1>5, <1>6, <1>7 DEF Tracked

LEMMA TrackedAtFirst == Init => Tracked
<1> SUFFICES ASSUME Init PROVE Tracked
  OBVIOUS
<1>1. Typed
  BY InitialTypes DEF Typed
<1>2. /\ \A c \in Calls : pc[c] = "idle" /\ closing[c] = NoTask /\ draft[c] = None
      /\ \A t \in Teams : /\ rec[t] = [k \in Tasks |-> "unassigned"]
                          /\ stages[t] = [s \in Stages |-> IF s = 1 THEN "active" ELSE "locked"]
                          /\ req[t] = Required /\ active[t] = NoTask
      /\ expired = {} /\ final = None
  BY DEF Init
<1>3. Alone /\ ActiveIsAssigned /\ NoPlainWrites
      /\ \A c \in Calls : CopyCurrent(c) /\ ClaimReady(c)
  BY <1>2 DEF Alone, Idle, ActiveIsAssigned, NoPlainWrites, CopyCurrent, ClaimReady
<1>4. OneInHand
  BY <1>2 DEF OneInHand, OneAssigned
<1>5. ASSUME NEW t \in Teams PROVE Sound(rec[t], stages[t], req[t])
  <2>1. Ordered(stages[t])
    <3>1. 1 \in Stages /\ \A u \in Stages : u \in Nat /\ u >= 1
      BY ConstantsAssumption DEF Stages
    <3>2. stages[t][1] = "active"
      BY <1>2, <3>1
    <3>3. ASSUME NEW u \in Stages, NEW v \in Stages, u < v, stages[t][v] # "locked"
          PROVE  FALSE
      <4>1. v = 1
        <5>1. stages[t][v] = IF v = 1 THEN "active" ELSE "locked"
          BY <1>2
        <5> QED
          BY <3>3, <5>1
      <4> QED
        BY <3>1, <3>3, <4>1
    <3> QED
      BY <3>2, <3>3 DEF Ordered
  <2>2. ASSUME NEW s \in Stages
        PROVE  /\ req[t][s] \in Nat
               /\ \A k \in StageTasks(s) : rec[t][k] = "unassigned" /\ req[t][s] >= 1
    BY <1>2, ConstantsAssumption, RequirementAssumption DEF StageTasks
  <2>3. ASSUME NEW s \in Stages
        PROVE  \/ ~Met(rec[t], s, req[t][s]) \/ \A k \in StageTasks(s) : Terminal(rec[t][k])
    <3>1. /\ req[t][s] \in Nat
          /\ \A k \in StageTasks(s) : rec[t][k] \in {"unassigned", "skipped"}
          /\ req[t][s] >= 1 \/ \A k \in StageTasks(s) : rec[t][k] = "skipped"
      BY <2>2
    <3> QED
      BY <3>1, FreshStage
  <2> QED
    BY <2>1, <2>2, <2>3 DEF Sound
<1> QED
  BY <1>1, <1>3, <1>4, <1>5 DEF Tracked, SoundTeams

-----------------------------------------------------------------------------
(* Slot accounting *)

\* In a live run the moves of slots keep the accounts, and no counter is taken
\* below zero.
LEMMA MovesBalance ==
  ASSUME Typed, Typed', SlotAccounting, runStatus = "active", SlotsMove,
         UNCHANGED runStatus
  PROVE  SlotAccounting'
<1>1. /\ counts \in [Tasks -> Nat] /\ leaked \in [Tasks -> Nat]
      /\ rec \in [Teams -> [Tasks -> RecordStates]]
  BY DEF Typed, TypeOK, RunTypeOK, TeamsTypeOK, HistoryTypeOK
<1>2. CASE SlotsKept
  BY <1>2 DEF SlotsKept, SlotAccounting, HoldersOf, OwingOf
<1>3. ASSUME NEW c \in Calls, NEW t \in Teams, OnlyCall(c), OnlyTeam(t), UNCHANGED leaked,
             \A j \in Tasks : counts'[j] - Held(t, j)' - Carried(c, j)'
                                = counts[j] - Held(t, j) - Carried(c, j)
      PROVE  SlotAccounting'
  BY <1>3, AccountsBalance DEF OnlyCall, OnlyTeam
<1>4. ASSUME NEW c \in Calls, Loses(c) PROVE SlotAccounting'
  <2> SUFFICES ASSUME NEW k \in Tasks
               PROVE  counts'[k] = Cardinality(HoldersOf(k))' + Cardinality(OwingOf(k))'
                                   + leaked'[k]
    BY DEF SlotAccounting
  <2>1. counts[k] = Cardinality(HoldersOf(k)) + Cardinality(OwingOf(k)) + leaked[k]
    BY DEF SlotAccounting
  <2>2. HoldersOf(k)' = HoldersOf(k)
    BY <1>4 DEF HoldersOf, Loses
  <2>3. /\ Cardinality(OwingOf(k)) \in Nat
        /\ Cardinality(OwingOf(k))' = Cardinality(OwingOf(k)) - Carried(c, k)
                                                            + Carried(c, k)'
    BY <1>4, OwingMove DEF Loses, OnlyCall
  <2>4. Carried(c, k)' = 0 /\ leaked'[k] = leaked[k] + Carried(c, k)
    BY <1>1, <1>4 DEF Carried, Loses
  <2>5. /\ leaked[k] \in Nat /\ Cardinality(HoldersOf(k)) \in Nat
        /\ Carried(c, k) \in 0 .. 1
    BY <1>1, ConstantsAssumption, FS_Subset, FS_CardinalityType
       DEF HoldersOf, Carried
  <2> DEFINE h == Cardinality(HoldersOf(k))   o == Cardinality(OwingOf(k))
             oo == Cardinality(OwingOf(k))'   b == Carried(c, k)
  <2>6. oo = o - b /\ o \in Nat /\ b \in Nat /\ h \in Nat
    BY <2>3, <2>4, <2>5
  <2>7. counts[k] = h + oo + leaked'[k]
    <3>1. counts[k] = h + o + leaked[k] /\ leaked'[k] = leaked[k] + b
      BY <2>1, <2>4
    <3> HIDE DEF h, o, oo, b
    <3> QED
      BY <2>5, <2>6, <3>1
  <2> QED
    BY <1>4, <2>2, <2>7 DEF Loses
<1>5. ASSUME NEW c \in Calls, NEW t \in Teams, NEW k \in Tasks, Takes(c, k)
      PROVE  SlotAccounting'
  <2>1. ASSUME NEW j \in Tasks
        PROVE  counts'[j] - Held(t, j)' - Carried(c, j)'
                 = counts[j] - Held(t, j) - Carried(c, j)
    BY <1>1, <1>5 DEF Takes, Held, Carried
  <2> QED
    BY <1>3, <1>5, <2>1 DEF Takes, OnlyTeam
<1>6. ASSUME NEW c \in Calls, NEW t \in Teams, NEW k \in Tasks, GivesBack(c, k)
      PROVE  SlotAccounting'
  <2>1. ASSUME NEW j \in Tasks
        PROVE  counts'[j] - Held(t, j)' - Carried(c, j)'
                 = counts[j] - Held(t, j) - Carried(c, j)
    <3>1. counts[j] \in Nat /\ counts[j] >= Held(t, j) + Carried(c, j)
      BY CounterCovers
    <3>2. Held(t, j) \in 0 .. 1 /\ Held(t, j)' = Held(t, j)
      BY <1>6 DEF Held, GivesBack
    <3>3. CASE j = k
      <4>1. Carried(c, j) = 1 /\ Carried(c, j)' = 0
        BY <1>6, <3>3 DEF Carried, GivesBack
      <4>2. counts'[j] = counts[j] - 1
        BY <1>6, <3>1, <3>2, <3>3, <4>1 DEF Decremented, GivesBack
      <4> QED
        BY <3>1, <3>2, <4>1, <4>2
    <3>4. CASE j # k
      BY <1>6, <3>2, <3>4 DEF Carried, Decremented, GivesBack
    <3> QED
      BY <3>3, <3>4
  <2> QED
    BY <1>3, <1>6, <2>1 DEF GivesBack, OnlyTeam
<1>7. ASSUME NEW c \in Calls, NEW t \in Teams, NEW k \in Tasks,
             NEW gone \in SUBSET Tasks, Hands(c, t, k, gone)
      PROVE  SlotAccounting'
  <2>1. ASSUME NEW j \in Tasks
        PROVE  counts'[j] - Held(t, j)' - Carried(c, j)'
                 = counts[j] - Held(t, j) - Carried(c, j)
    <3>1. counts[j] \in Nat /\ counts'[j] = counts[j]
      BY <1>1, <1>7 DEF Hands
    <3>2. /\ Held(t, j) \in 0 .. 1
          /\ Carried(c, j) = (IF j = k THEN 1 ELSE 0)
          /\ Carried(c, j)' = (IF j \in gone THEN 1 ELSE 0)
      BY <1>7 DEF Hands, Held, Carried
    <3>3. /\ k \notin gone /\ Held(t, k) = 0 /\ Held(t, k)' = 1
          /\ j # k => IF j \in gone THEN Held(t, j) = 1 /\ Held(t, j)' = 0
                                    ELSE Held(t, j)' = Held(t, j)
      BY <1>7 DEF Hands
    <3>4. CASE j = k
      BY <3>1, <3>2, <3>3, <3>4
    <3>5. CASE j # k
      BY <3>1, <3>2, <3>3, <3>5
    <3> QED
      BY <3>4, <3>5
  <2> QED
    BY <1>3, <1>7, <2>1 DEF Hands
<1>8. ASSUME NEW c \in Calls, NEW t \in Teams, NEW gone \in SUBSET Tasks,
             Leaves(c, t, gone)
      PROVE  SlotAccounting'
  <2>1. ASSUME NEW j \in Tasks
        PROVE  counts'[j] - Held(t, j)' - Carried(c, j)'
                 = counts[j] - Held(t, j) - Carried(c, j)
    <3>1. counts[j] \in Nat /\ counts'[j] = counts[j]
      BY <1>1, <1>8 DEF Leaves
    <3>2. /\ Held(t, j) \in 0 .. 1 /\ Carried(c, j) = 0
          /\ Carried(c, j)' = (IF j \in gone THEN 1 ELSE 0)
          /\ IF j \in gone THEN Held(t, j) = 1 /\ Held(t, j)' = 0
                           ELSE Held(t, j)' = Held(t, j)
      BY <1>8 DEF Leaves, Held, Carried, GivesUp
    <3> QED
      BY <3>1, <3>2
  <2> QED
    BY <1>3, <1>8, <2>1 DEF Leaves
<1>9. ASSUME NEW c \in Calls, NEW t \in Teams, NEW gone \in SUBSET Tasks,
             Vacates(c, t, gone)
      PROVE  SlotAccounting'
  <2>1. ASSUME NEW j \in Tasks
        PROVE  counts'[j] - Held(t, j)' - Carried(c, j)'
                 = counts[j] - Held(t, j) - Carried(c, j)
    <3>1. counts[j] \in Nat /\ counts[j] >= Held(t, j) + Carried(c, j)
      BY CounterCovers
    <3>2. /\ Held(t, j) \in 0 .. 1 /\ Carried(c, j) = 0 /\ Carried(c, j)' = 0
          /\ IF j \in gone THEN Held(t, j) = 1 /\ Held(t, j)' = 0
                           ELSE Held(t, j)' = Held(t, j)
          /\ counts'[j] = IF j \in gone /\ counts[j] > 0 THEN counts[j] - 1 ELSE counts[j]
      BY <1>9 DEF Vacates, Held, Carried, GivesUp, Decremented
    <3> QED
      BY <3>1, <3>2
  <2> QED
    BY <1>3, <1>9, <2>1 DEF Vacates, OnlyCall
<1> QED
  BY <1>2, <1>4, <1>5, <1>6, <1>7, <1>8, <1>9 DEF SlotsMove

Accounted == Tracked /\ SlotAccounting

LEMMA AccountedIsInductive ==
  ASSUME Orderly, Accounted, [Next]_vars
  PROVE  Accounted'
<1>1. Tracked /\ Tracked' /\ Typed /\ Typed'
  BY TrackedIsInductive DEF Accounted, Tracked
<1>2. CASE runStatus' = "active"
  <2>1. SlotsMove /\ UNCHANGED runStatus
    BY <1>1, <1>2, NextMoves DEF Moves, Ends
  <2> QED
    BY <1>1, <1>2, <2>1, MovesBalance DEF Accounted
<1>3. CASE runStatus' # "active"
  BY <1>1, <1>3 DEF Accounted, SlotAccounting
<1> QED
  BY <1>2, <1>3

LEMMA AccountedAtFirst == Init => Accounted
<1>1. ASSUME Init, NEW k \in Tasks
      PROVE  HoldersOf(k) = {} /\ OwingOf(k) = {}
  BY <1>1 DEF Init, HoldersOf, OwingOf
<1>2. ASSUME Init, NEW k \in Tasks
      PROVE  counts[k] = Cardinality(HoldersOf(k)) + Cardinality(OwingOf(k))
                         + leaked[k]
  <2>1. counts[k] = 0 /\ leaked[k] = 0
    BY <1>2 DEF Init
  <2>2. Cardinality(HoldersOf(k)) = 0 /\ Cardinality(OwingOf(k)) = 0
    BY <1>1, <1>2, FS_EmptySet
  <2> QED
    BY <2>1, <2>2
<1> QED
  BY <1>2, TrackedAtFirst DEF Accounted, SlotAccounting

\* No slot of a live run is leaked or freed twice, for any number of teams,
\* missions, stages and calls, whatever crashes and whatever is closed: when
\* one call at a time works on a team, with every entry point; when calls
\* interleave, as long as every write of a team document is a transaction
\* (assignTask, claimSpecificTask, releaseTask and their callers).
THEOREM AccountsHold ==
  ASSUME Orderly
  PROVE  Spec => []SlotAccounting
<1>1. Init => Accounted
  BY AccountedAtFirst
<1>2. Accounted /\ [Next]_vars => Accounted'
  BY AccountedIsInductive
<1>3. Accounted => SlotAccounting
  BY DEF Accounted
<1> QED
  BY <1>1, <1>2, <1>3, PTL DEF Spec

\* ... and activeTaskId stays in step with the records: completeTask, checkOut,
\* the skips, the closures, the sweeps and force-assign change the two together.
THEOREM ActiveFollowsRecords ==
  ASSUME Orderly
  PROVE  Spec => []ActiveIsAssigned
<1>1. Init => Tracked
  BY TrackedAtFirst
<1>2. Tracked /\ [Next]_vars => Tracked'
  BY TrackedIsInductive
<1>3. Tracked => ActiveIsAssigned
  BY DEF Tracked
<1> QED
  BY <1>1, <1>2, <1>3, PTL DEF Spec

\* A counter within its cap that accounts for every slot bounds the teams at
\* the station.
LEMMA NoCrowd ==
  ASSUME Typed, CapRespected, SlotAccounting
  PROVE  NeverOvercrowded
<1> SUFFICES ASSUME runStatus = "active", NEW k \in Tasks \ Locationless
             PROVE  Cardinality(HoldersOf(k)) <= Cap[k]
  BY DEF NeverOvercrowded
<1>1. counts[k] <= Cap[k] /\ Cap[k] \in Nat
  BY ConstantsAssumption DEF CapRespected
<1>2. counts[k] = Cardinality(HoldersOf(k)) + Cardinality(OwingOf(k)) + leaked[k]
  BY DEF SlotAccounting
<1>3. IsFiniteSet(HoldersOf(k)) /\ IsFiniteSet(OwingOf(k))
  <2>1. HoldersOf(k) \subseteq Teams /\ OwingOf(k) \subseteq Calls
    BY DEF HoldersOf, OwingOf
  <2> QED
    BY <2>1, ConstantsAssumption, FS_Subset
<1>4. Cardinality(HoldersOf(k)) \in Nat /\ Cardinality(OwingOf(k)) \in Nat
  BY <1>3, FS_CardinalityType
<1>5. leaked[k] \in Nat
  BY DEF Typed, TypeOK, HistoryTypeOK
<1> QED
  BY <1>1, <1>2, <1>4, <1>5

\* What the cap is for: in the same scope no more teams stand at a station than
\* it takes (assignTask, claimSpecificTask).
THEOREM StreetCapHolds ==
  ASSUME Orderly
  PROVE  Spec => []NeverOvercrowded
<1>1. Typed /\ CapRespected /\ SlotAccounting => NeverOvercrowded
  BY NoCrowd
<1> QED
  BY <1>1, TypesHold, CapsHold, AccountsHold, PTL DEF Typed

-----------------------------------------------------------------------------
(* The slots of a run are a ledger *)

\* The calls carrying a slot and the teams at a station, after a step of one
\* call and one team.
LEMMA CarriersAfter ==
  ASSUME NEW c \in Calls, OnlyCall(c), NEW k \in Tasks
  PROVE  /\ OwingOf(k)' = IF k \in owed'[c] THEN OwingOf(k) \cup {c} ELSE OwingOf(k) \ {c}
         /\ c \in OwingOf(k) <=> k \in owed[c]
BY DEF OwingOf, OnlyCall

LEMMA HoldersAfter ==
  ASSUME NEW t \in Teams, OnlyTeam(t), NEW k \in Tasks
  PROVE  /\ HoldersOf(k)' = IF Held(t, k)' = 1 THEN HoldersOf(k) \cup {t} ELSE HoldersOf(k) \ {t}
         /\ t \in HoldersOf(k) <=> Held(t, k) = 1
         /\ Held(t, k) \in 0 .. 1 /\ Held(t, k)' \in 0 .. 1
BY DEF HoldersOf, OnlyTeam, Held

\* A team that gives up stations is gone from them and stays at the others.
LEMMA HoldersLeft ==
  ASSUME NEW t \in Teams, OnlyTeam(t), NEW gone, GivesUp(t, gone), NEW j \in Tasks
  PROVE  /\ HoldersOf(j)' = IF j \in gone THEN HoldersOf(j) \ {t} ELSE HoldersOf(j)
         /\ j \in gone => t \in HoldersOf(j)
<1>1. /\ HoldersOf(j)' = IF Held(t, j)' = 1 THEN HoldersOf(j) \cup {t} ELSE HoldersOf(j) \ {t}
      /\ t \in HoldersOf(j) <=> Held(t, j) = 1
  BY HoldersAfter
<1>2. CASE j \in gone
  <2>1. Held(t, j) = 1 /\ Held(t, j)' = 0
    BY <1>2 DEF GivesUp
  <2> QED
    BY <1>1, <1>2, <2>1
<1>3. CASE j \notin gone
  <2>1. Held(t, j)' = Held(t, j)
    BY <1>3 DEF GivesUp
  <2>2. HoldersOf(j)' = IF t \in HoldersOf(j) THEN HoldersOf(j) \cup {t} ELSE HoldersOf(j) \ {t}
    BY <1>1, <2>1
  <2> QED
    BY <1>3, <2>2
<1> QED
  BY <1>2, <1>3

\* Each way slots move is a step of the ledger.
LEMMA TakeIsTake ==
  ASSUME NEW c \in Calls, NEW k \in Tasks, Takes(c, k)
  PROVE  Ledger!Take(c, k)
<1>1. \A j \in Tasks : HoldersOf(j)' = HoldersOf(j)
  BY DEF Takes, HoldersOf
<1>2. \A j \in Tasks : /\ OwingOf(j)' = IF j = k THEN OwingOf(j) \cup {c} ELSE OwingOf(j)
                       /\ c \notin OwingOf(j)
  BY CarriersAfter DEF Takes
<1> QED
  BY <1>1, <1>2 DEF Ledger!Take, Takes, HasRoom

LEMMA GiveBackIsGiveBack ==
  ASSUME NEW c \in Calls, NEW k \in Tasks, GivesBack(c, k), counts[k] \in Nat, counts[k] > 0,
         counts \in [Tasks -> Nat]
  PROVE  Ledger!GiveBack(c, k)
<1>1. \A j \in Tasks : HoldersOf(j)' = HoldersOf(j)
  BY DEF GivesBack, HoldersOf
<1>2. \A j \in Tasks : /\ OwingOf(j)' = IF j = k THEN OwingOf(j) \ {c} ELSE OwingOf(j)
                       /\ c \in OwingOf(j) <=> j \in owed[c]
  <2>1. \A j \in Tasks : /\ OwingOf(j)' = IF j \in owed[c] \ {k} THEN OwingOf(j) \cup {c}
                                                                ELSE OwingOf(j) \ {c}
                         /\ c \in OwingOf(j) <=> j \in owed[c]
    BY CarriersAfter DEF GivesBack
  <2> QED
    BY <2>1
<1>3. counts' = [counts EXCEPT ![k] = @ - 1]
  BY DEF GivesBack, Decremented
<1> QED
  BY <1>1, <1>2, <1>3 DEF Ledger!GiveBack, GivesBack

LEMMA LoseIsLose ==
  ASSUME NEW c \in Calls, Loses(c)
  PROVE  Ledger!Lose(c)
<1>1. \A j \in Tasks : HoldersOf(j)' = HoldersOf(j)
  BY DEF Loses, HoldersOf
<1>2. \A j \in Tasks : OwingOf(j)' = OwingOf(j) \ {c} /\ (c \in OwingOf(j) <=> j \in owed[c])
  BY CarriersAfter DEF Loses
<1> QED
  BY <1>1, <1>2 DEF Ledger!Lose, Loses

LEMMA LeaveIsLeave ==
  ASSUME NEW c \in Calls, NEW t \in Teams, NEW gone \in SUBSET Tasks, Leaves(c, t, gone)
  PROVE  Ledger!Leave(c, t, gone)
<1>1. \A j \in Tasks : /\ OwingOf(j)' = IF j \in gone THEN OwingOf(j) \cup {c} ELSE OwingOf(j)
                       /\ c \notin OwingOf(j)
  <2>1. \A j \in Tasks : /\ OwingOf(j)' = IF j \in gone THEN OwingOf(j) \cup {c}
                                                       ELSE OwingOf(j) \ {c}
                         /\ c \in OwingOf(j) <=> j \in {}
    BY CarriersAfter DEF Leaves
  <2> QED
    BY <2>1
<1>2. \A j \in Tasks : /\ HoldersOf(j)' = IF j \in gone THEN HoldersOf(j) \ {t} ELSE HoldersOf(j)
                       /\ j \in gone => t \in HoldersOf(j)
  BY HoldersLeft DEF Leaves
<1> QED
  BY <1>1, <1>2 DEF Ledger!Leave, Leaves

LEMMA VacateIsVacate ==
  ASSUME NEW c \in Calls, NEW t \in Teams, NEW gone \in SUBSET Tasks, Vacates(c, t, gone),
         counts \in [Tasks -> Nat], \A j \in gone : counts[j] > 0
  PROVE  Ledger!Vacate(t, gone)
<1>1. \A j \in Tasks : OwingOf(j)' = OwingOf(j)
  BY DEF Vacates, OwingOf
<1>2. \A j \in Tasks : /\ HoldersOf(j)' = IF j \in gone THEN HoldersOf(j) \ {t} ELSE HoldersOf(j)
                       /\ j \in gone => t \in HoldersOf(j)
  BY HoldersLeft DEF Vacates
<1>3. counts' = [j \in Tasks |-> IF j \in gone THEN counts[j] - 1 ELSE counts[j]]
  BY DEF Vacates, Decremented
<1> QED
  BY <1>1, <1>2, <1>3 DEF Ledger!Vacate, Vacates

LEMMA HandIsHand ==
  ASSUME NEW c \in Calls, NEW t \in Teams, NEW k \in Tasks, NEW gone \in SUBSET Tasks,
         Hands(c, t, k, gone)
  PROVE  Ledger!Hand(c, t, k, gone)
<1>1. \A j \in Tasks : /\ OwingOf(j)' = IF j = k THEN OwingOf(j) \ {c}
                                        ELSE IF j \in gone THEN OwingOf(j) \cup {c}
                                        ELSE OwingOf(j)
                       /\ c \in OwingOf(j) <=> j = k
  <2>1. \A j \in Tasks : /\ OwingOf(j)' = IF j \in gone THEN OwingOf(j) \cup {c}
                                                       ELSE OwingOf(j) \ {c}
                         /\ c \in OwingOf(j) <=> j \in {k}
    BY CarriersAfter DEF Hands
  <2> QED
    BY <2>1 DEF Hands
<1>2. \A j \in Tasks : /\ HoldersOf(j)' = IF j = k THEN HoldersOf(j) \cup {t}
                                          ELSE IF j \in gone THEN HoldersOf(j) \ {t}
                                          ELSE HoldersOf(j)
                       /\ j \in gone => t \in HoldersOf(j)
                       /\ j = k => t \notin HoldersOf(j)
  BY HoldersAfter DEF Hands
<1> QED
  BY <1>1, <1>2 DEF Ledger!Hand, Hands

LEMMA MovesImplement ==
  ASSUME Typed, SlotAccounting, runStatus = "active", SlotsMove
  PROVE  [Ledger!LNext]_(Ledger!ledger)
<1>1. counts \in [Tasks -> Nat]
  BY DEF Typed, TypeOK, RunTypeOK
<1>2. CASE SlotsKept
  <2>1. \A k \in Tasks : HoldersOf(k)' = HoldersOf(k) /\ OwingOf(k)' = OwingOf(k)
    BY <1>2 DEF SlotsKept, HoldersOf, OwingOf
  <2> QED
    BY <1>2, <2>1 DEF SlotsKept, Ledger!ledger
<1>3. ASSUME NEW c \in Calls, Loses(c) PROVE Ledger!LNext
  BY <1>3, LoseIsLose DEF Ledger!LNext
<1>4. ASSUME NEW c \in Calls, NEW k \in Tasks, Takes(c, k) PROVE Ledger!LNext
  BY <1>4, TakeIsTake DEF Ledger!LNext
<1>5. ASSUME NEW c \in Calls, NEW t \in Teams, NEW k \in Tasks, GivesBack(c, k)
      PROVE  Ledger!LNext
  <2>1. counts[k] \in Nat /\ counts[k] > 0
    <3>1. counts[k] \in Nat /\ counts[k] >= Held(t, k) + Carried(c, k)
      BY CounterCovers
    <3>2. Held(t, k) \in 0 .. 1 /\ Carried(c, k) = 1
      BY <1>5 DEF GivesBack, Held, Carried
    <3> QED
      BY <3>1, <3>2
  <2> QED
    BY <1>1, <1>5, <2>1, GiveBackIsGiveBack DEF Ledger!LNext
<1>6. ASSUME NEW c \in Calls, NEW t \in Teams, NEW gone \in SUBSET Tasks, Leaves(c, t, gone)
      PROVE  Ledger!LNext
  BY <1>6, LeaveIsLeave DEF Ledger!LNext
<1>7. ASSUME NEW c \in Calls, NEW t \in Teams, NEW gone \in SUBSET Tasks, Vacates(c, t, gone)
      PROVE  Ledger!LNext
  <2>1. ASSUME NEW j \in gone PROVE counts[j] > 0
    <3>1. counts[j] \in Nat /\ counts[j] >= Held(t, j) + Carried(c, j)
      BY CounterCovers
    <3>2. Held(t, j) = 1 /\ Carried(c, j) \in 0 .. 1
      BY <1>7 DEF Vacates, GivesUp, Carried
    <3> QED
      BY <3>1, <3>2
  <2> QED
    BY <1>1, <1>7, <2>1, VacateIsVacate DEF Ledger!LNext
<1>8. ASSUME NEW c \in Calls, NEW t \in Teams, NEW k \in Tasks, NEW gone \in SUBSET Tasks,
             Hands(c, t, k, gone)
      PROVE  Ledger!LNext
  BY <1>8, HandIsHand DEF Ledger!LNext
<1> QED
  BY <1>2, <1>3, <1>4, <1>5, <1>6, <1>7, <1>8 DEF SlotsMove

\* Without finalizeRunCore a run goes on.
LEMMA RunGoesOn ==
  ASSUME "finalize" \notin Tools, runStatus = "active", final = None, [Next]_vars
  PROVE  runStatus' = "active" /\ final' = None
<1>1. ~FinalizeRead /\ ~FinalizeWrite
  BY DEF FinalizeRead, FinalizeWrite
<1>2. ASSUME NEW k \in Tasks, Expire(k) PROVE UNCHANGED <<runStatus, final>>
  BY <1>2 DEF Expire
<1>3. CASE UNCHANGED vars
  BY <1>3 DEF vars, runVars
<1> QED
  BY <1>1, <1>2, <1>3, ExpiryUntouched DEF Next

\* The calls of a live run, whatever they interleave with and wherever they
\* die, are steps of the ledger: a slot is taken where there is room, is on its
\* way or with a team, and is given back once.
THEOREM SlotsAreALedger ==
  ASSUME Orderly, "finalize" \notin Tools
  PROVE  Spec => ImplementsLedger
<1> DEFINE Inv == Accounted /\ runStatus = "active" /\ final = None
<1>1. Init => Inv
  BY AccountedAtFirst DEF Init
<1>2. Inv /\ [Next]_vars => Inv'
  BY AccountedIsInductive, RunGoesOn
<1>3. Init => Ledger!LInit
  <2> SUFFICES ASSUME Init PROVE Ledger!LInit
    OBVIOUS
  <2>1. \A k \in Tasks : HoldersOf(k) = {} /\ OwingOf(k) = {}
    BY DEF Init, HoldersOf, OwingOf
  <2> QED
    BY <2>1 DEF Init, Ledger!LInit
<1>4. Inv /\ [Next]_vars => [Ledger!LNext]_(Ledger!ledger)
  <2> SUFFICES ASSUME Inv, [Next]_vars PROVE [Ledger!LNext]_(Ledger!ledger)
    OBVIOUS
  <2>1. Tracked /\ Typed /\ SlotAccounting /\ runStatus = "active" /\ final = None
    BY DEF Accounted, Tracked
  <2>2. ~FinalizeWrite
    BY <2>1 DEF FinalizeWrite
  <2>3. SlotsMove
    BY <2>1, <2>2, NextMoves DEF Moves
  <2> QED
    BY <2>1, <2>3, MovesImplement
<1> QED
  BY <1>1, <1>2, <1>3, <1>4, PTL DEF Spec, ImplementsLedger, Ledger!LSpec

-----------------------------------------------------------------------------
(* One call at a time: the end of a run *)

\* What finalize has read is what it would read now.
FinalCurrent == final # None => final = Reconciled

LEMMA BeginsBeforeTheEnd ==
  ASSUME Serial, NEW c \in Calls, Beginning(c)
  PROVE  final = None
BY DEF Beginning, RequestNext, PollRead, StartRead, SkipStage, Complete, SkipTaskOpen,
       CheckOut, ForceRead, SetStatusRead, Begin, TeamFree, RunFree

LEMMA FinalStaysCurrent ==
  ASSUME Serial, Tracked, FinalCurrent, [Next]_vars
  PROVE  FinalCurrent'
<1>1. ASSUME NEW c \in Calls, Beginning(c) \/ Continuing(c) \/ Crash(c)
      PROVE  final = None /\ final' = final
  <2>1. CASE Beginning(c)
    BY <2>1, BeginsBeforeTheEnd, ExpiryUntouched
  <2>2. CASE Continuing(c) \/ Crash(c)
    <3>1. ~Idle(c) /\ final' = final
      BY <2>2, ContinuingUndisturbed DEF Tracked
    <3> QED
      BY <3>1 DEF Tracked, Alone
  <2> QED
    BY <1>1, <2>1, <2>2
<1>2. CASE UNCHANGED vars
  BY <1>2 DEF vars, runVars, teamVars, FinalCurrent, Reconciled
<1>3. ASSUME NEW k \in Tasks, Expire(k) PROVE FinalCurrent'
  BY <1>3 DEF Expire, teamVars, FinalCurrent, Reconciled
<1>4. CASE FinalizeRead
  BY <1>4 DEF FinalizeRead, teamVars, FinalCurrent, Reconciled
<1>5. CASE FinalizeWrite
  BY <1>5 DEF FinalizeWrite, FinalCurrent
<1>6. ASSUME NEW c \in Calls, Beginning(c) \/ Continuing(c) \/ Crash(c)
      PROVE  FinalCurrent'
  BY <1>1, <1>6 DEF FinalCurrent
<1> QED
  BY <1>2, <1>3, <1>4, <1>5, <1>6 DEF Next

\* When one call at a time works on a team, finishing a run heals what crashes
\* leaked: the counters finalizeRunCore archives are within the teams that are
\* still at the stations.
THEOREM FinishHeals ==
  ASSUME Serial
  PROVE  Spec => LeaksHealAtFinish
<1> DEFINE Inv == Tracked /\ FinalCurrent
<1>1. Init => Inv
  BY TrackedAtFirst DEF Init, FinalCurrent
<1>2. Inv /\ [Next]_vars => Inv'
  BY TrackedIsInductive, FinalStaysCurrent DEF Orderly
<1>3. Inv /\ [Next]_vars =>
        [runStatus' # runStatus =>
           \A k \in Tasks : counts'[k] <= Cardinality(HoldersOf(k))]_vars
  <2> SUFFICES ASSUME Inv, [Next]_vars, runStatus' # runStatus, NEW k \in Tasks
               PROVE  counts'[k] <= Cardinality(HoldersOf(k))
    OBVIOUS
  <2>1. FinalizeWrite
    BY NextMoves
  <2>2. counts'[k] = Cardinality({t \in Teams : active[t] = k})
    BY <2>1 DEF FinalizeWrite, FinalCurrent, Reconciled
  <2>3. {t \in Teams : active[t] = k} \subseteq HoldersOf(k)
    BY ConstantsAssumption DEF Tracked, ActiveIsAssigned, HoldersOf
  <2>4. IsFiniteSet(HoldersOf(k))
    BY ConstantsAssumption, FS_Subset DEF HoldersOf
  <2> QED
    BY <2>2, <2>3, <2>4, FS_Subset
<1> QED
  BY <1>1, <1>2, <1>3, PTL DEF Spec, LeaksHealAtFinish

-----------------------------------------------------------------------------
(* Any calls at once: what is stamped yields only to an older read *)

\* Settling a stage changes no record that is terminal already.
LEMMA SettledStamps ==
  ASSUME NEW r \in [Tasks -> RecordStates], NEW s, NEW n, NEW k \in Tasks, Terminal(r[k])
  PROVE  SettleRecords(r, s, n)[k] = r[k]
BY DEF SettleRecords, Terminal

StampsStay == \A t \in Teams, k \in Tasks : Terminal(rec[t][k]) => rec'[t][k] = rec[t][k]

\* q keeps what is terminal in r.
Keeps(q, r) == \A k \in Tasks : Terminal(r[k]) => q[k] = r[k]

\* A write of one team that leaves its terminal records alone.
LEMMA OneTeamStamps ==
  ASSUME Typed, NEW t \in Teams, NEW q, rec' = [rec EXCEPT ![t] = q], Keeps(q, rec[t])
  PROVE  StampsStay
BY DEF StampsStay, Keeps, Typed, TypeOK, TeamsTypeOK

\* A mission that is not terminal is stamped and its stage settles.
LEMMA SettlingStamps ==
  ASSUME Typed, NEW t \in Teams, NEW k \in Tasks, ~Terminal(rec[t][k]),
         NEW mark \in {"completed", "skipped"}, NEW s, NEW n,
         rec' = [rec EXCEPT ![t] = SettleRecords([rec[t] EXCEPT ![k] = mark], s, n)]
  PROVE  StampsStay
<1> DEFINE r == [rec[t] EXCEPT ![k] = mark]
           q == SettleRecords(r, s, n)
<1>1. /\ r \in [Tasks -> RecordStates] /\ rec[t] \in [Tasks -> RecordStates]
      /\ \A j \in Tasks : j # k => r[j] = rec[t][j]
  BY DEF Typed, TypeOK, TeamsTypeOK
<1> HIDE DEF r
<1>2. ASSUME NEW j \in Tasks, Terminal(rec[t][j]) PROVE q[j] = rec[t][j]
  <2>1. r[j] = rec[t][j]
    BY <1>1, <1>2
  <2> QED
    BY <1>1, <1>2, <2>1, SettledStamps
<1>3. PICK p : p = q
  OBVIOUS
<1>4. rec' = [rec EXCEPT ![t] = p]
  BY <1>3 DEF r
<1>5. Keeps(p, rec[t])
  BY <1>2, <1>3 DEF Keeps
<1> QED
  BY <1>4, <1>5, OneTeamStamps

\* The writes that look before they stamp.
Looks(c) ==
  \/ SkipTask(c) \/ ForceTeam(c)
  \/ \E t \in Teams :
       \/ SkipStage(c, t) \/ CloseTeam(c, t)
       \/ \E k \in Tasks : Complete(c, t, k)

LEMMA LooksStamp ==
  ASSUME Typed, NEW c \in Calls, Looks(c)
  PROVE  StampsStay
<1>0. /\ CallWellFormed(c)
      /\ rec \in [Teams -> [Tasks -> RecordStates]]
      /\ active \in [Teams -> Tasks \cup {NoTask}]
  BY DEF Typed, TypeOK, TeamsTypeOK, CallsWellFormed
<1>1. CASE SkipTask(c)
  <2>1. PICK t \in Teams, k \in Tasks : t = team[c] /\ k = task[c]
    BY <1>0, <1>1 DEF SkipTask, CallWellFormed
  <2>2. PICK n : n = LoweredRequirement(rec[t], StageOf[k], req[t][StageOf[k]], k)
    OBVIOUS
  <2>3. /\ rec' = [rec EXCEPT ![t] =
                     SettleRecords([rec[t] EXCEPT ![k] = "skipped"], StageOf[k], n)]
        /\ ~Terminal(rec[t][k])
    BY <1>1, <2>1, <2>2 DEF SkipTask, CanSkip
  <2> QED
    BY <1>0, <2>3, SettlingStamps
<1>2. CASE ForceTeam(c)
  <2>1. PICK t \in Teams, k \in Tasks : t = team[c] /\ k = task[c]
    BY <1>0, <1>2 DEF ForceTeam, CallWellFormed
  <2>2. PICK q : q = [j \in Tasks |->
               IF j = k THEN "assigned"
               ELSE IF j \in InState(rec[t], StageOf[k], "assigned")
                    THEN "unassigned" ELSE rec[t][j]]
    OBVIOUS
  <2>3. rec' = [rec EXCEPT ![t] = q] /\ rec[t][k] = "unassigned"
    BY <1>2, <2>1, <2>2 DEF ForceTeam, CanForce
  <2>4. Keeps(q, rec[t])
    BY <2>2, <2>3 DEF Terminal, InState, Keeps
  <2> QED
    BY <1>0, <2>3, <2>4, OneTeamStamps
<1>3. ASSUME NEW t \in Teams, SkipStage(c, t) PROVE StampsStay
  <2>1. PICK s \in Stages :
          rec' = [rec EXCEPT ![t] = [k \in Tasks |->
                    IF k \in {j \in StageTasks(s) : rec[t][j] # "completed"}
                    THEN "skipped" ELSE rec[t][k]]]
    BY <1>0, <1>3 DEF SkipStage
  <2>2. PICK q : q = [k \in Tasks |->
                    IF k \in {j \in StageTasks(s) : rec[t][j] # "completed"}
                    THEN "skipped" ELSE rec[t][k]]
    OBVIOUS
  <2>3. Keeps(q, rec[t])
    BY <2>2 DEF Terminal, Keeps
  <2> QED
    BY <1>0, <2>1, <2>2, <2>3, OneTeamStamps
<1>4. ASSUME NEW t \in Teams, CloseTeam(c, t) PROVE StampsStay
  <2>1. PICK k \in Tasks : k = closing[c]
    BY <1>0, <1>4 DEF CloseTeam, CallWellFormed
  <2>2. PICK n : n = LoweredRequirement(rec[t], StageOf[k], req[t][StageOf[k]], k)
    OBVIOUS
  <2>3. /\ ~Terminal(rec[t][k])
        /\ \/ rec' = [rec EXCEPT ![t] =
                        SettleRecords([rec[t] EXCEPT ![k] = "skipped"], StageOf[k], n)]
           \/ rec' = [rec EXCEPT ![t] = [rec[t] EXCEPT ![k] = "skipped"]]
    BY <1>4, <2>1, <2>2 DEF CloseTeam
  <2>4. CASE rec' = [rec EXCEPT ![t] = [rec[t] EXCEPT ![k] = "skipped"]]
    <3>1. PICK q : q = [rec[t] EXCEPT ![k] = "skipped"]
      OBVIOUS
    <3>2. Keeps(q, rec[t])
      BY <1>0, <2>3, <3>1 DEF Keeps
    <3> QED
      BY <1>0, <2>4, <3>1, <3>2, OneTeamStamps
  <2> QED
    BY <1>0, <2>3, <2>4, SettlingStamps
<1>5. ASSUME NEW t \in Teams, NEW k \in Tasks, Complete(c, t, k) PROVE StampsStay
  <2>1. /\ rec' = [rec EXCEPT ![t] =
                     SettleRecords([rec[t] EXCEPT ![k] = "completed"], StageOf[k],
                                   req[t][StageOf[k]])]
        /\ ~Terminal(rec[t][k])
    BY <1>5 DEF Complete, Terminal
  <2> QED
    BY <1>0, <2>1, SettlingStamps
<1> QED
  BY <1>1, <1>2, <1>3, <1>4, <1>5 DEF Looks

\* A record that is terminal outlives every write but that of an older read of
\* it, and a check-out by an activeTaskId that still names it.
LEMMA StampOutlives ==
  ASSUME Typed, NEW c \in Calls, Writes(c), NEW t \in Teams, NEW k \in Tasks,
         Terminal(rec[t][k]), active[t] # k, ~(ReadBefore(c, t, k) /\ Writing(c))
  PROVE  rec'[t][k] = rec[t][k]
<1>0. /\ CallWellFormed(c) /\ pc \in [Calls -> Steps]
      /\ rec \in [Teams -> [Tasks -> RecordStates]]
  BY DEF Typed, TypeOK, TeamsTypeOK, CallsTypeOK, CallsWellFormed
<1>1. CASE Persist(c) \/ StartWrite(c)
  <2>1. pc[c] \in {"persist", "start"} /\ rec' = [rec EXCEPT ![team[c]] = draft[c].rec]
    BY <1>1 DEF Persist, StartWrite
  <2>2. Writing(c)
    BY <1>0, <1>1 DEF Persist, StartWrite, GoOn, Writing
  <2>3. team[c] = t => draft[c].rec[k] = rec[t][k]
    BY <2>1, <2>2 DEF ReadBefore
  <2> QED
    BY <1>0, <2>1, <2>3
<1>2. CASE Claim(c)
  <2>1. PICK u \in Teams, j \in Tasks : u = team[c] /\ j = task[c]
    BY <1>0, <1>2 DEF Claim, CallWellFormed
  <2>2. Writing(c)
    BY <1>0, <1>2 DEF Claim, Return, GoOn, Writing
  <2>3. ~(u = t /\ j = k)
    BY <1>2, <2>1, <2>2 DEF Claim, ReadBefore
  <2>4. rec' = [rec EXCEPT ![u][j] = "assigned"]
    BY <1>2, <2>1 DEF Claim
  <2> QED
    BY <1>0, <2>3, <2>4
<1>3. ASSUME NEW u \in Teams, NEW j \in Tasks, CheckOut(c, u, j)
      PROVE  rec'[t][k] = rec[t][k]
  <2>1. rec' = [rec EXCEPT ![u][j] = "unassigned"] /\ HeldSlot(u, j)
    BY <1>3 DEF CheckOut
  <2>2. ~(u = t /\ j = k)
    BY <2>1 DEF HeldSlot, Terminal
  <2> QED
    BY <1>0, <2>1, <2>2
<1>4. CASE Looks(c)
  BY <1>4, LooksStamp DEF StampsStay
<1> QED
  BY <1>1, <1>2, <1>3, <1>4 DEF Writes, Looks

\* A sweep's copy keeps what is terminal, and offers none of it for routing.
LEMMA SweepKeepsStamps ==
  ASSUME Typed, NEW c \in Calls, NEW t \in Teams, NEW routing \in BOOLEAN,
         SweepInFlight(c, t, routing)
  PROVE  /\ pc'[c] = "persist" /\ team'[c] = t
         /\ \A k \in Tasks : Terminal(rec[t][k]) =>
              draft'[c].rec[k] = rec[t][k] /\ k \notin open'[c]
         /\ open'[c] # {} => after'[c] = "reserve"
<1>0. /\ rec \in [Teams -> [Tasks -> RecordStates]] /\ pc \in [Calls -> Steps]
      /\ open \in [Calls -> SUBSET Tasks] /\ draft \in [Calls -> {None} \cup DocCopies]
      /\ team \in [Calls -> Teams \cup {NoTeam}]
      /\ after \in [Calls -> {"return", "read", "reserve"}]
  BY DEF Typed, TypeOK, TeamsTypeOK, CallsTypeOK
<1>1. PICK s \in Stages, j \in Tasks :
        /\ rec[t][j] = "assigned"
        /\ GoOn(c, "persist", t, j, {},
                IF routing /\ OpenIn(Swept(t, s, j)) # {} THEN "reserve" ELSE "return")
        /\ open' = [open EXCEPT ![c] = IF routing THEN OpenIn(Swept(t, s, j)) ELSE {}]
        /\ draft' = [draft EXCEPT ![c] = Swept(t, s, j)]
  BY DEF SweepInFlight, InState, StageTasks
<1>2. PICK d : d = Swept(t, s, j)
  OBVIOUS
<1>3. ASSUME NEW k \in Tasks, Terminal(rec[t][k]) PROVE d.rec[k] = rec[t][k]
  <2>1. PICK r : r = [rec[t] EXCEPT ![j] = "skipped"]
    OBVIOUS
  <2>2. r \in [Tasks -> RecordStates] /\ r[k] = rec[t][k]
    BY <1>0, <1>1, <1>3, <2>1 DEF Terminal
  <2>3. d.rec = SettleRecords(r, s, req[t][s])
    BY <1>2, <2>1 DEF Swept
  <2> QED
    BY <1>3, <2>2, <2>3, SettledStamps
<1>4. ASSUME NEW k \in Tasks, Terminal(rec[t][k]) PROVE k \notin OpenIn(d)
  BY <1>3, <1>4 DEF OpenIn, Terminal
<1>5. /\ pc'[c] = "persist" /\ team'[c] = t /\ draft'[c] = d
      /\ open'[c] = IF routing THEN OpenIn(d) ELSE {}
      /\ after'[c] = IF routing /\ OpenIn(d) # {} THEN "reserve" ELSE "return"
  BY <1>0, <1>1, <1>2 DEF GoOn
<1> QED
  BY <1>3, <1>4, <1>5

\* A call has candidates in hand only on its way to reserve one.
OpenInHand ==
  \A c \in Calls : open[c] # {} =>
    \/ pc[c] = "reserve"
    \/ pc[c] \in {"persist", "release"} /\ after[c] = "reserve"

\* A step that does not lead a call on towards a team's record drops its
\* candidates.
LEMMA OthersDrop ==
  ASSUME Typed, OpenInHand, NEW c \in Calls, Beginning(c) \/ Continuing(c) \/ Crash(c)
  PROVE  Leading(c) \/ open'[c] = {}
<1>0. /\ open \in [Calls -> SUBSET Tasks]
      /\ pc[c] \notin {"reserve", "persist", "release"} => open[c] = {}
  BY DEF Typed, TypeOK, CallsTypeOK, OpenInHand
<1>1. ASSUME Return(c) PROVE open'[c] = {}
  BY <1>0, <1>1 DEF Return
<1>2. CASE Beginning(c)
  <2>1. Idle(c) => open[c] = {}
    BY <1>0 DEF Idle
  <2>2. ASSUME NEW t \in Teams, NEW k \in Tasks,
               \/ RequestNext(c, t) \/ SkipStage(c, t) \/ Complete(c, t, k)
               \/ SkipTaskOpen(c, t, k) \/ CheckOut(c, t, k) \/ ForceRead(c, t, k)
        PROVE  open'[c] = {}
    BY <2>1, <2>2 DEF RequestNext, SkipStage, Complete, SkipTaskOpen, CheckOut,
                      ForceRead, Begin
  <2>3. ASSUME NEW t \in Teams, RequestNext(c, t) \/ SkipStage(c, t)
        PROVE  open'[c] = {}
    BY <2>1, <2>3 DEF RequestNext, SkipStage, Begin
  <2>4. ASSUME NEW k \in Tasks, NEW st \in Statuses, SetStatusRead(c, k, st)
        PROVE  open'[c] = {}
    BY <2>1, <2>4 DEF SetStatusRead
  <2> QED
    BY <1>2, <2>2, <2>3, <2>4 DEF Beginning, Leading
<1>3. CASE Routing(c)
  <2>1. CASE NothingToAssign(c) \/ PersistFails(c) \/ NoCandidate(c) \/ Claim(c)
    BY <1>1, <2>1 DEF NothingToAssign, PersistFails, NoCandidate, Claim
  <2>2. CASE ClaimRefused(c)
    BY <1>0, <2>2 DEF ClaimRefused
  <2> QED
    BY <1>3, <2>1, <2>2 DEF Routing, Leading
<1>4. CASE Continuing(c)
  <2>1. CASE SkipTaskRefused(c) \/ ForceRefused(c) \/ SetStatusWrite(c)
    BY <1>1, <2>1 DEF SkipTaskRefused, ForceRefused, SetStatusWrite
  <2>2. CASE StartWrite(c) \/ SkipTask(c) \/ ForceClaim(c) \/ ForceTeam(c) \/ ForceUndone(c)
    BY <1>0, <2>2 DEF StartWrite, SkipTask, ForceClaim, ForceTeam, ForceUndone
  <2>3. ASSUME NEW t \in Teams, CloseTeam(c, t) \/ CloseSkips(c, t) PROVE open'[c] = {}
    BY <1>0, <2>3 DEF CloseTeam, CloseSkips
  <2>4. CASE CloseDone(c)
    BY <1>0, <2>4 DEF CloseDone
  <2> QED
    BY <1>3, <1>4, <2>1, <2>2, <2>3, <2>4 DEF Continuing
<1>5. CASE Crash(c)
  BY <1>0, <1>5 DEF Crash
<1> QED
  BY <1>2, <1>4, <1>5

\* What a leading step of call c does to what it has read, as far as mission k
\* of team t goes: a terminal record is never read as open.
LEMMA LeadsOnlyOld ==
  ASSUME Typed, OpenInHand, NEW c \in Calls, Leading(c),
         NEW t \in Teams, NEW k \in Tasks, Terminal(rec[t][k]), rec'[t][k] = rec[t][k],
         ReadBefore(c, t, k)'
  PROVE  ReadBefore(c, t, k)
<1>0. /\ rec \in [Teams -> [Tasks -> RecordStates]] /\ pc \in [Calls -> Steps]
      /\ open \in [Calls -> SUBSET Tasks] /\ draft \in [Calls -> {None} \cup DocCopies]
      /\ team \in [Calls -> Teams \cup {NoTeam}] /\ task \in [Calls -> Tasks \cup {NoTask}]
      /\ after \in [Calls -> {"return", "read", "reserve"}] /\ CallWellFormed(c)
  BY DEF Typed, TypeOK, TeamsTypeOK, CallsTypeOK, CallsWellFormed
<1>1. ASSUME NEW u \in Teams, StartRead(c, u) PROVE FALSE
  <2>1. /\ pc'[c] = "start" /\ team'[c] = u /\ open'[c] = {} /\ draft'[c].rec = rec[u]
    BY <1>0, <1>1 DEF StartRead, GoOn, Begin, Idle, OpenInHand
  <2> QED
    BY <2>1 DEF ReadBefore
<1>2. ASSUME NEW u \in Teams, NEW routing \in BOOLEAN, SweepInFlight(c, u, routing)
      PROVE  FALSE
  <2>1. /\ pc'[c] = "persist" /\ team'[c] = u
        /\ Terminal(rec[u][k]) => draft'[c].rec[k] = rec[u][k] /\ k \notin open'[c]
    BY <1>2, SweepKeepsStamps
  <2> QED
    BY <2>1 DEF ReadBefore
<1>3. CASE Persist(c)
  <2>1. pc'[c] = "release" /\ team'[c] = team[c] /\ open'[c] = open[c]
    BY <1>0, <1>3 DEF Persist, GoOn
  <2> QED
    BY <2>1 DEF ReadBefore
<1>4. CASE ReadOpen(c)
  <2>1. PICK s \in Stages : open' = [open EXCEPT ![c] = InState(rec[team[c]], s, "unassigned")]
    BY <1>4 DEF ReadOpen
  <2>2. /\ pc'[c] = "reserve" /\ team'[c] = team[c]
        /\ open'[c] = InState(rec[team[c]], s, "unassigned")
    BY <1>0, <1>4, <2>1 DEF ReadOpen
  <2> QED
    BY <2>2 DEF ReadBefore, InState, Terminal
<1>5. CASE Reserve(c)
  <2>1. PICK j \in open[c] : GoOn(c, "claim", team[c], j, {j}, "return")
    BY <1>5 DEF Reserve, Candidates
  <2>2. pc'[c] = "claim" /\ team'[c] = team[c] /\ task'[c] = j /\ open'[c] = {}
    BY <1>0, <1>5, <2>1 DEF Reserve, GoOn
  <2> QED
    BY <2>2 DEF ReadBefore
<1>6. CASE Release(c)
  BY <1>0, <1>6 DEF Release, ReadBefore
<1>7. CASE Released(c)
  <2>1. CASE after[c] = "return"
    <3>1. open'[c] = {} /\ pc'[c] \in {"idle", "close"}
      BY <1>0, <1>7, <2>1 DEF Released, Return, GoOn
    <3> QED
      BY <3>1 DEF ReadBefore
  <2>2. CASE after[c] # "return"
    <3>1. open'[c] = open[c] /\ team'[c] = team[c] /\ pc'[c] \in {"read", "reserve"}
      BY <1>0, <1>7, <2>2 DEF Released, GoOn
    <3> QED
      BY <3>1 DEF ReadBefore
  <2> QED
    BY <2>1, <2>2
<1>8. CASE SweepRead(c)
  BY <1>0, <1>2, <1>8 DEF SweepRead, CallWellFormed
<1>9. ASSUME NEW u \in Teams, PollRead(c, u) PROVE FALSE
  BY <1>2, <1>9 DEF PollRead
<1> QED
  BY <1>1, <1>3, <1>4, <1>5, <1>6, <1>7, <1>8, <1>9 DEF Leading

LEMMA OpenStaysInHand ==
  ASSUME Typed, OpenInHand, [Next]_vars
  PROVE  OpenInHand'
<1>0. /\ pc \in [Calls -> Steps] /\ open \in [Calls -> SUBSET Tasks]
      /\ after \in [Calls -> {"return", "read", "reserve"}]
      /\ \A c \in Calls : CallWellFormed(c)
  BY DEF Typed, TypeOK, CallsTypeOK, CallsWellFormed
<1> DEFINE Ready(c) == \/ pc[c] = "reserve"
                       \/ pc[c] \in {"persist", "release"} /\ after[c] = "reserve"
<1>1. ASSUME NEW c \in Calls, Leading(c), open'[c] # {} PROVE Ready(c)'
  <2>1. ASSUME NEW t \in Teams, StartRead(c, t) PROVE FALSE
    BY <1>0, <1>1, <2>1 DEF StartRead, Begin, Idle, OpenInHand
  <2>2. ASSUME NEW t \in Teams, PollRead(c, t) PROVE Ready(c)'
    BY <1>1, <2>2, SweepKeepsStamps DEF PollRead
  <2>3. CASE SweepRead(c)
    BY <1>0, <1>1, <2>3, SweepKeepsStamps DEF SweepRead, CallWellFormed
  <2>4. CASE Persist(c)
    BY <1>0, <1>1, <2>4 DEF Persist, GoOn, OpenInHand
  <2>5. CASE ReadOpen(c)
    BY <1>0, <2>5 DEF ReadOpen
  <2>6. CASE Reserve(c)
    BY <1>0, <1>1, <2>6 DEF Reserve
  <2>7. CASE Release(c)
    BY <1>0, <1>1, <2>7 DEF Release, OpenInHand
  <2>8. CASE Released(c)
    BY <1>0, <1>1, <2>8 DEF Released, Return, GoOn, OpenInHand
  <2> QED
    BY <1>1, <2>1, <2>2, <2>3, <2>4, <2>5, <2>6, <2>7, <2>8 DEF Leading
<1>2. ASSUME NEW c \in Calls, Beginning(c) \/ Continuing(c) \/ Crash(c) PROVE OpenInHand'
  <2>1. open'[c] # {} => Ready(c)'
    BY <1>1, <1>2, OthersDrop
  <2>2. Undisturbed(c)
    BY <1>2, BeginningUndisturbed, ContinuingUndisturbed
  <2> QED
    BY <2>1, <2>2 DEF OpenInHand, Undisturbed
<1>3. CASE UNCHANGED callVars
  BY <1>3 DEF callVars, OpenInHand
<1>4. CASE UNCHANGED vars \/ FinalizeRead \/ FinalizeWrite \/ \E k \in Tasks : Expire(k)
  BY <1>3, <1>4 DEF vars, FinalizeRead, FinalizeWrite, Expire
<1> QED
  BY <1>2, <1>4 DEF Next

\* StampsYieldOnlyToOlderReads, of one team and one mission.
Yields(t, k) ==
  Terminal(rec[t][k]) =>
    \/ /\ rec'[t][k] = rec[t][k]
       /\ \A c \in Calls : ReadBefore(c, t, k)' => ReadBefore(c, t, k)
    \/ \E c \in Calls : ReadBefore(c, t, k) /\ Writing(c)
    \/ active[t] = k

LEMMA StampsYield ==
  ASSUME Typed, OpenInHand, [Next]_vars, NEW t \in Teams, NEW k \in Tasks
  PROVE  Yields(t, k)
<1> SUFFICES ASSUME Terminal(rec[t][k]), active[t] # k,
                    \A c \in Calls : ~(ReadBefore(c, t, k) /\ Writing(c))
             PROVE  /\ rec'[t][k] = rec[t][k]
                    /\ \A c \in Calls : ReadBefore(c, t, k)' => ReadBefore(c, t, k)
  BY DEF Yields
<1>1. rec'[t][k] = rec[t][k]
  BY OtherSteps, StampOutlives DEF teamVars
<1>2. ASSUME NEW c \in Calls, Beginning(c) \/ Continuing(c) \/ Crash(c),
             NEW d \in Calls, ReadBefore(d, t, k)'
      PROVE  ReadBefore(d, t, k)
  <2>1. CASE d # c
    <3>1. Undisturbed(c)
      BY <1>2, BeginningUndisturbed, ContinuingUndisturbed
    <3> QED
      BY <1>1, <1>2, <2>1, <3>1 DEF Undisturbed, ReadBefore
  <2>2. CASE d = c /\ ~Leading(c)
    <3>1. open'[c] = {} /\ Elsewhere(c)
      BY <1>2, <2>2, OthersDrop, WhereCallsGo
    <3> QED
      BY <1>2, <2>2, <3>1 DEF ReadBefore, Elsewhere
  <2>3. CASE d = c /\ Leading(c)
    BY <1>1, <1>2, <2>3, LeadsOnlyOld
  <2> QED
    BY <2>1, <2>2, <2>3
<1>3. CASE UNCHANGED <<callVars, rec>>
  BY <1>1, <1>3 DEF callVars, ReadBefore
<1>4. CASE UNCHANGED vars \/ FinalizeRead \/ FinalizeWrite \/ \E j \in Tasks : Expire(j)
  BY <1>3, <1>4 DEF vars, teamVars, FinalizeRead, FinalizeWrite, Expire
<1> QED
  BY <1>1, <1>2, <1>4 DEF Next

\* Whatever calls interleave, write back old copies or die, a completed or
\* skipped record yields only to a call that had read the team before it was
\* stamped: completeTaskForTeam, skipTaskForTeam, skipStage, applyTaskClosure
\* and forceAssignTask look before they stamp, and what routing and the sweeps
\* read after the stamp respects it.
THEOREM StampsYieldToOldReads == Spec => StampsYieldOnlyToOlderReads
<1> DEFINE Inv == Typed /\ OpenInHand
<1>1. Init => Inv
  BY InitialTypes DEF Init, Typed, OpenInHand
<1>2. Inv /\ [Next]_vars => Inv'
  BY TypedIsInductive, OpenStaysInHand
<1>3. Inv /\ [Next]_vars =>
        [\A t \in Teams, k \in Tasks : Terminal(rec[t][k]) =>
           \/ /\ rec'[t][k] = rec[t][k]
              /\ \A c \in Calls : ReadBefore(c, t, k)' => ReadBefore(c, t, k)
           \/ \E c \in Calls : ReadBefore(c, t, k) /\ Writing(c)
           \/ active[t] = k]_vars
  BY StampsYield DEF Yields
<1> QED
  BY <1>1, <1>2, <1>3, PTL DEF Spec, StampsYieldOnlyToOlderReads

-----------------------------------------------------------------------------
(* Any calls at once: a closed mission stays gone *)

\* The steps that change an availability or work through the teams of a closure.
Closure(c) ==
  \/ \E k \in Tasks, st \in Statuses : SetStatusRead(c, k, st)
  \/ SetStatusWrite(c) \/ CloseDone(c) \/ Crash(c)
  \/ \E t \in Teams : CloseTeam(c, t) \/ CloseSkips(c, t)
\* Every other step leaves availabilities, closures and what they missed alone.
ClosuresKept(c) ==
  /\ UNCHANGED <<override, missed, closing, todo>>
  /\ pc[c] \notin Statuses /\ pc'[c] \notin Statuses

LEMMA OtherClosures ==
  ASSUME Typed, NEW c \in Calls, Beginning(c) \/ Continuing(c)
  PROVE  Closure(c) \/ ClosuresKept(c)
<1> USE DEF runVars, history
<1>0. /\ pc \in [Calls -> Steps] /\ after \in [Calls -> {"return", "read", "reserve"}]
  BY DEF Typed, TypeOK, CallsTypeOK
<1>1. ASSUME NEW step, NEW t, NEW k, NEW K, NEW next, GoOn(c, step, t, k, K, next),
             step \notin Statuses, pc[c] \notin Statuses,
             UNCHANGED <<override, missed, closing, todo>>
      PROVE  ClosuresKept(c)
  BY <1>0, <1>1 DEF GoOn, ClosuresKept
<1>2. ASSUME Return(c), pc[c] \notin Statuses, UNCHANGED <<override, missed, closing, todo>>
      PROVE  ClosuresKept(c)
  BY <1>1, <1>2 DEF Return
<1>3. ASSUME Beginning(c) PROVE Closure(c) \/ ClosuresKept(c)
  <2>1. ASSUME NEW t \in Teams, RequestNext(c, t) \/ StartRead(c, t)
        PROVE  ClosuresKept(c)
    BY <2>1, <1>1 DEF RequestNext, StartRead, Begin, Idle
  <2>2. ASSUME NEW t \in Teams, PollRead(c, t) PROVE ClosuresKept(c)
    <3>1. PICK k, next : GoOn(c, "persist", t, k, {}, next)
      BY <2>2 DEF PollRead, SweepInFlight
    <3> QED
      BY <1>1, <2>2, <3>1 DEF PollRead, Begin, Idle
  <2>3. ASSUME NEW t \in Teams, SkipStage(c, t) PROVE ClosuresKept(c)
    <3>1. PICK K : GoOn(c, "release", t, NoTask, K, "return")
      BY <2>3 DEF SkipStage
    <3>2. Idle(c) /\ UNCHANGED <<override, missed, closing, todo>>
      BY <2>3 DEF SkipStage, Begin
    <3> QED
      BY <1>1, <3>1, <3>2 DEF Idle
  <2>4. ASSUME NEW t \in Teams, NEW k \in Tasks,
               \/ Complete(c, t, k) \/ SkipTaskOpen(c, t, k)
               \/ CheckOut(c, t, k) \/ ForceRead(c, t, k)
        PROVE  ClosuresKept(c)
    BY <2>4, <1>1 DEF Complete, SkipTaskOpen, CheckOut, ForceRead, Begin, Idle
  <2> QED
    BY <1>3, <2>1, <2>2, <2>3, <2>4 DEF Beginning, Closure
<1>4. ASSUME Routing(c) PROVE ClosuresKept(c)
  <2>1. CASE NothingToAssign(c) \/ PersistFails(c) \/ NoCandidate(c) \/ Claim(c)
    BY <2>1, <1>2 DEF NothingToAssign, PersistFails, NoCandidate, Claim
  <2>2. CASE ReadOpen(c)
    BY <1>0, <2>2 DEF ReadOpen, ClosuresKept
  <2>3. CASE SweepRead(c)
    <3>1. PICK k, next : GoOn(c, "persist", team[c], k, {}, next)
      BY <2>3 DEF SweepRead, SweepInFlight
    <3> QED
      BY <1>1, <2>3, <3>1 DEF SweepRead
  <2>4. CASE Persist(c)
    BY <2>4, <1>1 DEF Persist
  <2>5. CASE Reserve(c)
    <3>1. PICK k : GoOn(c, "claim", team[c], k, {k}, "return")
      BY <2>5 DEF Reserve
    <3> QED
      BY <1>1, <2>5, <3>1 DEF Reserve
  <2>6. CASE ClaimRefused(c)
    BY <2>6, <1>1 DEF ClaimRefused
  <2>7. CASE Release(c)
    BY <2>7 DEF Release, ClosuresKept
  <2>8. CASE Released(c)
    <3>1. CASE after[c] = "return"
      BY <1>2, <2>8, <3>1 DEF Released
    <3>2. CASE after[c] # "return"
      <4>1. after[c] \notin Statuses
        BY <1>0
      <4> QED
        BY <1>1, <2>8, <3>2, <4>1 DEF Released
    <3> QED
      BY <3>1, <3>2
  <2> QED
    BY <1>4, <2>1, <2>2, <2>3, <2>4, <2>5, <2>6, <2>7, <2>8 DEF Routing
<1>5. ASSUME Continuing(c) PROVE Closure(c) \/ ClosuresKept(c)
  <2>1. CASE StartWrite(c) \/ ForceClaim(c) \/ ForceUndone(c)
    BY <2>1, <1>1 DEF StartWrite, ForceClaim, ForceUndone
  <2>2. CASE SkipTaskRefused(c) \/ ForceRefused(c)
    BY <2>2, <1>2 DEF SkipTaskRefused, ForceRefused
  <2>3. CASE SkipTask(c)
    <3>1. PICK K : GoOn(c, "release", team[c], NoTask, K, "read")
      BY <2>3 DEF SkipTask
    <3>2. pc[c] = "skip" /\ UNCHANGED <<override, missed, closing, todo>>
      BY <2>3 DEF SkipTask
    <3> QED
      BY <1>1, <3>1, <3>2
  <2>4. CASE ForceTeam(c)
    <3>1. PICK K : GoOn(c, "release", team[c], NoTask, K, "return")
      BY <2>4 DEF ForceTeam
    <3>2. pc[c] = "forceTeam" /\ UNCHANGED <<override, missed, closing, todo>>
      BY <2>4 DEF ForceTeam
    <3> QED
      BY <1>1, <3>1, <3>2
  <2> QED
    BY <1>4, <1>5, <2>1, <2>2, <2>3, <2>4 DEF Continuing, Closure
<1> QED
  BY <1>3, <1>5

\* No write of an older read gets on its way to a team once the mission is
\* closed and gone for it.
LEMMA NoneStrays ==
  ASSUME Typed, NEW c \in Calls, Beginning(c) \/ Continuing(c) \/ Crash(c),
         NEW t \in Teams, NEW k \in Tasks, ~Strays(t, k),
         Elsewhere(c) \/ (Terminal(rec[t][k]) /\ override[k] = "closed")
  PROVE  ~Strays(t, k)'
<1>0. /\ rec \in [Teams -> [Tasks -> RecordStates]] /\ pc \in [Calls -> Steps]
      /\ open \in [Calls -> SUBSET Tasks] /\ draft \in [Calls -> {None} \cup DocCopies]
      /\ team \in [Calls -> Teams \cup {NoTeam}] /\ task \in [Calls -> Tasks \cup {NoTask}]
      /\ after \in [Calls -> {"return", "read", "reserve"}] /\ CallWellFormed(c)
  BY DEF Typed, TypeOK, TeamsTypeOK, CallsTypeOK, CallsWellFormed
<1> DEFINE Stray(d) ==
             /\ team[d] = t
             /\ \/ pc[d] = "claim" /\ task[d] = k
                \/ pc[d] \in {"persist", "start"} /\ ~Terminal(draft[d].rec[k])
<1>1. ASSUME NEW d \in Calls \ {c}, Stray(d)' PROVE FALSE
  <2>1. Undisturbed(c)
    BY BeginningUndisturbed, ContinuingUndisturbed
  <2> QED
    BY <1>1, <2>1 DEF Undisturbed, Strays, Terminal
<1>2. CASE Elsewhere(c)
  BY <1>1, <1>2 DEF Elsewhere, Strays
<1>3. CASE Leading(c) /\ Terminal(rec[t][k]) /\ override[k] = "closed"
  <2>1. ASSUME NEW u \in Teams, StartRead(c, u) PROVE ~Stray(c)'
    <3>1. pc'[c] = "start" /\ team'[c] = u /\ draft'[c].rec = rec[u]
      BY <1>0, <2>1 DEF StartRead, GoOn
    <3> QED
      BY <1>3, <3>1 DEF Terminal
  <2>2. ASSUME NEW u \in Teams, NEW routing \in BOOLEAN, SweepInFlight(c, u, routing)
        PROVE  ~Stray(c)'
    <3>1. /\ pc'[c] = "persist" /\ team'[c] = u
          /\ Terminal(rec[u][k]) => draft'[c].rec[k] = rec[u][k]
      BY <2>2, SweepKeepsStamps
    <3> QED
      BY <1>3, <3>1 DEF Terminal
  <2>3. ASSUME Persist(c) \/ Release(c) \/ Released(c) PROVE ~Stray(c)'
    <3>1. pc'[c] \in {"release", "idle", "close", "read", "reserve"}
      BY <1>0, <2>3 DEF Persist, Release, Released, Return, GoOn
    <3> QED
      BY <3>1
  <2>4. ASSUME ReadOpen(c) PROVE ~Stray(c)'
    <3>1. pc'[c] = "reserve"
      BY <1>0, <2>4 DEF ReadOpen
    <3> QED
      BY <3>1
  <2>5. ASSUME Reserve(c) PROVE ~Stray(c)'
    <3>1. PICK j \in open[c] : Assignable(j) /\ GoOn(c, "claim", team[c], j, {j}, "return")
      BY <2>5 DEF Reserve, Candidates
    <3>2. pc'[c] = "claim" /\ task'[c] = j
      BY <1>0, <3>1 DEF GoOn
    <3> QED
      BY <1>3, <3>1, <3>2 DEF Assignable
  <2>6. ASSUME NEW u \in Teams, PollRead(c, u) PROVE ~Stray(c)'
    BY <2>2, <2>6 DEF PollRead
  <2>7. ASSUME SweepRead(c) PROVE ~Stray(c)'
    BY <1>0, <2>2, <2>7 DEF SweepRead, CallWellFormed
  <2>8. ~Stray(c)'
    BY <1>3, <2>1, <2>3, <2>4, <2>5, <2>6, <2>7 DEF Leading
  <2> QED
    BY <1>1, <2>8 DEF Strays
<1> QED
  BY <1>2, <1>3, WhereCallsGo

\* Mission k is gone for team t, and nothing on its way brings it back.
Gone(t, k) == Terminal(rec[t][k]) /\ active[t] # k /\ ~Strays(t, k)

LEMMA WritesKeepGone ==
  ASSUME Typed, NEW c \in Calls, Writes(c), NEW t \in Teams, NEW k \in Tasks, Gone(t, k)
  PROVE  Terminal(rec'[t][k]) /\ active'[t] # k
<1>0. /\ CallWellFormed(c) /\ NoTask \notin Tasks
      /\ rec \in [Teams -> [Tasks -> RecordStates]]
      /\ active \in [Teams -> Tasks \cup {NoTask}]
      /\ Terminal(rec[t][k]) /\ active[t] # k
  BY ConstantsAssumption DEF Typed, TypeOK, TeamsTypeOK, CallsWellFormed, Gone
<1>1. CASE Persist(c)
  <2>1. /\ rec' = [rec EXCEPT ![team[c]] = draft[c].rec]
        /\ active' = [active EXCEPT ![team[c]] = NoTask]
        /\ team[c] = t => Terminal(draft[c].rec[k])
    BY <1>1 DEF Persist, Gone, Strays
  <2> QED
    BY <1>0, <2>1
<1>2. CASE StartWrite(c)
  <2>1. /\ rec' = [rec EXCEPT ![team[c]] = draft[c].rec] /\ active' = active
        /\ team[c] = t => Terminal(draft[c].rec[k])
    BY <1>2 DEF StartWrite, Gone, Strays
  <2> QED
    BY <1>0, <2>1
<1>3. CASE Claim(c)
  <2>1. PICK u \in Teams, j \in Tasks : u = team[c] /\ j = task[c]
    BY <1>0, <1>3 DEF Claim, CallWellFormed
  <2>2. /\ rec' = [rec EXCEPT ![u][j] = "assigned"]
        /\ active' = [active EXCEPT ![u] = j]
        /\ ~(u = t /\ j = k)
    BY <1>3, <2>1 DEF Claim, Gone, Strays
  <2> QED
    BY <1>0, <2>2
<1>4. ASSUME NEW u \in Teams, NEW j \in Tasks, CheckOut(c, u, j)
      PROVE  Terminal(rec'[t][k]) /\ active'[t] # k
  <2>1. /\ rec' = [rec EXCEPT ![u][j] = "unassigned"] /\ HeldSlot(u, j)
        /\ \E v \in {NoTask, active[u]} : active' = [active EXCEPT ![u] = v]
    BY <1>0, <1>4 DEF CheckOut
  <2>2. ~(u = t /\ j = k)
    BY <1>0, <2>1 DEF HeldSlot, Terminal
  <2> QED
    BY <1>0, <2>1, <2>2
<1>5. CASE Looks(c)
  <2>1. Terminal(rec'[t][k])
    BY <1>0, <1>5, LooksStamp DEF StampsStay
  <2>2. active'[t] # k
    <3>1. CASE SkipTask(c)
      BY <1>0, <3>1 DEF SkipTask
    <3>2. CASE ForceTeam(c)
      <4>1. PICK u \in Teams, j \in Tasks : u = team[c] /\ j = task[c]
        BY <1>0, <3>2 DEF ForceTeam, CallWellFormed
      <4>2. active' = [active EXCEPT ![u] = j] /\ rec[u][j] = "unassigned"
        BY <3>2, <4>1 DEF ForceTeam, CanForce
      <4> QED
        BY <1>0, <4>2 DEF Terminal
    <3>3. ASSUME NEW u \in Teams, SkipStage(c, u) PROVE active'[t] # k
      BY <1>0, <3>3 DEF SkipStage
    <3>4. ASSUME NEW u \in Teams, CloseTeam(c, u) PROVE active'[t] # k
      <4>1. \E v \in {NoTask, active[u]} : active' = [active EXCEPT ![u] = v]
        BY <3>4 DEF CloseTeam
      <4> QED
        BY <1>0, <4>1
    <3>5. ASSUME NEW u \in Teams, NEW j \in Tasks, Complete(c, u, j) PROVE active'[t] # k
      BY <1>0, <3>5 DEF Complete
    <3> QED
      BY <1>5, <3>1, <3>2, <3>3, <3>4, <3>5 DEF Looks
  <2> QED
    BY <2>1, <2>2
<1> QED
  BY <1>1, <1>2, <1>3, <1>4, <1>5 DEF Writes, Looks

\* What is gone of a closed mission stays gone at every step of a call.
LEMMA GoneStays ==
  ASSUME Typed, NEW c \in Calls, Beginning(c) \/ Continuing(c) \/ Crash(c),
         NEW t \in Teams, NEW k \in Tasks, Gone(t, k), override[k] = "closed"
  PROVE  Gone(t, k)'
<1>1. Terminal(rec'[t][k]) /\ active'[t] # k
  BY StepWrites, WritesKeepGone DEF teamVars, Gone
<1>2. ~Strays(t, k)'
  BY NoneStrays DEF Gone
<1> QED
  BY <1>1, <1>2 DEF Gone

\* What a call that may close a mission has in its hands.
StatusReady(c) ==
  /\ Idle(c) => closing[c] = NoTask
  /\ closing[c] = NoTask => todo[c] = {}
  /\ pc[c] \in Statuses => todo[c] = {} /\ closing[c] \in {NoTask, task[c]}
\* Every team has done with a closed mission, is on the list of a call closing
\* it, or was missed.
Accountable(t, k) == t \in missed[k] \/ OnTheList(t, k) \/ Gone(t, k)
ClosuresAccounted ==
  /\ \A c \in Calls : StatusReady(c)
  /\ \A t \in Teams, k \in Tasks : override[k] = "closed" => Accountable(t, k)

\* A step that leaves availabilities and closures alone.
LEMMA KeptAccounted ==
  ASSUME Typed, ClosuresAccounted, NEW c \in Calls, Beginning(c) \/ Continuing(c),
         ClosuresKept(c)
  PROVE  ClosuresAccounted'
<1>1. Undisturbed(c) /\ UNCHANGED <<override, missed, closing, todo>> /\ pc'[c] \notin Statuses
  BY BeginningUndisturbed, ContinuingUndisturbed DEF ClosuresKept
<1>2. Idle(c)' => closing'[c] = NoTask
  <2>1. CASE Beginning(c)
    <3>1. Idle(c)
      BY <2>1 DEF Beginning, RequestNext, PollRead, StartRead, SkipStage, Complete,
                  SkipTaskOpen, CheckOut, ForceRead, SetStatusRead, Begin
    <3> QED
      BY <1>1, <3>1 DEF ClosuresAccounted, StatusReady
  <2>2. CASE Continuing(c)
    BY <2>2, ContinuingUndisturbed DEF Idle
  <2> QED
    BY <2>1, <2>2
<1>3. ASSUME NEW d \in Calls PROVE StatusReady(d)'
  <2>1. CASE d = c
    BY <1>1, <1>2, <2>1 DEF ClosuresAccounted, StatusReady
  <2>2. CASE d # c
    BY <1>1, <2>2 DEF ClosuresAccounted, StatusReady, Undisturbed, Idle
  <2> QED
    BY <2>1, <2>2
<1>4. ASSUME NEW t \in Teams, NEW k \in Tasks, override'[k] = "closed"
      PROVE  Accountable(t, k)'
  <2>1. Accountable(t, k) /\ override[k] = "closed"
    BY <1>1, <1>4 DEF ClosuresAccounted
  <2>2. OnTheList(t, k) => OnTheList(t, k)'
    BY <1>1 DEF OnTheList
  <2>3. Gone(t, k) => Gone(t, k)'
    BY <2>1, GoneStays
  <2> QED
    BY <1>1, <2>1, <2>2, <2>3 DEF Accountable
<1> QED
  BY <1>3, <1>4 DEF ClosuresAccounted

LEMMA StatusAccounted ==
  ASSUME Typed, ClosuresAccounted, NEW c \in Calls,
         \/ \E k \in Tasks, st \in Statuses : SetStatusRead(c, k, st)
         \/ SetStatusWrite(c)
  PROVE  ClosuresAccounted'
<1>0. /\ CallWellFormed(c) /\ NoTask \notin Tasks
      /\ pc \in [Calls -> Steps] /\ task \in [Calls -> Tasks \cup {NoTask}]
      /\ closing \in [Calls -> Tasks \cup {NoTask}] /\ todo \in [Calls -> SUBSET Teams]
      /\ override \in [Tasks -> Statuses] /\ missed \in [Tasks -> SUBSET Teams]
      /\ \A d \in Calls : StatusReady(d)
  BY ConstantsAssumption DEF Typed, TypeOK, RunTypeOK, CallsTypeOK, HistoryTypeOK,
                             CallsWellFormed, ClosuresAccounted
<1>1. Beginning(c) \/ Continuing(c)
  BY DEF Beginning, Continuing
<1>2. Undisturbed(c)
  BY <1>1, BeginningUndisturbed, ContinuingUndisturbed
<1>3. ASSUME NEW d \in Calls \ {c} PROVE StatusReady(d)'
  BY <1>0, <1>2 DEF StatusReady, Undisturbed, Idle
<1>4. todo[c] = {}
  BY <1>0 DEF StatusReady, SetStatusRead, SetStatusWrite
<1>5. ASSUME NEW t \in Teams, NEW k \in Tasks, OnTheList(t, k) PROVE OnTheList(t, k)'
  BY <1>2, <1>4, <1>5 DEF OnTheList, Undisturbed
<1>6. CASE \E k \in Tasks, st \in Statuses : SetStatusRead(c, k, st)
  <2>1. PICK k \in Tasks, st \in Statuses : SetStatusRead(c, k, st)
    BY <1>6
  <2>2. /\ pc'[c] = st /\ task'[c] = k /\ closing'[c] \in {NoTask, k} /\ todo'[c] = {}
        /\ UNCHANGED <<override, missed>>
    BY <1>0, <1>4, <2>1 DEF SetStatusRead, GoOn, runVars, history
  <2>3. StatusReady(c)'
    BY <2>2 DEF StatusReady, Idle, Statuses
  <2>4. ASSUME NEW t \in Teams, NEW j \in Tasks, override'[j] = "closed"
        PROVE  Accountable(t, j)'
    BY <1>1, <1>5, <2>2, <2>4, GoneStays DEF ClosuresAccounted, Accountable
  <2> QED
    BY <1>3, <2>3, <2>4 DEF ClosuresAccounted
<1>7. CASE SetStatusWrite(c)
  <2>1. PICK k \in Tasks : k = task[c]
    BY <1>0, <1>7 DEF SetStatusWrite, CallWellFormed
  <2>2. /\ pc[c] \in Statuses /\ closing' = closing
        /\ pc'[c] = IF closing[c] = NoTask THEN "idle" ELSE "close"
        /\ override' = [override EXCEPT ![k] = pc[c]]
        /\ todo'[c] = IF closing[c] = NoTask THEN {} ELSE Teams
        /\ missed' = [missed EXCEPT ![k] =
               IF pc[c] = "closed" /\ closing[c] = NoTask
               THEN IF override[k] = "closed" THEN missed[k] ELSE Teams
               ELSE {}]
    BY <1>0, <1>7, <2>1 DEF SetStatusWrite, MissedAtWrite, Return, GoOn
  <2>3. StatusReady(c)'
    BY <2>2 DEF StatusReady, Idle, Statuses
  <2>4. ASSUME NEW t \in Teams, NEW j \in Tasks, override'[j] = "closed"
        PROVE  Accountable(t, j)'
    <3>1. CASE j # k \/ (closing[c] = NoTask /\ override[j] = "closed")
      <4>1. override[j] = "closed" /\ missed'[j] = missed[j]
        BY <1>0, <2>2, <2>4, <3>1
      <4> QED
        BY <1>1, <1>5, <4>1, GoneStays DEF ClosuresAccounted, Accountable
    <3>2. CASE j = k /\ closing[c] = NoTask /\ override[j] # "closed"
      BY <1>0, <2>2, <2>4, <3>2 DEF Accountable
    <3>3. CASE j = k /\ closing[c] # NoTask
      <4>1. closing'[c] = k /\ t \in todo'[c]
        BY <1>0, <2>1, <2>2, <3>3 DEF StatusReady
      <4> QED
        BY <3>3, <4>1 DEF Accountable, OnTheList
    <3> QED
      BY <3>1, <3>2, <3>3
  <2> QED
    BY <1>3, <2>3, <2>4 DEF ClosuresAccounted
<1> QED
  BY <1>6, <1>7

LEMMA VisitAccounted ==
  ASSUME Typed, ClosuresAccounted, NEW c \in Calls, NEW u \in Teams,
         CloseTeam(c, u) \/ CloseSkips(c, u)
  PROVE  ClosuresAccounted'
<1>0. /\ CallWellFormed(c) /\ NoTask \notin Tasks
      /\ pc \in [Calls -> Steps]
      /\ closing \in [Calls -> Tasks \cup {NoTask}] /\ todo \in [Calls -> SUBSET Teams]
      /\ missed \in [Tasks -> SUBSET Teams]
      /\ rec \in [Teams -> [Tasks -> RecordStates]]
      /\ active \in [Teams -> Tasks \cup {NoTask}]
      /\ \A d \in Calls : StatusReady(d)
  BY ConstantsAssumption DEF Typed, TypeOK, TeamsTypeOK, CallsTypeOK, HistoryTypeOK,
                             CallsWellFormed, ClosuresAccounted
<1>1. Continuing(c) /\ Undisturbed(c)
  <2>1. Continuing(c)
    BY DEF Continuing
  <2> QED
    BY <2>1, ContinuingUndisturbed
<1>2. PICK j \in Tasks : j = closing[c]
  BY <1>0 DEF CloseTeam, CloseSkips, CallWellFormed
<1>3. /\ pc'[c] \in {"release", "close"} /\ closing' = closing /\ override' = override
      /\ todo'[c] = todo[c] \ {u}
  BY <1>0 DEF CloseTeam, CloseSkips, GoOn, runVars
<1>4. \A d \in Calls : StatusReady(d)'
  <2>1. StatusReady(c)'
    BY <1>0, <1>2, <1>3 DEF StatusReady, Idle, Statuses
  <2> QED
    BY <1>0, <1>1, <2>1 DEF StatusReady, Undisturbed, Idle
<1>5. /\ \A k \in Tasks : missed[k] \subseteq missed'[k]
      /\ u \notin missed'[j] => /\ ~Strays(u, j)
                                /\ CloseSkips(c, u) => Terminal(rec[u][j]) /\ active[u] # j
  BY <1>0, <1>2 DEF CloseTeam, CloseSkips
<1>6. ASSUME u \notin missed'[j] PROVE Gone(u, j)'
  <2>1. Elsewhere(c)
    <3>1. CASE CloseSkips(c, u)
      BY <3>1 DEF CloseSkips, Elsewhere
    <3>2. CASE CloseTeam(c, u)
      <4>1. PICK K, next : GoOn(c, "release", u, NoTask, K, next) /\ next # "reserve"
        BY <3>2 DEF CloseTeam
      <4>2. /\ pc \in [Calls -> Steps]
            /\ after \in [Calls -> {"return", "read", "reserve"}]
        BY DEF Typed, TypeOK, CallsTypeOK
      <4> QED
        BY <4>1, <4>2 DEF GoOn, Elsewhere
    <3> QED
      BY <1>0, <3>1, <3>2
  <2>2. ~Strays(u, j)'
    BY <1>1, <1>5, <1>6, <2>1, NoneStrays
  <2>3. CASE CloseSkips(c, u)
    BY <1>5, <1>6, <2>2, <2>3 DEF CloseSkips, teamVars, Gone, Terminal
  <2>4. CASE CloseTeam(c, u)
    <3>1. PICK n : n = LoweredRequirement(rec[u], StageOf[j], req[u][StageOf[j]], j)
      OBVIOUS
    <3>2. PICK r : r = [rec[u] EXCEPT ![j] = "skipped"]
      OBVIOUS
    <3>3. r \in [Tasks -> RecordStates] /\ r[j] = "skipped"
      BY <1>0, <3>2
    <3>4. rec'[u] = SettleRecords(r, StageOf[j], n) \/ rec'[u] = r
      BY <1>0, <1>2, <2>4, <3>1, <3>2 DEF CloseTeam
    <3>5. SettleRecords(r, StageOf[j], n)[j] = "skipped"
      BY <3>3, SettledStamps DEF Terminal
    <3>6. active'[u] # j
      BY <1>0, <1>2, <2>4 DEF CloseTeam, HeldSlot
    <3> QED
      BY <2>2, <3>3, <3>4, <3>5, <3>6 DEF Gone, Terminal
  <2> QED
    BY <2>3, <2>4
<1>7. ASSUME NEW t \in Teams, NEW k \in Tasks, override'[k] = "closed"
      PROVE  Accountable(t, k)'
  <2>1. CASE t = u /\ k = j
    BY <1>6, <2>1 DEF Accountable
  <2>2. CASE ~(t = u /\ k = j)
    <3>1. OnTheList(t, k) => OnTheList(t, k)'
      <4>1. ASSUME NEW d \in Calls, closing[d] = k, t \in todo[d] PROVE OnTheList(t, k)'
        <5>1. CASE d = c
          BY <1>2, <1>3, <2>2, <4>1, <5>1 DEF OnTheList
        <5>2. CASE d # c
          BY <1>1, <4>1, <5>2 DEF OnTheList, Undisturbed
        <5> QED
          BY <5>1, <5>2
      <4> QED
        BY <4>1 DEF OnTheList
    <3>2. Accountable(t, k) /\ override[k] = "closed"
      BY <1>3, <1>7 DEF ClosuresAccounted
    <3>3. Gone(t, k) => Gone(t, k)'
      BY <1>1, <3>2, GoneStays
    <3> QED
      BY <1>5, <3>1, <3>2, <3>3 DEF Accountable
  <2> QED
    BY <2>1, <2>2
<1> QED
  BY <1>4, <1>7 DEF ClosuresAccounted

\* A closure ends, with nobody left to visit, or dies and misses who is left.
LEMMA EndAccounted ==
  ASSUME Typed, ClosuresAccounted, NEW c \in Calls, CloseDone(c) \/ Crash(c)
  PROVE  ClosuresAccounted'
<1>0. /\ NoTask \notin Tasks /\ pc \in [Calls -> Steps]
      /\ closing \in [Calls -> Tasks \cup {NoTask}] /\ todo \in [Calls -> SUBSET Teams]
      /\ missed \in [Tasks -> SUBSET Teams]
      /\ \A d \in Calls : StatusReady(d)
  BY ConstantsAssumption DEF Typed, TypeOK, CallsTypeOK, HistoryTypeOK, ClosuresAccounted
<1>1. Undisturbed(c) /\ (Continuing(c) \/ Crash(c))
  <2>1. Continuing(c) \/ Crash(c)
    BY DEF Continuing
  <2> QED
    BY <2>1, ContinuingUndisturbed
<1>2. /\ pc'[c] = "idle" /\ closing'[c] = NoTask /\ todo'[c] = {} /\ override' = override
  BY <1>0 DEF CloseDone, Crash, GoOn, runVars
<1>3. \A d \in Calls : StatusReady(d)'
  <2>1. StatusReady(c)'
    BY <1>2 DEF StatusReady, Statuses
  <2> QED
    BY <1>0, <1>1, <2>1 DEF StatusReady, Undisturbed, Idle
<1>4. \A k \in Tasks : missed[k] \subseteq missed'[k]
  BY <1>0 DEF CloseDone, Crash, history
<1>5. ASSUME NEW t \in Teams, NEW k \in Tasks, OnTheList(t, k)
      PROVE  OnTheList(t, k)' \/ t \in missed'[k]
  <2>1. PICK d \in Calls : closing[d] = k /\ t \in todo[d]
    BY <1>5 DEF OnTheList
  <2>2. CASE d = c
    BY <1>0, <2>1, <2>2 DEF CloseDone, Crash
  <2>3. CASE d # c
    BY <1>1, <2>1, <2>3 DEF OnTheList, Undisturbed
  <2> QED
    BY <2>2, <2>3
<1>6. ASSUME NEW t \in Teams, NEW k \in Tasks, override'[k] = "closed"
      PROVE  Accountable(t, k)'
  BY <1>1, <1>2, <1>4, <1>5, <1>6, GoneStays DEF ClosuresAccounted, Accountable
<1> QED
  BY <1>3, <1>6 DEF ClosuresAccounted

LEMMA ClosuresStayAccounted ==
  ASSUME Typed, ClosuresAccounted, [Next]_vars
  PROVE  ClosuresAccounted'
<1>1. ASSUME NEW c \in Calls, Beginning(c) \/ Continuing(c) \/ Crash(c)
      PROVE  ClosuresAccounted'
  BY <1>1, OtherClosures, KeptAccounted, StatusAccounted, VisitAccounted, EndAccounted
     DEF Closure
<1>2. CASE UNCHANGED <<override, rec, active, callVars, missed>>
  BY <1>2 DEF callVars, ClosuresAccounted, StatusReady, Accountable, OnTheList, Gone,
              Strays, Idle, Terminal
<1>3. CASE UNCHANGED vars
  BY <1>2, <1>3 DEF vars, runVars, teamVars, history
<1>4. ASSUME NEW k \in Tasks, Expire(k) PROVE ClosuresAccounted'
  BY <1>2, <1>4 DEF Expire, teamVars, history
<1>5. CASE FinalizeRead \/ FinalizeWrite
  BY <1>2, <1>5 DEF FinalizeRead, FinalizeWrite, teamVars, history
<1> QED
  BY <1>1, <1>3, <1>4, <1>5 DEF Next

\* Whatever calls overlap a closure, fail or die: while a mission is closed, a
\* team that still has it is one the closure has still to visit or missed, and
\* no later step of routing, force-assignment, starts or sweeps hands it out
\* again to any other team (closeTaskForAllTeams, assignTask, claimSpecificTask).
THEOREM ClosuresHold == Spec => []ClosedMeansGone
<1> DEFINE Inv == Typed /\ ClosuresAccounted
<1>1. Init => Inv
  BY InitialTypes DEF Init, Typed, ClosuresAccounted, StatusReady, Statuses
<1>2. Inv /\ [Next]_vars => Inv'
  BY TypedIsInductive, ClosuresStayAccounted
<1>3. Inv => ClosedMeansGone
  BY DEF ClosuresAccounted, Accountable, Gone, ClosedMeansGone
<1> QED
  BY <1>1, <1>2, <1>3, PTL DEF Spec


=============================================================================
