--------------------------- MODULE RunEntryProofs ---------------------------
(***************************************************************************)
(* Theorems about RunEntry, for any phones, calls, kinds of run and limits:*)
(* its types hold, the device allowance of a team with them; no team plays *)
(* before its guardian consented; a closure that has returned leaves the   *)
(* mission open only in the teams it missed; a run passes its limit by no  *)
(* more than the joins under way at once; and, where a phone joins by one  *)
(* call at a time, every team is counted once.                             *)
(***************************************************************************)
EXTENDS RunEntry, FiniteSetTheorems, TLAPS

(* What a call has in its hands.  The teams a start is about to launch     *)
(* were let through by the consent gate, which nothing undoes.             *)
JoinType   == [kind : {"join"}, pc : {"capacity", "create", "count"}, phone : Phones,
               launch : BOOLEAN, closed : BOOLEAN]
AttachType == [kind : {"attach"}, pc : {"commit"}, phone : Phones, team : Phones]
StartType  == [kind : {"start"}, pc : {"batch", "stamp"}, stamp : BOOLEAN,
               targets : UNION {[S -> BOOLEAN] : S \in SUBSET Phones}]
ListType   == [kind : {"close"}, pc : {"list"}]
SweepType  == [kind : {"close"}, pc : {"teams"}, left : SUBSET Phones]

HandsOK(r) ==
  \/ r \in [kind : {"none"}] \cup ListType
  \/ r \in SweepType /\ r.left \subseteq DOMAIN teams
  \/ r \in AttachType /\ r.team \in DOMAIN teams
  \/ r \in JoinType /\ (r.launch => ~setup.consent)
  \/ /\ r \in StartType
     /\ \A t \in DOMAIN r.targets : t \in DOMAIN teams /\ IsConsentSatisfied(t)

CallsOK == DOMAIN call = Calls /\ \A c \in Calls : HandsOK(call[c])

EntryInv ==
  /\ TypeOK
  /\ CallsOK
  /\ ConsentBeforePlay
  /\ ghost.uncounted <= ghost.faults

(* Teams stay, and so does a consent that was given. *)
ConsentStays ==
  /\ setup' = setup
  /\ DOMAIN teams \subseteq DOMAIN teams'
  /\ \A t \in DOMAIN teams : teams[t].consented => teams'[t].consented

LEMMA SetupType ==
  ASSUME setup \in Setups
  PROVE  /\ setup.consent \in BOOLEAN /\ setup.test \in BOOLEAN /\ setup.auto \in BOOLEAN
         /\ setup.instant \in BOOLEAN /\ setup.people \in Nat
         /\ setup.instant => ~setup.consent
  BY SetupsAssumption DEF SetupsAssumption

LEMMA AllowanceType ==
  ASSUME setup \in Setups
  PROVE  Allowance \in Nat /\ Allowance >= 1
  BY SetupType, DevicesAssumption DEF DevicesAssumption, Allowance

(* A step of one call leaves the hands of the others as they were. *)
LEMMA OneCallMoves ==
  ASSUME CallsOK, ConsentStays, NEW c \in Calls, NEW r,
         call' = [call EXCEPT ![c] = r], HandsOK(call[c])'
  PROVE  CallsOK'
<1>1. DOMAIN call' = Calls /\ \A x \in Calls \ {c} : call'[x] = call[x]
  BY DEF CallsOK
<1>2. ASSUME NEW x \in Calls \ {c} PROVE HandsOK(call[x])'
  <2>1. HandsOK(call[x]) /\ call'[x] = call[x]
    BY <1>1 DEF CallsOK
  <2> QED BY <2>1 DEF HandsOK, ConsentStays, IsConsentSatisfied
<1> QED BY <1>1, <1>2 DEF CallsOK

LEMMA CallMoves ==
  ASSUME CallsOK, NEW c \in Calls, NEW r, call' = [call EXCEPT ![c] = r],
         HandsOK(r), UNCHANGED <<setup, teams>>
  PROVE  CallsOK'
<1>1. ConsentStays
  BY DEF ConsentStays
<1>2. call'[c] = r
  BY DEF CallsOK
<1>3. HandsOK(call[c])'
  BY <1>2 DEF HandsOK, IsConsentSatisfied
<1> QED BY <1>1, <1>3, OneCallMoves

LEMMA CallsStand ==
  ASSUME CallsOK, ConsentStays, UNCHANGED call
  PROVE  CallsOK'
  BY DEF CallsOK, HandsOK, ConsentStays, IsConsentSatisfied

LEMMA CallEnds ==
  ASSUME CallsOK, NEW c \in Calls, ConsentStays, End(c)
  PROVE  CallsOK'
<1>1. HandsOK(call[c])'
  BY DEF HandsOK, End, CallsOK
<1> QED BY <1>1, OneCallMoves DEF End

(* The team documents a step may leave. *)
TeamsOK ==
  /\ DOMAIN teams \subseteq Phones
  /\ \A t \in DOMAIN teams :
       /\ teams[t] \in TeamType
       /\ {t, teams[t].controller} \subseteq teams[t].phones
       /\ Cardinality(teams[t].phones) <= Allowance

GhostOK ==
  /\ ghost \in [uncounted : 0 .. MaxFaults, swept : BOOLEAN, missed : SUBSET Phones,
                faults : 0 .. MaxFaults]
  /\ ghost.uncounted <= ghost.faults

LEMMA InitInv == Init => EntryInv
<1> SUFFICES ASSUME Init PROVE EntryInv
  OBVIOUS
<1>1. setup \in Setups
  BY DEF Init
<1>2. \A p : Cardinality({p}) = 1
  BY FS_Singleton
<1>3. PICK founder \in Phones :
        teams = [p \in (IF setup.instant THEN {founder} ELSE {}) |-> NewTeam(p, TRUE, FALSE)]
  BY DEF Init
<1>4. \A t \in DOMAIN teams :
        setup.instant /\ t \in Phones /\ teams[t] = NewTeam(t, TRUE, FALSE)
  BY <1>3
<1>5. \A t \in DOMAIN teams : Cardinality(teams[t].phones) <= Allowance
  BY <1>1, <1>2, <1>4, AllowanceType DEF NewTeam
<1>6. \A t \in DOMAIN teams :
        teams[t] \in TeamType /\ {t, teams[t].controller} \subseteq teams[t].phones
  <2> TAKE t \in DOMAIN teams
  <2>1. teams[t] = NewTeam(t, TRUE, FALSE) /\ t \in Phones /\ {t} \in SUBSET Phones
    BY <1>4
  <2> QED BY <2>1 DEF TeamType, NewTeam
<1>7. ConsentBeforePlay
  BY <1>1, <1>4, SetupType DEF ConsentBeforePlay, IsConsentSatisfied
<1>8. CallsOK
  BY DEF Init, CallsOK, HandsOK
<1>9. run \in RunType
  BY DEF Init, RunType
<1>10. /\ consents \in [tokens : SUBSET Phones, alone : SUBSET (Phones \ DOMAIN teams)]
       /\ ghost \in [uncounted : 0 .. MaxFaults, swept : BOOLEAN, missed : SUBSET Phones,
                     faults : 0 .. MaxFaults]
       /\ ghost.uncounted <= ghost.faults
  BY DevicesAssumption DEF Init, DevicesAssumption
<1> QED
  BY <1>1, <1>4, <1>5, <1>6, <1>7, <1>8, <1>9, <1>10 DEF EntryInv, TypeOK

(* Joining: the phone founds a team of one. *)
LEMMA JoinReadInv ==
  ASSUME EntryInv, NEW c \in Calls, NEW p \in Phones, JoinRead(c, p)
  PROVE  EntryInv'
<1> DEFINE r == [kind |-> "join", pc |-> "capacity", phone |-> p,
                 launch |-> SelfStarts, closed |-> run.closed]
<1>1. SelfStarts \in BOOLEAN /\ (SelfStarts => ~setup.consent)
  BY SetupType DEF SelfStarts, IsLate, EntryInv, TypeOK
<1>2. HandsOK(r)
  BY <1>1 DEF HandsOK, JoinType, EntryInv, TypeOK, RunType
<1>3. CallsOK'
  BY <1>2, CallMoves DEF JoinRead, Begin, EntryInv
<1> QED
  BY <1>3 DEF JoinRead, EntryInv, TypeOK, ConsentBeforePlay, IsConsentSatisfied, Allowance

LEMMA JoinHands ==
  ASSUME CallsOK, NEW c \in Calls, call[c].kind = "join"
  PROVE  call[c] \in JoinType /\ (call[c].launch => ~setup.consent)
  BY DEF CallsOK, HandsOK, AttachType, ListType, SweepType, StartType

LEMMA JoinCapacityInv ==
  ASSUME EntryInv, NEW c \in Calls, JoinCapacity(c)
  PROVE  EntryInv'
<1>1. HandsOK([call[c] EXCEPT !.pc = "create"])
  BY JoinHands DEF HandsOK, JoinType, JoinCapacity, At, EntryInv
<1>2. CASE Goto(c, "create")
  <2>1. call' = [call EXCEPT ![c] = [call[c] EXCEPT !.pc = "create"]]
    BY <1>2 DEF Goto
  <2>2. CallsOK'
    BY <1>1, <2>1, CallMoves DEF JoinCapacity, EntryInv
  <2> QED
    BY <2>2 DEF JoinCapacity, EntryInv, TypeOK, ConsentBeforePlay, IsConsentSatisfied, Allowance
<1>3. CASE End(c)
  <2>1. CallsOK'
    BY <1>3, CallEnds DEF JoinCapacity, EntryInv, ConsentStays
  <2> QED
    BY <2>1 DEF JoinCapacity, EntryInv, TypeOK, ConsentBeforePlay, IsConsentSatisfied, Allowance
<1> QED BY <1>2, <1>3 DEF JoinCapacity

LEMMA JoinCreateInv ==
  ASSUME EntryInv, NEW c \in Calls, JoinCreate(c)
  PROVE  EntryInv'
<1> DEFINE p == call[c].phone
<1>1. CASE p \in DOMAIN teams \cup consents.alone
  <2>1. CallsOK'
    BY <1>1, CallEnds DEF JoinCreate, EntryInv, ConsentStays
  <2> QED
    BY <1>1, <2>1 DEF JoinCreate, EntryInv, TypeOK, ConsentBeforePlay, IsConsentSatisfied, Allowance
<1>2. CASE p \notin DOMAIN teams \cup consents.alone
  <2> DEFINE new == NewTeam(p, call[c].launch, call[c].closed)
  <2>1. /\ teams' = [t \in DOMAIN teams \cup {p} |-> IF t = p THEN new ELSE teams[t]]
        /\ Goto(c, "count")
        /\ UNCHANGED <<setup, run, consents, ghost>>
    BY <1>2 DEF JoinCreate
  <2>2. call[c] \in JoinType /\ (call[c].launch => ~setup.consent)
    BY JoinHands DEF JoinCreate, At, EntryInv
  <2>3. /\ DOMAIN teams' = DOMAIN teams \cup {p}
        /\ teams'[p] = new
        /\ \A t \in DOMAIN teams : teams'[t] = teams[t]
    BY <1>2, <2>1
  <2>4. ConsentStays
    BY <2>1, <2>3 DEF ConsentStays
  <2>5. CallsOK'
    <3>1. call'[c] = [call[c] EXCEPT !.pc = "count"]
      BY <2>1 DEF Goto, EntryInv, CallsOK
    <3>2. HandsOK(call[c])'
      BY <2>1, <2>2, <3>1 DEF HandsOK, JoinType
    <3> QED BY <2>1, <2>4, <3>2, OneCallMoves DEF Goto, EntryInv
  <2>6. TeamsOK'
    <3>1. Cardinality({p}) <= Allowance
      BY FS_Singleton, AllowanceType DEF EntryInv, TypeOK
    <3>2. /\ new \in TeamType
          /\ {p, new.controller} \subseteq new.phones
          /\ Cardinality(new.phones) <= Allowance
      BY <2>2, <3>1 DEF NewTeam, TeamType, JoinType
    <3>3. Allowance' = Allowance
      BY <2>1 DEF Allowance
    <3>4. p \in Phones
      BY <2>2 DEF JoinType
    <3> QED BY <2>3, <3>2, <3>3, <3>4 DEF TeamsOK, EntryInv, TypeOK
  <2>7. ConsentBeforePlay'
    BY <2>1, <2>2, <2>3 DEF ConsentBeforePlay, IsConsentSatisfied, EntryInv, NewTeam
  <2>8. consents' \in [tokens : SUBSET Phones, alone : SUBSET (Phones \ DOMAIN teams')]
    BY <1>2, <2>1, <2>3 DEF EntryInv, TypeOK
  <2> QED
    BY <2>1, <2>3, <2>5, <2>6, <2>7, <2>8 DEF EntryInv, TypeOK, TeamsOK
<1> QED BY <1>1, <1>2

LEMMA JoinCountInv ==
  ASSUME EntryInv, NEW c \in Calls, JoinCount(c)
  PROVE  EntryInv'
<1>1. CallsOK'
  BY CallEnds DEF JoinCount, EntryInv, ConsentStays
<1>2. run' \in RunType
  <2>1. run \in RunType
    BY DEF EntryInv, TypeOK
  <2>2. run.participants + 1 \in Nat /\ run.devices + 1 \in Nat
    BY <2>1 DEF RunType
  <2> QED BY <2>1, <2>2 DEF JoinCount, RunType
<1> QED
  BY <1>1, <1>2 DEF JoinCount, EntryInv, TypeOK, ConsentBeforePlay, IsConsentSatisfied, Allowance

-----------------------------------------------------------------------------
(* A step that leaves the teams alone. *)
LEMMA TeamsAlone ==
  ASSUME EntryInv, UNCHANGED <<setup, teams>>, CallsOK', run' \in RunType,
         consents' \in [tokens : SUBSET Phones, alone : SUBSET (Phones \ DOMAIN teams)],
         GhostOK'
  PROVE  EntryInv'
  BY DEF EntryInv, TypeOK, GhostOK, ConsentBeforePlay, IsConsentSatisfied, Allowance

(* A step that rewrites teams there already were. *)
LEMMA TeamsRewritten ==
  ASSUME EntryInv, TeamsOK', CallsOK', ConsentBeforePlay', DOMAIN teams' = DOMAIN teams,
         run' \in RunType, UNCHANGED <<setup, consents>>, GhostOK'
  PROVE  EntryInv'
  BY DEF EntryInv, TypeOK, TeamsOK, GhostOK

(* One team rewritten. *)
LEMMA OneTeamRewritten ==
  ASSUME EntryInv, NEW t \in DOMAIN teams, NEW doc, teams' = [teams EXCEPT ![t] = doc],
         UNCHANGED setup, doc \in TeamType, {t, doc.controller} \subseteq doc.phones,
         Cardinality(doc.phones) <= Allowance,
         doc.launched => teams[t].launched, teams[t].consented => doc.consented
  PROVE  TeamsOK' /\ ConsentBeforePlay' /\ ConsentStays /\ DOMAIN teams' = DOMAIN teams
<1>1. /\ DOMAIN teams' = DOMAIN teams
      /\ teams'[t] = doc
      /\ \A u \in DOMAIN teams \ {t} : teams'[u] = teams[u]
  OBVIOUS
<1>2. Allowance' = Allowance
  BY DEF Allowance
<1>3. TeamsOK'
  BY <1>1, <1>2 DEF TeamsOK, EntryInv, TypeOK
<1>4. ConsentBeforePlay' /\ ConsentStays
  BY <1>1 DEF ConsentBeforePlay, ConsentStays, IsConsentSatisfied, EntryInv
<1> QED BY <1>1, <1>3, <1>4

LEMMA AttachReadInv ==
  ASSUME EntryInv, NEW c \in Calls, NEW p \in Phones, NEW t \in Phones, AttachRead(c, p, t)
  PROVE  EntryInv'
<1>1. HandsOK([kind |-> "attach", pc |-> "commit", phone |-> p, team |-> t])
  BY DEF HandsOK, AttachType, AttachRead
<1>2. CallsOK'
  BY <1>1, CallMoves DEF AttachRead, Begin, EntryInv
<1> QED
  BY <1>2, TeamsAlone DEF AttachRead, EntryInv, TypeOK, GhostOK

(* The phone that is added finds room in its team. *)
LEMMA AttachCommitInv ==
  ASSUME EntryInv, NEW c \in Calls, AttachCommit(c)
  PROVE  EntryInv'
<1> DEFINE t == call[c].team
           p == call[c].phone
<1>1. CASE ~CanAttach(t, p)
  <2>1. CallsOK'
    BY <1>1, CallEnds DEF AttachCommit, EntryInv, ConsentStays
  <2> QED
    BY <1>1, <2>1, TeamsAlone DEF AttachCommit, EntryInv, TypeOK, GhostOK
<1>2. CASE CanAttach(t, p)
  <2> DEFINE doc == [teams[t] EXCEPT !.phones = @ \cup {p}]
  <2>1. /\ teams' = [teams EXCEPT ![t] = doc]
        /\ run' = [run EXCEPT !.devices = @ + 1]
        /\ End(c) \/ UNCHANGED call
        /\ UNCHANGED <<setup, consents>>
    BY <1>2 DEF AttachCommit, Attached
  <2>2. GhostOK'
    BY <1>2, DevicesAssumption DEF AttachCommit, EntryInv, TypeOK, GhostOK, DevicesAssumption
  <2>3. p \in Phones /\ t \in DOMAIN teams
    BY DEF AttachCommit, At, EntryInv, CallsOK, HandsOK, JoinType, AttachType, ListType,
           SweepType, StartType
  <2>4. Cardinality(teams[t].phones \cup {p}) <= Allowance
    <3>1. IsFiniteSet(teams[t].phones)
      BY <2>3, FS_Subset, PhonesAssumption DEF PhonesAssumption, EntryInv, TypeOK, TeamType
    <3>2. /\ Cardinality(teams[t].phones) \in Nat
          /\ Cardinality(teams[t].phones \cup {p}) = Cardinality(teams[t].phones) + 1
      BY <1>2, <3>1, FS_AddElement, FS_CardinalityType DEF CanAttach
    <3> QED BY <1>2, <3>2, AllowanceType DEF CanAttach, EntryInv, TypeOK
  <2>5. /\ doc \in TeamType
        /\ {t, doc.controller} \subseteq doc.phones
        /\ doc.phones = teams[t].phones \cup {p}
        /\ doc.launched = teams[t].launched /\ doc.consented = teams[t].consented
    BY <2>3 DEF EntryInv, TypeOK, TeamType
  <2>6. TeamsOK' /\ ConsentBeforePlay' /\ ConsentStays /\ DOMAIN teams' = DOMAIN teams
    BY <2>1, <2>3, <2>4, <2>5, OneTeamRewritten
  <2>7. CallsOK'
    <3>1. CASE End(c)
      BY <2>6, <3>1, CallEnds DEF EntryInv
    <3>2. CASE UNCHANGED call
      BY <2>6, <3>2, CallsStand DEF EntryInv
    <3> QED BY <2>1, <3>1, <3>2
  <2>8. run' \in RunType
    <3>1. run \in RunType /\ run.devices + 1 \in Nat
      BY DEF EntryInv, TypeOK, RunType
    <3> QED BY <2>1, <3>1 DEF RunType
  <2> QED
    BY <2>1, <2>2, <2>6, <2>7, <2>8, TeamsRewritten
<1> QED BY <1>1, <1>2

LEMMA ControllerInv ==
  ASSUME EntryInv, NEW t \in DOMAIN teams, NEW q \in teams[t].phones,
         teams' = [teams EXCEPT ![t].controller = q], UNCHANGED <<setup, run, consents, call, ghost>>
  PROVE  EntryInv'
<1> DEFINE doc == [teams[t] EXCEPT !.controller = q]
<1>1. /\ doc \in TeamType
      /\ {t, doc.controller} \subseteq doc.phones
      /\ doc.phones = teams[t].phones
      /\ doc.launched = teams[t].launched /\ doc.consented = teams[t].consented
  BY DEF EntryInv, TypeOK, TeamType
<1>2. Cardinality(doc.phones) <= Allowance
  BY <1>1 DEF EntryInv, TypeOK
<1>3. TeamsOK' /\ ConsentBeforePlay' /\ ConsentStays /\ DOMAIN teams' = DOMAIN teams
  BY <1>1, <1>2, OneTeamRewritten
<1>4. CallsOK'
  BY <1>3, CallsStand DEF EntryInv
<1> QED
  BY <1>3, <1>4, TeamsRewritten DEF EntryInv, TypeOK, GhostOK

LEMMA RequestInv ==
  ASSUME EntryInv, NEW p \in Phones, RequestGuardianConsent(p)
  PROVE  EntryInv'
<1>1. CallsOK'
  BY CallsStand DEF EntryInv, RequestGuardianConsent, ConsentStays
<1> QED
  BY <1>1, TeamsAlone DEF RequestGuardianConsent, EntryInv, TypeOK, GhostOK

(* Consent is granted, never withdrawn. *)
LEMMA GrantInv ==
  ASSUME EntryInv, NEW p \in Phones, GrantGuardianConsent(p)
  PROVE  EntryInv'
<1>1. CASE p \in DOMAIN teams
  <2> DEFINE doc == [teams[p] EXCEPT !.consented = TRUE]
  <2>1. /\ doc \in TeamType
        /\ {p, doc.controller} \subseteq doc.phones
        /\ doc.phones = teams[p].phones
        /\ doc.launched = teams[p].launched /\ doc.consented
    BY <1>1 DEF EntryInv, TypeOK, TeamType
  <2>2. Cardinality(doc.phones) <= Allowance
    BY <1>1, <2>1 DEF EntryInv, TypeOK
  <2>3. teams' = [teams EXCEPT ![p] = doc] /\ UNCHANGED <<setup, run, call, ghost>>
    BY <1>1 DEF GrantGuardianConsent
  <2>4. TeamsOK' /\ ConsentBeforePlay' /\ ConsentStays /\ DOMAIN teams' = DOMAIN teams
    BY <1>1, <2>1, <2>2, <2>3, OneTeamRewritten
  <2>5. CallsOK'
    BY <2>3, <2>4, CallsStand DEF EntryInv
  <2>6. consents' \in [tokens : SUBSET Phones, alone : SUBSET (Phones \ DOMAIN teams)]
    BY <1>1 DEF GrantGuardianConsent, EntryInv, TypeOK
  <2> QED
    BY <2>3, <2>4, <2>5, <2>6 DEF EntryInv, TypeOK, TeamsOK, GhostOK
<1>2. CASE p \notin DOMAIN teams
  <2>1. CallsOK'
    BY <1>2, CallsStand DEF EntryInv, GrantGuardianConsent, ConsentStays
  <2>2. consents' \in [tokens : SUBSET Phones, alone : SUBSET (Phones \ DOMAIN teams)]
    BY <1>2 DEF GrantGuardianConsent, EntryInv, TypeOK
  <2> QED
    BY <1>2, <2>1, <2>2, TeamsAlone DEF GrantGuardianConsent, EntryInv, TypeOK, GhostOK
<1> QED
  BY <1>1, <1>2

-----------------------------------------------------------------------------
(* Start picks teams whose guardian has consented; the batch writes them   *)
(* later, but the consent stands.                                          *)
LEMMA StartReadInv ==
  ASSUME EntryInv, NEW c \in Calls, NEW named \in SUBSET DOMAIN teams, StartRead(c, named)
  PROVE  EntryInv'
<1> DEFINE S == Startable \cap named
           targets == [t \in S |-> teams[t].closed]
           r == [kind |-> "start", pc |-> "batch", stamp |-> FirstPress, targets |-> targets]
<1>1. targets \in [S -> BOOLEAN] /\ S \in SUBSET Phones
  BY DEF EntryInv, TypeOK, TeamType
<1>2. \A t \in S : t \in DOMAIN teams /\ IsConsentSatisfied(t)
  BY DEF Startable
<1>3. r \in StartType
  BY <1>1 DEF StartType, FirstPress
<1>4. HandsOK(r)
  BY <1>2, <1>3 DEF HandsOK
<1>5. CallsOK'
  BY <1>4, CallMoves DEF StartRead, Begin, EntryInv
<1> QED
  BY <1>5, TeamsAlone DEF StartRead, EntryInv, TypeOK, GhostOK

(* The teams a start is about to launch, with its copy of their missions.  *)
Targets(c) == call[c].targets

LEMMA StartHands ==
  ASSUME CallsOK, NEW c \in Calls, call[c].kind = "start"
  PROVE  /\ call[c] \in StartType
         /\ \A t \in DOMAIN Targets(c) :
              t \in DOMAIN teams /\ IsConsentSatisfied(t) /\ Targets(c)[t] \in BOOLEAN
<1>1. /\ call[c] \in StartType
      /\ \A t \in DOMAIN Targets(c) : t \in DOMAIN teams /\ IsConsentSatisfied(t)
  BY DEF Targets, CallsOK, HandsOK, JoinType, AttachType, ListType, SweepType
<1>2. PICK S \in SUBSET Phones : Targets(c) \in [S -> BOOLEAN]
  BY <1>1 DEF StartType, Targets
<1> QED BY <1>1, <1>2

(* A team the batch launches keeps its phones and its consent. *)
LEMMA StartBatchEffect ==
  ASSUME EntryInv, NEW c \in Calls, StartBatch(c)
  PROVE  /\ call[c] \in StartType
         /\ DOMAIN teams' = DOMAIN teams
         /\ \A t \in DOMAIN Targets(c) :
              /\ t \in DOMAIN teams /\ IsConsentSatisfied(t)
              /\ teams'[t] \in TeamType /\ teams'[t].closed = Targets(c)[t]
              /\ teams'[t].phones = teams[t].phones
              /\ teams'[t].controller = teams[t].controller
              /\ teams'[t].consented = teams[t].consented
         /\ \A t \in DOMAIN teams \ DOMAIN Targets(c) : teams'[t] = teams[t]
<1>1. /\ call[c] \in StartType
      /\ \A t \in DOMAIN Targets(c) :
           t \in DOMAIN teams /\ IsConsentSatisfied(t) /\ Targets(c)[t] \in BOOLEAN
  BY StartHands DEF StartBatch, At, EntryInv
<1>2. teams' = [t \in DOMAIN teams |->
                  IF t \in DOMAIN Targets(c)
                  THEN [teams[t] EXCEPT !.launched = TRUE, !.closed = Targets(c)[t]]
                  ELSE teams[t]]
  BY DEF StartBatch, Targets
<1>3. /\ DOMAIN teams' = DOMAIN teams
      /\ \A t \in DOMAIN teams \ DOMAIN Targets(c) : teams'[t] = teams[t]
  BY <1>2, Zenon
<1>4. ASSUME NEW t \in DOMAIN Targets(c)
      PROVE  teams'[t] = [teams[t] EXCEPT !.launched = TRUE, !.closed = Targets(c)[t]]
  BY <1>1, <1>2, Zenon
<1>5. \A t \in DOMAIN Targets(c) : teams[t] \in TeamType
  BY <1>1 DEF EntryInv, TypeOK
<1>6. ASSUME NEW t \in DOMAIN Targets(c)
      PROVE  /\ teams'[t] \in TeamType /\ teams'[t].closed = Targets(c)[t]
             /\ teams'[t].phones = teams[t].phones
             /\ teams'[t].controller = teams[t].controller
             /\ teams'[t].consented = teams[t].consented
  <2>1. teams[t] \in TeamType /\ Targets(c)[t] \in BOOLEAN
    BY <1>1, <1>5, Zenon
  <2>2. teams'[t] = [teams[t] EXCEPT !.launched = TRUE, !.closed = Targets(c)[t]]
    BY <1>4, Zenon
  <2>3. PICK d, b, e : d = teams[t] /\ b = Targets(c)[t] /\ e = teams'[t]
    OBVIOUS
  <2>4. d \in TeamType /\ b \in BOOLEAN /\ e = [d EXCEPT !.launched = TRUE, !.closed = b]
    BY <2>1, <2>2, <2>3, Zenon
  <2>5. /\ e \in TeamType /\ e.closed = b
        /\ e.phones = d.phones /\ e.controller = d.controller /\ e.consented = d.consented
    BY <2>4 DEF TeamType
  <2> QED BY <2>3, <2>5, Zenon
<1> QED BY <1>1, <1>3, <1>6, Zenon

LEMMA StartBatchInv ==
  ASSUME EntryInv, NEW c \in Calls, StartBatch(c)
  PROVE  EntryInv'
<1>1. /\ call[c] \in StartType
      /\ \A t \in DOMAIN Targets(c) : t \in DOMAIN teams /\ IsConsentSatisfied(t)
  BY StartBatchEffect
<1>2. /\ DOMAIN teams' = DOMAIN teams
      /\ \A t \in DOMAIN teams \ DOMAIN Targets(c) : teams'[t] = teams[t]
  BY StartBatchEffect
<1>3. \A t \in DOMAIN Targets(c) :
        /\ teams'[t] \in TeamType
        /\ teams'[t].phones = teams[t].phones
        /\ teams'[t].controller = teams[t].controller
        /\ teams'[t].consented = teams[t].consented
  BY StartBatchEffect
<1>4. TeamsOK'
  <2>1. Allowance' = Allowance
    BY DEF StartBatch, Allowance
  <2>2. DOMAIN teams' \subseteq Phones
    BY <1>2 DEF EntryInv, TypeOK
  <2>3. ASSUME NEW t \in DOMAIN teams'
        PROVE  /\ teams'[t] \in TeamType
               /\ {t, teams'[t].controller} \subseteq teams'[t].phones
               /\ Cardinality(teams'[t].phones) <= Allowance
    <3>1. /\ teams[t] \in TeamType
          /\ {t, teams[t].controller} \subseteq teams[t].phones
          /\ Cardinality(teams[t].phones) <= Allowance
      BY <1>2 DEF EntryInv, TypeOK
    <3> QED BY <1>2, <1>3, <3>1
  <2> QED BY <2>1, <2>2, <2>3 DEF TeamsOK
<1>5. ConsentStays /\ setup' = setup
  BY <1>2, <1>3 DEF ConsentStays, StartBatch
<1>6. ConsentBeforePlay'
  <2> SUFFICES ASSUME NEW t \in DOMAIN teams', teams'[t].launched, setup.consent
               PROVE  teams'[t].consented
    BY <1>5 DEF ConsentBeforePlay, IsConsentSatisfied
  <2>1. CASE t \in DOMAIN Targets(c)
    BY <1>1, <1>2, <1>3, <2>1 DEF IsConsentSatisfied
  <2>2. CASE t \notin DOMAIN Targets(c)
    BY <1>2, <2>2 DEF ConsentBeforePlay, IsConsentSatisfied, EntryInv
  <2> QED BY <2>1, <2>2
<1>7. CallsOK'
  <2>1. CASE Goto(c, "stamp")
    <3>1. /\ call' = [call EXCEPT ![c] = [call[c] EXCEPT !.pc = "stamp"]]
          /\ call'[c] = [call[c] EXCEPT !.pc = "stamp"]
      BY <2>1 DEF Goto, EntryInv, CallsOK
    <3>2. call'[c] \in StartType /\ call'[c].targets = Targets(c)
      BY <1>1, <3>1 DEF StartType, Targets
    <3>3. HandsOK(call[c])'
      BY <1>1, <1>5, <3>2 DEF HandsOK, ConsentStays, IsConsentSatisfied
    <3> QED BY <1>5, <3>1, <3>3, OneCallMoves DEF EntryInv
  <2>2. CASE End(c)
    BY <1>5, <2>2, CallEnds DEF EntryInv
  <2> QED BY <2>1, <2>2 DEF StartBatch
<1> QED
  BY <1>2, <1>4, <1>6, <1>7, TeamsRewritten DEF StartBatch, EntryInv, TypeOK, GhostOK

LEMMA StartStampInv ==
  ASSUME EntryInv, NEW c \in Calls, StartStamp(c)
  PROVE  EntryInv'
<1>1. CallsOK'
  BY CallEnds DEF StartStamp, EntryInv, ConsentStays
<1> QED
  BY <1>1, TeamsAlone DEF StartStamp, EntryInv, TypeOK, RunType, GhostOK

(* The clock, and the end of the run. *)
LEMMA RunMovesInv ==
  ASSUME EntryInv, GraceEnds \/ Finish
  PROVE  EntryInv'
<1>1. CallsOK'
  BY CallsStand DEF GraceEnds, Finish, EntryInv, ConsentStays
<1>2. run' \in RunType
  BY DEF GraceEnds, Finish, EntryInv, TypeOK, RunType
<1> QED
  BY <1>1, <1>2, TeamsAlone DEF GraceEnds, Finish, EntryInv, TypeOK, GhostOK

-----------------------------------------------------------------------------
LEMMA FoundingPhones ==
  ASSUME CallsOK
  PROVE  FoundingOpen \subseteq Phones
<1>1. \A d \in Running("join") : call[d].phone \in Phones
  BY JoinHands DEF Running, JoinType
<1> QED
  BY <1>1 DEF FoundingOpen

LEMMA CloseStepsInv ==
  ASSUME EntryInv, NEW c \in Calls, CloseOverride(c) \/ CloseList(c) \/ CloseReturns(c)
  PROVE  EntryInv'
<1>1. CASE CloseOverride(c)
  <2>1. HandsOK([kind |-> "close", pc |-> "list"])
    BY DEF HandsOK, ListType
  <2>2. CallsOK'
    BY <1>1, <2>1, CallMoves DEF CloseOverride, Begin, EntryInv
  <2>3. run' \in RunType
    BY <1>1 DEF CloseOverride, EntryInv, TypeOK, RunType
  <2> QED
    BY <1>1, <2>2, <2>3, TeamsAlone DEF CloseOverride, EntryInv, TypeOK, GhostOK
<1>2. CASE CloseList(c)
  <2>1. HandsOK([kind |-> "close", pc |-> "teams", left |-> DOMAIN teams])
    BY DEF HandsOK, SweepType, EntryInv, TypeOK
  <2>2. CallsOK'
    BY <1>2, <2>1, CallMoves DEF CloseList, EntryInv
  <2>3. GhostOK'
    BY <1>2, FoundingPhones DEF CloseList, EntryInv, TypeOK, GhostOK
  <2> QED
    BY <1>2, <2>2, <2>3, TeamsAlone DEF CloseList, EntryInv, TypeOK
<1>3. CASE CloseReturns(c)
  <2>1. CallsOK'
    BY <1>3, CallEnds DEF CloseReturns, EntryInv, ConsentStays
  <2>2. GhostOK'
    BY <1>3 DEF CloseReturns, EntryInv, TypeOK, GhostOK
  <2> QED
    BY <1>3, <2>1, <2>2, TeamsAlone DEF CloseReturns, EntryInv, TypeOK
<1> QED BY <1>1, <1>2, <1>3

LEMMA SweepHands ==
  ASSUME CallsOK, NEW c \in Calls, At(c, "close", "teams")
  PROVE  call[c] \in SweepType /\ call[c].left \subseteq DOMAIN teams
  BY DEF CallsOK, HandsOK, At, JoinType, AttachType, StartType, ListType

LEMMA CloseTeamInv ==
  ASSUME EntryInv, NEW c \in Calls, NEW t \in Phones, CloseTeam(c, t)
  PROVE  EntryInv'
<1> DEFINE doc == [teams[t] EXCEPT !.closed = TRUE]
           r == [call[c] EXCEPT !.left = @ \ {t}]
<1>1. /\ teams' = [teams EXCEPT ![t] = doc]
      /\ call' = [call EXCEPT ![c] = r]
      /\ UNCHANGED <<setup, run, consents>>
      /\ ghost' = [ghost EXCEPT !.missed = @ \cup ({t} \cap StartingOpen)]
  BY DEF CloseTeam
<1>a. call[c] \in SweepType /\ call[c].left \subseteq DOMAIN teams /\ t \in DOMAIN teams
  BY SweepHands DEF CloseTeam, EntryInv
<1>2. /\ doc \in TeamType
      /\ {t, doc.controller} \subseteq doc.phones
      /\ doc.phones = teams[t].phones
      /\ doc.launched = teams[t].launched /\ doc.consented = teams[t].consented
  BY <1>a DEF EntryInv, TypeOK, TeamType
<1>3. Cardinality(doc.phones) <= Allowance
  BY <1>a, <1>2 DEF EntryInv, TypeOK
<1>4. TeamsOK' /\ ConsentBeforePlay' /\ ConsentStays /\ DOMAIN teams' = DOMAIN teams
  BY <1>a, <1>1, <1>2, <1>3, OneTeamRewritten
<1>5. CallsOK'
  <2>1. r \in SweepType /\ r.left \subseteq DOMAIN teams /\ call'[c] = r
    BY <1>a, <1>1 DEF SweepType, EntryInv, CallsOK
  <2>2. HandsOK(call[c])'
    BY <1>4, <2>1 DEF HandsOK
  <2> QED BY <1>1, <1>4, <2>2, OneCallMoves DEF EntryInv
<1>6. GhostOK'
  BY <1>1 DEF EntryInv, TypeOK, GhostOK
<1> QED
  BY <1>1, <1>4, <1>5, <1>6, TeamsRewritten DEF EntryInv, TypeOK

LEMMA CloseFailsInv ==
  ASSUME EntryInv, NEW c \in Calls, NEW t \in Phones, CloseFails(c, t)
  PROVE  EntryInv'
<1> DEFINE r == [call[c] EXCEPT !.left = @ \ {t}]
<1>1. call[c] \in SweepType /\ call[c].left \subseteq DOMAIN teams
  BY SweepHands DEF CloseFails, EntryInv
<1>2. HandsOK(r)
  BY <1>1 DEF HandsOK, SweepType
<1>3. call' = [call EXCEPT ![c] = r] /\ UNCHANGED <<setup, run, teams, consents>>
  BY DEF CloseFails
<1> HIDE DEF r
<1>4. CallsOK'
  BY <1>2, <1>3, CallMoves DEF EntryInv
<1>5. GhostOK'
  <2>1. /\ ghost.faults + 1 \in 0 .. MaxFaults
        /\ ghost.uncounted <= ghost.faults + 1
    BY DevicesAssumption DEF CloseFails, EntryInv, TypeOK, DevicesAssumption
  <2>2. ghost' = [ghost EXCEPT !.missed = @ \cup {t}, !.faults = @ + 1]
    BY DEF CloseFails
  <2> QED
    BY <2>1, <2>2 DEF EntryInv, TypeOK, GhostOK
<1> QED
  BY <1>3, <1>4, <1>5, TeamsAlone DEF EntryInv, TypeOK

LEMMA DieInv ==
  ASSUME EntryInv, NEW c \in Calls, Die(c)
  PROVE  EntryInv'
<1>1. CallsOK'
  BY CallEnds DEF Die, EntryInv, ConsentStays
<1>2. GhostOK'
  <2> DEFINE more == IF At(c, "join", "count") THEN ghost.uncounted + 1 ELSE ghost.uncounted
  <2>1. /\ ghost.faults < MaxFaults /\ ghost.uncounted <= ghost.faults
        /\ ghost \in [uncounted : 0 .. MaxFaults, swept : BOOLEAN, missed : SUBSET Phones,
                      faults : 0 .. MaxFaults]
        /\ ghost' = [ghost EXCEPT !.faults = @ + 1, !.uncounted = more]
    BY DEF Die, EntryInv, TypeOK
  <2>2. /\ ghost.faults + 1 \in 0 .. MaxFaults
        /\ more \in 0 .. MaxFaults /\ more <= ghost.faults + 1
    BY <2>1, DevicesAssumption DEF DevicesAssumption
  <2> QED BY <2>1, <2>2 DEF GhostOK
<1> QED
  BY <1>1, <1>2, TeamsAlone DEF Die, EntryInv, TypeOK

-----------------------------------------------------------------------------
LEMMA StepInv == EntryInv /\ [Next]_vars => EntryInv'
<1> SUFFICES ASSUME EntryInv, [Next]_vars PROVE EntryInv'
  OBVIOUS
<1>1. ASSUME NEW c \in Calls, Arrive(c) PROVE EntryInv'
  BY <1>1, JoinReadInv, JoinCapacityInv, JoinCreateInv, JoinCountInv, AttachReadInv,
     AttachCommitInv DEF Arrive
<1>2. ASSUME NEW c \in Calls, Organize(c) PROVE EntryInv'
  BY <1>2, StartReadInv, StartBatchInv, StartStampInv, CloseStepsInv, CloseTeamInv,
     CloseFailsInv DEF Organize
<1>3. ASSUME NEW t \in DOMAIN teams, NEW p \in Phones, NEW q \in Phones,
             TransferController(t, p, q) \/ ClaimController(t, p)
      PROVE  EntryInv'
  BY <1>3, ControllerInv DEF TransferController, ClaimController
<1>4. CASE UNCHANGED vars
  <2>1. CallsOK'
    BY <1>4, CallsStand DEF vars, EntryInv, ConsentStays
  <2> QED BY <1>4, <2>1, TeamsAlone DEF vars, EntryInv, TypeOK, GhostOK
<1> QED
  BY <1>1, <1>2, <1>3, <1>4, DieInv, RequestInv, GrantInv, RunMovesInv DEF Next

(* The documents of a run keep their shape and no team ever holds more     *)
(* phones than its allowance, however many phones attach at once and       *)
(* however often a transaction runs again.                                 *)
THEOREM EntryTypes == Spec => []TypeOK
<1>1. EntryInv => TypeOK
  BY DEF EntryInv
<1> QED BY <1>1, InitInv, StepInv, PTL DEF Spec

(* No team plays before its guardian consented, by whatever door it came   *)
(* into play and however joins, starts and consents interleave.            *)
THEOREM ConsentComesFirst == Spec => []ConsentBeforePlay
<1>1. EntryInv => ConsentBeforePlay
  BY DEF EntryInv
<1> QED BY <1>1, InitInv, StepInv, PTL DEF Spec

-----------------------------------------------------------------------------
(* A closure.  There is one at a time; whatever it has not reached yet is  *)
(* in its list, and nothing else has the mission open, in a team or in the *)
(* hands of a join or a start, but what it missed.                         *)
Spared(t, left) == t \in left \cup ghost.missed

HandsClosed(r, left) ==
  /\ r.kind = "join" /\ r.pc \in {"capacity", "create"} =>
       r.closed \/ r.phone \in DOMAIN teams \/ Spared(r.phone, left)
  /\ r.kind = "start" /\ r.pc = "batch" =>
       \A t \in DOMAIN r.targets : r.targets[t] \/ Spared(t, left)

Reached(left) ==
  /\ \A t \in DOMAIN teams : teams[t].closed \/ Spared(t, left)
  /\ \A d \in Calls : HandsClosed(call[d], left)

SweepAlone ==
  \A c \in Calls : call[c].kind = "close" =>
    /\ run.closed /\ ~ghost.swept
    /\ \A d \in Calls \ {c} : call[d].kind # "close"

SweepListed == \A c \in Calls : At(c, "close", "teams") => Reached(call[c].left)

SweptAll == ghost.swept => run.closed /\ Reached({})

SweepInv == SweepAlone /\ SweepListed /\ SweptAll

MissedStay == ghost'.swept = ghost.swept /\ ghost'.missed = ghost.missed

(* What a team or a call may do at any moment of a closure: found a team   *)
(* with the mission closed, unless it was missed, and write back what was  *)
(* closed as closed.                                                       *)
KeepsClosed(r) ==
  \A left \in SUBSET Phones :
    run.closed /\ Reached(left) =>
      /\ \A t \in DOMAIN teams' : teams'[t].closed \/ Spared(t, left)
      /\ HandsClosed(r, left)

LEMMA ReachedMoves ==
  ASSUME CallsOK, NEW c \in Calls, NEW r, call' = [call EXCEPT ![c] = r],
         DOMAIN teams \subseteq DOMAIN teams', MissedStay, KeepsClosed(r),
         NEW left \in SUBSET Phones, run.closed, Reached(left)
  PROVE  Reached(left)'
<1>1. DOMAIN call' = Calls /\ call'[c] = r /\ \A x \in Calls \ {c} : call'[x] = call[x]
  BY DEF CallsOK
<1>2. \A t : Spared(t, left)' = Spared(t, left)
  BY DEF Spared, MissedStay
<1>3. /\ \A t \in DOMAIN teams' : teams'[t].closed \/ Spared(t, left)
      /\ HandsClosed(r, left)
  BY DEF KeepsClosed
<1>4. ASSUME NEW d \in Calls PROVE HandsClosed(call[d], left)'
  <2>1. PICK q : q = call'[d]
    OBVIOUS
  <2>2. HandsClosed(q, left)
    BY <1>1, <1>3, <2>1 DEF Reached
  <2>3. HandsClosed(q, left)'
    BY <1>2, <2>2 DEF HandsClosed
  <2> QED
    BY <2>1, <2>3 DEF HandsClosed
<1> QED
  BY <1>2, <1>3, <1>4 DEF Reached

(* A step of a call that is no closure, before and after. *)
LEMMA OpenMoves ==
  ASSUME CallsOK, SweepInv, MissedStay, run'.closed = run.closed, NEW c \in Calls, NEW r,
         call' = [call EXCEPT ![c] = r], call[c].kind # "close", r.kind # "close",
         DOMAIN teams \subseteq DOMAIN teams', KeepsClosed(r)
  PROVE  SweepInv'
<1>1. DOMAIN call' = Calls /\ call'[c] = r /\ \A x \in Calls \ {c} : call'[x] = call[x]
  BY DEF CallsOK
<1>2. SweepAlone'
  BY <1>1 DEF SweepAlone, SweepInv, MissedStay
<1>3. SweepListed'
  <2> SUFFICES ASSUME NEW d \in Calls, At(d, "close", "teams")' PROVE Reached(call[d].left)'
    BY DEF SweepListed
  <2>1. d # c /\ call'[d] = call[d] /\ At(d, "close", "teams")
    BY <1>1 DEF At
  <2>2. run.closed /\ Reached(call[d].left)
    BY <2>1 DEF SweepInv, SweepAlone, SweepListed, At
  <2>3. call[d] \in SweepType
    BY <2>1, SweepHands
  <2>4. PICK left \in SUBSET Phones : left = call[d].left
    BY <2>3 DEF SweepType
  <2>5. Reached(left)'
    BY <2>2, <2>4, ReachedMoves
  <2> QED
    BY <2>1, <2>4, <2>5 DEF Reached, HandsClosed, Spared
<1>4. SweptAll'
  <2> SUFFICES ASSUME ghost.swept PROVE run.closed /\ Reached({})'
    BY DEF SweptAll, MissedStay
  <2>1. run.closed /\ Reached({})
    BY DEF SweepInv, SweptAll
  <2> QED
    BY <2>1, ReachedMoves
<1> QED
  BY <1>2, <1>3, <1>4 DEF SweepInv

(* A call that ends is in no closure's way. *)
LEMMA CallGone ==
  ASSUME CallsOK, SweepInv, MissedStay, run'.closed = run.closed, UNCHANGED teams,
         NEW c \in Calls, End(c)
  PROVE  SweepInv'
<1> DEFINE none == [kind |-> "none"]
<1>1. DOMAIN call' = Calls /\ call'[c] = none /\ \A x \in Calls \ {c} : call'[x] = call[x]
  BY DEF CallsOK, End
<1>2. SweepAlone'
  BY <1>1 DEF SweepAlone, SweepInv, MissedStay
<1>3. ASSUME NEW left, Reached(left) PROVE Reached(left)'
  <2>1. \A t : Spared(t, left)' = Spared(t, left)
    BY DEF Spared, MissedStay
  <2>2. ASSUME NEW d \in Calls PROVE HandsClosed(call[d], left)'
    <3>1. CASE d = c
      BY <1>1, <3>1 DEF HandsClosed
    <3>2. CASE d # c
      <4>1. HandsClosed(call[d], left) /\ call'[d] = call[d]
        BY <1>1, <1>3, <3>2 DEF Reached
      <4> QED
        BY <2>1, <4>1 DEF HandsClosed
    <3> QED
      BY <3>1, <3>2
  <2> QED
    BY <1>3, <2>1, <2>2 DEF Reached
<1>4. SweepListed'
  <2> SUFFICES ASSUME NEW d \in Calls, At(d, "close", "teams")' PROVE Reached(call[d].left)'
    BY DEF SweepListed
  <2>1. call'[d] = call[d] /\ At(d, "close", "teams")
    BY <1>1 DEF At
  <2>2. Reached(call[d].left)
    BY <2>1 DEF SweepInv, SweepListed
  <2>3. PICK left : left = call[d].left
    OBVIOUS
  <2>4. Reached(left)'
    BY <1>3, <2>2, <2>3
  <2> QED
    BY <2>1, <2>3, <2>4 DEF Reached, HandsClosed, Spared
<1>5. SweptAll'
  BY <1>3 DEF SweepInv, SweptAll, MissedStay
<1> QED
  BY <1>2, <1>4, <1>5 DEF SweepInv

(* The teams change and no call moves. *)
ClosedStays ==
  /\ DOMAIN teams' = DOMAIN teams
  /\ \A t \in DOMAIN teams : teams[t].closed => teams'[t].closed

LEMMA NobodyMoves ==
  ASSUME SweepInv, ClosedStays, MissedStay, run'.closed = run.closed, UNCHANGED call
  PROVE  SweepInv'
<1>1. ASSUME NEW left, Reached(left) PROVE Reached(left)'
  BY <1>1 DEF Reached, HandsClosed, Spared, MissedStay, ClosedStays
<1> QED
  BY <1>1 DEF SweepInv, SweepAlone, SweepListed, SweptAll, At, MissedStay

LEMMA JoinSweep ==
  ASSUME EntryInv, SweepInv, NEW c \in Calls,
         (\E p \in Phones : JoinRead(c, p)) \/ JoinCapacity(c) \/ JoinCreate(c) \/ JoinCount(c)
  PROVE  SweepInv'
<1> USE DEF EntryInv
<1>1. ASSUME NEW p \in Phones, JoinRead(c, p) PROVE SweepInv'
  <2> DEFINE r == [kind |-> "join", pc |-> "capacity", phone |-> p,
                   launch |-> SelfStarts, closed |-> run.closed]
  <2>1. call' = [call EXCEPT ![c] = r] /\ UNCHANGED <<run, teams, ghost>> /\ call[c].kind = "none"
    BY <1>1 DEF JoinRead, Begin
  <2>2. r.kind = "join" /\ r.closed = run.closed
    OBVIOUS
  <2> HIDE DEF r
  <2>3. KeepsClosed(r) /\ MissedStay
    BY <2>1, <2>2 DEF KeepsClosed, Reached, HandsClosed, MissedStay
  <2> QED
    BY <2>1, <2>2, <2>3, OpenMoves
<1>2. ASSUME JoinCapacity(c), Goto(c, "create") PROVE SweepInv'
  <2> DEFINE r == [call[c] EXCEPT !.pc = "create"]
  <2>1. /\ call' = [call EXCEPT ![c] = r] /\ UNCHANGED <<run, teams, ghost>>
        /\ call[c].kind = "join" /\ call[c].pc = "capacity" /\ call[c] \in JoinType
    BY <1>2, JoinHands DEF JoinCapacity, Goto, At
  <2>2. r.kind = "join" /\ r.closed = call[c].closed /\ r.phone = call[c].phone
    BY <2>1 DEF JoinType
  <2> HIDE DEF r
  <2>3. KeepsClosed(r) /\ MissedStay
    BY <2>1, <2>2 DEF KeepsClosed, Reached, HandsClosed, MissedStay
  <2> QED
    BY <2>1, <2>2, <2>3, OpenMoves
<1>3. ASSUME JoinCreate(c), call[c].phone \notin DOMAIN teams \cup consents.alone PROVE SweepInv'
  <2> DEFINE r == [call[c] EXCEPT !.pc = "count"]
  <2>0. PICK p : p = call[c].phone
    OBVIOUS
  <2>1. /\ call' = [call EXCEPT ![c] = r] /\ UNCHANGED <<run, ghost>>
        /\ call[c].kind = "join" /\ call[c].pc = "create" /\ call[c] \in JoinType
        /\ teams' = [t \in DOMAIN teams \cup {p} |->
                       IF t = p THEN NewTeam(p, call[c].launch, call[c].closed) ELSE teams[t]]
    BY <1>3, <2>0, JoinHands DEF JoinCreate, Goto, At
  <2>2. r.kind = "join" /\ r.pc = "count"
    BY <2>1 DEF JoinType
  <2> HIDE DEF r
  <2>3. /\ DOMAIN teams' = DOMAIN teams \cup {p}
        /\ teams'[p].closed = call[c].closed
        /\ \A t \in DOMAIN teams : teams'[t] = teams[t]
    BY <1>3, <2>0, <2>1 DEF NewTeam
  <2>4. KeepsClosed(r) /\ MissedStay
    <3>1. ASSUME NEW left \in SUBSET Phones, Reached(left)
          PROVE  call[c].closed \/ Spared(p, left)
      BY <1>3, <2>0, <2>1, <3>1 DEF Reached, HandsClosed
    <3> QED
      BY <2>1, <2>2, <2>3, <3>1 DEF KeepsClosed, Reached, HandsClosed, MissedStay
  <2> QED
    BY <2>1, <2>2, <2>3, <2>4, OpenMoves
<1>4. ASSUME JoinCapacity(c) \/ JoinCreate(c) \/ JoinCount(c), End(c), UNCHANGED teams
      PROVE  SweepInv'
  BY <1>4, CallGone DEF JoinCapacity, JoinCreate, JoinCount, MissedStay, TypeOK, RunType
<1> QED
  BY <1>1, <1>2, <1>3, <1>4 DEF JoinCapacity, JoinCreate, JoinCount

LEMMA AttachSweep ==
  ASSUME EntryInv, SweepInv, NEW c \in Calls,
         (\E p, t \in Phones : AttachRead(c, p, t)) \/ AttachCommit(c)
  PROVE  SweepInv'
<1> USE DEF EntryInv
<1>1. ASSUME NEW p \in Phones, NEW t \in Phones, AttachRead(c, p, t) PROVE SweepInv'
  <2> DEFINE r == [kind |-> "attach", pc |-> "commit", phone |-> p, team |-> t]
  <2>1. call' = [call EXCEPT ![c] = r] /\ UNCHANGED <<run, teams, ghost>> /\ call[c].kind = "none"
    BY <1>1 DEF AttachRead, Begin
  <2>2. r.kind = "attach"
    OBVIOUS
  <2> HIDE DEF r
  <2>3. KeepsClosed(r) /\ MissedStay
    BY <2>1, <2>2 DEF KeepsClosed, Reached, HandsClosed, MissedStay
  <2> QED
    BY <2>1, <2>2, <2>3, OpenMoves
<1>2. CASE AttachCommit(c)
  <2>1. run'.closed = run.closed /\ MissedStay
    BY <1>2 DEF AttachCommit, MissedStay, TypeOK, RunType, GhostOK
  <2>2. ClosedStays
    <3>1. CASE teams' = teams
      BY <3>1 DEF ClosedStays
    <3>2. CASE teams' = Attached(call[c].team, call[c].phone)
      BY <3>2 DEF Attached, ClosedStays, TypeOK, TeamType
    <3> QED BY <1>2, <3>1, <3>2 DEF AttachCommit
  <2>3. CASE End(c)
    <3> DEFINE none == [kind |-> "none"]
    <3>1. call' = [call EXCEPT ![c] = none] /\ none.kind = "none" /\ call[c].kind = "attach"
      BY <1>2, <2>3 DEF End, AttachCommit, At
    <3> HIDE DEF none
    <3>2. KeepsClosed(none)
      BY <2>2, <3>1 DEF KeepsClosed, Reached, HandsClosed, ClosedStays
    <3> QED
      BY <2>1, <2>2, <3>1, <3>2, OpenMoves DEF ClosedStays
  <2>4. CASE UNCHANGED call
    BY <2>1, <2>2, <2>4, NobodyMoves
  <2> QED BY <1>2, <2>3, <2>4 DEF AttachCommit
<1> QED BY <1>1, <1>2

LEMMA StartSweep ==
  ASSUME EntryInv, SweepInv, NEW c \in Calls,
         (\E named \in SUBSET DOMAIN teams : StartRead(c, named)) \/ StartBatch(c) \/ StartStamp(c)
  PROVE  SweepInv'
<1> USE DEF EntryInv
<1>1. ASSUME NEW named \in SUBSET DOMAIN teams, StartRead(c, named) PROVE SweepInv'
  <2> DEFINE targets == [t \in Startable \cap named |-> teams[t].closed]
             r == [kind |-> "start", pc |-> "batch", stamp |-> FirstPress, targets |-> targets]
  <2>1. call' = [call EXCEPT ![c] = r] /\ UNCHANGED <<run, teams, ghost>> /\ call[c].kind = "none"
    BY <1>1 DEF StartRead, Begin
  <2>2. /\ r.kind = "start"
        /\ \A t \in DOMAIN r.targets : t \in DOMAIN teams /\ r.targets[t] = teams[t].closed
    BY DEF Startable
  <2> HIDE DEF r
  <2>3. KeepsClosed(r) /\ MissedStay
    BY <2>1, <2>2 DEF KeepsClosed, Reached, HandsClosed, MissedStay
  <2> QED
    BY <2>1, <2>2, <2>3, OpenMoves
<1>2. CASE StartBatch(c)
  <2> DEFINE r == [call[c] EXCEPT !.pc = "stamp"]
             none == [kind |-> "none"]
  <2>1. /\ call[c].kind = "start" /\ call[c].pc = "batch" /\ call[c] \in StartType
        /\ UNCHANGED <<run, ghost>>
    BY <1>2, StartHands DEF StartBatch, At
  <2>2. /\ DOMAIN teams' = DOMAIN teams
        /\ \A t \in DOMAIN Targets(c) : teams'[t].closed = Targets(c)[t]
        /\ \A t \in DOMAIN teams \ DOMAIN Targets(c) : teams'[t] = teams[t]
    BY <1>2, StartBatchEffect
  <2>3. ASSUME NEW left \in SUBSET Phones, Reached(left)
        PROVE  \A t \in DOMAIN teams' : teams'[t].closed \/ Spared(t, left)
    <3>1. \A t \in DOMAIN Targets(c) : Targets(c)[t] \/ Spared(t, left)
      BY <2>1, <2>3 DEF Reached, HandsClosed, Targets
    <3>2. \A t \in DOMAIN teams : teams[t].closed \/ Spared(t, left)
      BY <2>3 DEF Reached
    <3> QED
      BY <2>2, <3>1, <3>2
  <2>4. r.kind = "start" /\ r.pc = "stamp" /\ none.kind = "none"
    BY <2>1 DEF StartType
  <2>5. call' = [call EXCEPT ![c] = r] \/ call' = [call EXCEPT ![c] = none]
    BY <1>2 DEF StartBatch, Goto, End
  <2> HIDE DEF r, none
  <2>6. KeepsClosed(r) /\ KeepsClosed(none) /\ MissedStay
    BY <2>1, <2>3, <2>4 DEF KeepsClosed, HandsClosed, MissedStay
  <2> QED
    BY <2>1, <2>2, <2>4, <2>5, <2>6, OpenMoves
<1>3. CASE StartStamp(c)
  BY <1>3, CallGone DEF StartStamp, MissedStay, TypeOK, RunType
<1> QED BY <1>1, <1>2, <1>3

(* What the closure puts on its list is what it has to reach; what is      *)
(* neither there nor in the hands of a start is founded closed or missed.  *)
LEMMA CloseSweep ==
  ASSUME EntryInv, SweepInv, NEW c \in Calls,
         CloseOverride(c) \/ CloseList(c) \/ CloseReturns(c)
  PROVE  SweepInv'
<1> USE DEF EntryInv
<1>0. DOMAIN call = Calls
  BY DEF CallsOK
<1>1. CASE CloseOverride(c)
  <2> DEFINE r == [kind |-> "close", pc |-> "list"]
  <2>1. /\ ~run.closed /\ run'.closed /\ ghost' = ghost
        /\ call' = [call EXCEPT ![c] = r]
    BY <1>1 DEF CloseOverride, Begin, TypeOK, RunType
  <2>2. ~ghost.swept /\ \A d \in Calls : call[d].kind # "close"
    BY <2>1 DEF SweepInv, SweepAlone, SweptAll
  <2>3. call'[c] = r /\ \A d \in Calls \ {c} : call'[d] = call[d]
    BY <1>0, <2>1
  <2>4. SweepAlone' /\ SweepListed'
    BY <2>1, <2>2, <2>3 DEF SweepAlone, SweepListed, At
  <2>5. SweptAll'
    BY <2>1, <2>2 DEF SweptAll
  <2> QED BY <2>4, <2>5 DEF SweepInv
<1>2. CASE CloseList(c)
  <2> DEFINE r == [kind |-> "close", pc |-> "teams", left |-> DOMAIN teams]
  <2>1. /\ call[c].kind = "close" /\ UNCHANGED <<run, teams>>
        /\ call' = [call EXCEPT ![c] = r]
        /\ ghost'.swept = ghost.swept /\ ghost'.missed = FoundingOpen
    BY <1>2 DEF CloseList, At, TypeOK
  <2>2. call'[c] = r /\ \A d \in Calls \ {c} : call'[d] = call[d]
    BY <1>0, <2>1
  <2>3. SweepAlone'
    BY <2>1, <2>2 DEF SweepInv, SweepAlone
  <2>4. ASSUME NEW d \in Calls, d # c PROVE HandsClosed(call[d], DOMAIN teams)'
    <3>1. call'[d] = call[d]
      BY <2>2, <2>4
    <3>2. CASE call[d].kind = "join"
      <4>1. call[d].closed \/ call[d].phone \in DOMAIN teams \/ call[d].phone \in FoundingOpen
        BY <3>2 DEF FoundingOpen, Running
      <4> QED
        BY <2>1, <3>1, <3>2, <4>1 DEF HandsClosed, Spared
    <3>3. CASE call[d].kind = "start"
      <4>1. \A t \in DOMAIN call[d].targets : t \in DOMAIN teams
        BY <3>3, StartHands DEF Targets
      <4> QED
        BY <2>1, <3>1, <3>3, <4>1 DEF HandsClosed, Spared
    <3>4. CASE call[d].kind \notin {"join", "start"}
      BY <3>1, <3>4 DEF HandsClosed
    <3> QED
      BY <3>2, <3>3, <3>4
  <2>5. Reached(DOMAIN teams)'
    <3>1. HandsClosed(call[c], DOMAIN teams)'
      BY <2>2 DEF HandsClosed
    <3>2. \A t \in DOMAIN teams' : Spared(t, DOMAIN teams)'
      BY DEF Spared
    <3> QED
      BY <2>4, <3>1, <3>2 DEF Reached
  <2>6. SweepListed'
    <3> SUFFICES ASSUME NEW d \in Calls, At(d, "close", "teams")' PROVE Reached(call[d].left)'
      BY DEF SweepListed
    <3>1. d = c
      BY <2>1, <2>2 DEF SweepInv, SweepAlone, At
    <3>2. call'[d].left = DOMAIN teams'
      BY <2>1, <2>2, <3>1
    <3> QED
      BY <2>5, <3>2 DEF Reached, HandsClosed, Spared
  <2>7. SweptAll'
    BY <2>1 DEF SweptAll, SweepInv, SweepAlone
  <2> QED BY <2>3, <2>6, <2>7 DEF SweepInv
<1>3. CASE CloseReturns(c)
  <2>1. /\ call[c].kind = "close" /\ At(c, "close", "teams") /\ call[c].left = {}
        /\ call' = [call EXCEPT ![c] = [kind |-> "none"]] /\ UNCHANGED <<run, teams>>
        /\ ghost'.missed = ghost.missed
    BY <1>3 DEF CloseReturns, At, End, TypeOK
  <2>2. call'[c] = [kind |-> "none"] /\ \A d \in Calls \ {c} : call'[d] = call[d]
    BY <1>0, <2>1
  <2>3. /\ run.closed /\ Reached({})
        /\ \A d \in Calls \ {c} : call[d].kind # "close"
    BY <2>1 DEF SweepInv, SweepAlone, SweepListed
  <2>4. SweepAlone' /\ SweepListed'
    BY <2>2, <2>3 DEF SweepAlone, SweepListed, At
  <2>5. ASSUME NEW d \in Calls PROVE HandsClosed(call[d], {})'
    <3>1. CASE d = c
      BY <2>2, <3>1 DEF HandsClosed
    <3>2. CASE d # c
      <4>1. call'[d] = call[d] /\ HandsClosed(call[d], {})
        BY <2>2, <2>3, <3>2 DEF Reached
      <4> QED
        BY <2>1, <4>1 DEF HandsClosed, Spared
    <3> QED
      BY <3>1, <3>2
  <2>6. SweptAll'
    BY <2>1, <2>3, <2>5 DEF SweptAll, Reached, Spared
  <2> QED BY <2>4, <2>6 DEF SweepInv
<1> QED BY <1>1, <1>2, <1>3

(* A team that is reached is closed, and no start brings it back open, or  *)
(* it is missed.                                                           *)
LEMMA CloseTeamSweep ==
  ASSUME EntryInv, SweepInv, NEW c \in Calls, NEW t \in Phones,
         CloseTeam(c, t) \/ CloseFails(c, t)
  PROVE  SweepInv'
<1> USE DEF EntryInv
<1> DEFINE r == [call[c] EXCEPT !.left = @ \ {t}]
<1>1. /\ At(c, "close", "teams") /\ call[c] \in SweepType /\ t \in DOMAIN teams
      /\ call' = [call EXCEPT ![c] = r] /\ run' = run
  BY SweepHands DEF CloseTeam, CloseFails
<1>2. /\ DOMAIN call = Calls /\ call'[c] = r /\ r.kind = "close" /\ r.left = call[c].left \ {t}
      /\ \A d \in Calls \ {c} : call'[d] = call[d]
  BY <1>1 DEF CallsOK, SweepType
<1> HIDE DEF r
<1>3. /\ ghost'.swept = ghost.swept /\ ghost.missed \subseteq ghost'.missed
      /\ DOMAIN teams' = DOMAIN teams
      /\ \A u \in DOMAIN teams \ {t} : teams'[u] = teams[u]
  BY DEF CloseTeam, CloseFails, TypeOK
<1>4. \/ t \in ghost'.missed
      \/ /\ teams'[t].closed
         /\ \A d \in Calls : At(d, "start", "batch") =>
              \A u \in DOMAIN call[d].targets : u = t => call[d].targets[u]
  <2>1. CASE CloseFails(c, t)
    BY <2>1 DEF CloseFails, TypeOK
  <2>2. CASE CloseTeam(c, t)
    <3>1. teams'[t].closed
      BY <1>1, <2>2 DEF CloseTeam, TypeOK, TeamType
    <3>2. t \in StartingOpen => t \in ghost'.missed
      BY <2>2 DEF CloseTeam, TypeOK
    <3>3. ASSUME t \notin StartingOpen, NEW d \in Calls, At(d, "start", "batch"),
                 t \in DOMAIN call[d].targets
          PROVE  call[d].targets[t]
      BY <3>3 DEF StartingOpen
    <3> QED
      BY <3>1, <3>2, <3>3
  <2> QED
    BY <2>1, <2>2
<1>5. PICK left \in SUBSET Phones : left = call[c].left
  BY <1>1 DEF SweepType
<1>6. Reached(left) /\ \A d \in Calls \ {c} : call[d].kind # "close"
  BY <1>1, <1>5 DEF SweepInv, SweepAlone, SweepListed, At
<1>7. \A u : Spared(u, left) => u = t \/ Spared(u, left \ {t})'
  BY <1>3 DEF Spared
<1>8. SweepAlone'
  BY <1>1, <1>2, <1>3 DEF SweepInv, SweepAlone, At
<1>9. ASSUME NEW u \in DOMAIN teams' PROVE teams'[u].closed \/ Spared(u, left \ {t})'
  <2>1. CASE u = t
    BY <1>4, <2>1 DEF Spared
  <2>2. CASE u # t
    BY <1>3, <1>6, <1>7, <2>2 DEF Reached
  <2> QED
    BY <2>1, <2>2
<1>10. ASSUME NEW d \in Calls PROVE HandsClosed(call[d], left \ {t})'
  <2>1. CASE d = c
    BY <1>2, <2>1 DEF HandsClosed
  <2>2. CASE d # c
    <3>1. call'[d] = call[d] /\ HandsClosed(call[d], left)
      BY <1>2, <1>6, <2>2 DEF Reached
    <3>2. CASE call[d].kind = "join"
      BY <1>1, <1>3, <1>7, <3>1, <3>2 DEF HandsClosed
    <3>3. CASE call[d].kind = "start"
      <4>1. ASSUME call[d].pc = "batch", NEW u \in DOMAIN call[d].targets
            PROVE  call[d].targets[u] \/ Spared(u, left \ {t})'
        <5>1. CASE u = t
          BY <1>4, <3>3, <4>1, <5>1 DEF At, Spared
        <5>2. CASE u # t
          BY <1>7, <3>1, <3>3, <4>1, <5>2 DEF HandsClosed
        <5> QED
          BY <5>1, <5>2
      <4> QED
        BY <3>1, <3>3, <4>1 DEF HandsClosed
    <3>4. CASE call[d].kind \notin {"join", "start"}
      BY <3>1, <3>4 DEF HandsClosed
    <3> QED
      BY <3>2, <3>3, <3>4
  <2> QED
    BY <2>1, <2>2
<1>11. SweepListed'
  <2> SUFFICES ASSUME NEW d \in Calls, At(d, "close", "teams")' PROVE Reached(call[d].left)'
    BY DEF SweepListed
  <2>1. d = c
    BY <1>2, <1>6 DEF At
  <2>2. call'[d].left = left \ {t}
    BY <1>2, <1>5, <2>1
  <2>3. Reached(left \ {t})'
    BY <1>9, <1>10 DEF Reached
  <2> QED
    BY <2>2, <2>3 DEF Reached, HandsClosed, Spared
<1>12. SweptAll'
  BY <1>1, <1>3 DEF SweptAll, SweepInv, SweepAlone, At
<1> QED BY <1>8, <1>11, <1>12 DEF SweepInv

LEMMA StillSweep ==
  ASSUME EntryInv, SweepInv,
         \/ \E t \in DOMAIN teams, q \in Phones : teams' = [teams EXCEPT ![t].controller = q]
         \/ \E p \in DOMAIN teams : teams' = [teams EXCEPT ![p].consented = TRUE]
         \/ teams' = teams,
         run'.closed = run.closed, UNCHANGED <<call, ghost>>
  PROVE  SweepInv'
<1>1. ClosedStays
  BY DEF EntryInv, TypeOK, TeamType, ClosedStays
<1> QED BY <1>1, NobodyMoves DEF MissedStay

LEMMA StepSweep ==
  ASSUME EntryInv, SweepInv, [Next]_vars
  PROVE  SweepInv'
<1>1. ASSUME NEW c \in Calls, Arrive(c) PROVE SweepInv'
  BY <1>1, JoinSweep, AttachSweep DEF Arrive
<1>2. ASSUME NEW c \in Calls, Organize(c) PROVE SweepInv'
  BY <1>2, StartSweep, CloseSweep, CloseTeamSweep DEF Organize
<1>3. ASSUME NEW c \in Calls, Die(c) PROVE SweepInv'
  BY <1>3, CallGone DEF Die, EntryInv, TypeOK, MissedStay
<1>4. ASSUME NEW t \in DOMAIN teams, NEW p \in Phones, NEW q \in Phones,
             TransferController(t, p, q) \/ ClaimController(t, p)
      PROVE  SweepInv'
  BY <1>4, StillSweep DEF TransferController, ClaimController
<1>5. ASSUME NEW p \in Phones, RequestGuardianConsent(p) \/ GrantGuardianConsent(p)
      PROVE  SweepInv'
  BY <1>5, StillSweep DEF RequestGuardianConsent, GrantGuardianConsent
<1>6. CASE GraceEnds \/ Finish \/ UNCHANGED vars
  <2>1. run'.closed = run.closed /\ teams' = teams /\ call' = call /\ ghost' = ghost
    BY <1>6 DEF GraceEnds, Finish, vars, EntryInv, TypeOK, RunType
  <2> QED BY <2>1, StillSweep
<1> QED BY <1>1, <1>2, <1>3, <1>4, <1>5, <1>6 DEF Next

(* Once a closure has returned, only a team it missed has the mission      *)
(* open, however joins, starts, deaths and failed transactions straddle    *)
(* it; and it misses a team only for a join that read the run before the   *)
(* override, a start that read the team before it was reached, or a        *)
(* transaction of its own that failed.                                     *)
THEOREM ClosureReachesAll == Spec => []ClosedForEveryTeam
<1>1. Init => SweepInv
  <2> SUFFICES ASSUME Init PROVE SweepInv
    OBVIOUS
  <2>1. ~ghost.swept /\ \A c \in Calls : call[c].kind = "none"
    BY DEF Init
  <2> QED BY <2>1 DEF SweepInv, SweepAlone, SweepListed, SweptAll, At
<1>2. EntryInv /\ SweepInv /\ [Next]_vars => (EntryInv /\ SweepInv)'
  BY StepInv, StepSweep
<1>3. SweepInv => ClosedForEveryTeam
  BY DEF SweepInv, SweptAll, Reached, Spared, ClosedForEveryTeam
<1> QED BY <1>1, <1>2, <1>3, InitInv, PTL DEF Spec

-----------------------------------------------------------------------------
(* The two counters of a run, and how far a burst passes the limits.  Both *)
(* are settled per call: a join is counted between its create and its end. *)
Counters ==
  LET behind == Cardinality(Counting) + ghost.uncounted IN
  /\ Cardinality(DOMAIN teams) = run.participants + behind
  /\ Cardinality(AllPhones) = run.devices + behind

CountInv == Counters /\ BurstBounded

(* Who is in which team, and what has been counted, stays. *)
PeopleStand ==
  /\ DOMAIN teams' = DOMAIN teams
  /\ \A t \in DOMAIN teams : teams'[t].phones = teams[t].phones
CountersStand ==
  /\ UNCHANGED setup
  /\ run'.participants = run.participants /\ run'.devices = run.devices
  /\ ghost'.uncounted = ghost.uncounted

InCount(r) == r.kind = "join" /\ r.pc = "count"
InPast(r)  == r.kind = "join" /\ r.pc \in {"create", "count"}

LEMMA Sizes ==
  ASSUME EntryInv
  PROVE  /\ IsFiniteSet(Calls) /\ Cardinality(Calls) \in Nat /\ Cardinality(Calls) >= 1
         /\ IsFiniteSet(Counting) /\ Cardinality(Counting) \in Nat
         /\ IsFiniteSet(PastCheck) /\ Cardinality(PastCheck) \in Nat
         /\ IsFiniteSet(DOMAIN teams) /\ Cardinality(DOMAIN teams) \in Nat
         /\ IsFiniteSet(AllPhones) /\ Cardinality(AllPhones) \in Nat
         /\ run \in RunType /\ ghost.uncounted \in Nat /\ setup.cap \in Nat \ {0} /\ MaxDevices \in Nat \ {0}
<1>1. IsFiniteSet(Calls) /\ Cardinality(Calls) \in Nat /\ Cardinality(Calls) >= 1
  <2>1. IsFiniteSet(Calls) /\ Calls # {}
    BY CallsAssumption DEF CallsAssumption
  <2>2. Cardinality(Calls) \in Nat /\ Cardinality(Calls) # 0
    BY <2>1, FS_CardinalityType, FS_EmptySet
  <2> QED BY <2>1, <2>2
<1>2. IsFiniteSet(Counting) /\ IsFiniteSet(PastCheck)
  BY <1>1, FS_Subset DEF Counting, PastCheck
<1>3. IsFiniteSet(DOMAIN teams) /\ IsFiniteSet(AllPhones)
  <2>1. IsFiniteSet(Phones)
    BY PhonesAssumption DEF PhonesAssumption
  <2>2. IsFiniteSet(Phones \X Phones)
    BY <2>1, FS_Product
  <2>3. DOMAIN teams \in SUBSET Phones /\ AllPhones \in SUBSET (Phones \X Phones)
    BY DEF EntryInv, TypeOK, TeamType, AllPhones
  <2> QED BY <2>1, <2>2, <2>3, FS_Subset
<1>4. run \in RunType /\ ghost.uncounted \in Nat
  BY DEF EntryInv, TypeOK
<1>5. setup.cap \in Nat \ {0} /\ MaxDevices \in Nat \ {0}
  BY SetupsAssumption, DevicesAssumption DEF EntryInv, TypeOK, SetupsAssumption, DevicesAssumption
<1> QED BY <1>1, <1>2, <1>3, <1>4, <1>5, FS_CardinalityType

(* One call moves: the sets of calls that count change by it alone. *)
LEMMA CallSets ==
  ASSUME CallsOK, NEW c \in Calls, NEW r, call' = [call EXCEPT ![c] = r]
  PROVE  /\ Counting' = IF InCount(r) THEN Counting \cup {c} ELSE Counting \ {c}
         /\ PastCheck' = IF InPast(r) THEN PastCheck \cup {c} ELSE PastCheck \ {c}
<1>1. DOMAIN call = Calls /\ call'[c] = r /\ \A x \in Calls \ {c} : call'[x] = call[x]
  BY DEF CallsOK
<1> QED BY <1>1 DEF Counting, PastCheck, At, InCount, InPast

(* Nothing is counted and nobody comes in. *)
LEMMA QuietCounts ==
  ASSUME EntryInv, CountInv, PeopleStand, CountersStand,
         Counting' = Counting, PastCheck' \subseteq PastCheck
  PROVE  CountInv'
<1>1. AllPhones' = AllPhones
  BY DEF PeopleStand, AllPhones
<1>2. /\ Cardinality(Counting)' = Cardinality(Counting)
      /\ Cardinality(DOMAIN teams)' = Cardinality(DOMAIN teams)
      /\ Cardinality(AllPhones)' = Cardinality(AllPhones)
  BY <1>1 DEF PeopleStand
<1>3. Cardinality(PastCheck)' <= Cardinality(PastCheck)
  BY Sizes, FS_Subset
<1>4. Counters'
  BY <1>2 DEF CountInv, Counters, CountersStand
<1>5. BurstBounded'
  <2> DEFINE n == Cardinality(PastCheck)
             m == Cardinality(PastCheck)'
             k == Cardinality(Calls)
  <2>1. n \in Nat /\ m \in Nat /\ k \in Nat /\ m <= n
    <3>1. Cardinality(PastCheck') \in Nat
      BY Sizes, FS_Subset, FS_CardinalityType
    <3> QED BY <1>3, <3>1, Sizes
  <2>2. run.participants \in Nat /\ run.devices \in Nat /\ setup.cap \in Nat /\ MaxDevices \in Nat
    BY Sizes DEF RunType
  <2>3. run.participants + n <= setup.cap + (k - 1) /\ run.devices + n <= MaxDevices + (k - 1)
    BY DEF CountInv, BurstBounded
  <2>4. run'.participants = run.participants /\ run'.devices = run.devices /\ setup' = setup
    BY DEF CountersStand
  <2> HIDE DEF n, k
  <2>5. run'.participants + m <= setup'.cap + (k - 1) /\ run'.devices + m <= MaxDevices + (k - 1)
    <3> HIDE DEF m
    <3> QED BY <2>1, <2>2, <2>3, <2>4
  <2> QED BY <2>5 DEF BurstBounded, k
<1> QED BY <1>4, <1>5 DEF CountInv

(* A call moves, in or out of what does not count. *)
LEMMA QuietMoves ==
  ASSUME EntryInv, CountInv, PeopleStand, CountersStand, NEW c \in Calls, NEW r,
         call' = [call EXCEPT ![c] = r], ~InPast(r), ~At(c, "join", "count")
  PROVE  CountInv'
<1>1. Counting' = Counting /\ PastCheck' \subseteq PastCheck
  BY CallSets DEF EntryInv, InCount, InPast, Counting
<1> QED BY <1>1, QuietCounts

(* The step of a join that counts. *)
LEMMA CapacityCounts ==
  ASSUME EntryInv, CountInv, NEW c \in Calls, JoinCapacity(c)
  PROVE  CountInv'
<1>1. PeopleStand /\ CountersStand /\ ~At(c, "join", "count")
  BY DEF JoinCapacity, PeopleStand, CountersStand, At
<1>2. CASE End(c)
  BY <1>1, <1>2, QuietMoves DEF End, InPast
<1>3. CASE run.participants < setup.cap /\ RunHasRoom /\ Goto(c, "create")
  <2> DEFINE r == [call[c] EXCEPT !.pc = "create"]
  <2>1. call' = [call EXCEPT ![c] = r] /\ InPast(r) /\ ~InCount(r)
    BY <1>3, JoinHands DEF Goto, JoinCapacity, At, JoinType, InPast, InCount, EntryInv
  <2>2. PastCheck' = PastCheck \cup {c} /\ Counting' = Counting
    <3> HIDE DEF r
    <3> QED BY <1>1, <2>1, CallSets DEF EntryInv, Counting
  <2>3. Counters'
    <3>1. AllPhones' = AllPhones /\ UNCHANGED <<run, teams, ghost>>
      BY DEF JoinCapacity, AllPhones
    <3> QED BY <2>2, <3>1 DEF CountInv, Counters
  <2>4. Cardinality(PastCheck') \in Nat /\ Cardinality(PastCheck') <= Cardinality(Calls)
    <3>1. PastCheck' \in SUBSET Calls
      BY DEF PastCheck, Counting
    <3> QED BY <3>1, Sizes, FS_Subset, FS_CardinalityType
  <2>5. BurstBounded'
    <3> DEFINE m == Cardinality(PastCheck')
    <3>1. run.participants + m <= setup.cap + (Cardinality(Calls) - 1)
          /\ run.devices + m <= MaxDevices + (Cardinality(Calls) - 1)
      <4>1. m \in Nat /\ m <= Cardinality(Calls)
        BY <2>4
      <4> HIDE DEF m
      <4> QED BY <1>3, <4>1, Sizes DEF RunType, RunHasRoom
    <3>2. UNCHANGED <<run, setup>>
      BY DEF JoinCapacity
    <3> QED BY <3>1, <3>2 DEF BurstBounded
  <2> QED BY <2>3, <2>5 DEF CountInv
<1> QED BY <1>2, <1>3 DEF JoinCapacity

LEMMA CreateCounts ==
  ASSUME EntryInv, CountInv, NEW c \in Calls, JoinCreate(c)
  PROVE  CountInv'
<1> DEFINE p == call[c].phone
<1>1. CASE p \in DOMAIN teams \cup consents.alone
  <2>1. PeopleStand /\ CountersStand /\ ~At(c, "join", "count") /\ End(c)
    BY <1>1 DEF JoinCreate, PeopleStand, CountersStand, At
  <2> QED BY <2>1, QuietMoves DEF End, InPast
<1>2. CASE p \notin DOMAIN teams \cup consents.alone
  <2> DEFINE r == [call[c] EXCEPT !.pc = "count"]
             new == NewTeam(p, call[c].launch, call[c].closed)
  <2>1. call' = [call EXCEPT ![c] = r] /\ InPast(r) /\ InCount(r) /\ c \in PastCheck /\ c \notin Counting
    BY <1>2, JoinHands DEF Goto, JoinCreate, At, JoinType, InPast, InCount, EntryInv, PastCheck, Counting
  <2>2. PastCheck' = PastCheck /\ Counting' = Counting \cup {c}
    <3>1. PastCheck' = PastCheck \cup {c} /\ Counting' = Counting \cup {c}
      <4> HIDE DEF r
      <4> QED BY <2>1, CallSets DEF EntryInv
    <3> QED BY <2>1, <3>1
  <2>3. /\ teams' = [t \in DOMAIN teams \cup {p} |-> IF t = p THEN new ELSE teams[t]]
        /\ UNCHANGED <<setup, run, ghost>>
    BY <1>2 DEF JoinCreate
  <2>4. DOMAIN teams' = DOMAIN teams \cup {p}
    BY <2>3
  <2>5. AllPhones' = AllPhones \cup {<<p, p>>} /\ <<p, p>> \notin AllPhones
    <3>1. teams'[p].phones = {p} /\ \A t \in DOMAIN teams : teams'[t].phones = teams[t].phones
      BY <1>2, <2>3 DEF NewTeam
    <3> QED BY <1>2, <2>4, <3>1 DEF AllPhones
  <2>6. /\ Cardinality(Counting') = Cardinality(Counting) + 1
        /\ Cardinality(DOMAIN teams') = Cardinality(DOMAIN teams) + 1
        /\ Cardinality(AllPhones') = Cardinality(AllPhones) + 1
    BY <1>2, <2>1, <2>2, <2>4, <2>5, Sizes, FS_AddElement
  <2>7. Counters'
    <3>1. /\ Cardinality(DOMAIN teams) = run.participants + (Cardinality(Counting) + ghost.uncounted)
          /\ Cardinality(AllPhones) = run.devices + (Cardinality(Counting) + ghost.uncounted)
      BY DEF CountInv, Counters
    <3>2. run.participants \in Nat /\ run.devices \in Nat
      BY Sizes DEF RunType
    <3>3. /\ Cardinality(DOMAIN teams') = run.participants + (Cardinality(Counting') + ghost.uncounted)
          /\ Cardinality(AllPhones') = run.devices + (Cardinality(Counting') + ghost.uncounted)
      BY <2>6, <3>1, <3>2, Sizes
    <3> QED BY <2>3, <3>3 DEF Counters
  <2> QED BY <2>2, <2>3, <2>7 DEF CountInv, BurstBounded
<1> QED BY <1>1, <1>2

(* A join that was counting is done with it: counted, or dead. *)
LEMMA CountingEnds ==
  ASSUME EntryInv, CountInv, NEW c \in Calls, At(c, "join", "count"), End(c), UNCHANGED <<setup, teams>>,
         \/ /\ run' = [run EXCEPT !.participants = @ + 1, !.devices = @ + 1]
            /\ UNCHANGED ghost
         \/ /\ ghost' = [ghost EXCEPT !.faults = @ + 1, !.uncounted = @ + 1]
            /\ UNCHANGED run
  PROVE  CountInv'
<1> DEFINE r == [kind |-> "none"]
<1>1. call' = [call EXCEPT ![c] = r] /\ ~InPast(r) /\ ~InCount(r) /\ c \in PastCheck /\ c \in Counting
  BY DEF End, InPast, InCount, PastCheck, Counting
<1>2. PastCheck' = PastCheck \ {c} /\ Counting' = Counting \ {c}
  <2> HIDE DEF r
  <2> QED BY <1>1, CallSets DEF EntryInv
<1>3. /\ Cardinality(PastCheck') = Cardinality(PastCheck) - 1
      /\ Cardinality(Counting') = Cardinality(Counting) - 1
  BY <1>1, <1>2, Sizes, FS_RemoveElement
<1>4. AllPhones' = AllPhones
  BY DEF AllPhones
<1>5. /\ Cardinality(DOMAIN teams) = run.participants + (Cardinality(Counting) + ghost.uncounted)
      /\ Cardinality(AllPhones) = run.devices + (Cardinality(Counting) + ghost.uncounted)
      /\ run.participants + Cardinality(PastCheck) <= setup.cap + (Cardinality(Calls) - 1)
      /\ run.devices + Cardinality(PastCheck) <= MaxDevices + (Cardinality(Calls) - 1)
  BY DEF CountInv, Counters, BurstBounded
<1>6. run.participants \in Nat /\ run.devices \in Nat
  BY Sizes DEF RunType
<1>7. CASE run' = [run EXCEPT !.participants = @ + 1, !.devices = @ + 1] /\ UNCHANGED ghost
  <2>1. run'.participants = run.participants + 1 /\ run'.devices = run.devices + 1
    BY <1>7, Sizes DEF RunType
  <2>2. /\ Cardinality(DOMAIN teams) = run'.participants + (Cardinality(Counting') + ghost.uncounted)
        /\ Cardinality(AllPhones) = run'.devices + (Cardinality(Counting') + ghost.uncounted)
    BY <1>3, <1>5, <1>6, <2>1, Sizes
  <2>3. /\ run'.participants + Cardinality(PastCheck') <= setup.cap + (Cardinality(Calls) - 1)
        /\ run'.devices + Cardinality(PastCheck') <= MaxDevices + (Cardinality(Calls) - 1)
    BY <1>3, <1>5, <1>6, <2>1, Sizes
  <2> QED BY <1>4, <1>7, <2>2, <2>3 DEF CountInv, Counters, BurstBounded
<1>8. CASE ghost' = [ghost EXCEPT !.faults = @ + 1, !.uncounted = @ + 1] /\ UNCHANGED run
  <2>1. ghost'.uncounted = ghost.uncounted + 1
    BY <1>8 DEF EntryInv, TypeOK
  <2>2. /\ Cardinality(DOMAIN teams) = run.participants + (Cardinality(Counting') + ghost'.uncounted)
        /\ Cardinality(AllPhones) = run.devices + (Cardinality(Counting') + ghost'.uncounted)
    BY <1>3, <1>5, <1>6, <2>1, Sizes
  <2>3. /\ run.participants + Cardinality(PastCheck') <= setup.cap + (Cardinality(Calls) - 1)
        /\ run.devices + Cardinality(PastCheck') <= MaxDevices + (Cardinality(Calls) - 1)
    BY <1>3, <1>5, <1>6, Sizes
  <2> QED BY <1>4, <1>8, <2>2, <2>3 DEF CountInv, Counters, BurstBounded
<1> QED BY <1>7, <1>8

(* A phone comes into a team; its run had room.  The attaching call is not *)
(* itself a join past the check.                                           *)
LEMMA AttachCounts ==
  ASSUME EntryInv, CountInv, NEW c \in Calls, AttachCommit(c)
  PROVE  CountInv'
<1> DEFINE t == call[c].team
           p == call[c].phone
<1>1. CASE ~CanAttach(t, p)
  <2>1. PeopleStand /\ CountersStand /\ ~At(c, "join", "count") /\ End(c)
    BY <1>1 DEF AttachCommit, PeopleStand, CountersStand, At
  <2> QED BY <2>1, QuietMoves DEF End, InPast
<1>2. CASE CanAttach(t, p)
  <2>1. /\ teams' = Attached(t, p) /\ run' = [run EXCEPT !.devices = @ + 1]
        /\ UNCHANGED setup
    BY <1>2 DEF AttachCommit
  <2>2. ghost'.uncounted = ghost.uncounted
    BY <1>2 DEF AttachCommit, EntryInv, TypeOK
  <2>3. Counting' = Counting /\ PastCheck' = PastCheck /\ c \notin PastCheck
    <3>1. c \notin Counting /\ c \notin PastCheck
      BY DEF AttachCommit, At, Counting, PastCheck
    <3>2. CASE End(c)
      <4> DEFINE r == [kind |-> "none"]
      <4>1. ~InCount(r) /\ ~InPast(r) /\ call' = [call EXCEPT ![c] = r]
        BY <3>2 DEF End, InCount, InPast
      <4> HIDE DEF r
      <4> QED BY <3>1, <4>1, CallSets DEF EntryInv
    <3>3. CASE UNCHANGED call
      BY <3>1, <3>3 DEF Counting, PastCheck, At
    <3> QED BY <1>2, <3>1, <3>2, <3>3 DEF AttachCommit
  <2>4. t \in DOMAIN teams
    BY DEF AttachCommit, At, EntryInv, CallsOK, HandsOK, JoinType, AttachType, ListType,
           SweepType, StartType
  <2>5. DOMAIN teams' = DOMAIN teams
    BY <2>1 DEF Attached
  <2>6. AllPhones' = AllPhones \cup {<<t, p>>} /\ <<t, p>> \notin AllPhones
    <3>1. teams'[t].phones = teams[t].phones \cup {p}
      BY <2>1, <2>4 DEF Attached, EntryInv, TypeOK, TeamType
    <3>2. \A u \in DOMAIN teams \ {t} : teams'[u] = teams[u]
      BY <2>1 DEF Attached
    <3> QED BY <1>2, <2>4, <2>5, <3>1, <3>2 DEF AllPhones, CanAttach
  <2>7. Cardinality(AllPhones') = Cardinality(AllPhones) + 1
    BY <2>6, Sizes, FS_AddElement
  <2>8. run'.devices = run.devices + 1 /\ run'.participants = run.participants
        /\ run.devices \in Nat /\ run.participants \in Nat
    BY <2>1, Sizes DEF RunType
  <2>9. Counters'
    <3>1. /\ Cardinality(DOMAIN teams) = run.participants + (Cardinality(Counting) + ghost.uncounted)
          /\ Cardinality(AllPhones) = run.devices + (Cardinality(Counting) + ghost.uncounted)
      BY DEF CountInv, Counters
    <3>2. Cardinality(AllPhones') = run'.devices + (Cardinality(Counting) + ghost.uncounted)
      BY <2>7, <2>8, <3>1, Sizes
    <3> QED BY <2>2, <2>3, <2>5, <2>8, <3>1, <3>2 DEF Counters
  <2>10. BurstBounded'
    <3>1. Cardinality(PastCheck) <= Cardinality(Calls) - 1
      <4>1. PastCheck \in SUBSET (Calls \ {c})
        BY <2>3 DEF PastCheck, Counting
      <4>2. IsFiniteSet(Calls \ {c}) /\ Cardinality(Calls \ {c}) = Cardinality(Calls) - 1
        BY Sizes, FS_RemoveElement
      <4>3. Cardinality(PastCheck) <= Cardinality(Calls \ {c})
        BY <4>1, <4>2, FS_Subset
      <4> QED BY <4>2, <4>3
    <3>2. run.devices < MaxDevices
      BY <1>2 DEF CanAttach, RunHasRoom
    <3>3. run'.devices + Cardinality(PastCheck) <= MaxDevices + (Cardinality(Calls) - 1)
      BY <2>8, <3>1, <3>2, Sizes
    <3>4. run'.participants + Cardinality(PastCheck) <= setup.cap + (Cardinality(Calls) - 1)
      BY <2>8 DEF CountInv, BurstBounded
    <3> QED BY <2>1, <2>3, <3>3, <3>4 DEF BurstBounded
  <2> QED BY <2>9, <2>10 DEF CountInv
<1> QED BY <1>1, <1>2

(* What counts nobody: the other steps of a call. *)
LEMMA OthersCount ==
  ASSUME EntryInv, CountInv, NEW c \in Calls,
         \/ \E p \in Phones : JoinRead(c, p)
         \/ \E p, t \in Phones : AttachRead(c, p, t)
         \/ \E named \in SUBSET DOMAIN teams : StartRead(c, named)
         \/ StartBatch(c) \/ StartStamp(c)
         \/ CloseOverride(c) \/ CloseList(c) \/ CloseReturns(c)
         \/ \E t \in Phones : CloseTeam(c, t) \/ CloseFails(c, t)
  PROVE  CountInv'
<1>1. CountersStand
  BY DEF JoinRead, AttachRead, StartRead, StartBatch, StartStamp, CloseOverride, CloseList,
         CloseReturns, CloseTeam, CloseFails, CountersStand, EntryInv, TypeOK, RunType
<1>2. ~At(c, "join", "count")
  BY DEF JoinRead, AttachRead, StartRead, StartBatch, StartStamp, CloseOverride, CloseList,
         CloseReturns, CloseTeam, CloseFails, Begin, At
<1>3. PeopleStand
  <2>1. CASE UNCHANGED teams
    BY <2>1 DEF PeopleStand
  <2>2. CASE StartBatch(c)
    BY <2>2, StartBatchEffect DEF PeopleStand
  <2>3. ASSUME NEW t \in Phones, CloseTeam(c, t) PROVE PeopleStand
    BY <2>3 DEF CloseTeam, PeopleStand, EntryInv, TypeOK, TeamType
  <2> QED
    BY <2>1, <2>2, <2>3 DEF JoinRead, AttachRead, StartRead, StartStamp, CloseOverride, CloseList,
       CloseReturns, CloseFails
<1>4. ASSUME NEW r, call' = [call EXCEPT ![c] = r], ~InPast(r) PROVE CountInv'
  BY <1>1, <1>2, <1>3, <1>4, QuietMoves
<1>5. ASSUME NEW r, Begin(c, r), ~InPast(r) PROVE CountInv'
  BY <1>4, <1>5 DEF Begin
<1>6. ASSUME NEW p \in Phones, JoinRead(c, p) PROVE CountInv'
  <2> DEFINE r == [kind |-> "join", pc |-> "capacity", phone |-> p,
                   launch |-> SelfStarts, closed |-> run.closed]
  <2>1. Begin(c, r) /\ ~InPast(r)
    BY <1>6 DEF JoinRead, InPast
  <2> HIDE DEF r
  <2> QED BY <1>5, <2>1
<1>7. ASSUME NEW p \in Phones, NEW t \in Phones, AttachRead(c, p, t) PROVE CountInv'
  BY <1>5, <1>7 DEF AttachRead, InPast
<1>8. ASSUME NEW named \in SUBSET DOMAIN teams, StartRead(c, named) PROVE CountInv'
  BY <1>5, <1>8 DEF StartRead, InPast
<1>9. CASE End(c)
  BY <1>4, <1>9 DEF End, InPast
<1>10. CASE StartBatch(c) /\ Goto(c, "stamp")
  <2>1. [call[c] EXCEPT !.pc = "stamp"].kind = "start"
    BY <1>10, StartBatchEffect DEF StartType
  <2> QED BY <1>4, <1>10, <2>1 DEF Goto, InPast
<1>11. CASE CloseOverride(c)
  BY <1>5, <1>11 DEF CloseOverride, InPast
<1>12. CASE CloseList(c)
  BY <1>4, <1>12 DEF CloseList, InPast
<1>13. ASSUME NEW t \in Phones, CloseTeam(c, t) \/ CloseFails(c, t) PROVE CountInv'
  <2>1. [call[c] EXCEPT !.left = @ \ {t}].kind = "close"
    BY <1>13, SweepHands DEF CloseTeam, CloseFails, SweepType, EntryInv
  <2> QED BY <1>4, <1>13, <2>1 DEF CloseTeam, CloseFails, InPast
<1> QED
  BY <1>6, <1>7, <1>8, <1>9, <1>10, <1>11, <1>12, <1>13 DEF StartBatch, StartStamp, CloseReturns

LEMMA DieCounts ==
  ASSUME EntryInv, CountInv, NEW c \in Calls, Die(c)
  PROVE  CountInv'
<1>1. CASE At(c, "join", "count")
  <2>1. ghost' = [ghost EXCEPT !.faults = @ + 1, !.uncounted = @ + 1]
    BY <1>1 DEF Die
  <2> QED BY <1>1, <2>1, CountingEnds DEF Die
<1>2. CASE ~At(c, "join", "count")
  <2>1. ghost' = [ghost EXCEPT !.faults = @ + 1]
    BY <1>2 DEF Die, EntryInv, TypeOK
  <2>2. PeopleStand /\ CountersStand
    BY <2>1 DEF Die, PeopleStand, CountersStand, EntryInv, TypeOK
  <2> QED BY <1>2, <2>2, QuietMoves DEF Die, End, InPast
<1> QED BY <1>1, <1>2

LEMMA StepCounts ==
  ASSUME EntryInv, CountInv, [Next]_vars
  PROVE  CountInv'
<1>1. ASSUME NEW c \in Calls, Arrive(c) PROVE CountInv'
  <2>1. CASE JoinCount(c)
    BY <2>1, CountingEnds DEF JoinCount
  <2> QED
    BY <1>1, <2>1, OthersCount, CapacityCounts, CreateCounts, AttachCounts DEF Arrive
<1>2. ASSUME NEW c \in Calls, Organize(c) PROVE CountInv'
  BY <1>2, OthersCount DEF Organize
<1>3. ASSUME UNCHANGED <<setup, call, ghost>>, PeopleStand,
             run'.participants = run.participants /\ run'.devices = run.devices
      PROVE  CountInv'
  <2>1. Counting' = Counting /\ PastCheck' = PastCheck /\ CountersStand
    BY <1>3 DEF Counting, PastCheck, At, CountersStand
  <2> QED BY <1>3, <2>1, QuietCounts
<1>4. ASSUME NEW t \in DOMAIN teams, NEW p \in Phones, NEW q \in Phones,
             TransferController(t, p, q) \/ ClaimController(t, p)
      PROVE  CountInv'
  <2>1. PeopleStand
    BY <1>4 DEF TransferController, ClaimController, PeopleStand, EntryInv, TypeOK, TeamType
  <2> QED BY <1>3, <1>4, <2>1 DEF TransferController, ClaimController
<1>5. ASSUME NEW p \in Phones, RequestGuardianConsent(p) \/ GrantGuardianConsent(p)
      PROVE  CountInv'
  <2>1. PeopleStand
    BY <1>5 DEF RequestGuardianConsent, GrantGuardianConsent, PeopleStand, EntryInv, TypeOK, TeamType
  <2> QED BY <1>3, <1>5, <2>1 DEF RequestGuardianConsent, GrantGuardianConsent
<1>6. CASE GraceEnds \/ Finish \/ UNCHANGED vars
  <2>1. PeopleStand /\ UNCHANGED <<setup, call, ghost>>
    BY <1>6 DEF GraceEnds, Finish, vars, PeopleStand
  <2>2. run'.participants = run.participants /\ run'.devices = run.devices
    BY <1>6 DEF GraceEnds, Finish, vars, EntryInv, TypeOK, RunType
  <2> QED BY <1>3, <2>1, <2>2
<1> QED BY <1>1, <1>2, <1>4, <1>5, <1>6, DieCounts DEF Next

LEMMA InitCounts == Init => CountInv
<1> SUFFICES ASSUME Init PROVE CountInv
  OBVIOUS
<1>1. Counting = {} /\ PastCheck = {} /\ EntryInv
  BY InitInv DEF Init, Counting, PastCheck, At
<1>2. Cardinality(Counting) = 0 /\ Cardinality(PastCheck) = 0
  BY <1>1, FS_EmptySet
<1>3. PICK founder \in Phones :
        teams = [p \in (IF setup.instant THEN {founder} ELSE {}) |-> NewTeam(p, TRUE, FALSE)]
  BY DEF Init
<1>4. run.participants = run.devices /\ ghost.uncounted = 0
  BY DEF Init
<1>5. CASE setup.instant
  <2>1. DOMAIN teams = {founder} /\ AllPhones = {<<founder, founder>>} /\ run.participants = 1
    BY <1>3, <1>5 DEF AllPhones, NewTeam, Init
  <2>2. Cardinality(DOMAIN teams) = 1 /\ Cardinality(AllPhones) = 1
    BY <2>1, FS_Singleton
  <2>3. Counters
    BY <1>2, <1>4, <2>1, <2>2 DEF Counters
  <2> QED BY <1>1, <1>2, <1>4, <2>1, <2>3, Sizes DEF CountInv, BurstBounded
<1>6. CASE ~setup.instant
  <2>1. DOMAIN teams = {} /\ AllPhones = {} /\ run.participants = 0
    BY <1>3, <1>6 DEF AllPhones, Init
  <2>2. Cardinality(DOMAIN teams) = 0 /\ Cardinality(AllPhones) = 0
    BY <2>1, FS_EmptySet
  <2>3. Counters
    BY <1>2, <1>4, <2>1, <2>2 DEF Counters
  <2> QED BY <1>1, <1>2, <1>4, <2>1, <2>3, Sizes DEF CountInv, BurstBounded
<1> QED BY <1>5, <1>6

LEMMA CountInvAlways == Spec => [](EntryInv /\ CountInv)
<1>1. EntryInv /\ CountInv /\ [Next]_vars => EntryInv' /\ CountInv'
  BY StepInv, StepCounts
<1> QED BY <1>1, InitInv, InitCounts, PTL DEF Spec

(* A burst of joins and attaches passes the limits of a run by fewer than  *)
(* the calls that can be in flight, with the joins past the check included. *)
THEOREM BurstIsBounded == Spec => []BurstBounded
<1>1. CountInv => BurstBounded
  BY DEF CountInv
<1> QED BY <1>1, CountInvAlways, PTL

-----------------------------------------------------------------------------
(* One team per phone, where no phone enters two teams at once: whoever is *)
(* about to come in comes to the one team the phone is in, or to be in.    *)
Arriving(c) == call[c].kind \in {"join", "attach"}

OneEntry ==
  /\ OneTeamPerPhone
  /\ \A c \in Calls : Arriving(c) => TeamsOf(call[c].phone) \subseteq {Entry(call[c])}
  /\ \A c, d \in Calls :
       Arriving(c) /\ Arriving(d) /\ call[c].phone = call[d].phone => Entry(call[c]) = Entry(call[d])

(* Nobody comes into a team. *)
LEMMA EntryStands ==
  ASSUME CallsOK, OneEntry, PeopleStand, NEW c \in Calls, NEW r, call' = [call EXCEPT ![c] = r],
         r.kind \in {"join", "attach"} =>
           /\ Arriving(c) /\ r.phone = call[c].phone /\ Entry(r) = Entry(call[c])
  PROVE  OneEntry'
<1>1. call'[c] = r /\ \A x \in Calls \ {c} : call'[x] = call[x]
  BY DEF CallsOK
<1>2. \A x \in Calls : Arriving(x)' => /\ Arriving(x) /\ call'[x].phone = call[x].phone
                                       /\ Entry(call'[x]) = Entry(call[x])
  BY <1>1 DEF Arriving
<1>3. \A p : TeamsOf(p)' = TeamsOf(p)
  BY DEF PeopleStand, TeamsOf
<1>4. OneTeamPerPhone'
  BY DEF OneEntry, OneTeamPerPhone, PeopleStand
<1> QED BY <1>2, <1>3, <1>4 DEF OneEntry

(* A call begins for a phone that is free to send it. *)
LEMMA EntryBegins ==
  ASSUME CallsOK, OneEntry, PeopleStand, "phone" \notin Races, NEW c \in Calls, NEW r,
         call' = [call EXCEPT ![c] = r], ~Arriving(c), TeamsOf(r.phone) = {},
         PhoneFree(r.phone, Entry(r))
  PROVE  OneEntry'
<1>1. call'[c] = r /\ \A x \in Calls \ {c} : call'[x] = call[x]
  BY DEF CallsOK
<1>2. \A x \in Calls \ {c} : Arriving(x) /\ call[x].phone = r.phone => Entry(call[x]) = Entry(r)
  BY DEF PhoneFree, Running, Arriving
<1>3. \A p : TeamsOf(p)' = TeamsOf(p)
  BY DEF PeopleStand, TeamsOf
<1>4. OneTeamPerPhone'
  BY DEF OneEntry, OneTeamPerPhone, PeopleStand
<1>5. \A x \in Calls : Arriving(x)' => TeamsOf(call[x].phone)' \subseteq {Entry(call[x])'}
  BY <1>1, <1>3 DEF OneEntry, Arriving
<1>6. \A x, y \in Calls : Arriving(x)' /\ Arriving(y)' /\ call'[x].phone = call'[y].phone
                            => Entry(call[x])' = Entry(call[y])'
  BY <1>1, <1>2 DEF OneEntry, Arriving
<1> QED BY <1>4, <1>5, <1>6 DEF OneEntry

(* A phone comes into the team it came for. *)
LEMMA EntryArrives ==
  ASSUME CallsOK, OneEntry, NEW c \in Calls, Arriving(c), NEW p, p = call[c].phone,
         NEW u, u = Entry(call[c]),
         \A x \in Calls : Arriving(x)' => /\ Arriving(x) /\ call'[x].phone = call[x].phone
                                          /\ Entry(call'[x]) = Entry(call[x]),
         TeamsOf(p)' \subseteq {u},
         \A q : q # p => TeamsOf(q)' \subseteq TeamsOf(q)
  PROVE  OneEntry'
<1>1. OneTeamPerPhone'
  <2> SUFFICES ASSUME NEW t \in DOMAIN teams', NEW v \in DOMAIN teams', NEW q,
                      q \in teams'[t].phones, q \in teams'[v].phones
               PROVE  t = v
    BY DEF OneTeamPerPhone
  <2>1. t \in TeamsOf(q)' /\ v \in TeamsOf(q)'
    BY DEF TeamsOf
  <2>2. CASE q = p
    BY <2>1, <2>2
  <2>3. CASE q # p
    <3>1. t \in TeamsOf(q) /\ v \in TeamsOf(q)
      BY <2>1, <2>3
    <3> QED BY <3>1 DEF TeamsOf, OneEntry, OneTeamPerPhone
  <2> QED BY <2>2, <2>3
<1>2. ASSUME NEW x \in Calls, Arriving(x)' PROVE TeamsOf(call[x].phone)' \subseteq {Entry(call[x])'}
  <2>1. Arriving(x) /\ call'[x].phone = call[x].phone /\ Entry(call[x])' = Entry(call[x])
    BY <1>2
  <2>2. CASE call[x].phone = p
    BY <2>1, <2>2 DEF OneEntry
  <2>3. CASE call[x].phone # p
    BY <2>1, <2>3 DEF OneEntry
  <2> QED BY <2>2, <2>3
<1> QED BY <1>1, <1>2 DEF OneEntry

LEMMA JoinEntry ==
  ASSUME EntryInv, OneEntry, "phone" \notin Races, NEW c \in Calls,
         (\E p \in Phones : JoinRead(c, p)) \/ JoinCapacity(c) \/ JoinCreate(c) \/ JoinCount(c)
  PROVE  OneEntry'
<1> USE DEF EntryInv
<1>1. ASSUME NEW p \in Phones, JoinRead(c, p) PROVE OneEntry'
  <2> DEFINE r == [kind |-> "join", pc |-> "capacity", phone |-> p,
                   launch |-> SelfStarts, closed |-> run.closed]
  <2>1. r.phone = p /\ Entry(r) = p /\ call' = [call EXCEPT ![c] = r]
    BY <1>1 DEF JoinRead, Begin, Entry
  <2> HIDE DEF r
  <2>2. PeopleStand /\ ~Arriving(c) /\ TeamsOf(p) = {} /\ PhoneFree(p, p)
    BY <1>1 DEF JoinRead, Begin, PeopleStand, Arriving, InRun
  <2> QED BY <2>1, <2>2, EntryBegins
<1>2. ASSUME JoinCapacity(c) \/ JoinCreate(c) \/ JoinCount(c), End(c), UNCHANGED teams
      PROVE  OneEntry'
  BY <1>2, EntryStands DEF End, PeopleStand
<1>3. ASSUME call[c].kind = "join", NEW pc
      PROVE  LET r == [call[c] EXCEPT !.pc = pc]
             IN  Arriving(c) /\ r.kind = "join" /\ r.phone = call[c].phone /\ Entry(r) = Entry(call[c])
  BY <1>3, JoinHands DEF Arriving, Entry, JoinType
<1>4. ASSUME JoinCapacity(c), Goto(c, "create") PROVE OneEntry'
  <2> DEFINE r == [call[c] EXCEPT !.pc = "create"]
  <2>1. /\ call' = [call EXCEPT ![c] = r] /\ PeopleStand
        /\ Arriving(c) /\ r.phone = call[c].phone /\ Entry(r) = Entry(call[c])
    BY <1>3, <1>4 DEF JoinCapacity, Goto, PeopleStand, At
  <2> HIDE DEF r
  <2> QED BY <2>1, EntryStands
<1>5. ASSUME JoinCreate(c), Goto(c, "count"),
             call[c].phone \notin DOMAIN teams \cup consents.alone
      PROVE  OneEntry'
  <2> DEFINE r == [call[c] EXCEPT !.pc = "count"]
  <2>0. PICK p : p = call[c].phone
    OBVIOUS
  <2>1. /\ call' = [call EXCEPT ![c] = r]
        /\ teams' = [t \in DOMAIN teams \cup {p} |->
                       IF t = p THEN NewTeam(p, call[c].launch, call[c].closed) ELSE teams[t]]
    BY <1>5, <2>0 DEF JoinCreate, Goto
  <2>2. Arriving(c) /\ r.phone = p /\ Entry(r) = p /\ Entry(call[c]) = p
    BY <1>3, <1>5, <2>0 DEF JoinCreate, At, Entry
  <2>3. \A x \in Calls : Arriving(x)' => /\ Arriving(x) /\ call'[x].phone = call[x].phone
                                         /\ Entry(call'[x]) = Entry(call[x])
    <3> HIDE DEF r
    <3>1. call'[c] = r /\ \A x \in Calls \ {c} : call'[x] = call[x]
      BY <2>1 DEF CallsOK
    <3> QED BY <2>0, <2>2, <3>1 DEF Arriving
  <2>4. /\ DOMAIN teams' = DOMAIN teams \cup {p} /\ teams'[p].phones = {p}
        /\ \A t \in DOMAIN teams : teams'[t] = teams[t]
    BY <1>5, <2>0, <2>1 DEF NewTeam
  <2>5. TeamsOf(p) = {}
    BY <1>5, <2>0, <2>2 DEF OneEntry, TeamsOf
  <2>6. TeamsOf(p)' \subseteq {p} /\ \A q : q # p => TeamsOf(q)' \subseteq TeamsOf(q)
    BY <1>5, <2>4, <2>5 DEF TeamsOf
  <2> QED BY <2>0, <2>2, <2>3, <2>6, EntryArrives
<1> QED
  BY <1>1, <1>2, <1>4, <1>5 DEF JoinCapacity, JoinCreate, JoinCount

LEMMA AttachEntry ==
  ASSUME EntryInv, OneEntry, "phone" \notin Races, NEW c \in Calls,
         (\E p, t \in Phones : AttachRead(c, p, t)) \/ AttachCommit(c)
  PROVE  OneEntry'
<1> USE DEF EntryInv
<1>1. ASSUME NEW p \in Phones, NEW t \in Phones, AttachRead(c, p, t) PROVE OneEntry'
  <2> DEFINE r == [kind |-> "attach", pc |-> "commit", phone |-> p, team |-> t]
  <2>1. r.phone = p /\ Entry(r) = t /\ call' = [call EXCEPT ![c] = r]
    BY <1>1 DEF AttachRead, Begin, Entry
  <2> HIDE DEF r
  <2>2. PeopleStand /\ ~Arriving(c) /\ TeamsOf(p) = {} /\ PhoneFree(p, t)
    BY <1>1 DEF AttachRead, Begin, PeopleStand, Arriving, InRun
  <2> QED BY <2>1, <2>2, EntryBegins
<1>2. ASSUME AttachCommit(c), ~CanAttach(call[c].team, call[c].phone) PROVE OneEntry'
  <2>1. End(c) /\ PeopleStand
    BY <1>2 DEF AttachCommit, PeopleStand
  <2> QED BY <2>1, EntryStands DEF End
<1>3. ASSUME AttachCommit(c), CanAttach(call[c].team, call[c].phone) PROVE OneEntry'
  <2>0. PICK p, t : p = call[c].phone /\ t = call[c].team
    OBVIOUS
  <2>1. teams' = Attached(t, p) /\ (End(c) \/ UNCHANGED call)
    BY <1>3, <2>0 DEF AttachCommit
  <2>2. Arriving(c) /\ Entry(call[c]) = t
    BY <1>3, <2>0 DEF AttachCommit, At, Arriving, Entry
  <2>3. t \in DOMAIN teams
    BY <1>3, <2>0 DEF AttachCommit, At, CallsOK, HandsOK, JoinType, AttachType, ListType, SweepType,
                StartType
  <2>4. \A x \in Calls : Arriving(x)' => /\ Arriving(x) /\ call'[x].phone = call[x].phone
                                         /\ Entry(call'[x]) = Entry(call[x])
    <3>1. CASE End(c)
      <4>1. call'[c].kind = "none" /\ \A x \in Calls \ {c} : call'[x] = call[x]
        BY <3>1 DEF End, CallsOK
      <4> QED BY <4>1 DEF Arriving
    <3>2. CASE UNCHANGED call
      BY <3>2 DEF Arriving
    <3> QED BY <2>1, <3>1, <3>2
  <2>5. /\ DOMAIN teams' = DOMAIN teams /\ teams'[t].phones = teams[t].phones \cup {p}
        /\ \A u \in DOMAIN teams \ {t} : teams'[u] = teams[u]
    BY <2>1, <2>3 DEF Attached, TypeOK, TeamType
  <2>6. TeamsOf(p) \subseteq {t}
    BY <2>0, <2>2 DEF OneEntry
  <2>7. TeamsOf(p)' \subseteq {t}
    BY <2>5, <2>6 DEF TeamsOf
  <2>8. \A q : q # p => TeamsOf(q)' \subseteq TeamsOf(q)
    BY <2>3, <2>5 DEF TeamsOf
  <2> QED BY <2>0, <2>2, <2>4, <2>7, <2>8, EntryArrives
<1> QED BY <1>1, <1>2, <1>3

LEMMA OthersEntry ==
  ASSUME EntryInv, OneEntry, NEW c \in Calls, Organize(c) \/ Die(c)
  PROVE  OneEntry'
<1> USE DEF EntryInv
<1>1. PeopleStand
  <2>1. CASE UNCHANGED teams
    BY <2>1 DEF PeopleStand
  <2>2. CASE StartBatch(c)
    BY <2>2, StartBatchEffect DEF PeopleStand
  <2>3. ASSUME NEW t \in Phones, CloseTeam(c, t) PROVE PeopleStand
    BY <2>3 DEF CloseTeam, PeopleStand, TypeOK, TeamType
  <2> QED
    BY <2>1, <2>2, <2>3 DEF Organize, Die, StartRead, StartStamp, CloseOverride, CloseList,
       CloseReturns, CloseFails
<1>2. ASSUME NEW r, call' = [call EXCEPT ![c] = r], r.kind \notin {"join", "attach"} PROVE OneEntry'
  BY <1>1, <1>2, EntryStands
<1>3. ASSUME NEW named \in SUBSET DOMAIN teams, StartRead(c, named) PROVE OneEntry'
  BY <1>2, <1>3 DEF StartRead, Begin
<1>4. CASE End(c)
  BY <1>2, <1>4 DEF End
<1>5. CASE StartBatch(c) /\ Goto(c, "stamp")
  <2>1. [call[c] EXCEPT !.pc = "stamp"].kind = "start"
    BY <1>5, StartBatchEffect DEF StartType
  <2> QED BY <1>2, <1>5, <2>1 DEF Goto
<1>6. CASE CloseOverride(c)
  BY <1>2, <1>6 DEF CloseOverride, Begin
<1>7. CASE CloseList(c)
  BY <1>2, <1>7 DEF CloseList
<1>8. ASSUME NEW t \in Phones, CloseTeam(c, t) \/ CloseFails(c, t) PROVE OneEntry'
  <2>1. [call[c] EXCEPT !.left = @ \ {t}].kind = "close"
    BY <1>8, SweepHands DEF CloseTeam, CloseFails, SweepType
  <2> QED BY <1>2, <1>8, <2>1 DEF CloseTeam, CloseFails
<1> QED
  BY <1>3, <1>4, <1>5, <1>6, <1>7, <1>8 DEF Organize, Die, StartBatch, StartStamp, CloseReturns

LEMMA StepEntry ==
  ASSUME EntryInv, OneEntry, "phone" \notin Races, [Next]_vars
  PROVE  OneEntry'
<1>1. ASSUME UNCHANGED call, PeopleStand PROVE OneEntry'
  <2>1. \A p : TeamsOf(p)' = TeamsOf(p)
    BY <1>1 DEF PeopleStand, TeamsOf
  <2> QED BY <1>1, <2>1 DEF OneEntry, OneTeamPerPhone, PeopleStand, Arriving
<1>2. ASSUME NEW t \in DOMAIN teams, NEW p \in Phones, NEW q \in Phones,
             TransferController(t, p, q) \/ ClaimController(t, p)
      PROVE  OneEntry'
  <2>1. PeopleStand
    BY <1>2 DEF TransferController, ClaimController, PeopleStand, EntryInv, TypeOK, TeamType
  <2> QED BY <1>1, <1>2, <2>1 DEF TransferController, ClaimController
<1>3. ASSUME NEW p \in Phones, RequestGuardianConsent(p) \/ GrantGuardianConsent(p)
      PROVE  OneEntry'
  <2>1. PeopleStand
    BY <1>3 DEF RequestGuardianConsent, GrantGuardianConsent, PeopleStand, EntryInv, TypeOK, TeamType
  <2> QED BY <1>1, <1>3, <2>1 DEF RequestGuardianConsent, GrantGuardianConsent
<1>4. CASE GraceEnds \/ Finish \/ UNCHANGED vars
  BY <1>1, <1>4 DEF GraceEnds, Finish, vars, PeopleStand
<1> QED BY <1>2, <1>3, <1>4, JoinEntry, AttachEntry, OthersEntry DEF Next, Arrive

(* The counters of a run are its teams and its phones, less the joins that *)
(* are between create and count or died there, whatever is retried or      *)
(* tapped twice; and where no phone enters two teams at once, none is ever *)
(* in two.                                                                 *)
THEOREM CountsOnce ==
  ASSUME "phone" \notin Races
  PROVE  Spec => []CountedOnce
<1>1. Init => OneEntry
  <2> SUFFICES ASSUME Init PROVE OneEntry
    OBVIOUS
  <2>1. \A c \in Calls : ~Arriving(c)
    BY DEF Init, Arriving
  <2>2. PICK founder \in Phones :
          teams = [p \in (IF setup.instant THEN {founder} ELSE {}) |-> NewTeam(p, TRUE, FALSE)]
    BY DEF Init
  <2>3. \A t, u \in DOMAIN teams : t = u
    BY <2>2
  <2> QED BY <2>1, <2>3 DEF OneEntry, OneTeamPerPhone
<1>2. EntryInv /\ OneEntry /\ [Next]_vars => OneEntry'
  BY StepEntry
<1>3. CountInv /\ OneEntry => CountedOnce
  BY DEF CountInv, Counters, OneEntry, CountedOnce
<1> QED BY <1>1, <1>2, <1>3, CountInvAlways, PTL DEF Spec
=============================================================================
