------------------------------ MODULE RunEntry ------------------------------
(***************************************************************************)
(* How phones come into a run and play begins: joinRun, joinTeamAsDevice,  *)
(* the controller of a team, guardian consent, startTeams, and the closing *)
(* of a mission while teams still arrive.                                  *)
(*                                                                         *)
(* A team is named by the phone that founded it, as its document is.       *)
(* joinRun, startTeams and a closure are split where they await the        *)
(* database; a transaction is one step.  Time is what the code asks of it: *)
(* has play begun, and more than the grace period ago.  What a team plays  *)
(* is left out (StationSlots, StageFlow) but for one mission, which an     *)
(* organizer may close.  Payment, names and access codes are left out.     *)
(*                                                                         *)
(* Code: functions/src/runs/{index,teamDevices}.ts, packages/shared/src/   *)
(* {lateJoiner,guardianConsent,teamParticipation,runCapacity}.ts.          *)
(***************************************************************************)
EXTENDS Naturals, FiniteSets

CONSTANTS
  Phones,         \* signed-in devices
  Calls,          \* server calls that may be in flight at once
  Setups,         \* the kinds of run
  Races,          \* the overlaps a run permits, of AllRaces
  MaxDevices,     \* MAX_RUN_DEVICES
  DeviceFloor,    \* TEAM_DEVICE_FLOOR
  DeviceHardCap,  \* TEAM_DEVICE_HARD_CAP
  MaxFaults       \* calls that die, lost answers, failed transactions of a closure

(* "phone": one phone entering two teams at once; "starts": two presses of *)
(* start at once.                                                          *)
AllRaces == {"phone", "starts"}

(* A kind of run: consent required, a test drive, late joiners started,    *)
(* instant play; maxParticipants; the headcount every team declares, and   *)
(* whether the game waits for all of it to be on a phone.  "asks": phones  *)
(* ask for consents; "closes": the organizer closes the mission.           *)
SetupsAssumption ==
  \A s \in Setups :
    /\ {s.consent, s.test, s.auto, s.instant, s.allOnline, s.asks, s.closes} \subseteq BOOLEAN
    /\ s.cap \in Nat \ {0} /\ s.people \in Nat \ {0}
    /\ s.instant => s.cap = 1 /\ ~s.consent
ASSUME SetupsAssumption

ASSUME PhonesAssumption == IsFiniteSet(Phones) /\ Races \subseteq AllRaces
ASSUME CallsAssumption == IsFiniteSet(Calls) /\ Calls # {}
ASSUME DevicesAssumption ==
  /\ {MaxDevices, DeviceFloor, DeviceHardCap} \subseteq Nat \ {0}
  /\ MaxFaults \in Nat

VARIABLES
  setup,   \* the run's fixed settings
  run,     \* the run document
  teams,   \* the team documents there are
  consents, \* phones with an unused consent token; documents of a consent alone
  call,    \* calls in flight
  ghost    \* joins that died uncounted; a closure returned; whom it missed; faults

vars == <<setup, run, teams, consents, call, ghost>>

-----------------------------------------------------------------------------
(* canAddRunDevice; teamDeviceAllowance; the two holds of startTeams.      *)

RunHasRoom == run.devices < MaxDevices

Allowance ==
  LET declared == IF setup.people > DeviceHardCap THEN DeviceHardCap ELSE setup.people
  IN  IF declared > DeviceFloor THEN declared ELSE DeviceFloor

IsConsentSatisfied(t) == setup.consent => teams[t].consented

(* A declared headcount of one cannot be told from none declared. *)
ShouldWaitForMembers(t) ==
  setup.allOnline /\ setup.people > 1 /\ Cardinality(teams[t].phones) < setup.people

(* The self-start of joinRun: a test drive, or a late joiner where the     *)
(* game says so; never past the consent gate.                              *)
IsLate     == run.started = "past"

\* Mutant: a rehearsal starts without the consent check.
SelfStartsUnasked == setup.test \/ (IsLate /\ setup.auto /\ ~setup.consent)
SelfStarts == ~setup.consent /\ (setup.test \/ (IsLate /\ setup.auto))

TeamsOf(p) == {t \in DOMAIN teams : p \in teams[t].phones}

\* Mutant: closures are not applied to a late joiner.
NewTeamOpen(p, launch, closed) ==
  [launched |-> launch, consented |-> FALSE, phones |-> {p}, controller |-> p, closed |-> FALSE]
NewTeam(p, launch, closed) ==
  [launched |-> launch, consented |-> FALSE, phones |-> {p}, controller |-> p, closed |-> closed]

(* A run as launchRunCore and startInstantPlay create it; a missing        *)
(* deviceCount reads as participantCount.                                  *)
Init ==
  /\ setup \in Setups
  /\ run = [finished |-> FALSE, started |-> "no", closed |-> FALSE,
            participants |-> IF setup.instant THEN 1 ELSE 0,
            devices |-> IF setup.instant THEN 1 ELSE 0]
  /\ \E founder \in Phones :
       teams = [p \in (IF setup.instant THEN {founder} ELSE {}) |-> NewTeam(p, TRUE, FALSE)]
  /\ consents = [tokens |-> {}, alone |-> {}]
  /\ call = [c \in Calls |-> [kind |-> "none"]]
  /\ ghost = [uncounted |-> 0, swept |-> FALSE, missed |-> {}, faults |-> 0]

-----------------------------------------------------------------------------
Running(kind)   == {c \in Calls : call[c].kind = kind}
At(c, kind, pc) == call[c].kind = kind /\ call[c].pc = pc
Goto(c, pc)     == call' = [call EXCEPT ![c].pc = pc]
End(c)          == call' = [call EXCEPT ![c] = [kind |-> "none"]]

(* The team that a joining or attaching phone asks for. *)
Entry(r) == IF r.kind = "join" THEN r.phone ELSE r.team

Begin(c, r) == call[c].kind = "none" /\ call' = [call EXCEPT ![c] = r]

(* The overlaps a run does not permit.  A phone may always send the same   *)
(* call twice; the closing of a mission may overlap everything.            *)
PhoneFree(p, entry) ==
  \/ "phone" \in Races
  \/ \A c \in Running("join") \cup Running("attach") : call[c].phone = p => Entry(call[c]) = entry

(* joinRun reads the caller's own team, the team it is attached to and the *)
(* run at once; whoever is in the run already, if only by a consent, gets  *)
(* that document back.  Late and closed are judged by this read.           *)
InRun(p) == TeamsOf(p) # {} \/ p \in consents.alone

JoinRead(c, p) ==
  /\ PhoneFree(p, p)
  /\ ~InRun(p) /\ ~run.finished
  /\ Begin(c, [kind |-> "join", pc |-> "capacity", phone |-> p,
               launch |-> SelfStarts, closed |-> run.closed])
  /\ UNCHANGED <<setup, run, teams, consents, ghost>>

\* Mutant: off by one.
JoinCapacityOver(c) ==
  /\ At(c, "join", "capacity")
  /\ IF run.participants <= setup.cap /\ RunHasRoom THEN Goto(c, "create") ELSE End(c)
  /\ UNCHANGED <<setup, run, teams, consents, ghost>>

(* A second read of the run, for its capacity alone. *)
JoinCapacity(c) ==
  /\ At(c, "join", "capacity")
  /\ IF run.participants < setup.cap /\ RunHasRoom THEN Goto(c, "create") ELSE End(c)
  /\ UNCHANGED <<setup, run, teams, consents, ghost>>

\* Mutant: a join that finds its team there is counted too.
JoinCreateTwice(c) ==
  /\ At(c, "join", "create")
  /\ LET p == call[c].phone IN
       teams' = [t \in DOMAIN teams \cup {p} |->
                   IF t \in DOMAIN teams THEN teams[t]
                   ELSE NewTeam(p, call[c].launch, call[c].closed)]
  /\ Goto(c, "count")
  /\ UNCHANGED <<setup, run, consents, ghost>>

(* teamRef.create fails where there is a document; that join counts nothing. *)
JoinCreate(c) ==
  /\ At(c, "join", "create")
  /\ LET p == call[c].phone IN
       IF p \in DOMAIN teams \cup consents.alone
       THEN End(c) /\ UNCHANGED teams
       ELSE /\ teams' = [t \in DOMAIN teams \cup {p} |->
                           IF t = p THEN NewTeam(p, call[c].launch, call[c].closed)
                           ELSE teams[t]]
            /\ Goto(c, "count")
  /\ UNCHANGED <<setup, run, consents, ghost>>

JoinCount(c) ==
  /\ At(c, "join", "count")
  /\ run' = [run EXCEPT !.participants = @ + 1, !.devices = @ + 1]
  /\ End(c)
  /\ UNCHANGED <<setup, teams, consents, ghost>>

-----------------------------------------------------------------------------
(* joinTeamAsDevice: the caller's membership and the team of the code are  *)
(* read outside the transaction that attaches the phone.                   *)
AttachRead(c, p, t) ==
  /\ PhoneFree(p, t)
  /\ ~run.finished /\ ~InRun(p) /\ t \in DOMAIN teams
  /\ Begin(c, [kind |-> "attach", pc |-> "commit", phone |-> p, team |-> t])
  /\ UNCHANGED <<setup, run, teams, consents, ghost>>

CanAttach(t, p) ==
  /\ p \notin teams[t].phones
  /\ Cardinality(teams[t].phones) < Allowance
  /\ RunHasRoom

Attached(t, p) == [teams EXCEPT ![t].phones = @ \cup {p}]

(* withLockRetry runs the transaction again when the answer to a commit is *)
(* lost: the phone is then found attached.  Teams that have finished take  *)
(* no phones; teams do not finish here.                                    *)
AttachCommit(c) ==
  /\ At(c, "attach", "commit")
  /\ LET t == call[c].team
         p == call[c].phone
     IN  IF CanAttach(t, p)
         THEN /\ teams' = Attached(t, p)
              /\ run' = [run EXCEPT !.devices = @ + 1]
              /\ \/ End(c) /\ UNCHANGED ghost
                 \/ /\ ghost.faults < MaxFaults
                    /\ ghost' = [ghost EXCEPT !.faults = @ + 1]
                    /\ UNCHANGED call
         ELSE End(c) /\ UNCHANGED <<teams, run, ghost>>
  /\ UNCHANGED <<setup, consents>>

(* A phone is never detached, so that what resolveCallerTeam found before  *)
(* the transaction still holds in it.                                      *)
TransferController(t, p, q) ==
  /\ p = teams[t].controller /\ q \in teams[t].phones \ {p}
  /\ teams' = [teams EXCEPT ![t].controller = q]
  /\ UNCHANGED <<setup, run, consents, call, ghost>>

ClaimController(t, p) ==
  /\ p \in teams[t].phones /\ p # teams[t].controller
  /\ teams' = [teams EXCEPT ![t].controller = p]
  /\ UNCHANGED <<setup, run, consents, call, ghost>>

-----------------------------------------------------------------------------
(* A token is for the phone that asks, in a team or not, and the consent   *)
(* is merged into its document: without a team, into one of the consent    *)
(* alone, which has no stages and no code.                                 *)
RequestGuardianConsent(p) ==
  /\ setup.asks /\ p \in Phones \ consents.tokens
  /\ consents' = [consents EXCEPT !.tokens = @ \cup {p}]
  /\ UNCHANGED <<setup, run, teams, call, ghost>>

GrantGuardianConsent(p) ==
  /\ p \in consents.tokens
  /\ IF p \in DOMAIN teams
     THEN /\ teams' = [teams EXCEPT ![p].consented = TRUE]
          /\ consents' = [consents EXCEPT !.tokens = @ \ {p}]
     ELSE /\ consents' = [tokens |-> consents.tokens \ {p}, alone |-> consents.alone \cup {p}]
          /\ UNCHANGED teams
  /\ UNCHANGED <<setup, run, call, ghost>>

FirstPress == run.started = "no"

(* startTeams reads the run, then every team; the owner may name some, and *)
(* must where a document of a consent alone makes the start of all throw.  *)
Startable ==
  {t \in DOMAIN teams : ~teams[t].launched /\ IsConsentSatisfied(t) /\ ~ShouldWaitForMembers(t)}

StartRead(c, named) ==
  /\ "starts" \in Races \/ Running("start") = {}
  /\ Begin(c, [kind |-> "start", pc |-> "batch", stamp |-> FirstPress,
               targets |-> [t \in Startable \cap named |-> teams[t].closed]])
  /\ UNCHANGED <<setup, run, teams, consents, ghost>>

(* One batch; it writes the stages of each team back as they were read. *)
StartBatch(c) ==
  /\ At(c, "start", "batch")
  /\ LET targets == call[c].targets IN
       teams' = [t \in DOMAIN teams |->
                   IF t \in DOMAIN targets
                   THEN [teams[t] EXCEPT !.launched = TRUE, !.closed = targets[t]]
                   ELSE teams[t]]
  /\ IF call[c].stamp THEN Goto(c, "stamp") ELSE End(c)
  /\ UNCHANGED <<setup, run, consents, ghost>>

(* teamsStartedAt; the write is best effort (Die). *)
StartStamp(c) ==
  /\ At(c, "start", "stamp")
  /\ run' = [run EXCEPT !.started = "just"]
  /\ End(c)
  /\ UNCHANGED <<setup, teams, consents, ghost>>

(* LATE_JOIN_GRACE_MS have passed since teamsStartedAt. *)
GraceEnds ==
  /\ run.started = "just"
  /\ run' = [run EXCEPT !.started = "past"]
  /\ UNCHANGED <<setup, teams, consents, call, ghost>>

-----------------------------------------------------------------------------
(* setRunTaskStatus writes the override, then closeTaskForAllTeams lists   *)
(* the teams once and closes the mission for each in a transaction; one    *)
(* that fails is logged.  The mission is closed once.                      *)
CloseOverride(c) ==
  /\ setup.closes /\ ~run.closed
  /\ run' = [run EXCEPT !.closed = TRUE]
  /\ Begin(c, [kind |-> "close", pc |-> "list"])
  /\ UNCHANGED <<setup, teams, consents, ghost>>

(* Joins that read the run before the override, and have no team yet.      *)
FoundingOpen ==
  {call[d].phone : d \in {e \in Running("join") : ~call[e].closed}} \ DOMAIN teams

(* Teams a start is about to write back as it read them, the mission open. *)
StartingOpen ==
  UNION {{t \in DOMAIN call[d].targets : ~call[d].targets[t]} :
           d \in {e \in Calls : At(e, "start", "batch")}}

CloseList(c) ==
  /\ At(c, "close", "list")
  /\ call' = [call EXCEPT ![c] = [kind |-> "close", pc |-> "teams", left |-> DOMAIN teams]]
  /\ ghost' = [ghost EXCEPT !.missed = FoundingOpen]
  /\ UNCHANGED <<setup, run, teams, consents>>

CloseTeam(c, t) ==
  /\ At(c, "close", "teams") /\ t \in call[c].left
  /\ teams' = [teams EXCEPT ![t].closed = TRUE]
  /\ call' = [call EXCEPT ![c].left = @ \ {t}]
  /\ ghost' = [ghost EXCEPT !.missed = @ \cup ({t} \cap StartingOpen)]
  /\ UNCHANGED <<setup, run, consents>>

CloseFails(c, t) ==
  /\ At(c, "close", "teams") /\ t \in call[c].left
  /\ ghost.faults < MaxFaults
  /\ call' = [call EXCEPT ![c].left = @ \ {t}]
  /\ ghost' = [ghost EXCEPT !.missed = @ \cup {t}, !.faults = @ + 1]
  /\ UNCHANGED <<setup, run, teams, consents>>

CloseReturns(c) ==
  /\ At(c, "close", "teams") /\ call[c].left = {}
  /\ End(c)
  /\ ghost' = [ghost EXCEPT !.swept = TRUE]
  /\ UNCHANGED <<setup, run, teams, consents>>

(* finalizeRun, or a newer test drive of the game that retires this one.   *)
Finish ==
  /\ ~run.finished
  /\ run' = [run EXCEPT !.finished = TRUE]
  /\ UNCHANGED <<setup, teams, consents, call, ghost>>

(* The process dies between two awaits, or a write of the call fails. *)
Die(c) ==
  /\ call[c].kind # "none" /\ ghost.faults < MaxFaults
  /\ End(c)
  /\ ghost' = [ghost EXCEPT !.faults = @ + 1,
                            !.uncounted = IF At(c, "join", "count") THEN @ + 1 ELSE @]
  /\ UNCHANGED <<setup, run, teams, consents>>

Arrive(c) ==
  \/ \E p \in Phones : JoinRead(c, p) \/ \E t \in Phones : AttachRead(c, p, t)
  \/ JoinCapacity(c) \/ JoinCreate(c) \/ JoinCount(c) \/ AttachCommit(c)

Organize(c) ==
  \/ \E named \in SUBSET DOMAIN teams : StartRead(c, named)
  \/ StartBatch(c) \/ StartStamp(c)
  \/ CloseOverride(c) \/ CloseList(c) \/ CloseReturns(c)
  \/ \E t \in Phones : CloseTeam(c, t) \/ CloseFails(c, t)

Next ==
  \/ \E c \in Calls : Arrive(c) \/ Organize(c) \/ Die(c)
  \/ \E t \in DOMAIN teams, p, q \in Phones : TransferController(t, p, q)
  \/ \E t \in DOMAIN teams, p \in Phones : ClaimController(t, p)
  \/ \E p \in Phones : RequestGuardianConsent(p) \/ GrantGuardianConsent(p)
  \/ GraceEnds \/ Finish

Spec == Init /\ [][Next]_vars

-----------------------------------------------------------------------------
(* Type invariant: the documents have their shape; a team keeps its        *)
(* founder, its controller is one of its phones, and it never holds more   *)
(* phones than canAttachDevice allows, however many attach at once.        *)
TeamType == [launched : BOOLEAN, consented : BOOLEAN, phones : SUBSET Phones,
             controller : Phones, closed : BOOLEAN]
RunType  == [finished : BOOLEAN, started : {"no", "just", "past"}, closed : BOOLEAN,
             participants : Nat, devices : Nat]

TypeOK ==
  /\ setup \in Setups
  /\ run \in RunType
  /\ DOMAIN teams \subseteq Phones
  /\ \A t \in DOMAIN teams :
       /\ teams[t] \in TeamType
       /\ {t, teams[t].controller} \subseteq teams[t].phones
       /\ Cardinality(teams[t].phones) <= Allowance
  /\ consents \in [tokens : SUBSET Phones, alone : SUBSET (Phones \ DOMAIN teams)]
  /\ ghost \in [uncounted : 0 .. MaxFaults, swept : BOOLEAN, missed : SUBSET Phones,
                faults : 0 .. MaxFaults]

(* A phone is in one team of the run: the guards of joinRun and            *)
(* joinTeamAsDevice keep it, unless two such calls of one phone, to two    *)
(* teams, overlap (the race "phone").                                      *)
OneTeamPerPhone ==
  \A t, u \in DOMAIN teams : t # u => teams[t].phones \cap teams[u].phones = {}

(* "a second tap on the join button, or a retry after a flaky response,    *)
(* must not count twice" (joinRun), and a failed create never inflates the *)
(* count: the run's two counters are its teams and its phones, less the    *)
(* joins between create and count and those that died there.  No phone is  *)
(* counted with two teams.                                                 *)
Counting    == {c \in Calls : At(c, "join", "count")}
AllPhones   == UNION {{t} \X teams[t].phones : t \in DOMAIN teams}

CountedOnce ==
  LET behind == Cardinality(Counting) + ghost.uncounted IN
  /\ Cardinality(DOMAIN teams) = run.participants + behind
  /\ Cardinality(AllPhones) = run.devices + behind
  /\ OneTeamPerPhone

(* "a simultaneous burst can overshoot it by at most the number of joins   *)
(* in flight" (joinRun): with the joins already past the check, neither    *)
(* counter passes its limit by more than the other calls in flight.        *)
PastCheck == Counting \cup {c \in Calls : At(c, "join", "create")}

BurstBounded ==
  LET spare == Cardinality(Calls) - 1 IN
  /\ run.participants + Cardinality(PastCheck) <= setup.cap + spare
  /\ run.devices + Cardinality(PastCheck) <= MaxDevices + spare

(* No door starts a team whose guardian has not consented: not start, not  *)
(* a test drive, not a late join, not instant play.                        *)
ConsentBeforePlay == \A t \in DOMAIN teams : teams[t].launched => IsConsentSatisfied(t)

(* Once a closure has returned, no team has the mission open, teams that   *)
(* join or start later included ("a late joiner ... picks the rest up",    *)
(* closeTaskForAllTeams), but for those it missed: founded by a join that  *)
(* had read the run before the override, written back by a start that had  *)
(* read the team before the closure reached it, or whose transaction       *)
(* failed.                                                                 *)
ClosedForEveryTeam ==
  ghost.swept => \A t \in DOMAIN teams : teams[t].closed \/ t \in ghost.missed

(* The closure misses nobody: the code does not have this.                 *)
NobodyIsMissed == ghost.swept => \A t \in DOMAIN teams : teams[t].closed

(* The first start stands: a later press moves teamsStartedAt only when it *)
(* overlaps another (the race "starts").                                   *)
StartStands == [][run.started # "no" => run'.started # "no" /\
                  (run.started = "past" => run'.started = "past")]_vars
=============================================================================
