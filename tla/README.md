# RushPoint, verified

RushPoint runs outdoor games: a creator builds a game of stages and missions, launches a *run* of
it, and teams walk from station to station while a server hands out missions, grades answers, keeps
score and, at the end, publishes the standings. This directory holds TLA+ models of the server
(`src/functions`, `src/packages/shared`) and of the upload queue of the player's phone
(`src/apps/play-web`), the TLC runs that check them, and proofs about them that
TLAPS checks.

Contents: [the system](#1-the-system), [what is hard about it](#2-what-is-hard-about-it),
[the modules](#3-the-modules), [the runs](#4-the-runs), [fairness](#5-fairness),
[the proofs](#6-the-proofs), [where code and documents disagree](#7-where-code-and-documents-disagree),
[what is not modelled](#8-what-is-not-modelled), [the plan](#9-the-plan).

## 1. The system

There is no long-lived server state worth the name: every call is a Cloud Function (or a handler of
`functions/server.js`, which hosts the same callables without the Firestore triggers) that reads and
writes Firestore documents. What interacts are *calls in flight*, through *documents*:

    creator console --launch, finalize, refresh, skip, close--+
    staff console   --hold, force-assign, send back, adjust---+--> callables --> run document
    player phones   --requestNextTask, complete, answer, poll-+         |        team documents
                                                                        |        players/, benchmarks/
    Firestore --onUpdate of the run document--> onRunFinalized ---------+

| component | state | operations | interacts through |
|---|---|---|---|
| Routing and station slots (`routing/`, `runs/index.ts`) | `run.taskCounts`, `run.taskStatusOverrides`; a team's records, `activeTaskId` | `requestNextTask`, `assignNextInActiveStage`, `assignTask`, `claimSpecificTask`, `releaseTask`, `checkOutTask`, `forceAssignTask` | run and team documents, in separate transactions |
| Stage rules (`runs/helpers.ts`, `shared/gating.ts`, `mutualExclusion.ts`, `taskSkip.ts`, `hiddenTask.ts`) | stage status, record status and skip cause, `requiredTaskCount` | `applyStageCompletion`, `planTaskSkip`, `unreachableTaskIds` | called by every path that may end a stage |
| Sending a team back (`shared/teamRewind.ts`) | the same, backwards | `returnTeamTo` | slots, stage rules |
| Live availability (`functions/src/index.ts`, `shared/liveTaskStatus.ts`) | `taskStatusOverrides` | `setRunTaskStatus`, `closeTaskForAllTeams` | a loop over team documents |
| Expiry and countdowns | closing times, `timeLimitMinutes` | `sweepExpiredInFlight` on requests and polls | plain writes of whole stages |
| Finalization (`runs/index.ts`, `soloAutoFinalize.ts`) | run status, final board, claims | `finalizeRun`, automatic end of a solo run, `onRunFinalized`, consolidation | run and team documents, profiles, benchmarks, mail |
| Leaderboard (`runs/index.ts`, `leaderboardThrottle.ts`) | `run.leaderboard` with its frozen and published flags | `maybeRefreshLeaderboardSnapshot`, `refreshLeaderboard` | written by five callables |
| Staff hold | `held`, `heldAt`, `heldMs` | `setTeamHold` | settled by finalize too |
| Joining, starting, devices (`runs/index.ts`, `teamDevices.ts`, `lateJoiner.ts`, `guardianConsent.ts`) | `participantCount`, `deviceCount`, `teamsStartedAt`; a team's `deviceUids`, `controllerUid`, `launched`, `guardianConsent` | `joinRun`, `joinTeamAsDevice`, `transferController`, `claimController`, `startTeams`, `requestGuardianConsent`, `grantGuardianConsent` | run and team documents, consent tokens |
| Grading (`functions/src/index.ts`, `runs/index.ts`, `wrongAnswerPenalty.ts`, `approvalReversal.ts`) | `taskAttempts`, `answerPenalties`, `taskStepProgress`, `taskHintsUsed`, `taskSubmissions`, `score`, `bonusPenalty` | `submitTaskAnswer`, `submitSequenceStep`, `submitStationPhoto`, `attachSubmissionMedia`, `reviewStationSubmission`, `requestTaskHint`, `adjustTeamScore` | team document, live feed |
| Document cache (`docCache.ts`, `docCachePolicy.ts`) | the process's memory | `cachedGetDoc`, `cachedGetCollection`, every write through `db` | sits between the calls above and Firestore |
| Background uploads (`play-web/src/lib/backgroundMedia.ts`, `pendingUpload.ts`, `TaskRunner.tsx`) | a phone's IndexedDB, the running jobs, `byTask`, `superseded` | `sendDeferred`, `enqueue`, `work`, `finish`, `restore` | `submitStationPhoto`, `attachSubmissionMedia` |
| Trackables, zones, chat, wallet, authoring | see PROJECT.json | | |

PROJECT.json lists all thirty-two components with their sources and, for each, what is modelled or why
it is not. For each of those modelled, correctness means:

* *slots*: a station never takes more teams than its cap, a slot is given back exactly once, a team
  has one mission in hand, every team gets through;
* *stage rules*: stages are played in order, nothing is left in a team's hands behind it, what is
  retired is really out of reach and what is out of reach is retired, completed work is kept,
  a team always has something to do;
* *arrival*: the counters of a run say how many teams and phones it has, a burst of joins overshoots
  its limits by no more than what is in flight, a minor's team never plays unconsented, a closed
  mission is closed for a team that comes late;
* *grading*: score and penalty are what the team's history earned and owes, in any order of answers,
  duplicates, reviews and send-backs; limits hold up to the calls in flight; proof is counted; the
  feed shows a completion once;
* *the cache*: what is held differs from Firestore only in one known way, and never for long;
* *uploads*: a file that an approved mission waits for is never lost, is sent until it is attached,
  refused or replaced by a newer one, and stays where it is attached;
* *the end*: a frozen board stands, a hold counts once, every profile, benchmark and mail is done
  once and from the final board, finishers are recorded, a solo run ends by itself.

## 2. What is hard about it

* **Two documents, many transactions.** A slot is reserved on the run, then claimed on the team;
  between the two, any other call may complete, skip, close, force or hold. The loser of a race has
  to give its slot back, once.
* **Plain writes of what was read earlier.** `startTeams`, the expiry sweeps, `refreshLeaderboard`,
  the settling of holds and `finalizeRunCore` write whole fields without a transaction.
* **Death in between.** Releases follow the commit they belong to; claims of mail and benchmark
  precede the work. A process that dies leaks the first and loses the second.
* **At-least-once delivery.** Consolidation runs inline and in a trigger that may come twice, next to
  a second finalize.
* **Checks before the await.** Attempt limits, lockouts, capacity, lateness and a photo's status are
  judged on one read and acted on after another; two phones of one team, or one phone's retry, do
  both at once. A commit whose answer is lost is run again by `withLockRetry`.
* **A phone that dies.** Approved missions wait for a file that only the player's phone has; the page
  is closed, the network goes, a request it gave up is served later.
* **A cache in front of it all.** A read in flight and a write in flight meet in the process's memory.
* **Rules that combine.** Gates, alternatives, partial counts, benched missions, countdowns and six
  operator tools meet in one stage; one of them may kill a mission another one waits for, and a team
  without anything to do has nobody to tell.
* **Waiting.** Teams wait for full stations; only completions of others free them.

PROJECT.json `hazards` lists each at the line where it bites.

## 3. The modules

| module | what it is |
|---|---|
| `SlotLedger` | the abstract specification of station capacity: take, hand over, give back, lose |
| `StationSlots` | calls that move slots and records of one run, one action per database step |
| `MCStationSlots` | its instances |
| `StationSlotsProofs`, `StationAccountsProofs` | theorems about `StationSlots`; the second has the accounting, the refinement of `SlotLedger`, the stamps and the closures |
| `StageFlow` | the stage rules, one team, every call one transaction |
| `MCStageFlow` | its game templates and toolboxes |
| `StageFlowProofs` | theorems about `StageFlow` |
| `RunFinalize` | the end of a run, the boards, holds and consolidation, one action per database step |
| `MCRunFinalize` | its kinds of run |
| `RunFinalizeProofs` | theorems about `RunFinalize` |
| `RunEntry` | phones join, attach and are started; consent; a closure while teams arrive |
| `MCRunEntry` | its kinds of run |
| `RunEntryProofs` | theorems about `RunEntry` |
| `TaskGrading` | one mission of one team: answers, steps, photos, reviews, hints, score |
| `MCTaskGrading` | its kinds of mission |
| `TaskGradingProofs` | theorems about `TaskGrading` |
| `DocCache` | the document cache in front of one collection |
| `MCDocCache` | its instance |
| `DocCacheProofs` | theorems about `DocCache` |
| `MediaQueue` | the media queue of one phone, its store, and the submissions its files belong to |
| `MCMediaQueue` | its instance |
| `MediaQueueProofs` | theorems about `MediaQueue` |

The components share documents but are modelled separately, each at the grain its hazards
need: `StationSlots` interleaves every step and keeps the stage rules to games without gates;
`StageFlow` keeps all the rules and makes each call atomic; `RunFinalize` interleaves every step and
keeps of the game only what a board, a hold or a profile reads; `RunEntry` ends where play begins;
`TaskGrading` has one mission and leaves to `StationSlots` who holds it; `DocCache` has documents
without meaning; `MediaQueue` is the client's side of the submissions that `TaskGrading` reviews. What one module leaves out another has, except where section 8 says so.
`StationSlots` implements
`SlotLedger` through a refinement mapping (`ImplementsLedger`).

Definitions named "MUTANT" or "Mutant" are plausible mistakes in the definition that follows. No
specification uses them; they exist to see each property fail.

### StationSlots

`runStatus`, `counts` (`run.taskCounts`), `override` (`taskStatusOverrides`) and `expired` are the
run document and the clock; `rec`, `stages`, `req`, `active` (`activeTaskId`), `launched`, `earned`
(a record's award) and `paid` (awards added to the team's score) the team documents. A call in flight
has a program counter `pc`, the `team` and `task` it works on, the `open` missions it read, the slots
it has `owed`, the `draft` it will write back and, for a closure, the `closing` mission and the teams
`todo`. `final` is what a finalize has read. `leaked` and `missed` are history: slots that died with
a call, and per mission the teams its latest closure missed.

| code | actions |
|---|---|
| `assignNextInActiveStage` | `RequestNext`, `NothingToAssign`, `ReadOpen`, `SweepRead`, `Persist`, `Reserve` / `NoCandidate`, `Claim` / `ClaimRefused` |
| `releaseTask` | `Release`, `Released` |
| `advanceTeamStateOnPoll` | `PollRead`, `Persist` / `PersistFails` |
| `startTeams` | `StartRead`, `StartWrite` |
| `completeTaskForTeam` | `Complete` |
| `skipTaskForTeam`, `skipStage` | `SkipTaskOpen`, `SkipTask` / `SkipTaskRefused`; `SkipStage` |
| `checkOutTask` | `CheckOut` |
| `forceAssignTask` | `ForceRead`, `ForceClaim` / `ForceRefused`, `ForceTeam` / `ForceUndone` |
| `setRunTaskStatus` | `SetStatusRead`, `SetStatusWrite`, `CloseTeam` / `CloseSkips`, `CloseDone` |
| `finalizeRunCore` (its counters) | `FinalizeRead`, `FinalizeWrite` |
| the process, the clock | `Crash`, `Expire` |

Scope: games without unlock gates, exclusive groups and scheduled releases, with a preset that pays
points. The priority score of routing is left open: any eligible mission may be chosen.

### StageFlow

`game` is the template (stages, gates, alternatives, required counts, benched and timed missions),
`tools` the operator tools used in this run, `closed` the closed missions, `doc` the team document:
stage status, required counts, record status and skip cause, `finished`. `Settle` is
`applyStageCompletion`, `Unreachable` is `unreachableTaskIds`, `PlanSkip` is `planTaskSkip`,
`Rewound` to `ReopenedStage` are `planTeamRewind`. Actions: `Heal` and `Assign` (the poll),
`Complete`, `TimeUp`, `SkipTask`, `SkipStage`, `Close`, `Reopen`, `ForceAssign` (with and without
`override`), `ReturnToTask`, `ReturnToStage`. A completion need not be of the mission in hand: a photo
may be approved after the team was moved on. A claim made by a send-back may be refused.

### RunFinalize

`setup` fixes the kind of run: its teams, whether it is solo, whether the game asks for a staged
reveal, whether triggers are delivered, which calls come. `run` holds the status, the board with its
two flags and the two claims; `team` a team's score (number of scoring events), whether it is
finished, held, how many intervals its `heldMs` sums, whether its profile was recorded. `calls` are
the calls in flight plus the trigger's process, with the board they computed (`seen`) and the teams
they still have to visit. `event` is the transition to finished as the platform delivers it. `done`
is what left the run or is only observed: profile folds and the scores they banked, benchmark merges,
mails, every final board written, holds begun.

| code | actions |
|---|---|
| `completeTaskForTeam`, the expiry sweep, `adjustTeamScore` | `Complete`, `TimeUp`, `Adjust` |
| `setTeamHold` | `HoldRead`, `HoldWrite`, `ResumeWrite` |
| `maybeRefreshLeaderboardSnapshot` | `SnapRead`, `SnapTeams`, `SnapWrite` |
| `refreshLeaderboard` | `RefreshRead`, `RefreshTeams`, `RefreshWrite` |
| `maybeAutoFinalizeSoloRun`, `finalizeRun` | `SoloRead`, `SoloTeams`; `FinalizeRun` |
| `finalizeRunCore` | `FinalRead`, `FinalTeams`, `Settle` / `SettleFails`, `FinalWrite` |
| `onRunFinalized` | `Deliver` (at least once), `Leave` |
| `runPostFinalizeConsolidation` | `Consolidate` / `ConsolidateFails`, `Fold` / `FoldFails`, `BenchmarkClaim`, `Merge`, `MailClaim`, `Mail`, `ConcernFails` |
| the process | `Crash` |

`Adjust` stands for every caller that forces a snapshot after a write (`skipStage`, `skipTask`, a
closure, a send-back); completions do not refresh the board. The throttle never applies to forced
refreshes, which are the only ones left in the code. Left out: test drives, games that opt out of the
benchmark, the per-type transactions of one merge, and the document cache behind the team reads
(taken as fresh; component "Document cache"). Sending a finished team back and the guard that keeps
held teams from completing are not part of this module.

### RunEntry

`setup` fixes the kind of run (consent, test drive, late joiners started, instant play, everybody on a
phone, capacity, headcount). `run` is the slice of the run document arrival reads and writes;
`teams` maps the founding phone, which names the team, to its phones, controller, `launched`,
consent, and whether the one mission an organizer may close is closed for it. `consents` are the phones
with an unused consent token (`tokens`) and the documents of a phone without a team that hold a consent
alone (`alone`), which `joinRun` takes for a team the phone is in. `ghost.missed` are the teams a closure
missed. Time is two facts: play has begun, and more than the grace period ago.

| code | actions |
|---|---|
| `joinRun` | `JoinRead`, `JoinCapacity`, `JoinCreate`, `JoinCount` |
| `joinTeamAsDevice` | `AttachRead`, `AttachCommit` (again after a lost answer) |
| `transferController`, `claimController` | `TransferController`, `ClaimController` |
| `requestGuardianConsent`, `grantGuardianConsent` | the same names |
| `startTeams` | `StartRead`, `StartBatch`, `StartStamp` |
| `setRunTaskStatus`, `closeTaskForAllTeams` | `CloseOverride`, `CloseList`, `CloseTeam` / `CloseFails`, `CloseReturns` |
| `finalizeRun`, the clock, the process | `Finish`; `GraceEnds`; `Die` |

Everything overlaps everything, a closure included, but for two overlaps that `Races` names (one phone
entering two teams at once, two presses of start at once). The code lets these happen and does not
survive them (section 7); each property is checked with the overlaps it can bear and refuted with the
others.

### TaskGrading

`setup` fixes the mission: quiz, sequence or photo, attempt limit, cost level, sealed scores, test
drive, automatic approval, escalating hint. `team` is the slice of the team document the grading
calls share, `sub` the mission's entry in `taskSubmissions`. `ghost` counts what the properties
compare with: points adjusted, forgiven by the clamp at zero, hints paid, completions, feed items.

| code | actions |
|---|---|
| `submitTaskAnswer` (also `verifyStationCode`: a quiz without cost) | `AnswerGate`, `AnswerWrong`, `Complete`; `LockoutEnds` is the clock |
| `submitSequenceStep` | `StepRead`, `StepWrite`, `Complete` |
| `submitStationPhoto` | `PhotoRead`, `PhotoWrite`, `Complete`, `FeedWrite` |
| `attachSubmissionMedia` | `AttachRead`, `AttachCommit`, `FeedWrite` |
| `reviewStationSubmission` | `ReviewBegin`, `ReviewReverse`, `ReviewStamp`, `Complete`, `FeedRead`, `FeedWrite` |
| `requestTaskHint`, `adjustTeamScore` | `RequestTaskHint`, `AdjustTeamScore` |
| `returnTeamTo`, as far as it reopens this mission | `ReturnTeamTo` |
| the process | `Die` |

`Complete` is the transaction of `completeTaskForTeam` reduced to this mission: it is run again when
its answer is lost, and leaves a completed mission alone.

### DocCache

`doc` is Firestore: for each document how often it was written and whether it is there. `held` and
`members` are the memory of the process, each entry with its `storedAtMs` (`at`), the time of the read
it came from (`readAt`) and whether a write overtook its fill or landed unseen. `now` is the clock.

| code | actions |
|---|---|
| `cachedGetDoc` | `GetDoc` (a hit answers at once), `GetRead`, `GetPut` |
| `cachedGetCollection` | `GetCollection`, `ListRead`, `ListPut` |
| a verb, `batch.commit`, `runTransaction` through the wrapped handle | `Commit` (a lost answer, a failure and a success look the same from here), `Invalidate` |
| `recursiveDelete` of a tree with the collection in it | `Purge`, `PurgeDoc` (any number, in any order), `Invalidate` |
| a write the driver gives up on and Firestore applies later | `GiveUp`, which invalidates, then `LandLate` |
| `evictIfNeeded` | `EvictDoc`, `EvictMembers` |
| the driver, the process, the clock | `ReadFails`, `Restart`, `Tick` |

### MediaQueue

`page` is the open page's memory besides its jobs: whether it `restored` them, `owner` (`byTask`),
`superseded`, and the removals from the store not yet done. `send` is the send in progress, or the capture on the screen; `jobs` the
jobs running and where each stands between awaits; `stored` the jobs in IndexedDB, with or without
their uploaded file; `late` the requests the phone has given up; `sub` the team's `taskSubmissions`
(whose file, whether the phone heard the approval, whether it still waits). `past` is history: which
mission a file is of, which were kept, how each job ended.

| code | actions |
|---|---|
| `sendDeferred`, `submitStationPhoto` with `mediaDeferred` | `SendDeferred`, `Answered`, `AskFails` |
| `enqueue` | `Enqueue` |
| `work` | `UploadLands`, `Save`, `Attach`, `AttemptFails` / `AttachIsLost`, `UploadIsRefused`, `Wake` |
| `finish` and its removal from the store | `Finish` in the actions above; `Remove` |
| `restore`, once per page: it starts what is stored, or cannot read the store; the page | `Open` / `OpenUnread`; `Close` |
| `attachSubmissionMedia`, `returnTeamTo`, on the server | `Attached`, in `Attach` and `ServeLate`; `ReturnTeam` |

A call is one step (its inside is in `TaskGrading`), and a page that opens has restored its jobs before
it sends. A file that is sent the ordinary way, because the server answered `already` or would not
approve, leaves the queue.

## 4. The runs

| run | question | result | states |
|---|---|---|---|
| `Concurrent` | any two calls interleaved at every step, closures and crashes included | `SlotAccounting`, `OneMissionInHand`, `NeverStranded`, `NeverOvercrowded`, `StampsYieldOnlyToOlderReads` hold; `StationSlots` implements `SlotLedger` | 2.7 M |
| `Overlapping` | two calls overlapped at every step, starts, sweeps and crashes included, while a mission is closed and reopened | `ClosedMeansGone` holds | 0.9 M |
| `OneTeam` | one team, two stages, every entry point, crashes, one call at a time | `SlotAccounting`, `ActiveIsAssigned`, `LeaksHealAtFinish` hold | 1.1 M |
| `Progress` | two teams, stations that hold one | `EveryTeamFinishes` holds under fairness | 1.6 k |
| `StageRules` | six templates under three toolboxes | the eight properties of `StageFlow` hold | 0.1 M |
| `FinalStandings` | five kinds of run end | `TypeOK`, `ConsolidatedOnce`, `FrozenBoardStands`, `FinishersRecorded`, `SoloRunEnds` hold | 0.3 M |
| `Gathering` | three phones arrive in six kinds of run, two calls at once, while guardians consent or a closure goes round | `CountedOnce`, `BurstBounded`, `ConsentBeforePlay`, `ClosedForEveryTeam` hold | 1.2 M |
| `Grading` | nine kinds of mission, three calls at once | `TypeOK`, `ScoreIsEarned`, `PenaltyIsOwed`, `AttemptsBounded`, `ProofIsCounted`, `RejectedMeansUnpaid`, `FeedOnce` hold | 0.6 M |
| `Caching` | two reads or writes at once over two documents, half-deleted trees and late writes included | `Coherent`, `BoundedStaleness` hold | 3.2 M |
| `Uploads` | two files of one mission, two send-backs, three of: a reload, a lost request, a store that cannot be read or written | `WaitingFileIsKept`, `NewestOwns` hold; `EveryFileSettles` holds under fairness, of a page whose restore could read the store | 0.1 M |
| `SentBackSequence` | a team is sent back to a sequence it completed | `SentBackIsPlayable` fails | |
| `ReApproval` | a photo is approved, rejected, approved again | `StatusMatchesScore` fails | |

**What the passing runs say.** Station capacity is safe under any interleaving TLC can reach: the
cap check and the increment share a transaction, and every path that loses a race or ends a stage
gives back exactly what it took (`SlotAccounting` counts teams at the station, slots carried by calls
and slots that died with one). Where calls on one team overlap its plain writes (starts, sweeps) the
accounts are lost, which is why `OneTeam` runs one call at a time (`Serial = TRUE`) and why section 7
exists. Two claims are stated so that they hold of every overlap, because the code has the overlaps.
`StampsYieldOnlyToOlderReads`: a completed or skipped mission comes back only by the write of a call that
read the team before the stamp (or of a check-out, which goes by the `activeTaskId` alone), and nobody
gets into that position afterwards. `ClosedMeansGone`: a closed
mission stays only with teams the closure has still to visit or has missed, and the ways to be missed are
spelled out. That no stamp yields and no team is missed are the stronger claims the comments make
(`FirstStampIsFinal`, `NobodyIsMissed`); they fail (section 7). The stage rules hold under every mix of tools, with two
limits that are part of the properties: no gate on a benched mission, and no closures or send-backs
for the claim that nobody is stranded. The end of a run is exactly-once in everything it hands on,
whatever dies or is delivered again.

The types of `StationSlots`, `RunEntry` and `MediaQueue`, and that no counter passes its cap
(`CapRespected`), are proved (section 6) and not run again.

Arrival counts teams and phones exactly, less the joins that died between create and count; a burst
passes a limit by at most the other calls in flight, which is what the comments of `joinRun` accept. A
closure reaches every team but those whose join or start had read before it, or whose visit failed, and
`ClosedForEveryTeam` says just that.
Grading is exact where it counts: with three calls at once, duplicates, lost answers and deaths, the
score is the award plus what staff gave or took plus what the clamp at zero forgave, and the penalty
is the curve at the recorded number of attempts plus the hint; the retries of a commit charge nothing
twice. The cache is wrong in two ways only, a fill that a write overtook and a write that lands after its
caller gave up, and never longer than its TTL; that a `set` drops the membership and an `update` may keep it is checked in every order. The
queue of a phone keeps what it promises about the files it has taken in: none is lost, none is stuck
behind a newer one, and what a reload leaves behind is taken up by the next page that can read the
store. A page whose one read of the store fails takes up nothing however long it stays open, and
`EveryFileSettles` does not speak of such a page (`OpenPageSettles`, section 7). What the queue does not
cover besides lies before it (an approval without a keeper) and behind it (an older attach on its way).

**Bounds, and why they are enough.**

* `StationSlots`: two missions and two teams at cap 1 are what it takes to contend for the last slot
  and to have somewhere else to go; two calls are what it takes for one to change what the other has
  read. With one stage (`Concurrent`) stage ends matter less, so `OneTeam` has two stages, three
  missions and `Required = 1`, where an early stage end has leftovers to give back. `MaxLeaks = 1`
  leaks per mission. `Overlapping` asks about one mission at a time, so it has one, with two teams, so
  that a team is visited while the other's calls go on; it has no `finalize`, which touches no record, and
  `MaxLeaks = 0` lets a call die wherever it owes no slot. `PaidAgain` stops counting at two.
  `NoScores` and `NoPayments` are views that drop variables no step reads (`paid`, `earned`,
  `missed`) where no property of that run does. Symmetry over teams and calls only in runs without
  liveness.
* `StageFlow`: three missions and then one is the smallest game in which a chain, a pair of
  alternatives plus a dependent, overlapping groups, a partial count and a benched mission each have
  their interesting case and there is a next stage to open; the alternatives are also put behind a
  one-mission stage, so that a team sent back returns to a mission it can never reach and the poll
  has something to heal. All reachable states are explored; no
  counter needs a bound.
* `RunEntry`: three phones are a team with a second phone and a team that comes late, or one team at
  the device cap; `MaxDevices = 3` and capacities of one and two put both limits within a burst of two
  calls. One fault is a join that dies uncounted, an attach that is retried, or a failed visit of a
  closure. `Races` is empty; the two overlaps it excludes are in section 7. Where phones ask for consents
  nothing is closed: no step of the one reads what the other writes.
* `TaskGrading`: three calls are a completion, a duplicate of it and a review or a file that follows;
  `FreeAttempts = 1`, `PointStep = 1`, `MaxPoints = 4` and four attempts reach the free attempt, the
  curve (1, 2, then the ceiling cuts the third step) and nothing after it; two wrong answers tell a
  replay from a new one; two steps tell the last from the first; two changes are an adjustment and a
  send-back, or two of either; two faults a lost answer and a death. Sequences are not sent back in
  `Grading`, because of what `SentBackSequence` shows.
* `DocCache`: with `Ttl = 1` one tick ends the life of an entry, so `MaxTime = 1` has entries on both
  sides of it; two calls are a fill and the write that overtakes it; two commits are an update and a
  creation or deletion, in either order; the one fault is a failed read, a restart or a late write. More is covered by the proofs, which have no bounds.
* `MediaQueue`: of two files of one mission one owns it and one is superseded or being sent; two
  send-backs let each be approved in its turn; a fault is a reload, an abandoned request, a failure to
  write the store or to read it. Three faults are the two reloads and the failed read between them that
  leave a file to the page after next, or a failing removal on top of a reload. The invariants were also
  explored with three files and two faults (0.7 M states); the proofs have no bounds.
* `RunFinalize`: two calls besides the trigger give every pair (finalize and finalize, finalize and
  resume, snapshot and freeze, inline and trigger). `MaxScore = 1` is one scoring event per team, the
  one that can be on a board or not; `MaxHolds = 2` is a hold and the one that begins while the first
  is being settled; `MaxDeliveries = 2` an event delivered twice; `MaxFaults = 1` one crash or failure
  anywhere. With two faults `FinishersRecorded` cannot hold, as both attempts may fail; the others do
  not depend on it (section 6). Nor does it cover a team that only a second, racing finalize found
  finished: that write is no transition of the run's status, so the trigger's second attempt sees
  the first board and only the inline one is left.

## 5. Fairness

* `CallsProceed` / `WF_vars(Continue(c))`: a call that has begun goes on unless it dies. The server
  awaits its promises; nothing waits for a lock held by another call.
* `PhonesPoll`: weak fairness of `RequestNext` per team. The player app polls while it is open.
* `TeamsPlay`: strong fairness of completing a mission in hand. A team gets its turn again and again
  between polls but completion is not continuously enabled, as a poll of the same team disables it.
* `StageFlow!LiveSpec`: weak fairness of the poll (`Heal`, `Assign`) and of completing what is in
  hand; a document there is one transaction at a time, so nothing disables these but their own
  effect or an operator's. They are restricted to routine runs because only `TeamFinishes` uses them.
* `WF_vars(Deliver)`: an onUpdate event is delivered at least once where triggers run at all.

* `MediaQueue!LiveSpec`: weak fairness of the steps the page takes by itself (`Enqueue`, `Save`, and
  `Wake`, a timer), strong fairness of `UploadLands` and `Attach`, which a sleeping job disables again
  and again: a network that comes back time after time lets one through in the end. That the player stays
  in the end on a page that could read the store is the premise of `EveryFileSettles`; a phone that is
  never opened again sends nothing, and a page that could not read it sends only what is new.

`RunEntry`, `TaskGrading` and `DocCache` are about safety and assume no fairness.

No fairness is assumed of operators, of the clock, or of faults.

## 6. The proofs

Every safety property that a passing run checks is proved as well, most of them under no hypothesis
but the assumptions on the constants. Where a theorem has a hypothesis, the table says so; it is one
the run has too, and section 7 shows what TLC finds without it. TLC checked each of these properties on
a run before it was proved.

Every theorem has the shape `Spec => []P` or `Spec => [][A]_vars`, obtained from an inductive
invariant: `Init => Inv`, `Inv /\ [Next]_vars => Inv'`, `Inv => P`, joined by `PTL`.

### StationSlots

`StationSlotsProofs` and `StationAccountsProofs` prove, for any finite sets of missions, teams and
calls, any caps, stages and tools:

| theorem | states | needs |
|---|---|---|
| `TypesHold` | `Spec => [](TypeOK /\ CallsWellFormed)` | nothing |
| `CapsHold` | `Spec => []CapRespected` | nothing |
| `OneMissionHolds` | `Spec => []OneMissionInHand` | nothing |
| `NobodyStranded` | `Spec => []NeverStranded` | `NoEarlyClosing`; no stage without a mission |
| `AccountsHold` | `Spec => []SlotAccounting` | `Orderly` |
| `ActiveFollowsRecords` | `Spec => []ActiveIsAssigned` | `Orderly` |
| `StreetCapHolds` | `Spec => []NeverOvercrowded` | `Orderly` |
| `SlotsAreALedger` | `Spec => ImplementsLedger` | `Orderly`, no `finalize` |
| `StampsYieldToOldReads` | `Spec => StampsYieldOnlyToOlderReads` | nothing |
| `FinishHeals` | `Spec => LeaksHealAtFinish` | `Serial` |
| `ClosuresHold` | `Spec => []ClosedMeansGone` | nothing |

The assumptions on the constants are `ConstantsAssumption`, `RequirementAssumption` (a stage with
missions asks for at least one, as `buildInitialStages` sets it) and `CopiesAssumption` (the value
that stands for "no copy" is not one).

`Orderly` is `Serial \/ OnlyTransactions`. `Serial` lets one call at a time work on a team, with every
entry point, clock and crash; it is how `OneTeam` runs. `OnlyTransactions` lets any
number of calls overlap and excludes `start`, `sweep` and countdowns, the plain writes of a team
document; routing, completion, skips, check-out, force-assignment, closures, finalize and crashes
stay. It covers `Concurrent`. With neither, TLC refutes the accounts (section 7: two starts, two
sweeps). `NoEarlyClosing` says that nothing is closed live or that there is one stage; a closure of a
later stage strands its teams (section 7). A `finalize` replaces the counters, which the ledger has no
step for. `FinishHeals` needs `Serial` for the same reason: the row `LeaksHealAtFinish` of section 7 is
its counterexample. What holds of stamps and closures is proved of every overlap, crashes included.

*Types.* `Typed == TypeOK /\ CallsWellFormed` is inductive. `CallWellFormed` says what a call has in
its hands at each step; without it a `Claim` could write a mission that is not one.

*Caps.* From the types, each counter is changed by one of three shapes (`CountersOnlyMove`): up by
one behind `HasRoom`, down, or replaced when the run ends; `CapRespected` follows.

*One mission, nobody stranded.* Neither is inductive alone, since a call may write back a copy it read
long ago. `OneInHand` and `AllPlayable` state them of the documents and of every copy on its way
(`CopiesOnlyMove`: a copy is kept, dropped or read from a document). `Playable` adds that the stages are
in order and that every stage not completed, the locked ones included, has a mission left.

*Accounts.* `SlotAccounting` is not inductive: `Complete` and `CheckOut` decide by `activeTaskId`
whether a slot is given up, a call claims what it saw unassigned several steps ago, and the sweeps
write what they read. `Tracked` is what those steps rely on:

* `ActiveIsAssigned` and `OneInHand`;
* `Alone`: with `Serial`, two calls on their way have two teams, and a change of availability and the
  end of a run are alone;
* `SoundTeams`: stages in order, nothing played of a stage to come, and an active stage wants more than
  the team has done, or came with nothing left to play; from it, no step takes a stage back (`TeamsAdvance`);
* `CopyCurrent`: a copy about to be written is of the document as it is; `NoPlainWrites` where there
  are to be none;
* `ClaimReady`: what a call may claim is of a stage its team has begun, and, with `Serial`, still
  unassigned. Without the first half a team could have a mission in hand in a stage it has not reached.

Every step of a `Tracked` state is then one of seven moves of slots (`SlotsMove`: nothing moves, a call
takes one, hands it to a team, a team leaves one or more to the call or gives them up at once, a call
gives one back or loses them) or the end of the run. One lemma per group of actions says which
(`RoutingMoves` to `CloseMoves`, `NextMoves`). The moves keep the accounts balanced (`MovesBalance`,
with the arithmetic in `AccountsBalance`), so `Accounted == Tracked /\ SlotAccounting` is inductive.
`StreetCapHolds` joins it with `CapsHold`: the teams at a station are at most its counter, and the
counter at most the cap.

*Refinement.* The moves are also the steps of `SlotLedger`. A ledger gives back a slot only where
there is one to give, which is the accounting again (`CounterCovers`: a counter covers the slot of
every team and every call). `MovesImplement` maps the moves, `SlotsAreALedger` concludes.

*The end.* With `Serial` what finalize has read is what it would read now (`FinalCurrent`), so the
counters it writes are the teams with an `activeTaskId`, which are at their stations.

*Stamps.* Most writes look at the record before they stamp it (`LooksStamp`). `Claim`, `Persist` and
`StartWrite` do not, and each of them is the write of a call that had the record from an older read
(`StampOutlives`); a check-out goes by the `activeTaskId` alone. That no call gets into that position
after the stamp needs one invariant: a call has candidates in hand only on its way to reserve one
(`OpenInHand`). What it reads then, a terminal record is not among (`LeadsOnlyOld`).

*Closures.* The invariant is `ClosuresAccounted`: of a closed mission every team was missed, is on the
list of a call that is closing it, or is `Gone` (the record is terminal, the `activeTaskId` another one, and
no write on its way would bring it back: `Strays`). A team that is `Gone` stays so (`GoneStays`): whoever
reads it from then on finds the record terminal, and nobody claims a closed mission afresh (`NoneStrays`).
A visit makes a team `Gone` or counts it as missed (`VisitAccounted`, `EndAccounted`); a call that writes
"closed" without a list misses all teams unless the mission was closed at that moment (`StatusAccounted`).

### StageFlow

`StageFlowProofs` proves, for any finite set of missions, any set of templates that can be saved and
any mix of tools, without further hypothesis:

| theorem | states |
|---|---|
| `DocumentTypes` | `Spec => []TypeOK` |
| `OrderHolds` | `Spec => []StagesInOrder` |
| `OneOfAlternatives` | `Spec => []OneAlternative` |
| `RetiredAreDead` | `Spec => []RetiresOnlyTheDead` |
| `PlansAreRight` | `Spec => []PlanTellsTheOutcome` |
| `RoutineTeamsMoveOn` | `Spec => []RoutineNeverStrands` |
| `SentBackStands` | `Spec => []SentBackStaysThere` |

"Can be saved" is `GamesAssumption`, the part of `stagesProblems` that matters here: gates stay inside
their stage and have no circle (`validateUnlockGraph`), required counts are positive, a stage has a
mission that is not benched.

The inductive invariant `Inv` is about one document: it has its shape (`Kept`), there is a stage that
is played, everything before it is completed and terminal, everything after it locked and empty-handed
(`InOrder`), at most one mission is in hand, and `finished` is stamped exactly when every stage is
completed (`Sound`). Each tool first ends or reopens missions of one stage (`EndedIn`), then settles;
`Settle` may end several stages in a row, so its lemma is an induction over them. `OneOfEach` (of each
set of alternatives at most one is completed) is kept because completing one skips its rivals in the
same step. `RetiredAreDead` shows two things of the rounds of `unreachableTaskIds`: what they keep is
workable, and no workable mission is left out, since after as many rounds as the stage has missions
nothing is added any more and gates have no circle. `RoutineTeamsMoveOn`
needs `RoutineInv` (in a run without closures and send-backs the played stage has something open) and
the absence of circular gates: among the open missions one waits for no other, so it is offered, dead
and healed, or in hand.

*Induction.* The library's induction rules take a predicate as a parameter, which the provers here
cannot instantiate. What they can use is a rule about a set: a set of naturals that is not empty has a
least member (`LeastNatural`), hence a set that contains the low end of an interval and, with each
member, the next one is the interval (`IntervalInduction`); and a function given by a base and a step
exists (`RecursionExists`). The recursive functions of `StageFlow` (`Alive`, `SettleFrom`) are reasoned
about that way.

### TaskGrading

`TaskGradingProofs` proves, for any finite sets of phones and calls, kinds of mission and amounts:

| theorem | states | needs |
|---|---|---|
| `GradingTypes` | `Spec => []TypeOK` | nothing |
| `ScoreHolds` | `Spec => []ScoreIsEarned` | nothing |
| `PenaltyHolds` | `Spec => []PenaltyIsOwed` | nothing |
| `AttemptsHold` | `Spec => []AttemptsBounded` | nothing |
| `ProofCounts` | `Spec => []ProofIsCounted` | `"sequence" \notin Returned` |
| `RejectedIsUnpaid` | `Spec => []RejectedMeansUnpaid` | `"reviews" \notin Races` |
| `FeedShowsOnce` | `Spec => []FeedOnce` | `Races = {}` |

Score and penalty need only `Typed`, which says of each call what it has in its hands: a transaction
that is run again looks before it writes. The bound on attempts counts: each call past the gate may
still charge one. Proof: who has proved the mission has completed it or has a call at its completion
(`ProofFollows`, with deaths in `dropped`). The last two rest on who may be at work beside whom
(`ReviewsAlone`, `PhotosAlone`): a rejected row holds no points unless the review that is about to
reverse them is still there (`RejectionHolds`), and items shown, calls about to show one and a file
that is still awaited together are covered by completions (`FeedIsCovered`). What happens when those
calls overlap is in section 7; a sequence that is sent back is the finding `SentBackSequence`.

### RunFinalize

`RunFinalizeProofs` proves, for any teams, calls, kinds of run and bounds on faults and deliveries,
without further hypothesis:

| theorem | states |
|---|---|
| `FinalizeTypes` | `Spec => []TypeOK` |
| `ConsolidatesOnce` | `Spec => []ConsolidatedOnce` |
| `FrozenStands` | `Spec => FrozenBoardStands` |

`FinalInv` has four parts. `Shape`: the types of documents and calls. `HoldsOK`: a settle that is about to add an interval has read the hold it ends, and no interval is
added twice, though `Settle` writes plainly. `BoardsOK`: whoever consolidates has a final board in its
hands and a finished run, so what is banked is a final score. `OnceOK`: of each of the two claims, either it is free and
the work not done, or one call holds it alone, or it is done or lost; with a finalize, a second one and
a trigger delivered again at the same time.

### DocCache, RunEntry, MediaQueue

`DocCacheProofs` proves of `DocCache`, for any documents and calls, any TTL and any bounds, from
`BoundsAssumption` alone:

| theorem | states |
|---|---|
| `TypesHold` | `Spec => []TypeOK`, of the calls in flight too |
| `CoherenceHolds` | `Spec => []Coherent` |
| `StalenessBounded` | `Spec => []BoundedStaleness` |

*Coherence* is inductive given the types. Five shapes of step matter: a fill marks what it puts when
its read is no longer the truth; a commit changes documents and in the same step becomes a pending
invalidation of all of them; an invalidation removes the pending call and drops what it was pending
for; a commit that keeps the membership leaves the set of existing documents as it is, since an
update succeeds only where there is a document; a late write marks what it finds. *Staleness* needs the typing of calls in flight: the
stamp of an entry is never later than the read it came from, and the rows a call found in memory were
younger than the TTL when it began, so that what a later fill adds to them cannot be older. The mutant
`StampedLate`, which stamps an entry when it is stored, breaks exactly that.

`RunEntryProofs` proves of `RunEntry`, for any finite set of phones, any calls, kinds of run and
limits, from the assumptions of the module:

| theorem | states | needs |
|---|---|---|
| `EntryTypes` | `Spec => []TypeOK`, the device allowance with it | nothing |
| `ConsentComesFirst` | `Spec => []ConsentBeforePlay` | nothing |
| `ClosureReachesAll` | `Spec => []ClosedForEveryTeam` | nothing |
| `BurstIsBounded` | `Spec => []BurstBounded` | nothing |
| `CountsOnce` | `Spec => []CountedOnce` | `"phone" \notin Races` |

*Consent* is not inductive alone: a start that has read the teams, and a join that has decided to
launch its team, carry that decision over an await. `EntryInv` adds what each call has in its hands
(`HandsOK`): a join that will launch is in a run without the consent gate, and every team a start is
about to launch had its consent when it was read. Consents are never withdrawn and teams never go
away (`ConsentStays`), so what one call does leaves the hands of the others as they were
(`OneCallMoves`). *Allowance*: the phone that attaches is not in the team and found room in the same
transaction, so the set grows by one at most up to the allowance. *Closure*: `SweepInv` says that
there is one closure at a time, after its override (`SweepAlone`), and that the mission is open, in a team
or in the hands of a join or a start, only for teams still on its list or missed (`Reached`): while it runs
(`SweepListed`) and, without a list, once it has returned (`SweptAll`). What reads after the override
carries the mission closed, so no later call adds to them. *Counting*: `CountInv` joins the account of both counters
(teams and phones, less what joins in flight have still to add) to the bound. A call that passes the
check saw a counter below its limit, and each of the others in flight adds one at most, so a burst
exceeds a limit by fewer than the calls there can be at once (`CallsAssumption`: there is one). `OneEntry`
says that a phone is in one team or has one call on its way, which a phone that founds a team and
attaches to another at once would break (section 7).

`MediaQueueProofs` proves of `MediaQueue`, for any missions and any numbers of files, faults and
send-backs, from `BoundsAssumption` and `NoneAssumption`:

| theorem | states |
|---|---|
| `QueueTypes` | `Spec => []TypeOK` |
| `FileIsKept` | `Spec => []WaitingFileIsKept` |
| `NewestJobOwns` | `Spec => []NewestOwns` |
| `LandedOnce` | `Spec => []UploadedOnce` |
| `FileStandsHolds` | `Spec => FileStands` |

The inductive invariant is `QueueInv`. A file leaves the store only when its job has ended, so
`WaitingFileIsKept` needs to know that the job a submission waits for was not superseded. That is a
fact about order: a job is superseded only by a newer one the queue knows of (`NewestOwns`), while an
approval the phone heard of is of the newest file the queue knows of that mission (`ToldOfNewest`),
since sends are one at a time and files are named in the order they are taken (`InOrder`). After a
reload the owner of a mission is the only stored job with no newer one, which is what `OpenKeeps`
shows of the order in which `restore` starts them; a page that could not read the store owns nothing of
what is in it and leaves it there (`OpenUnreadKeeps`). The steps are grouped by the part of the state they
touch (`ServerStep`, `MoveStep`, `FinishStep`).

### Only model-checked

Liveness under fairness is out of the prover's reach and stays with TLC: `EveryTeamFinishes`,
`TeamFinishes`, `FinishersRecorded`, `SoloRunEnds`, `EveryFileSettles`. The two findings are
counterexamples, and the rows of section 7 are statements TLC refutes.

## 7. Where code and documents disagree

Two disagreements are runs of their own; PROJECT.json `findings` quotes the lines.

* `SentBackSequence`: a sequence that a team is sent back to is open, and has no step left to answer.
* `ReApproval`: a photo approved again after its approval was taken back is approved and unpaid.

The following were met while modelling and have no run. Each is a definition of its module that TLC refutes with the
constants named.

| property | constants | what happens |
|---|---|---|
| `NeverStale` | those of `Caching` | a read is overtaken by a write whose invalidation comes before the read's fill: the old copy is held and served until its TTL (`docCache.ts:372`; `runs/index.ts:4529` says "there is no path by which this document changes without the cache learning about it") |
| `NewerFileWins` | those of `Uploads` | an older file's attach is on its way, or is begun by a reload before the newer job starts, when the mission has been sent back and submitted again: the older file lands on the newer submission (`backgroundMedia.ts:144`; `test-background-media.ts`, test 7: only the newer file is attached) |
| `OpenPageSettles` under `LiveSpec` | those of `Uploads` | the read of the store fails when the page opens: `restore` returns 0 and the page never calls it again, so the kept files wait for the next reload however long this page stays open (`backgroundMedia.ts:172`, `services/backgroundMedia.ts:65`; `backgroundMedia.ts:13` says "Retry on its own, forever") |
| `ApprovedHasKeeper` | those of `Uploads` | the page is killed after the approval and before the put, or the answer is lost and the resend is answered `already`: the approved submission waits for a file nobody has (`TaskRunner.tsx:1015`; `backgroundMedia.ts:8` says "Never lose a file") |
| `FirstStampIsFinal` | `Serial = FALSE`, `Tools <- Skipping` (`{next, skipStage}`) | the claim re-reads the team but not whether the stage is active and the record unassigned: a poll assigns a mission skipped since its read (`runs/index.ts:5124`; 5067 says "no skipped task can be handed out again") |
| `NeverOvercrowded` | `Serial = FALSE`, `Tools = {next, sweep}` | two sweeps of one expired mission both give its slot back (`runs/index.ts:5003`; 4821 says "a racing second sweep is a no-op") |
| `ScoreAgreesWithRecords` | `Tools = {skipTask, skipStage}` | a mission skipped alone, then with its stage, is paid its consolation twice (`runs/index.ts:1720`; 1993 says "the two numbers must never disagree") |
| `ExhaustedStageCompletes` under `LiveSpec` | `Tools <- Clockwork` | a mission nobody holds passes its closing time; nothing marks it and the stage never completes (`runs/index.ts:4831`; `task-expiry/proposal.md:26` says it completes) |
| `NeverStuck` | `OnlyChain`, `OnlyReturn` | a team sent back redoes a stage; the later stage it had completed opens with nothing left to do and nothing settles it (`runs/index.ts:1578`; 2448 says it would not) |
| `FinalBoardComplete` | `OnlyPair` | a completion between finalize's read of the teams and its plain write is accepted and missing from the frozen board (`runs/index.ts:3190`; 1256 describes the loss and says it is closed) |
| `OneTeamPerPhone` | `Setups <- Late`, `Races = {"phone"}` | one phone that founds a team and attaches to another at once is in both |
| `RunEntry!NobodyIsMissed` | `Setups <- JustHosted`, `MaxFaults = 0` | a join or a start that straddles a closure writes the mission back open (`runs/index.ts:824`, 1038; 353 says a late joiner gets a later mission closed as well) |
| `StartStands` | `Setups <- JustHosted`, `Races = {"starts"}` | two overlapping presses of start: the later stamp moves `teamsStartedAt` (`runs/index.ts:1048`) |
| `FeedOnce` | `Setups <- JustAuto`, `Races = {"photos"}` | of two phones submitting at once, one replaces the other's entry and its file is shown as well |
| `RejectedMeansUnpaid` | `Setups <- JustReviewed`, `Races = {"reviews"}` | an approval between a rejection's reversal and its status leaves a rejected photo paid (`functions/src/index.ts:2148`) |
| `LeaksHealAtFinish` | `Serial = FALSE`, `Tools = {next, complete, finalize}` | a completion between finalize's read and its write: the archived counter still counts the team that left (`runs/index.ts:3190`) |
| `StationSlots!NobodyIsMissed` | constants of `Overlapping` but `Tools = {next, complete, status}` | a closure goes round the teams and passes one whose claim is on its way (`runs/index.ts:5118`) |
| | `Tools = {status, crash}` | a team whose closure transaction failed is never taken up again (`functions/src/index.ts:2486`) |
| | `Tools = {status}` | of two overlapping calls one pauses the closed mission and the other closes it again on its earlier read: no team is told, and teams it was given back to keep it |
| `OnlyLaunchedPlay` | `Tools = {start, force}` | a marshal can send a team that is not launched (`runs/index.ts:2293`) |
| `FinalCountsHonest` | `Tools = {next, skipTask, finalize}` | `skipTaskForTeam` clears `activeTaskId` of a mission it did not skip; the archived counter is too low (`runs/index.ts:2007`) |
| `NoAssignmentAfterFinish` | `Tools = {next, finalize}` | routing never looks at the run's status (`runs/index.ts:5382`) |
| `SlotAccounting` | `Serial = FALSE`, `Tools = {start, next}` | two overlapping starts erase an assignment and keep its slot (`runs/index.ts:1034`) |
| `NeverStranded` | two stages, `Tools = {next, complete, status}` | missions of a locked stage are closed; it opens with nothing to play (`runs/index.ts:355`) |
| `HoldersKeepTheirMission` | `Tools = {next, complete, status}` | a closure takes the mission from the team that holds it; an older spec and two comments forbid it, a later rule asks for it (`runs/index.ts:348`) |
| `HeldCanBeCompleted` | `OnlyChain`, `OnlyOverride` | a marshal's `override` hands out a locked mission; completion refuses it (`runs/index.ts:1340`) |
| `NeverStuck` | `OnlyWaitsForBenched`, `NoTools` | a mission gated on a benched one strands the team (`runs/index.ts:276`) |
| `NeverStuck` | toolbox `{"close"}` | a closing in a later stage, then reaching it, as in `NeverStranded` |
| `PlanTellsTheOutcome` without its premise | `Bench` | the preview counts benched missions, the write does not |
| `SecondFinalizeIsNoop` | `OnlyPair` | two finalizes both read a live run and both write (`runs/index.ts:3121`); the trigger still fires once |
| `RevealStands` | `OnlyStandings` | a plain refresh that read the flag earlier takes a reveal back (`runs/index.ts:3592`) |
| `HoldEndsWithRun` | `OnlyHolding` | a hold whose transaction follows the end of the run outlives it (`runs/index.ts:3136`) |
| `BoardNeverGoesBack` | `OnlyStandings` | of two snapshots the older one may be written last (`runs/index.ts:2866`) |
| `SoloRunEnds` under `LiveSpec` | `OnlySoloTimed` | a player whose last mission runs out of time finishes without the check; `instant-play-finalization/spec.md` says SHALL, design D4 of the same change leaves it out |

Smaller observations, from reading: `sweepExpiredInFlight` ignores the held ids `applyStageCompletion`
returns; `skipStage` overwrites the cause of exclusive losers, so a send-back to the stage reopens
them; a closed mission that a send-back reopens is never assignable; the heal fires on every poll when
a benched mission is dead; `withLockRetry` may retry a commit that was applied. A death between the last step, or an approved
photo, and `completeTaskForTeam` leaves the mission open with nothing the team can send
(`ProofIsCounted` counts those in `dropped`); an overlapping answer passes a lockout that begins while
it is graded; a delayed duplicate of a sequence step writes an older count back; a clamp at zero
forgives fines (`Waived`); a photo that arrives while the row is being approved may set it back to
pending; a guardian may consent for a phone without a team, which creates a team document of the
consent alone (`consents.alone`): the phone can then neither join nor attach, and a start of all teams
throws on that document, which has no stages (`runs/index.ts:1034`; none of the apps asks for a consent
before it joins); `joinRun` may create a team in a run that ended after its read; `collection.add` drops
nothing if it fails.

## 8. What is not modelled

Amounts: multipliers, speed bonuses, Z-scores, durations and tie-breaks are arithmetic over reals;
the models know whether something is paid, what a wrong answer costs, and which score reaches which
board. Geometry: arrival, zones, tracks, the hot zone. Authorization, validation and rate limits:
every call is taken as permitted and well formed. Authoring, gallery, maintenance and the rest of the clients:
single-document writes, batch jobs, or environment; they are most of the repository by size and hold
little of its state. Payments are switched off in the code (`PAYMENTS_ENABLED`), so that a launch
spends no credit. Scheduled releases, presence of devices and the contributions of each member are not
modelled. The modules read documents as Firestore has them; that a cached read may be stale is in
`DocCache` alone, and no module is composed with it; the cached collections lie inside every tree that is
deleted recursively, so that `dropPrefix` drops their membership with them. A commit that was applied but reported as failed
is in `RunEntry`, `TaskGrading` and `DocCache`, not in `StationSlots`.

## 9. The plan

Done: `SlotLedger` and `StationSlots`, `StageFlow`, `RunFinalize`, `TaskGrading`, `RunEntry`,
`DocCache` and `MediaQueue`, each with its runs and with proofs of every safety property they check.

What would add most next:

1. `StationSlots` extended by `returnTeamTo` split at its claim, by holds between routing's check and
   its claim, and by ambiguous commits.
2. Proofs: the accounting where only `start` and `sweep` have their team to themselves and all other
   calls overlap, which is wider than `Orderly`; an abstract specification of "once per run" that
   `RunFinalize` implements for each of its three concerns.
3. Cached reads in the modules whose calls use them (`resolveCallerTeam`): a stale team instead of a
   fresh one at the first step of a call.
4. The resumable upload of a clip while it is filmed (`streamUpload.ts`, `uploadSessionRoute.js`):
   sessions, offsets, two appends that race, an answer that is lost.
5. Scheduled releases in `StageFlow`, and the contributions of every member in `TaskGrading`.

Small components share a run: one instance whose initial states choose the component's setup, so that
their states add up instead of multiplying.
