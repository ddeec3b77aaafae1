----------------------------- MODULE MediaQueue -----------------------------
(***************************************************************************)
(* The media queue of one player's phone: a photo or clip of a mission     *)
(* that approves itself is approved before it is uploaded                  *)
(* (submitStationPhoto with mediaDeferred); the file is kept in IndexedDB, *)
(* uploaded in the background, retried forever and attached to the         *)
(* submission (attachSubmissionMedia), across reloads of the page.         *)
(*                                                                         *)
(* The page runs one thing at a time between awaits, so a step here is     *)
(* what runs from one await to the next.  A request that the phone gives   *)
(* up may still reach the server later.  The two calls are one step each;  *)
(* how they interleave with other phones and with reviews is TaskGrading.  *)
(*                                                                         *)
(* Code: apps/play-web/src/lib/backgroundMedia.ts and pendingUpload.ts,    *)
(* apps/play-web/src/components/TaskRunner.tsx (sendDeferred),             *)
(* apps/play-web/src/services/backgroundMedia.ts, functions/src/index.ts.  *)
(***************************************************************************)
EXTENDS Integers, FiniteSets

CONSTANTS
  Tasks,         \* missions of the game that approve media themselves
  None,          \* no mission
  MaxFiles,      \* files the player takes
  MaxFaults,     \* reloads, abandoned requests and failures of the store
  MaxReturns     \* times a marshal sends the team back to a mission

ASSUME BoundsAssumption == {MaxFiles, MaxFaults, MaxReturns} \subseteq Nat
ASSUME NoneAssumption   == None \notin Tasks

(* Jobs are named in the order of their createdAt.  NoFile is no file.     *)
Files  == 1..MaxFiles
NoFile == 0

VARIABLES
  page,     \* open or not, whether its jobs were restored; byTask,
            \* superseded, and removals not yet done
  send,     \* the send in progress, or the capture on the screen
  jobs,     \* the jobs running in the page
  stored,   \* the jobs in IndexedDB
  late,     \* requests the phone has given up that may still be served
  sub,      \* the team's taskSubmissions, on the server
  past,     \* which mission a file is of, which are kept, how each job ended
  spent     \* faults and returns so far

vars == <<page, send, jobs, stored, late, sub, past, spent>>

Gone          == [at |-> "none", uploaded |-> FALSE]
NothingToSend == [at |-> "idle", file |-> NoFile]
NoSubmission  == [of |-> NoFile, told |-> FALSE, waiting |-> FALSE, file |-> NoFile]
FreshPage     == [open |-> TRUE, restored |-> TRUE,
                  owner |-> [t \in Tasks |-> NoFile], superseded |-> {}, removing |-> {}]

TaskOf(f)  == past.taskOf[f]
Running(f) == jobs[f].at # "none"
Fault      == spent.faults < MaxFaults /\ spent' = [spent EXCEPT !.faults = @ + 1]

Init ==
  /\ page = FreshPage
  /\ send = NothingToSend
  /\ jobs = [f \in Files |-> Gone]
  /\ stored = [f \in Files |-> "no"]
  /\ late = {}
  /\ sub = [t \in Tasks |-> NoSubmission]
  /\ past = [taskOf |-> [f \in Files |-> None], kept |-> {}, ended |-> [f \in Files |-> "no"]]
  /\ spent = [files |-> 0, faults |-> 0, returns |-> 0]

-----------------------------------------------------------------------------
(* The server.                                                             *)

(* A deferred submission approves a mission that has no submission; any    *)
(* other is answered `already`.  `told`: the phone heard the approval.     *)
Approved(f, told) ==
  [sub EXCEPT ![TaskOf(f)] = [of |-> f, told |-> told, waiting |-> TRUE, file |-> NoFile]]
IsOpen(f) == sub[TaskOf(f)].of = NoFile

(* Only a submission that waits for its file takes one. *)
Attached(f) ==
  IF sub[TaskOf(f)].waiting
  THEN [sub EXCEPT ![TaskOf(f)].waiting = FALSE, ![TaskOf(f)].file = f]
  ELSE sub

(* returnTeamTo removes the submission and reopens the mission. *)
ReturnTeam(t) ==
  /\ spent.returns < MaxReturns
  /\ sub[t].of # NoFile
  /\ sub' = [sub EXCEPT ![t] = NoSubmission]
  /\ spent' = [spent EXCEPT !.returns = @ + 1]
  /\ UNCHANGED <<page, send, jobs, stored, late, past>>

(* A request the phone no longer waits for is served. *)
ServeLate(r) ==
  /\ r \in late
  /\ late' = late \ {r}
  /\ sub' = CASE r[1] = "approve" -> (IF IsOpen(r[2]) THEN Approved(r[2], FALSE) ELSE sub)
              [] r[1] = "attach"  -> Attached(r[2])
  /\ UNCHANGED <<page, send, jobs, stored, past, spent>>

-----------------------------------------------------------------------------
(* The queue.                                                              *)

(* What a job does first: an upload that landed is only attached. *)
Begun(uploaded) == [at |-> IF uploaded THEN "attaching" ELSE "uploading", uploaded |-> uploaded]

Finish(f, how) ==
  /\ jobs' = [jobs EXCEPT ![f] = Gone]
  /\ page' = [page EXCEPT !.superseded = @ \ {f}, !.removing = @ \cup {f},
                          !.owner = [t \in Tasks |-> IF @[t] = f THEN NoFile ELSE @[t]]]
  /\ past' = [past EXCEPT !.ended[f] = how]

(* A newer file of a mission supersedes the job that owned it. *)
Start(f) ==
  LET previous == page.owner[TaskOf(f)] IN
  /\ jobs' = [jobs EXCEPT ![f] = Begun(FALSE)]
  /\ page' = [page EXCEPT !.owner[TaskOf(f)] = f,
                          !.superseded = @ \cup ({previous} \ {NoFile, f})]

(* The player sends the capture on the screen again, or a new one; one     *)
(* send at a time.  Assumed: not before the page has restored its jobs,    *)
(* milliseconds after it opened.                                           *)
SendDeferred(f, t) ==
  /\ page.open /\ send.at = "idle"
  /\ \/ f = send.file /\ TaskOf(f) = t /\ UNCHANGED <<past, spent>>
     \/ /\ f = spent.files + 1
        /\ spent' = [spent EXCEPT !.files = f]
        /\ past' = [past EXCEPT !.taskOf[f] = t]
  /\ send' = [at |-> "asking", file |-> f]
  /\ UNCHANGED <<page, jobs, stored, late, sub>>

(* The server approves, or answers that the mission is done: the file is   *)
(* then sent the ordinary way, which writes nothing either.                *)
Answered ==
  /\ send.at = "asking"
  /\ IF IsOpen(send.file)
     THEN sub' = Approved(send.file, TRUE) /\ send' = [send EXCEPT !.at = "keeping"]
     ELSE UNCHANGED sub /\ send' = NothingToSend
  /\ UNCHANGED <<page, jobs, stored, late, past, spent>>

(* The request fails or its answer is lost; the capture stays on screen.   *)
AskFails ==
  /\ send.at = "asking" /\ Fault
  /\ send' = [send EXCEPT !.at = "idle"]
  /\ late' = late \cup {<<"approve", send.file>>}
  /\ UNCHANGED <<page, jobs, stored, sub, past>>

(* MUTANT: the job is persisted only once its upload landed. *)
MutantEnqueue ==
  /\ send.at = "keeping"
  /\ Start(send.file)
  /\ send' = NothingToSend
  /\ past' = [past EXCEPT !.kept = @ \cup {send.file}]
  /\ UNCHANGED <<stored, late, sub, spent>>

(* enqueue: the job is persisted, or the store fails, and then started. *)
Enqueue ==
  /\ send.at = "keeping"
  /\ Start(send.file)
  /\ send' = NothingToSend
  /\ \/ /\ stored' = [stored EXCEPT ![send.file] = "bare"]
        /\ past' = [past EXCEPT !.kept = @ \cup {send.file}]
        /\ UNCHANGED spent
     \/ Fault /\ UNCHANGED <<stored, past>>
  /\ UNCHANGED <<late, sub>>

(* The capture-time upload, or one from the file, lands. *)
UploadLands(f) ==
  /\ jobs[f].at = "uploading"
  /\ IF f \in page.superseded
     THEN Finish(f, "superseded")
     ELSE jobs' = [jobs EXCEPT ![f] = [at |-> "saving", uploaded |-> TRUE]] /\ UNCHANGED <<page, past>>
  /\ UNCHANGED <<send, stored, late, sub, spent>>

(* That the file landed is saved, unless the store fails; then it is attached. *)
Save(f) ==
  /\ jobs[f].at = "saving"
  /\ jobs' = [jobs EXCEPT ![f].at = "attaching"]
  /\ \/ stored' = [stored EXCEPT ![f] = "uploaded"] /\ UNCHANGED spent
     \/ Fault /\ UNCHANGED stored
  /\ UNCHANGED <<page, send, late, sub, past>>

(* The attach is served and answered; without a submission it is refused.  *)
Attach(f) ==
  /\ jobs[f].at = "attaching"
  /\ sub' = Attached(f)
  /\ Finish(f, IF IsOpen(f) THEN "refused" ELSE "done")
  /\ UNCHANGED <<send, stored, late, spent>>

(* The network or the server fails: the job sleeps.                        *)
Sleep(f) ==
  /\ jobs[f].at \in {"uploading", "attaching"}
  /\ jobs' = [jobs EXCEPT ![f].at = "sleeping"]
AttemptFails(f) == Sleep(f) /\ UNCHANGED <<page, send, stored, late, sub, past, spent>>

(* ... also when the attach was on its way. *)
AttachIsLost(f) ==
  /\ jobs[f].at = "attaching" /\ Sleep(f) /\ Fault
  /\ late' = late \cup {<<"attach", f>>}
  /\ UNCHANGED <<page, send, stored, sub, past>>

(* The file can never be uploaded or attached. *)
UploadIsRefused(f) ==
  /\ jobs[f].at = "uploading"
  /\ Finish(f, "refused")
  /\ UNCHANGED <<send, stored, late, sub, spent>>

(* The backoff is over. *)
Wake(f) ==
  /\ jobs[f].at = "sleeping"
  /\ IF f \in page.superseded
     THEN Finish(f, "superseded")
     ELSE jobs' = [jobs EXCEPT ![f] = Begun(@.uploaded)] /\ UNCHANGED <<page, past>>
  /\ UNCHANGED <<send, stored, late, sub, spent>>

(* The removal of a finished job from the store is done, or fails. *)
Remove(f) ==
  /\ f \in page.removing
  /\ page' = [page EXCEPT !.removing = @ \ {f}]
  /\ \/ stored' = [stored EXCEPT ![f] = "no"] /\ UNCHANGED spent
     \/ Fault /\ UNCHANGED stored
  /\ UNCHANGED <<send, jobs, late, sub, past>>

-----------------------------------------------------------------------------
(* The page.                                                               *)

(* It is closed, reloaded or killed: memory goes, requests are on their way. *)
Close ==
  /\ page.open /\ Fault
  /\ page' = [FreshPage EXCEPT !.open = FALSE]
  /\ jobs' = [f \in Files |-> Gone]
  /\ late' = late \cup {<<"attach", f>> : f \in {g \in Files : jobs[g].at = "attaching"}}
                  \cup (IF send.at = "asking" THEN {<<"approve", send.file>>} ELSE {})
  /\ send' = NothingToSend
  /\ UNCHANGED <<stored, sub, past>>

(* MUTANT: the stored jobs are started from the newest to the oldest. *)
MutantNewer(f) == {g \in Files : g < f /\ TaskOf(g) = TaskOf(f) /\ stored[g] # "no"}

Newer(f) == {g \in Files : g > f /\ TaskOf(g) = TaskOf(f) /\ stored[g] # "no"}

(* MUTANT: a job that is uploaded is not taken up again. *)
MutantRestored == {f \in Files : stored[f] = "bare"}

Restored == {f \in Files : stored[f] # "no"}

(* restore: the stored jobs are started from the oldest to the newest, so  *)
(* the newest of a mission owns it.  An older one has begun by then.       *)
Open ==
  /\ ~page.open
  /\ jobs' = [f \in Files |-> IF f \in Restored THEN Begun(stored[f] = "uploaded") ELSE Gone]
  /\ page' = [FreshPage EXCEPT
       !.superseded = {f \in Restored : Newer(f) # {}},
       !.owner = [t \in Tasks |->
         LET last == {f \in Restored : TaskOf(f) = t /\ Newer(f) = {}}
         IN  IF last = {} THEN NoFile ELSE CHOOSE f \in last : TRUE]]
  /\ UNCHANGED <<send, stored, late, sub, past, spent>>

(* The store cannot be read: the page starts none of the stored jobs, and  *)
(* does not try again.                                                     *)
OpenUnread ==
  /\ ~page.open /\ Fault
  /\ page' = [FreshPage EXCEPT !.restored = FALSE]
  /\ jobs' = [f \in Files |-> Gone]
  /\ UNCHANGED <<send, stored, late, sub, past>>

-----------------------------------------------------------------------------
Next ==
  \/ \E t \in Tasks : ReturnTeam(t) \/ \E f \in Files : SendDeferred(f, t)
  \/ \E r \in late : ServeLate(r)
  \/ Answered \/ AskFails \/ Enqueue
  \/ \E f \in Files :
       \/ UploadLands(f) \/ UploadIsRefused(f) \/ Save(f)
       \/ Attach(f) \/ AttachIsLost(f) \/ AttemptFails(f)
       \/ Wake(f) \/ Remove(f)
  \/ Close \/ Open \/ OpenUnread

Spec == Init /\ [][Next]_vars

(* The page goes on with what it awaits; a network that comes back again   *)
(* and again lets an upload and an attach through in the end.              *)
Fairness ==
  /\ WF_vars(Enqueue)
  /\ \A f \in Files : WF_vars(Save(f)) /\ WF_vars(Wake(f))
  /\ \A f \in Files : SF_vars(UploadLands(f)) /\ SF_vars(Attach(f))
LiveSpec == Spec /\ Fairness

-----------------------------------------------------------------------------
(* Types of the state; a file with a job or a place in the store has a     *)
(* mission, and byTask names a running job of its mission.                 *)
JobType == [at : {"none", "uploading", "saving", "attaching", "sleeping"}, uploaded : BOOLEAN]
SubType == [of : Files \cup {NoFile}, told : BOOLEAN, waiting : BOOLEAN, file : Files \cup {NoFile}]
PageType == [open : BOOLEAN, restored : BOOLEAN, owner : [Tasks -> Files \cup {NoFile}],
             superseded : SUBSET Files, removing : SUBSET Files]
PastType == [taskOf : [Files -> Tasks \cup {None}], kept : SUBSET Files,
             ended : [Files -> {"no", "done", "refused", "superseded"}]]
TypeOK ==
  /\ page \in PageType
  /\ send \in [at : {"idle", "asking", "keeping"}, file : Files \cup {NoFile}]
  /\ jobs \in [Files -> JobType]
  /\ stored \in [Files -> {"no", "bare", "uploaded"}]
  /\ late \subseteq {"approve", "attach"} \X Files
  /\ sub \in [Tasks -> SubType]
  /\ past \in PastType
  /\ spent \in [files : 0..MaxFiles, faults : 0..MaxFaults, returns : 0..MaxReturns]
  /\ \A f \in Files : Running(f) \/ stored[f] # "no" => TaskOf(f) \in Tasks
  /\ \A t \in Tasks : LET f == page.owner[t] IN f # NoFile => Running(f) /\ TaskOf(f) = t

(* Never lose a file (backgroundMedia.ts): while an approved submission    *)
(* waits for a file that was put in the store, the file is still there,    *)
(* unless it was refused for good, whatever is lost, retried or reloaded.  *)
WaitingFileIsKept ==
  \A t \in Tasks :
    LET f == sub[t].of IN
    sub[t].waiting /\ sub[t].told /\ f \in past.kept => stored[f] # "no" \/ past.ended[f] = "refused"

(* One job per task (backgroundMedia.ts): of two running jobs of a mission *)
(* the older is marked to stop, and no job is marked but for a newer one   *)
(* that runs or has ended; also after a reload.                            *)
NewestOwns ==
  \A f \in Files :
    LET newer == {g \in Files : g > f /\ TaskOf(g) = TaskOf(f)} IN
    /\ Running(f) /\ (\E g \in newer : Running(g)) => f \in page.superseded
    /\ f \in page.superseded => Running(f) /\ \E g \in newer : Running(g) \/ past.ended[g] # "no"

(* Never send the bytes twice (backgroundMedia.ts): an upload that is      *)
(* known to have landed, to the page or to the store, is never repeated.   *)
UploadedOnce ==
  \A f \in Files : jobs[f].at = "uploading" => ~jobs[f].uploaded /\ stored[f] # "uploaded"

(* A retry after a lost reply must not move the file (design D2): a        *)
(* submission that has its file keeps it, whatever attach comes later.     *)
FileStands ==
  [][\A t \in Tasks : sub[t].file # NoFile /\ sub'[t].of = sub[t].of => sub'[t].file = sub[t].file]_vars

(* Retry on its own, forever (backgroundMedia.ts): once the player stays   *)
(* on a page that took up what the store had, every file that was kept is  *)
(* attached, refused or replaced, whatever was lost or reloaded before.    *)
EveryFileSettles ==
  <>[](page.open /\ page.restored) => \A f \in Files : f \in past.kept ~> past.ended[f] # "no"

(* The same of any page the player stays on, also one whose restore failed *)
(* to read the store.  TLC refutes it.                                     *)
OpenPageSettles ==
  <>[]page.open => \A f \in Files : f \in past.kept ~> past.ended[f] # "no"

(* One job per task: only the newer file is attached                       *)
(* (test-background-media.ts): a submission has the file it was made for.  *)
NewerFileWins ==
  \A t \in Tasks : sub[t].file # NoFile => sub[t].file = sub[t].of

(* Nothing waits for a file nobody has: a submission without its file has  *)
(* a phone that keeps it, or is about to.                                  *)
ApprovedHasKeeper ==
  \A t \in Tasks :
    LET f == sub[t].of IN
    sub[t].waiting => stored[f] # "no" \/ Running(f) \/ past.ended[f] = "refused" \/ send.file = f
=============================================================================
