-------------------------- MODULE MediaQueueProofs --------------------------
(***************************************************************************)
(* Theorems about the media queue of MediaQueue, for any missions, files,  *)
(* faults and returns.                                                     *)
(*                                                                         *)
(* What must be kept is a fact about the store and the server; why it is   *)
(* kept is a fact about the order of the files: an approval the phone was  *)
(* told of is of the newest file the queue knows of that mission, so the   *)
(* job of that file is never superseded and leaves the store only when it  *)
(* is attached or refused.                                                 *)
(***************************************************************************)
EXTENDS MediaQueue, TLAPS

(* Jobs that were ever started or kept. *)
Known(f) ==
  \/ Running(f) \/ stored[f] # "no"
  \/ f \in past.kept \/ f \in page.removing \/ past.ended[f] # "no"

(* Files are named in the order they are taken; the one being sent is the  *)
(* last and not yet a job.                                                 *)
InOrder ==
  /\ \A f \in Files : f <= spent.files => TaskOf(f) \in Tasks
  /\ \A f \in Files : Known(f) => f <= spent.files
  /\ \A r \in late : r[2] <= spent.files
  /\ send.at # "idle" => send.file # NoFile
  /\ send.file # NoFile => send.file = spent.files /\ ~Known(send.file)

(* A submission is of a file of its mission, and waits or has a file. *)
Submitted ==
  \A t \in Tasks :
    /\ sub[t].of # NoFile => sub[t].of <= spent.files /\ TaskOf(sub[t].of) = t
    /\ sub[t].waiting => sub[t].of # NoFile /\ sub[t].file = NoFile
    /\ sub[t].of = NoFile => sub[t].file = NoFile /\ ~sub[t].told

(* The approval the phone was told of is of the newest file it knows of    *)
(* that mission, or of the one it is about to keep.                        *)
ToldOfNewest ==
  /\ \A t \in Tasks : sub[t].told =>
       \A g \in Files : g > sub[t].of /\ TaskOf(g) = t => ~Known(g)
  /\ send.at = "keeping" /\ sub[TaskOf(send.file)].told => sub[TaskOf(send.file)].of = send.file

(* What a job knows of its upload. *)
UploadKnown ==
  \A f \in Files :
    /\ jobs[f].at = "uploading" => ~jobs[f].uploaded
    /\ jobs[f].at \in {"saving", "attaching"} => jobs[f].uploaded
    /\ Running(f) /\ stored[f] = "uploaded" => jobs[f].uploaded

(* A running job that is not superseded owns its mission. *)
OwnerRuns == \A f \in Files : Running(f) /\ f \notin page.superseded => page.owner[TaskOf(f)] = f

(* What is being removed has ended; what a submission still waits for has  *)
(* not, but by a refusal.                                                  *)
EndedForGood ==
  /\ \A f \in page.removing : past.ended[f] # "no"
  /\ \A t \in Tasks : sub[t].told /\ sub[t].waiting => past.ended[sub[t].of] \in {"no", "refused"}

QueueInv ==
  /\ TypeOK /\ InOrder /\ Submitted /\ ToldOfNewest
  /\ UploadKnown /\ OwnerRuns /\ NewestOwns /\ EndedForGood /\ WaitingFileIsKept

(* byTask names running jobs of their missions. *)
OwnersRun ==
  \A t \in Tasks : page.owner[t] # NoFile => Running(page.owner[t]) /\ TaskOf(page.owner[t]) = t

SpentType == [files : 0..MaxFiles, faults : 0..MaxFaults, returns : 0..MaxReturns]

(* A step of the server that tells the phone nothing new. *)
TellsNothing ==
  \A t \in Tasks :
    sub'[t].told => sub[t].told /\ sub'[t].of = sub[t].of /\ (sub'[t].waiting => sub[t].waiting)

-----------------------------------------------------------------------------
(* Steps, by the part of the state they touch.                             *)

(* A running job has a mission, and so has every file taken. *)
LEMMA Missions ==
  ASSUME QueueInv, NEW f \in Files, Known(f)
  PROVE  TaskOf(f) \in Tasks
BY DEF QueueInv, InOrder

(* An attach fills a submission that waits, and changes no other field. *)
LEMMA AttachedShape ==
  ASSUME QueueInv, NEW f \in Files, TaskOf(f) \in Tasks, sub' = Attached(f),
         past'.taskOf = past.taskOf, spent'.files = spent.files
  PROVE  /\ sub' \in [Tasks -> SubType]
         /\ Submitted'
         /\ TellsNothing
         /\ ~sub'[TaskOf(f)].waiting
         /\ \A t \in Tasks : sub'[t].of = sub[t].of
<1>1. sub' \in [Tasks -> SubType]
  BY DEF QueueInv, TypeOK, Attached, SubType, NoFile
<1>2. \A t \in Tasks : sub'[t].of = sub[t].of /\ sub'[t].told = sub[t].told
  BY DEF QueueInv, TypeOK, Attached, SubType
<1>3. \A t \in Tasks : sub'[t].waiting => sub[t].waiting /\ sub'[t] = sub[t]
  BY DEF QueueInv, TypeOK, Attached, SubType
<1>4. \A t \in Tasks : sub'[t].file # sub[t].file => sub[t].waiting
  BY DEF QueueInv, TypeOK, Attached, SubType
<1>5. ~sub'[TaskOf(f)].waiting
  BY DEF QueueInv, TypeOK, Attached, SubType
<1>6. Submitted'
  BY <1>2, <1>3, <1>4 DEF QueueInv, Submitted, TaskOf
<1> QED BY <1>1, <1>2, <1>3, <1>5, <1>6 DEF TellsNothing

(* The server answers a phone that no longer listens, or a marshal. *)
LEMMA ServerStep ==
  ASSUME QueueInv, UNCHANGED <<page, send, jobs, stored, past>>,
         late' \subseteq late, spent' \in SpentType, spent'.files = spent.files,
         sub' \in [Tasks -> SubType], Submitted', TellsNothing
  PROVE  QueueInv'
<1>0. \A f \in Files : Known(f)' <=> Known(f)
  BY DEF Known, Running
<1>1. TypeOK'
  BY DEF QueueInv, TypeOK, SpentType, Running, TaskOf
<1>2. InOrder'
  BY <1>0 DEF QueueInv, InOrder, TaskOf, Known, Running
<1>3. ToldOfNewest'
  BY <1>0 DEF QueueInv, ToldOfNewest, TellsNothing, TaskOf, TypeOK, InOrder, Files, NoFile
<1>4. UploadKnown' /\ OwnerRuns' /\ NewestOwns'
  BY DEF QueueInv, UploadKnown, OwnerRuns, NewestOwns, Running, TaskOf
<1>5. EndedForGood'
  BY DEF QueueInv, EndedForGood, TellsNothing
<1>6. WaitingFileIsKept'
  BY DEF QueueInv, WaitingFileIsKept, TellsNothing
<1> QED BY <1>1, <1>2, <1>3, <1>4, <1>5, <1>6 DEF QueueInv

(* A job goes on to its next await. *)
LEMMA MoveStep ==
  ASSUME QueueInv, NEW f \in Files, NEW j \in JobType, Running(f),
         jobs' = [jobs EXCEPT ![f] = j], j.at # "none",
         j.at = "uploading" => ~j.uploaded,
         j.at \in {"saving", "attaching"} => j.uploaded,
         stored[f] = "uploaded" => j.uploaded,
         stored' = stored \/ (j.uploaded /\ stored' = [stored EXCEPT ![f] = "uploaded"]),
         late' \subseteq late \cup {<<"attach", f>>},
         spent' \in SpentType, spent'.files = spent.files,
         UNCHANGED <<page, send, sub, past>>
  PROVE  QueueInv'
<1>1. /\ jobs' \in [Files -> JobType] /\ stored' \in [Files -> {"no", "bare", "uploaded"}]
      /\ late' \subseteq {"approve", "attach"} \X Files
  BY DEF QueueInv, TypeOK
<1>2. \A g \in Files : (Running(g)' <=> Running(g)) /\ (g # f => jobs'[g] = jobs[g]) /\ jobs'[f] = j
  BY DEF QueueInv, TypeOK, Running
<1>3. \A g \in Files : /\ g # f => stored'[g] = stored[g]
                       /\ stored[g] # "no" => stored'[g] # "no"
                       /\ stored'[f] = "uploaded" => j.uploaded
  BY DEF QueueInv, TypeOK
<1>4. \A g \in Files : Known(g)' <=> Known(g)
  BY <1>2, <1>3 DEF Known
<1>5. Known(f) /\ f <= spent.files
  BY DEF QueueInv, InOrder, Known
<1>6. TypeOK'
  <2>1. \A g \in Files : Running(g)' \/ stored'[g] # "no" => TaskOf(g)' \in Tasks
    BY <1>2, <1>3, <1>5, Missions DEF Known, TaskOf
  <2>2. OwnersRun'
    BY <1>2 DEF QueueInv, TypeOK, PageType, OwnersRun, TaskOf, NoFile
  <2> QED BY <1>1, <2>1, <2>2 DEF QueueInv, TypeOK, OwnersRun, SpentType
<1>7. InOrder'
  <2>1. \A r \in late' : r[2] <= spent'.files
    BY <1>5 DEF QueueInv, InOrder
  <2>2. send.file # NoFile => send.file \in Files /\ ~Known(send.file)'
    BY <1>4 DEF QueueInv, InOrder, TypeOK
  <2> QED BY <1>4, <2>1, <2>2 DEF QueueInv, InOrder, TaskOf, Known, Running
<1>8. Submitted'
  BY DEF QueueInv, Submitted, TaskOf
<1>9. ToldOfNewest'
  BY <1>4 DEF QueueInv, ToldOfNewest, TaskOf
<1>10. UploadKnown'
  BY <1>2, <1>3 DEF QueueInv, UploadKnown
<1>11. OwnerRuns' /\ NewestOwns'
  BY <1>2 DEF QueueInv, OwnerRuns, NewestOwns, TaskOf
<1>12. EndedForGood'
  BY DEF QueueInv, EndedForGood
<1>13. WaitingFileIsKept'
  BY <1>3 DEF QueueInv, WaitingFileIsKept, TypeOK, PastType
<1> QED BY <1>6, <1>7, <1>8, <1>9, <1>10, <1>11, <1>12, <1>13 DEF QueueInv

(* A job ends, and leaves byTask and superseded. *)
LEMMA FinishStep ==
  ASSUME QueueInv, NEW f \in Files, NEW how \in {"done", "refused", "superseded"},
         Running(f), Finish(f, how),
         how = "superseded" => f \in page.superseded,
         how = "done" => ~sub'[TaskOf(f)].waiting,
         sub' \in [Tasks -> SubType], Submitted', TellsNothing,
         UNCHANGED <<send, stored, late, spent>>
  PROVE  QueueInv'
<1>1. jobs' \in [Files -> JobType] /\ page' \in PageType /\ past' \in PastType
  BY DEF QueueInv, TypeOK, Finish, JobType, PageType, PastType, Gone, NoFile
<1>2. \A g \in Files : (Running(g)' <=> Running(g) /\ g # f) /\ (g # f => jobs'[g] = jobs[g])
  BY DEF QueueInv, TypeOK, Finish, Running, Gone
<1>3. /\ page'.superseded = page.superseded \ {f}
      /\ page'.removing = page.removing \cup {f}
      /\ \A t \in Tasks : page'.owner[t] = IF page.owner[t] = f THEN NoFile ELSE page.owner[t]
  BY DEF QueueInv, TypeOK, Finish, PageType
<1>4. /\ past'.taskOf = past.taskOf /\ past'.kept = past.kept
      /\ past'.ended[f] = how /\ \A g \in Files : g # f => past'.ended[g] = past.ended[g]
  BY DEF QueueInv, TypeOK, Finish, PastType
<1>5. \A g \in Files : Known(g)' <=> Known(g)
  BY <1>2, <1>3, <1>4 DEF Known
<1>6. TypeOK'
  <2>1. \A g \in Files : Running(g)' \/ stored'[g] # "no" => TaskOf(g)' \in Tasks
    BY <1>2, <1>4 DEF QueueInv, TypeOK, TaskOf
  <2>2. OwnersRun'
    BY <1>2, <1>3, <1>4 DEF QueueInv, TypeOK, PageType, OwnersRun, TaskOf, NoFile
  <2> QED BY <1>1, <2>1, <2>2 DEF QueueInv, TypeOK, OwnersRun
<1>7. InOrder'
  <2>1. send.file # NoFile => send.file \in Files /\ ~Known(send.file)'
    BY <1>5 DEF QueueInv, InOrder, TypeOK
  <2>2. \A g \in Files : Known(g)' => g <= spent'.files
    BY <1>5 DEF QueueInv, InOrder
  <2> QED BY <1>4, <2>1, <2>2 DEF QueueInv, InOrder, TaskOf
<1>8. ToldOfNewest'
  BY <1>4, <1>5 DEF QueueInv, ToldOfNewest, TellsNothing, TaskOf, TypeOK, InOrder
<1>9. UploadKnown'
  BY <1>2 DEF QueueInv, UploadKnown, Running
<1>10. OwnerRuns'
  BY <1>2, <1>3, <1>4, Missions DEF QueueInv, OwnerRuns, TaskOf, Known
<1>11. NewestOwns'
  BY <1>2, <1>3, <1>4 DEF QueueInv, NewestOwns, TaskOf
<1>12. \A t \in Tasks : sub'[t].told /\ sub'[t].waiting /\ sub'[t].of = f => how = "refused"
  <2> SUFFICES ASSUME NEW t \in Tasks, sub'[t].told, sub'[t].waiting, sub'[t].of = f, how # "refused"
               PROVE  FALSE
    OBVIOUS
  <2>1. sub[t].told /\ sub[t].of = f /\ TaskOf(f) = t
    BY DEF QueueInv, Submitted, TellsNothing, Files, NoFile
  <2>2. how = "superseded"
    BY <2>1
  <2>3. PICK g \in Files : g > f /\ TaskOf(g) = t /\ Known(g)
    BY <2>1, <2>2 DEF QueueInv, NewestOwns, Known
  <2> QED BY <2>1, <2>3 DEF QueueInv, ToldOfNewest
<1>13. EndedForGood'
  <2>1. \A g \in page'.removing : past'.ended[g] # "no"
    BY <1>3, <1>4 DEF QueueInv, EndedForGood, TypeOK, PageType
  <2>2. ASSUME NEW t \in Tasks, sub'[t].told, sub'[t].waiting
        PROVE  past'.ended[sub'[t].of] \in {"no", "refused"}
    <3>1. sub'[t].of \in Files
      BY <2>2 DEF Submitted, SubType
    <3> QED BY <1>4, <1>12, <2>2, <3>1 DEF QueueInv, EndedForGood, TellsNothing
  <2> QED BY <2>1, <2>2 DEF EndedForGood
<1>14. WaitingFileIsKept'
  <2> SUFFICES ASSUME NEW t \in Tasks, sub'[t].waiting, sub'[t].told, sub'[t].of \in past'.kept
               PROVE  stored'[sub'[t].of] # "no" \/ past'.ended[sub'[t].of] = "refused"
    BY DEF WaitingFileIsKept
  <2>1. sub'[t].of \in Files
    BY <1>1 DEF PastType
  <2> QED BY <1>4, <1>12, <2>1 DEF QueueInv, WaitingFileIsKept, TellsNothing
<1> QED BY <1>6, <1>7, <1>8, <1>9, <1>10, <1>11, <1>13, <1>14 DEF QueueInv

-----------------------------------------------------------------------------
(* The server's steps.                                                     *)

LEMMA ReturnTeamKeeps ==
  ASSUME QueueInv, NEW t \in Tasks, ReturnTeam(t)
  PROVE  QueueInv'
<1>1. sub' \in [Tasks -> SubType]
  BY DEF ReturnTeam, QueueInv, TypeOK, SubType, NoSubmission, NoFile
<1>2. /\ sub'[t] = NoSubmission /\ \A u \in Tasks : u # t => sub'[u] = sub[u]
      /\ spent' \in SpentType /\ spent'.files = spent.files
  BY BoundsAssumption DEF ReturnTeam, QueueInv, TypeOK, SpentType
<1>3. TellsNothing
  BY <1>2 DEF TellsNothing, NoSubmission
<1>4. Submitted'
  BY <1>2 DEF ReturnTeam, QueueInv, Submitted, NoSubmission, TaskOf
<1> QED BY <1>1, <1>2, <1>3, <1>4, ServerStep DEF ReturnTeam

(* What an approval writes. *)
LEMMA ApprovedShape ==
  ASSUME QueueInv, NEW f \in Files, f <= spent.files, NEW told \in BOOLEAN, sub' = Approved(f, told),
         past' = past, spent'.files = spent.files
  PROVE  /\ sub' \in [Tasks -> SubType]
         /\ Submitted'
         /\ sub'[TaskOf(f)] = [of |-> f, told |-> told, waiting |-> TRUE, file |-> NoFile]
         /\ \A t \in Tasks : t # TaskOf(f) => sub'[t] = sub[t]
<1>0. TaskOf(f) \in Tasks
  BY DEF QueueInv, InOrder
<1>1. sub' \in [Tasks -> SubType]
  BY <1>0 DEF QueueInv, TypeOK, Approved, SubType, NoFile
<1>2. /\ sub'[TaskOf(f)] = [of |-> f, told |-> told, waiting |-> TRUE, file |-> NoFile]
      /\ \A t \in Tasks : t # TaskOf(f) => sub'[t] = sub[t]
  BY <1>0 DEF QueueInv, TypeOK, Approved
<1>3. Submitted'
  BY <1>2 DEF QueueInv, Submitted, TaskOf, Files, NoFile
<1> QED BY <1>1, <1>2, <1>3

LEMMA ServeLateKeeps ==
  ASSUME QueueInv, NEW r \in late, ServeLate(r)
  PROVE  QueueInv'
<1>1. /\ r[1] \in {"approve", "attach"} /\ r[2] \in Files /\ r[2] <= spent.files
      /\ TaskOf(r[2]) \in Tasks
  BY DEF QueueInv, TypeOK, InOrder
<1>2. late' \subseteq late /\ UNCHANGED <<page, send, jobs, stored, past, spent>>
  BY DEF ServeLate
<1>3. spent' \in SpentType /\ spent'.files = spent.files
  BY <1>2 DEF QueueInv, TypeOK, SpentType
<1>4. CASE sub' = sub
  <2>1. TellsNothing /\ Submitted' /\ sub' \in [Tasks -> SubType]
    BY <1>2, <1>4 DEF TellsNothing, QueueInv, Submitted, TypeOK, TaskOf
  <2> QED BY <1>2, <1>3, <2>1, ServerStep
<1>5. CASE sub' = Approved(r[2], FALSE)
  <2>1. /\ sub' \in [Tasks -> SubType] /\ Submitted'
        /\ sub'[TaskOf(r[2])] = [of |-> r[2], told |-> FALSE, waiting |-> TRUE, file |-> NoFile]
        /\ \A t \in Tasks : t # TaskOf(r[2]) => sub'[t] = sub[t]
    BY <1>1, <1>2, <1>3, <1>5, ApprovedShape
  <2>2. TellsNothing
    BY <2>1 DEF TellsNothing
  <2> QED BY <1>2, <1>3, <2>1, <2>2, ServerStep
<1>6. CASE sub' = Attached(r[2])
  <2>1. TellsNothing /\ Submitted' /\ sub' \in [Tasks -> SubType]
    BY <1>1, <1>2, <1>3, <1>6, AttachedShape
  <2> QED BY <1>2, <1>3, <2>1, ServerStep
<1> QED BY <1>1, <1>4, <1>5, <1>6 DEF ServeLate

-----------------------------------------------------------------------------
(* The jobs' steps.                                                        *)

(* Only a job at an await has something to do. *)
LEMMA Typed ==
  ASSUME QueueInv
  PROVE  /\ jobs \in [Files -> JobType] /\ stored \in [Files -> {"no", "bare", "uploaded"}]
         /\ spent \in SpentType /\ sub \in [Tasks -> SubType] /\ page \in PageType
         /\ past \in PastType
BY DEF QueueInv, TypeOK, SpentType

(* A fault or none leaves the counters typed. *)
LEMMA Counted ==
  ASSUME QueueInv, Fault \/ UNCHANGED spent
  PROVE  spent' \in SpentType /\ spent'.files = spent.files
BY BoundsAssumption, Typed DEF Fault, SpentType

(* A step that leaves the submissions alone tells nothing. *)
LEMMA SubmissionsStay ==
  ASSUME QueueInv, sub' = sub, past'.taskOf = past.taskOf, spent'.files = spent.files
  PROVE  sub' \in [Tasks -> SubType] /\ Submitted' /\ TellsNothing
BY Typed DEF QueueInv, Submitted, TellsNothing, TaskOf

(* A job that was superseded stops where it is. *)
LEMMA StopsSuperseded ==
  ASSUME QueueInv, NEW f \in Files, Running(f), f \in page.superseded,
         Finish(f, "superseded"), UNCHANGED <<send, stored, late, sub, spent>>
  PROVE  QueueInv'
<1>1. past'.taskOf = past.taskOf
  BY Typed DEF Finish, PastType
<1> QED BY <1>1, SubmissionsStay, FinishStep

LEMMA UploadLandsKeeps ==
  ASSUME QueueInv, NEW f \in Files, UploadLands(f)
  PROVE  QueueInv'
<1>1. Running(f)
  BY DEF UploadLands, Running
<1>2. CASE f \in page.superseded
  BY <1>1, <1>2, StopsSuperseded DEF UploadLands
<1>3. CASE f \notin page.superseded
  <2> DEFINE j == [at |-> "saving", uploaded |-> TRUE]
  <2>1. j \in JobType /\ j.at = "saving" /\ j.uploaded
    BY DEF JobType
  <2>2. jobs' = [jobs EXCEPT ![f] = j] /\ UNCHANGED <<page, send, stored, late, sub, past, spent>>
    BY <1>3 DEF UploadLands
  <2> HIDE DEF j
  <2> QED BY <1>1, <2>1, <2>2, Typed, MoveStep
<1> QED BY <1>2, <1>3

LEMMA UploadIsRefusedKeeps ==
  ASSUME QueueInv, NEW f \in Files, UploadIsRefused(f)
  PROVE  QueueInv'
<1>1. Running(f)
  BY DEF UploadIsRefused, Running
<1>2. past'.taskOf = past.taskOf
  BY Typed DEF UploadIsRefused, Finish, PastType
<1> QED BY <1>1, <1>2, SubmissionsStay, FinishStep DEF UploadIsRefused

LEMMA SaveKeeps ==
  ASSUME QueueInv, NEW f \in Files, Save(f)
  PROVE  QueueInv'
<1> DEFINE j == [jobs[f] EXCEPT !.at = "attaching"]
<1>1. Running(f) /\ jobs[f].uploaded
  BY DEF Save, Running, QueueInv, UploadKnown
<1>2. j \in JobType /\ j.at = "attaching" /\ j.uploaded
  BY <1>1, Typed DEF JobType
<1>3. jobs' = [jobs EXCEPT ![f] = j] /\ UNCHANGED <<page, send, late, sub, past>>
  BY DEF Save
<1>4. stored' = stored \/ stored' = [stored EXCEPT ![f] = "uploaded"]
  BY DEF Save
<1>5. spent' \in SpentType /\ spent'.files = spent.files
  BY Counted DEF Save
<1> HIDE DEF j
<1> QED BY <1>1, <1>2, <1>3, <1>4, <1>5, MoveStep

LEMMA AttachKeeps ==
  ASSUME QueueInv, NEW f \in Files, Attach(f)
  PROVE  QueueInv'
<1>1. Running(f) /\ TaskOf(f) \in Tasks
  BY Missions DEF Attach, Running, Known
<1>2. past'.taskOf = past.taskOf /\ spent'.files = spent.files
  BY Typed DEF Attach, Finish, PastType
<1>3. sub' \in [Tasks -> SubType] /\ Submitted' /\ TellsNothing /\ ~sub'[TaskOf(f)].waiting
  BY <1>1, <1>2, AttachedShape DEF Attach
<1>4. CASE IsOpen(f)
  BY <1>1, <1>3, <1>4, FinishStep DEF Attach
<1>5. CASE ~IsOpen(f)
  BY <1>1, <1>3, <1>5, FinishStep DEF Attach
<1> QED BY <1>4, <1>5

LEMMA SleepKeeps ==
  ASSUME QueueInv, NEW f \in Files, Sleep(f), Fault \/ UNCHANGED spent,
         late' \subseteq late \cup {<<"attach", f>>},
         UNCHANGED <<page, send, stored, sub, past>>
  PROVE  QueueInv'
<1> DEFINE j == [jobs[f] EXCEPT !.at = "sleeping"]
<1>1. Running(f)
  BY DEF Sleep, Running
<1>2. j \in JobType /\ j.at = "sleeping" /\ j.uploaded = jobs[f].uploaded
  BY Typed DEF JobType
<1>3. jobs' = [jobs EXCEPT ![f] = j]
  BY DEF Sleep
<1>4. stored[f] = "uploaded" => jobs[f].uploaded
  BY <1>1 DEF QueueInv, UploadKnown
<1>5. spent' \in SpentType /\ spent'.files = spent.files
  BY Counted
<1> HIDE DEF j
<1> QED BY <1>1, <1>2, <1>3, <1>4, <1>5, MoveStep

LEMMA WakeKeeps ==
  ASSUME QueueInv, NEW f \in Files, Wake(f)
  PROVE  QueueInv'
<1>1. Running(f)
  BY DEF Wake, Running
<1>2. CASE f \in page.superseded
  BY <1>1, <1>2, StopsSuperseded DEF Wake
<1>3. CASE f \notin page.superseded
  <2> DEFINE j == Begun(jobs[f].uploaded)
  <2>1. /\ j \in JobType /\ j.at \in {"uploading", "attaching"}
        /\ j.uploaded = jobs[f].uploaded /\ (j.at = "uploading" <=> ~j.uploaded)
    BY Typed DEF JobType, Begun
  <2>2. jobs' = [jobs EXCEPT ![f] = j] /\ UNCHANGED <<page, send, stored, late, sub, past, spent>>
    BY <1>3 DEF Wake
  <2>3. stored[f] = "uploaded" => jobs[f].uploaded
    BY <1>1 DEF QueueInv, UploadKnown
  <2> HIDE DEF j
  <2> QED BY <1>1, <2>1, <2>2, <2>3, Typed, MoveStep
<1> QED BY <1>2, <1>3

-----------------------------------------------------------------------------
(* The phone's sends and the store.                                        *)

(* A capture that is sent again, or a new file, the last so far. *)
LEMMA SendDeferredKeeps ==
  ASSUME QueueInv, NEW f \in Files, NEW t \in Tasks, SendDeferred(f, t)
  PROVE  QueueInv'
<1>1. /\ send' = [at |-> "asking", file |-> f]
      /\ UNCHANGED <<page, jobs, stored, late, sub>>
  BY DEF SendDeferred
<1>2. f # NoFile
  BY DEF Files, NoFile
<1>3. CASE f = send.file /\ UNCHANGED <<past, spent>>
  <2>1. TypeOK'
    BY <1>1, <1>3 DEF QueueInv, TypeOK, Running, TaskOf
  <2>2. InOrder'
    BY <1>1, <1>2, <1>3 DEF QueueInv, InOrder, Known, Running, TaskOf
  <2>3. ToldOfNewest'
    BY <1>1, <1>3 DEF QueueInv, ToldOfNewest, Known, Running, TaskOf
  <2>4. (Submitted /\ UploadKnown /\ OwnerRuns /\ NewestOwns /\ EndedForGood /\ WaitingFileIsKept)'
    BY <1>1, <1>3 DEF QueueInv, Submitted, UploadKnown, OwnerRuns, NewestOwns, EndedForGood,
       WaitingFileIsKept, Running, TaskOf
  <2> QED BY <2>1, <2>2, <2>3, <2>4 DEF QueueInv
<1>4. CASE /\ f = spent.files + 1
           /\ spent' = [spent EXCEPT !.files = f]
           /\ past' = [past EXCEPT !.taskOf[f] = t]
  <2>1. spent' \in SpentType /\ spent'.files = f /\ past' \in PastType
    <3>1. f \in 0..MaxFiles
      BY BoundsAssumption DEF Files
    <3> QED BY <1>4, <3>1, Typed DEF SpentType, PastType
  <2>2. past'.kept = past.kept /\ past'.ended = past.ended /\ TaskOf(f)' = t
    BY <1>4, Typed DEF PastType, TaskOf
  <2>3. \A g \in Files : g # f => TaskOf(g)' = TaskOf(g)
    BY <1>4, Typed DEF PastType, TaskOf
  <2>4. \A g \in Files : Known(g)' <=> Known(g)
    BY <1>1, <2>2 DEF Known, Running
  <2>5. \A g \in Files : Known(g) => g <= spent.files /\ g # f /\ TaskOf(g)' = TaskOf(g)
    BY <1>4, <2>3, Typed DEF QueueInv, InOrder, SpentType, Files
  <2>6. \A g \in Files : Running(g)' = Running(g) /\ (Running(g) => Known(g))
    BY <1>1 DEF Running, Known
  <2>7. TypeOK'
    <3>1. \A g \in Files : Running(g)' \/ stored'[g] # "no" => TaskOf(g)' \in Tasks
      BY <1>1, <2>5, <2>6, Missions DEF Known
    <3>2. OwnersRun'
      BY <1>1, <2>5, <2>6 DEF QueueInv, TypeOK, PageType, OwnersRun, NoFile
    <3> QED BY <1>1, <2>1, <3>1, <3>2 DEF QueueInv, TypeOK, OwnersRun, SpentType
  <2>8. InOrder'
    <3>1. \A g \in Files : g <= spent'.files => TaskOf(g)' \in Tasks
      BY <1>4, <2>1, <2>2, <2>3, Typed DEF QueueInv, InOrder, SpentType, Files
    <3>2. \A g \in Files : Known(g)' => g <= spent'.files
      BY <1>4, <2>1, <2>4, <2>5, Typed DEF SpentType, Files
    <3>3. \A r \in late' : r[2] <= spent'.files
      BY <1>1, <1>4, <2>1, Typed DEF QueueInv, InOrder, TypeOK, SpentType, Files
    <3>4. send'.file = spent'.files /\ ~Known(f)'
      BY <1>1, <2>1, <2>4, <2>5
    <3> QED BY <1>1, <1>2, <3>1, <3>2, <3>3, <3>4 DEF InOrder, Known, Running
  <2>9. Submitted'
    BY <1>1, <1>4, <2>1, <2>3, Typed DEF QueueInv, Submitted, SubType, SpentType, Files, NoFile
  <2>10. ToldOfNewest'
    BY <1>1, <2>4, <2>5 DEF QueueInv, ToldOfNewest
  <2>11. UploadKnown'
    BY <1>1 DEF QueueInv, UploadKnown, Running
  <2>12. OwnerRuns'
    BY <1>1, <2>5, <2>6 DEF QueueInv, OwnerRuns
  <2>13. NewestOwns'
    BY <1>1, <2>2, <2>5, <2>6 DEF QueueInv, NewestOwns, Known
  <2>14. EndedForGood' /\ WaitingFileIsKept'
    BY <1>1, <2>2 DEF QueueInv, EndedForGood, WaitingFileIsKept
  <2> QED BY <2>7, <2>8, <2>9, <2>10, <2>11, <2>12, <2>13, <2>14 DEF QueueInv
<1> QED BY <1>3, <1>4 DEF SendDeferred

(* The send gives up, or is told that its mission is done. *)
LEMMA GivesUp ==
  ASSUME QueueInv, send'.at = "idle", send'.file \in {NoFile, send.file},
         send' \in [at : {"idle", "asking", "keeping"}, file : Files \cup {NoFile}],
         late' \subseteq late \cup {<<"approve", g>> : g \in {send.file} \ {NoFile}},
         spent' \in SpentType, spent'.files = spent.files,
         UNCHANGED <<page, jobs, stored, sub, past>>
  PROVE  QueueInv'
<1>1. send.file \in Files \cup {NoFile}
  BY DEF QueueInv, TypeOK
<1>2. \A r \in late' : r \in late \/ (r = <<"approve", send.file>> /\ send.file # NoFile)
  OBVIOUS
<1>3. late' \subseteq {"approve", "attach"} \X Files
  BY <1>1, <1>2 DEF QueueInv, TypeOK
<1>4. TypeOK'
  BY <1>3 DEF QueueInv, TypeOK, SpentType, Running, TaskOf
<1>5. \A r \in late' : r[2] <= spent'.files
  BY <1>1, <1>2, Typed DEF QueueInv, InOrder, SpentType, Files, NoFile
<1>6. \A g \in Files : Known(g)' <=> Known(g)
  BY DEF Known, Running
<1>7. send'.file # NoFile => send'.file = spent'.files /\ ~Known(send.file)'
  BY <1>1, <1>6 DEF QueueInv, InOrder
<1>8. InOrder'
  BY <1>5, <1>6, <1>7 DEF QueueInv, InOrder, Known, Running, TaskOf
<1>9. ToldOfNewest'
  BY <1>6 DEF QueueInv, ToldOfNewest, TaskOf
<1>10. (Submitted /\ UploadKnown /\ OwnerRuns /\ NewestOwns /\ EndedForGood /\ WaitingFileIsKept)'
  BY DEF QueueInv, Submitted, UploadKnown, OwnerRuns, NewestOwns, EndedForGood,
     WaitingFileIsKept, Running, TaskOf
<1> QED BY <1>4, <1>8, <1>9, <1>10 DEF QueueInv

LEMMA AskFailsKeeps ==
  ASSUME QueueInv, AskFails
  PROVE  QueueInv'
<1>1. send' \in [at : {"idle", "asking", "keeping"}, file : Files \cup {NoFile}]
  BY DEF AskFails, QueueInv, TypeOK
<1>2. send'.at = "idle" /\ send'.file = send.file /\ send.file # NoFile
  BY DEF AskFails, QueueInv, TypeOK, InOrder
<1>3. spent' \in SpentType /\ spent'.files = spent.files
  BY Counted DEF AskFails
<1> QED BY <1>1, <1>2, <1>3, GivesUp DEF AskFails

(* An approval the phone hears is of the newest file of all. *)
LEMMA AnsweredKeeps ==
  ASSUME QueueInv, Answered
  PROVE  QueueInv'
<1> PICK f \in Files : f = send.file
  BY DEF Answered, QueueInv, TypeOK, InOrder
<1>1. f = spent.files /\ f <= spent.files /\ ~Known(f) /\ TaskOf(f) \in Tasks
  BY DEF QueueInv, InOrder, Files, NoFile
<1>2. CASE ~IsOpen(f)
  <2>1. send' = NothingToSend /\ UNCHANGED <<page, jobs, stored, late, sub, past, spent>>
    BY <1>2 DEF Answered
  <2> QED BY <2>1, Typed, GivesUp DEF NothingToSend
<1>3. CASE IsOpen(f)
  <2>1. /\ sub' = Approved(f, TRUE) /\ send' = [send EXCEPT !.at = "keeping"]
        /\ UNCHANGED <<page, jobs, stored, late, past, spent>>
    BY <1>3 DEF Answered
  <2>2. /\ sub' \in [Tasks -> SubType] /\ Submitted'
        /\ sub'[TaskOf(f)] = [of |-> f, told |-> TRUE, waiting |-> TRUE, file |-> NoFile]
        /\ \A t \in Tasks : t # TaskOf(f) => sub'[t] = sub[t]
    BY <1>1, <2>1, ApprovedShape
  <2>3. /\ send' \in [at : {"idle", "asking", "keeping"}, file : Files \cup {NoFile}]
        /\ send'.at = "keeping" /\ send'.file = f
    BY <2>1 DEF QueueInv, TypeOK
  <2>4. \A g \in Files : Known(g)' <=> Known(g)
    BY <2>1 DEF Known, Running
  <2>5. TypeOK'
    BY <2>1, <2>2, <2>3 DEF QueueInv, TypeOK, Running, TaskOf
  <2>6. InOrder'
    <3>1. ~Known(f)'
      BY <1>1, <2>4
    <3> QED BY <1>1, <2>1, <2>3, <2>4, <3>1 DEF QueueInv, InOrder, TaskOf, Known, Running, Files, NoFile
  <2>7. ToldOfNewest'
    <3>1. \A g \in Files : g > f => ~Known(g)
      BY <1>1, Typed DEF QueueInv, InOrder, SpentType, Files
    <3>2. ASSUME NEW t \in Tasks, sub'[t].told, NEW g \in Files, g > sub'[t].of, TaskOf(g)' = t
          PROVE  ~Known(g)'
      <4>1. CASE t = TaskOf(f)
        BY <2>2, <2>4, <3>1, <3>2, <4>1
      <4>2. CASE t # TaskOf(f)
        BY <2>1, <2>2, <2>4, <3>2, <4>2 DEF QueueInv, ToldOfNewest, TaskOf
      <4> QED BY <4>1, <4>2
    <3>3. sub'[TaskOf(f)].of = f
      BY <2>2
    <3> QED BY <2>1, <2>3, <3>2, <3>3 DEF ToldOfNewest, TaskOf
  <2>8. (UploadKnown /\ OwnerRuns /\ NewestOwns)'
    BY <2>1 DEF QueueInv, UploadKnown, OwnerRuns, NewestOwns, Running, TaskOf
  <2>9. past.ended[f] = "no" /\ f \notin past.kept
    BY <1>1 DEF Known
  <2>10. EndedForGood'
    <3>1. \A t \in Tasks : sub'[t].told /\ sub'[t].waiting => past.ended[sub'[t].of] \in {"no", "refused"}
      <4> TAKE t \in Tasks
      <4>1. CASE t = TaskOf(f)
        BY <2>2, <2>9, <4>1
      <4>2. CASE t # TaskOf(f)
        BY <2>2, <4>2 DEF QueueInv, EndedForGood
      <4> QED BY <4>1, <4>2
    <3> QED BY <2>1, <3>1 DEF QueueInv, EndedForGood
  <2>11. WaitingFileIsKept'
    <3> SUFFICES ASSUME NEW t \in Tasks, sub'[t].waiting, sub'[t].told, sub'[t].of \in past.kept
                 PROVE  stored[sub'[t].of] # "no" \/ past.ended[sub'[t].of] = "refused"
      BY <2>1 DEF WaitingFileIsKept
    <3>1. t # TaskOf(f)
      BY <2>2, <2>9
    <3> QED BY <2>2, <3>1 DEF QueueInv, WaitingFileIsKept
  <2> QED BY <2>2, <2>5, <2>6, <2>7, <2>8, <2>10, <2>11 DEF QueueInv
<1> QED BY <1>2, <1>3

(* The file that is kept becomes the job of its mission. *)
LEMMA EnqueueKeeps ==
  ASSUME QueueInv, Enqueue
  PROVE  QueueInv'
<1> PICK f \in Files : f = send.file
  BY DEF Enqueue, QueueInv, TypeOK, InOrder
<1> DEFINE previous == page.owner[TaskOf(f)]
<1>1. f = spent.files /\ f <= spent.files /\ ~Known(f) /\ TaskOf(f) \in Tasks
  BY DEF QueueInv, InOrder, Files, NoFile
<1>2. /\ ~Running(f) /\ stored[f] = "no" /\ f \notin past.kept
      /\ \A g \in Files : Known(g) => g < f
  BY <1>1, Typed DEF QueueInv, InOrder, Known, SpentType, Files
<1>3. /\ jobs' = [jobs EXCEPT ![f] = Begun(FALSE)]
      /\ page' = [page EXCEPT !.owner[TaskOf(f)] = f,
                              !.superseded = @ \cup ({previous} \ {NoFile, f})]
  BY DEF Enqueue, Start
<1>4. send' = NothingToSend /\ UNCHANGED <<late, sub>>
  BY DEF Enqueue
<1>5. /\ jobs' \in [Files -> JobType] /\ page' \in PageType
      /\ Running(f)' /\ jobs'[f].at = "uploading" /\ ~jobs'[f].uploaded
      /\ \A g \in Files : g # f => jobs'[g] = jobs[g]
  <2>1. page' \in PageType
    BY <1>1, <1>3, Typed DEF PageType, NoFile
  <2>2. Begun(FALSE) \in JobType /\ Begun(FALSE).at = "uploading" /\ ~Begun(FALSE).uploaded
    BY DEF JobType, Begun
  <2>3. jobs' \in [Files -> JobType] /\ jobs'[f] = Begun(FALSE) /\ \A g \in Files : g # f => jobs'[g] = jobs[g]
    BY <1>1, <1>3, <2>2, Typed
  <2>4. Running(f)'
    BY <1>1, <2>2, <2>3 DEF Running
  <2> QED BY <2>1, <2>2, <2>3, <2>4
<1>6. /\ page'.owner[TaskOf(f)] = f
      /\ \A t \in Tasks : t # TaskOf(f) => page'.owner[t] = page.owner[t]
      /\ page'.superseded = page.superseded \cup ({previous} \ {NoFile, f})
      /\ page'.removing = page.removing
  BY <1>1, <1>3, Typed DEF PageType
<1>7. /\ past' \in PastType /\ past'.taskOf = past.taskOf /\ past'.ended = past.ended
      /\ stored' \in [Files -> {"no", "bare", "uploaded"}]
      /\ \A g \in Files : g # f => stored'[g] = stored[g]
      /\ stored'[f] # "uploaded"
      /\ past'.kept \subseteq past.kept \cup {f} /\ (f \in past'.kept => stored'[f] # "no")
  <2>1. CASE /\ stored' = [stored EXCEPT ![f] = "bare"]
             /\ past' = [past EXCEPT !.kept = @ \cup {f}]
    BY <1>1, <2>1, Typed DEF PastType
  <2>2. CASE UNCHANGED <<stored, past>>
    BY <1>2, <2>2, Typed
  <2> QED BY <2>1, <2>2 DEF Enqueue
<1>8. spent' \in SpentType /\ spent'.files = spent.files
  BY Counted DEF Enqueue
<1>9. \A g \in Files : /\ Running(g)' <=> Running(g) \/ g = f
                       /\ Known(g)' => Known(g) \/ g = f
                       /\ TaskOf(g)' = TaskOf(g)
  BY <1>5, <1>6, <1>7 DEF Running, Known, TaskOf
<1>10. previous # NoFile => /\ previous \in Files /\ Running(previous) /\ previous < f
                            /\ TaskOf(previous) = TaskOf(f)
  BY <1>1, <1>2, Typed DEF QueueInv, TypeOK, PageType, Known, NoFile
<1>11. TypeOK'
  <2>1. \A g \in Files : Running(g)' \/ stored'[g] # "no" => TaskOf(g)' \in Tasks
    BY <1>1, <1>7, <1>9 DEF QueueInv, TypeOK
  <2>2. OwnersRun'
    BY <1>1, <1>6, <1>9, Typed DEF QueueInv, TypeOK, PageType, OwnersRun, NoFile
  <2>3. send' \in [at : {"idle", "asking", "keeping"}, file : Files \cup {NoFile}]
    BY <1>4 DEF NothingToSend
  <2> QED BY <1>4, <1>5, <1>7, <1>8, <2>1, <2>2, <2>3 DEF QueueInv, TypeOK, OwnersRun, SpentType
<1>12. InOrder'
  <2>1. \A g \in Files : Known(g)' => g <= spent'.files
    BY <1>1, <1>8, <1>9, Typed DEF QueueInv, InOrder, SpentType, Files
  <2> QED BY <1>4, <1>8, <1>9, <2>1 DEF QueueInv, InOrder, NothingToSend
<1>13. Submitted'
  BY <1>4, <1>7, <1>8 DEF QueueInv, Submitted, TaskOf
<1>14. ToldOfNewest'
  <2> SUFFICES ASSUME NEW t \in Tasks, sub[t].told,
                      NEW g \in Files, g > sub[t].of, TaskOf(g) = t, Known(g)'
               PROVE  FALSE
    BY <1>4, <1>9 DEF ToldOfNewest, NothingToSend
  <2>1. g = f
    BY <1>9 DEF QueueInv, ToldOfNewest
  <2>2. sub[t].of = f
    BY <2>1 DEF Enqueue, QueueInv, ToldOfNewest
  <2> QED BY <2>1, <2>2 DEF Files
<1>15. UploadKnown'
  BY <1>5, <1>7, <1>9 DEF QueueInv, UploadKnown
<1>16. OwnerRuns'
  BY <1>1, <1>6, <1>9, Missions DEF QueueInv, OwnerRuns, Known, Files, NoFile
<1>17. NewestOwns'
  <2>1. ASSUME NEW g \in Files, Running(g)', NEW h \in Files, h > g, TaskOf(h)' = TaskOf(g)', Running(h)'
        PROVE  g \in page'.superseded
    <3>1. g # f /\ Running(g)
      BY <1>1, <1>2, <1>9, <2>1 DEF Known, Files
    <3>2. CASE h # f
      BY <1>6, <1>9, <2>1, <3>1, <3>2 DEF QueueInv, NewestOwns
    <3>3. CASE h = f /\ g \notin page.superseded
      BY <1>6, <1>9, <2>1, <3>1, <3>3 DEF QueueInv, OwnerRuns, Files, NoFile
    <3> QED BY <1>6, <3>2, <3>3
  <2>2. ASSUME NEW g \in Files, g \in page'.superseded
        PROVE  /\ Running(g)'
               /\ \E h \in Files : h > g /\ TaskOf(h)' = TaskOf(g)' /\ (Running(h)' \/ past'.ended[h] # "no")
    <3>1. CASE g \in page.superseded
      BY <1>7, <1>9, <3>1 DEF QueueInv, NewestOwns
    <3>2. CASE g = previous /\ previous # NoFile
      BY <1>1, <1>9, <1>10, <3>2 DEF Files
    <3> QED BY <1>6, <2>2, <3>1, <3>2
  <2> QED BY <2>1, <2>2 DEF NewestOwns
<1>18. EndedForGood'
  BY <1>4, <1>6, <1>7 DEF QueueInv, EndedForGood
<1>19. WaitingFileIsKept'
  BY <1>4, <1>7, Typed DEF QueueInv, WaitingFileIsKept, PastType
<1> QED BY <1>11, <1>12, <1>13, <1>14, <1>15, <1>16, <1>17, <1>18, <1>19 DEF QueueInv

(* What leaves the store has ended, and nothing waits for it. *)
LEMMA RemoveKeeps ==
  ASSUME QueueInv, NEW f \in Files, Remove(f)
  PROVE  QueueInv'
<1>1. /\ page' \in PageType /\ page'.removing = page.removing \ {f}
      /\ page'.owner = page.owner /\ page'.superseded = page.superseded
  BY Typed DEF Remove, PageType
<1>2. UNCHANGED <<send, jobs, late, sub, past>>
  BY DEF Remove
<1>3. /\ stored' \in [Files -> {"no", "bare", "uploaded"}]
      /\ \A g \in Files : g # f => stored'[g] = stored[g]
      /\ stored'[f] \in {"no", stored[f]}
  BY Typed DEF Remove
<1>4. spent' \in SpentType /\ spent'.files = spent.files
  BY Counted DEF Remove
<1>5. past.ended[f] # "no"
  BY DEF Remove, QueueInv, EndedForGood
<1>6. \A g \in Files : (Known(g)' <=> Known(g)) /\ (Running(g)' <=> Running(g)) /\ TaskOf(g)' = TaskOf(g)
  BY <1>1, <1>2, <1>3, <1>5 DEF Known, Running, TaskOf
<1>7. TypeOK'
  <2>1. \A g \in Files : Running(g)' \/ stored'[g] # "no" => TaskOf(g)' \in Tasks
    BY <1>3, <1>6 DEF QueueInv, TypeOK
  <2>2. OwnersRun'
    BY <1>1, <1>6 DEF QueueInv, TypeOK, PageType, OwnersRun, NoFile
  <2> QED BY <1>1, <1>2, <1>3, <1>4, <2>1, <2>2 DEF QueueInv, TypeOK, OwnersRun, SpentType
<1>8. InOrder'
  <2>1. send.file # NoFile => send.file \in Files /\ ~Known(send.file)'
    BY <1>2, <1>6 DEF QueueInv, InOrder, TypeOK
  <2> QED BY <1>2, <1>4, <1>6, <2>1 DEF QueueInv, InOrder, Known, Running
<1>9. Submitted'
  BY <1>2, <1>4 DEF QueueInv, Submitted, TaskOf
<1>10. ToldOfNewest'
  BY <1>2, <1>6 DEF QueueInv, ToldOfNewest, TaskOf
<1>11. UploadKnown'
  BY <1>2, <1>3 DEF QueueInv, UploadKnown, Running
<1>12. OwnerRuns' /\ NewestOwns'
  BY <1>1, <1>2, <1>6 DEF QueueInv, OwnerRuns, NewestOwns
<1>13. EndedForGood'
  BY <1>1, <1>2 DEF QueueInv, EndedForGood
<1>14. WaitingFileIsKept'
  BY <1>2, <1>3, <1>5, Typed DEF QueueInv, WaitingFileIsKept, EndedForGood, PastType
<1> QED BY <1>7, <1>8, <1>9, <1>10, <1>11, <1>12, <1>13, <1>14 DEF QueueInv

-----------------------------------------------------------------------------
(* The page is closed and opened.                                          *)

LEMMA CloseKeeps ==
  ASSUME QueueInv, Close
  PROVE  QueueInv'
<1>1. /\ page' = [FreshPage EXCEPT !.open = FALSE]
      /\ jobs' = [f \in Files |-> Gone]
      /\ send' = NothingToSend
      /\ UNCHANGED <<stored, sub, past>>
  BY DEF Close
<1>2. page' \in PageType /\ page'.superseded = {} /\ page'.removing = {} /\ \A t \in Tasks : page'.owner[t] = NoFile
  BY <1>1 DEF FreshPage, PageType, NoFile
<1>3. jobs' \in [Files -> JobType] /\ \A f \in Files : ~Running(f)' /\ jobs'[f].at = "none"
  BY <1>1 DEF Gone, JobType, Running
<1>4. spent' \in SpentType /\ spent'.files = spent.files
  BY Counted DEF Close
<1>5. \A f \in Files : (Known(f)' => Known(f)) /\ TaskOf(f)' = TaskOf(f)
  BY <1>1, <1>2, <1>3 DEF Known, TaskOf
<1>6. late' \subseteq {"approve", "attach"} \X Files /\ \A r \in late' : r[2] <= spent'.files
  <2>1. late' = late \cup {<<"attach", f>> : f \in {g \in Files : jobs[g].at = "attaching"}}
                     \cup (IF send.at = "asking" THEN {<<"approve", send.file>>} ELSE {})
    BY DEF Close
  <2>2. send.at = "asking" => send.file \in Files /\ send.file <= spent.files
    BY Typed DEF QueueInv, TypeOK, InOrder, SpentType, NoFile
  <2>3. \A f \in Files : jobs[f].at = "attaching" => f <= spent.files
    BY DEF QueueInv, InOrder, Known, Running
  <2>4. ASSUME NEW r \in late' PROVE r \in {"approve", "attach"} \X Files /\ r[2] <= spent.files
    <3>1. CASE r \in late
      BY <3>1 DEF QueueInv, TypeOK, InOrder
    <3>2. CASE \E f \in Files : jobs[f].at = "attaching" /\ r = <<"attach", f>>
      BY <2>3, <3>2
    <3>3. CASE send.at = "asking" /\ r = <<"approve", send.file>>
      BY <2>2, <3>3
    <3> QED BY <2>1, <3>1, <3>2, <3>3
  <2> QED BY <1>4, <2>4
<1>7. TypeOK'
  BY <1>1, <1>2, <1>3, <1>4, <1>5, <1>6 DEF QueueInv, TypeOK, NothingToSend, SpentType
<1>8. InOrder'
  BY <1>1, <1>4, <1>5, <1>6 DEF QueueInv, InOrder, NothingToSend
<1>9. Submitted'
  BY <1>1, <1>4 DEF QueueInv, Submitted, TaskOf
<1>10. ToldOfNewest'
  BY <1>1, <1>5 DEF QueueInv, ToldOfNewest, NothingToSend
<1>11. (UploadKnown /\ OwnerRuns /\ NewestOwns)'
  BY <1>2, <1>3 DEF UploadKnown, OwnerRuns, NewestOwns
<1>12. EndedForGood' /\ WaitingFileIsKept'
  BY <1>1, <1>2 DEF QueueInv, EndedForGood, WaitingFileIsKept
<1> QED BY <1>7, <1>8, <1>9, <1>10, <1>11, <1>12 DEF QueueInv

(* The stored jobs run again, and the newest of a mission owns it. *)
LEMMA OpenKeeps ==
  ASSUME QueueInv, Open
  PROVE  QueueInv'
<1> DEFINE last(t) == {f \in Restored : TaskOf(f) = t /\ Newer(f) = {}}
<1>1. /\ jobs' = [f \in Files |-> IF f \in Restored THEN Begun(stored[f] = "uploaded") ELSE Gone]
      /\ page' = [FreshPage EXCEPT
           !.superseded = {f \in Restored : Newer(f) # {}},
           !.owner = [t \in Tasks |-> IF last(t) = {} THEN NoFile ELSE CHOOSE f \in last(t) : TRUE]]
      /\ UNCHANGED <<send, stored, late, sub, past, spent>>
  BY DEF Open
<1>2. \A f \in Files : (f \in Restored <=> stored[f] # "no") /\ TaskOf(f)' = TaskOf(f)
  BY <1>1 DEF Restored, TaskOf
<1>3. /\ jobs' \in [Files -> JobType]
      /\ \A f \in Files : /\ Running(f)' <=> f \in Restored
                          /\ jobs'[f].at \in {"none", "uploading", "attaching"}
                          /\ jobs'[f].at = "uploading" => ~jobs'[f].uploaded
                          /\ jobs'[f].at = "attaching" => jobs'[f].uploaded
                          /\ f \in Restored /\ stored[f] = "uploaded" => jobs'[f].uploaded
  BY <1>1 DEF Begun, Gone, JobType, Running
<1>4. \A t \in Tasks : last(t) \subseteq Files
  BY DEF Restored
<1>5. /\ page'.superseded = {f \in Restored : Newer(f) # {}} /\ page'.removing = {}
      /\ page' \in PageType
      /\ \A t \in Tasks : page'.owner[t] = IF last(t) = {} THEN NoFile ELSE CHOOSE f \in last(t) : TRUE
  <2> HIDE DEF last
  <2>1. \A t \in Tasks : last(t) # {} => (CHOOSE f \in last(t) : TRUE) \in last(t)
    OBVIOUS
  <2>2. {f \in Restored : Newer(f) # {}} \subseteq Files
    BY DEF Restored
  <2> QED BY <1>1, <1>4, <2>1, <2>2 DEF FreshPage, PageType, NoFile
<1>6. \A t \in Tasks : page'.owner[t] # NoFile => page'.owner[t] \in last(t)
  <2> HIDE DEF last
  <2> QED BY <1>5
<1>7. ASSUME NEW f \in Restored, NEW g \in Restored, TaskOf(f) = TaskOf(g), Newer(f) = {}, Newer(g) = {}
      PROVE  f = g
  <2>1. f \in Files /\ g \in Files /\ stored[f] # "no" /\ stored[g] # "no"
    BY DEF Restored
  <2>2. ~(g > f) /\ ~(f > g)
    BY <1>7, <2>1 DEF Newer
  <2> QED BY <2>1, <2>2 DEF Files
<1>8. \A f \in Files : Known(f)' => Known(f)
  BY <1>1, <1>2, <1>3, <1>5 DEF Known
<1>9. TypeOK'
  <2>1. \A f \in Files : Running(f)' \/ stored'[f] # "no" => TaskOf(f)' \in Tasks
    BY <1>1, <1>2, <1>3 DEF QueueInv, TypeOK
  <2>2. OwnersRun'
    BY <1>2, <1>3, <1>4, <1>6 DEF OwnersRun
  <2> QED BY <1>1, <1>3, <1>5, <2>1, <2>2 DEF QueueInv, TypeOK, OwnersRun
<1>10. InOrder'
  <2>1. send.file # NoFile => send.file \in Files /\ ~Known(send.file)'
    BY <1>1, <1>8 DEF QueueInv, InOrder, TypeOK
  <2> QED BY <1>1, <1>2, <1>8, <2>1 DEF QueueInv, InOrder
<1>11. Submitted'
  BY <1>1 DEF QueueInv, Submitted, TaskOf
<1>12. ToldOfNewest'
  BY <1>1, <1>8 DEF QueueInv, ToldOfNewest, TaskOf
<1>13. UploadKnown'
  BY <1>1, <1>3 DEF UploadKnown
<1>14. OwnerRuns'
  <2> SUFFICES ASSUME NEW f \in Files, Running(f)', f \notin page'.superseded
               PROVE  page'.owner[TaskOf(f)] = f
    BY <1>2 DEF OwnerRuns
  <2>1. TaskOf(f) \in Tasks /\ f \in Restored /\ Newer(f) = {}
    BY <1>2, <1>3, <1>5, Missions DEF Known
  <2>2. f \in last(TaskOf(f))
    BY <2>1
  <2>3. (CHOOSE g \in last(TaskOf(f)) : TRUE) \in last(TaskOf(f))
    BY <2>2
  <2>4. (CHOOSE g \in last(TaskOf(f)) : TRUE) = f
    BY <1>7, <2>1, <2>3
  <2> QED BY <1>5, <2>1, <2>2, <2>4
<1>15. NewestOwns'
  BY <1>1, <1>2, <1>3, <1>5 DEF NewestOwns, Newer
<1>16. EndedForGood' /\ WaitingFileIsKept'
  BY <1>1, <1>5 DEF QueueInv, EndedForGood, WaitingFileIsKept
<1> QED BY <1>9, <1>10, <1>11, <1>12, <1>13, <1>14, <1>15, <1>16 DEF QueueInv

(* A page that could not read the store knows of no job. *)
LEMMA OpenUnreadKeeps ==
  ASSUME QueueInv, OpenUnread
  PROVE  QueueInv'
<1>1. /\ page' = [FreshPage EXCEPT !.restored = FALSE]
      /\ jobs' = [f \in Files |-> Gone]
      /\ UNCHANGED <<send, stored, late, sub, past>>
  BY DEF OpenUnread
<1>2. page' \in PageType /\ page'.superseded = {} /\ page'.removing = {} /\ \A t \in Tasks : page'.owner[t] = NoFile
  BY <1>1 DEF FreshPage, PageType, NoFile
<1>3. jobs' \in [Files -> JobType] /\ \A f \in Files : ~Running(f)' /\ jobs'[f].at = "none"
  BY <1>1 DEF Gone, JobType, Running
<1>4. spent' \in SpentType /\ spent'.files = spent.files
  BY Counted DEF OpenUnread
<1>5. \A f \in Files : (Known(f)' => Known(f)) /\ TaskOf(f)' = TaskOf(f)
  BY <1>1, <1>2, <1>3 DEF Known, TaskOf
<1>6. TypeOK'
  BY <1>1, <1>2, <1>3, <1>4, <1>5 DEF QueueInv, TypeOK, SpentType
<1>7. InOrder'
  <2>1. send.file # NoFile => send.file \in Files /\ ~Known(send.file)'
    BY <1>1, <1>5 DEF QueueInv, InOrder, TypeOK
  <2> QED BY <1>1, <1>4, <1>5, <2>1 DEF QueueInv, InOrder
<1>8. Submitted'
  BY <1>1, <1>4 DEF QueueInv, Submitted, TaskOf
<1>9. ToldOfNewest'
  BY <1>1, <1>5 DEF QueueInv, ToldOfNewest, TaskOf
<1>10. (UploadKnown /\ OwnerRuns /\ NewestOwns)'
  BY <1>2, <1>3 DEF UploadKnown, OwnerRuns, NewestOwns
<1>11. EndedForGood' /\ WaitingFileIsKept'
  BY <1>1, <1>2 DEF QueueInv, EndedForGood, WaitingFileIsKept
<1> QED BY <1>6, <1>7, <1>8, <1>9, <1>10, <1>11 DEF QueueInv

-----------------------------------------------------------------------------
(* The theorems.                                                           *)

LEMMA InitQueue == ASSUME Init PROVE QueueInv
<1>1. TypeOK
  BY BoundsAssumption DEF Init, TypeOK, FreshPage, NothingToSend, Gone, NoSubmission, PageType,
     JobType, SubType, PastType, Running, TaskOf, NoFile
<1>2. \A f \in Files : ~Known(f) /\ ~Running(f)
  BY DEF Init, Known, Running, Gone, FreshPage
<1>3. InOrder
  BY <1>2 DEF Init, InOrder, NothingToSend, Files
<1>4. Submitted /\ ToldOfNewest
  BY DEF Init, Submitted, ToldOfNewest, NoSubmission, NothingToSend
<1>5. UploadKnown /\ OwnerRuns /\ NewestOwns
  BY <1>2 DEF Init, UploadKnown, OwnerRuns, NewestOwns, Gone, FreshPage, Running
<1>6. EndedForGood /\ WaitingFileIsKept
  BY DEF Init, EndedForGood, WaitingFileIsKept, NoSubmission, FreshPage
<1> QED BY <1>1, <1>3, <1>4, <1>5, <1>6 DEF QueueInv

LEMMA QueueKeeps == ASSUME QueueInv, [Next]_vars PROVE QueueInv'
<1>1. CASE UNCHANGED vars
  BY <1>1 DEF vars, QueueInv, TypeOK, InOrder, Submitted, ToldOfNewest, UploadKnown, OwnerRuns,
     NewestOwns, EndedForGood, WaitingFileIsKept, Known, Running, TaskOf
<1>2. CASE Next
  <2>1. ASSUME NEW f \in Files,
               UploadLands(f) \/ UploadIsRefused(f) \/ Save(f) \/ Attach(f) \/ AttachIsLost(f)
               \/ AttemptFails(f) \/ Wake(f) \/ Remove(f)
        PROVE  QueueInv'
    <3>1. CASE AttachIsLost(f)
      BY <3>1, SleepKeeps DEF AttachIsLost
    <3>2. CASE AttemptFails(f)
      BY <3>2, SleepKeeps DEF AttemptFails
    <3> QED BY <2>1, <3>1, <3>2, UploadLandsKeeps, UploadIsRefusedKeeps, SaveKeeps, AttachKeeps,
               WakeKeeps, RemoveKeeps
  <2> QED BY <1>2, <2>1, ReturnTeamKeeps, SendDeferredKeeps, ServeLateKeeps, AnsweredKeeps,
             AskFailsKeeps, EnqueueKeeps, CloseKeeps, OpenKeeps, OpenUnreadKeeps DEF Next
<1> QED BY <1>1, <1>2

(* The invariant behind the theorems: the order of the files, what the     *)
(* phone was told, who owns a mission and what has ended fit together.     *)
THEOREM QueueInvHolds == Spec => []QueueInv
BY InitQueue, QueueKeeps, PTL DEF Spec

(* The state of the queue, the store and the server keeps its types, and   *)
(* byTask never names a job that does not run or is of another mission.    *)
THEOREM QueueTypes == Spec => []TypeOK
<1>1. QueueInv => TypeOK
  BY DEF QueueInv
<1> QED BY <1>1, QueueInvHolds, PTL

(* Never lose a file: what is approved, waits for its file and was put in  *)
(* the store is in the store, until it is attached or refused for good.    *)
THEOREM FileIsKept == Spec => []WaitingFileIsKept
<1>1. QueueInv => WaitingFileIsKept
  BY DEF QueueInv
<1> QED BY <1>1, QueueInvHolds, PTL

(* One job per task, after any sends, retries, ends and reloads. *)
THEOREM NewestJobOwns == Spec => []NewestOwns
<1>1. QueueInv => NewestOwns
  BY DEF QueueInv
<1> QED BY <1>1, QueueInvHolds, PTL

(* Bytes that are known to have landed are never sent again. *)
THEOREM LandedOnce == Spec => []UploadedOnce
<1>1. QueueInv => UploadedOnce
  BY DEF QueueInv, UploadKnown, UploadedOnce, Running
<1> QED BY <1>1, QueueInvHolds, PTL

(* A late or repeated attach never replaces the file of a submission. *)
LEMMA FileStaysInStep ==
  ASSUME QueueInv, QueueInv', [Next]_vars,
         NEW t \in Tasks, sub[t].file # NoFile, sub'[t].of = sub[t].of
  PROVE  sub'[t].file = sub[t].file
<1>1. ~sub[t].waiting /\ sub[t].of # NoFile
  BY DEF QueueInv, Submitted
<1>2. ASSUME NEW f \in Files, TaskOf(f) \in Tasks, sub' = Attached(f) PROVE sub'[t].file = sub[t].file
  BY <1>1, <1>2, Typed DEF Attached, SubType
<1>3. ASSUME NEW f \in Files, NEW told \in BOOLEAN, IsOpen(f), TaskOf(f) \in Tasks, sub' = Approved(f, told)
      PROVE  sub'[t].file = sub[t].file
  BY <1>1, <1>3, Typed DEF Approved, IsOpen, SubType
<1>4. CASE sub' = sub
  BY <1>4
<1>5. ASSUME NEW u \in Tasks, ReturnTeam(u) PROVE sub'[t].file = sub[t].file
  BY <1>1, <1>5, Typed DEF ReturnTeam, SubType, NoSubmission
<1>6. ASSUME NEW r \in late, ServeLate(r) PROVE sub'[t].file = sub[t].file
  <2>1. r[1] \in {"approve", "attach"} /\ r[2] \in Files /\ TaskOf(r[2]) \in Tasks
    BY DEF QueueInv, TypeOK, InOrder
  <2> QED BY <1>2, <1>3, <1>4, <1>6, <2>1 DEF ServeLate
<1>7. ASSUME Answered PROVE sub'[t].file = sub[t].file
  <2>1. send.file \in Files /\ TaskOf(send.file) \in Tasks
    BY <1>7, Typed DEF Answered, QueueInv, TypeOK, InOrder, SpentType, NoFile
  <2> QED BY <1>3, <1>4, <1>7, <2>1 DEF Answered
<1>8. ASSUME NEW f \in Files, Attach(f) PROVE sub'[t].file = sub[t].file
  BY <1>2, <1>8, Missions DEF Attach, Known, Running
<1> QED
  BY <1>4, <1>5, <1>6, <1>7, <1>8 DEF Next, vars, SendDeferred, AskFails, Enqueue, UploadLands,
     UploadIsRefused, Save, AttachIsLost, AttemptFails, Wake, Remove, Close, Open, OpenUnread

(* A retry after a lost reply must not move the file (design D2), whatever *)
(* is retried, reloaded or served late.                                    *)
THEOREM FileStandsHolds == Spec => FileStands
<1>1. ASSUME QueueInv, QueueInv', [Next]_vars
      PROVE  [\A t \in Tasks : sub[t].file # NoFile /\ sub'[t].of = sub[t].of
                => sub'[t].file = sub[t].file]_vars
  BY <1>1, FileStaysInStep
<1> QED BY <1>1, QueueInvHolds, PTL DEF Spec, FileStands

=============================================================================
