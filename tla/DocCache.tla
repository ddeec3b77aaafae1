------------------------------ MODULE DocCache ------------------------------
(***************************************************************************)
(* The document cache of the API process, in front of one collection: the  *)
(* policy (docCachePolicy), the handle whose writes invalidate it, and     *)
(* cachedGetDoc and cachedGetCollection, which read through it (docCache). *)
(*                                                                         *)
(* A document is the number of writes to it so far and whether it is       *)
(* there.  A call is split where it awaits the driver; invalidation is     *)
(* synchronous.  Which entry the bound on memory evicts is left open, so   *)
(* the order of use is not kept.  A batch, and a transaction, which reads  *)
(* at the driver, is one commit.  recursiveDelete is only asked for a tree *)
(* that has the collection in it (purgeGameTree, deleteMyAccount).         *)
(*                                                                         *)
(* Code: functions/src/docCache.ts, packages/shared/src/docCachePolicy.ts. *)
(***************************************************************************)
EXTENDS Integers, FiniteSets

CONSTANTS
  Docs,       \* the document ids of the collection
  Calls,      \* reads and writes that may be in flight at once
  Ttl,        \* ttlMs
  MaxWrites,  \* commits
  MaxTime,    \* the clock
  MaxFaults   \* failed reads, writes given up on, restarts

ASSUME BoundsAssumption ==
  /\ IsFiniteSet(Docs) /\ IsFiniteSet(Calls)
  /\ Ttl \in Nat \ {0} /\ {MaxWrites, MaxTime, MaxFaults} \subseteq Nat

VARIABLES
  doc,      \* the documents in Firestore
  held,     \* the documents in memory: a copy, its storedAtMs, and whether a
            \* write overtook the fill that put it, or landed unseen
  members,  \* the membership in memory, none or one, with the same two
  now,      \* the clock
  call,     \* calls in flight
  ghost     \* whether a row as old as Ttl was ever handed out; commits; faults

vars == <<doc, held, members, now, call, ghost>>

Verbs    == {"set", "create", "update", "delete"}
Existing == {d \in Docs : doc[d].there}

Init ==
  /\ doc \in [Docs -> [n : {0}, there : BOOLEAN]]
  /\ held = [d \in {} |-> 0] /\ members = {} /\ now = 0
  /\ call = [c \in Calls |-> [kind |-> "none"]]
  /\ ghost = [late |-> FALSE, writes |-> 0, faults |-> 0]

-----------------------------------------------------------------------------
(* The policy.  An entry lives for Ttl from storedAtMs; a hit does not     *)
(* renew it.                                                               *)
Live(e, at) == at - e.at < Ttl

Hits(at) == {d \in DOMAIN held : Live(held[d], at)}

Drop(ds) == held' = [d \in DOMAIN held \ ds |-> held[d]]

(* A lookup deletes what it finds expired. *)
Look(ds) == Drop(ds \ Hits(now))

At(c, kind, pc) == call[c].kind = kind /\ call[c].pc = pc
End(c)          == call' = [call EXCEPT ![c] = [kind |-> "none"]]
Begin(c, r)     == call[c].kind = "none" /\ call' = [call EXCEPT ![c] = r]

(* What the driver answers now; `readAt` is for the properties.            *)
Copy(d, at) == [n |-> doc[d].n, there |-> doc[d].there, at |-> at, readAt |-> now]

Stored(d, copy) ==
  [n |-> copy.n, there |-> copy.there, at |-> copy.at, readAt |-> copy.readAt,
   overtaken |-> copy.n # doc[d].n]

\* Mutant: an entry is stamped when it is stored, not when its read began.
StampedLate(copies) ==
  held' = [d \in DOMAIN held \cup DOMAIN copies |->
             IF d \in DOMAIN copies THEN Stored(d, [copies[d] EXCEPT !.at = now]) ELSE held[d]]

PutDocs(copies) ==
  held' = [d \in DOMAIN held \cup DOMAIN copies |->
             IF d \in DOMAIN copies THEN Stored(d, copies[d]) ELSE held[d]]

(* `asked` is when the call that gets the rows began. *)
HandOut(rows, asked) ==
  [ghost EXCEPT !.late = @ \/ \E d \in DOMAIN rows : asked - rows[d].readAt >= Ttl]

-----------------------------------------------------------------------------
(* cachedGetDoc: the time is taken before the lookup.  A document that is  *)
(* not there is held as absent.                                            *)
GetDoc(c, d) ==
  /\ call[c].kind = "none"
  /\ IF d \in Hits(now)
     THEN ghost' = HandOut([x \in {d} |-> held[x]], now) /\ UNCHANGED call
     ELSE Begin(c, [kind |-> "get", pc |-> "read", doc |-> d, at |-> now]) /\ UNCHANGED ghost
  /\ Look({d})
  /\ UNCHANGED <<doc, members, now>>

GetRead(c) ==
  /\ At(c, "get", "read")
  /\ LET r == call[c] IN
       call' = [call EXCEPT ![c] = [kind |-> "get", pc |-> "put", at |-> r.at,
                                    copies |-> [d \in {r.doc} |-> Copy(d, r.at)]]]
  /\ UNCHANGED <<doc, held, members, now, ghost>>

GetPut(c) ==
  /\ At(c, "get", "put")
  /\ PutDocs(call[c].copies)
  /\ ghost' = HandOut(call[c].copies, call[c].at)
  /\ End(c)
  /\ UNCHANGED <<doc, members, now>>

(* cachedGetCollection: where the membership is held, only what is not     *)
(* held of it, or held as absent, is read again.                           *)
GetCollection(c) ==
  /\ call[c].kind = "none"
  /\ LET known == {m \in members : Live(m, now)}
         ids   == UNION {m.ids : m \in known}
         hits  == {d \in ids \cap Hits(now) : held[d].there}
         rows  == [d \in hits |-> held[d]]
     IN  /\ IF known # {} /\ hits = ids
            THEN ghost' = HandOut(rows, now) /\ UNCHANGED call
            ELSE /\ Begin(c, [kind |-> "list", pc |-> "read", full |-> known = {}, rows |-> rows,
                              missing |-> ids \ hits, at |-> now])
                 /\ UNCHANGED ghost
         /\ Look(ids) /\ members' = known
  /\ UNCHANGED <<doc, now>>

ListRead(c) ==
  /\ At(c, "list", "read")
  /\ LET r == call[c]
         wanted == IF r.full THEN Existing ELSE r.missing
     IN  call' = [call EXCEPT ![c] = [kind |-> "list", pc |-> "put", full |-> r.full, rows |-> r.rows,
                                      copies |-> [d \in wanted |-> Copy(d, r.at)], at |-> r.at]]
  /\ UNCHANGED <<doc, held, members, now, ghost>>

ListPut(c) ==
  /\ At(c, "list", "put")
  /\ LET r     == call[c]
         found == {d \in DOMAIN r.copies : r.copies[d].there}
         rows  == [d \in DOMAIN r.rows \cup found |->
                     IF d \in found THEN r.copies[d] ELSE r.rows[d]]
     IN  /\ PutDocs(r.copies)
         /\ members' = IF r.full
                        THEN {[ids |-> DOMAIN r.copies, at |-> r.at, overtaken |-> DOMAIN r.copies # Existing]}
                        ELSE members
         /\ ghost' = HandOut(rows, r.at)
  /\ End(c)
  /\ UNCHANGED <<doc, now>>

-----------------------------------------------------------------------------
(* The verbs of a handle, a batch or a transaction.  update fails where    *)
(* there is no document, create where there is one; then nothing is        *)
(* written.  The caller goes on the same whatever the answer, or none.     *)
CanCommit(verb) ==
  \A d \in DOMAIN verb : /\ verb[d] = "update" => doc[d].there
                         /\ verb[d] = "create" => ~doc[d].there

\* Mutant: a set is taken for an update of what is there.
SetKeepsMembers(verb) == \A d \in DOMAIN verb : verb[d] \in {"update", "set"}

KeepsMembers(verb) == \A d \in DOMAIN verb : verb[d] = "update"

Apply(verb) ==
  doc' = [d \in Docs |-> IF CanCommit(verb) /\ d \in DOMAIN verb
                         THEN [n |-> doc[d].n + 1, there |-> verb[d] # "delete"]
                         ELSE doc[d]]

Commit(c, verb) ==
  /\ ghost.writes < MaxWrites
  /\ Apply(verb)
  /\ Begin(c, [kind |-> "write", pc |-> "settled", docs |-> DOMAIN verb,
               keeps |-> KeepsMembers(verb), purges |-> FALSE])
  /\ ghost' = [ghost EXCEPT !.writes = @ + 1]
  /\ UNCHANGED <<held, members, now>>

(* recursiveDelete deletes the documents in batches of its own; it may     *)
(* fail half way, and drops what is held under its path in any case.       *)
Purge(c) ==
  /\ ghost.writes < MaxWrites
  /\ Begin(c, [kind |-> "write", pc |-> "settled", docs |-> Docs, keeps |-> FALSE, purges |-> TRUE])
  /\ ghost' = [ghost EXCEPT !.writes = @ + 1]
  /\ UNCHANGED <<doc, held, members, now>>

PurgeDoc(c, d) ==
  /\ At(c, "write", "settled") /\ call[c].purges /\ doc[d].there
  /\ doc' = [doc EXCEPT ![d] = [n |-> doc[d].n + 1, there |-> FALSE]]
  /\ UNCHANGED <<held, members, now, call, ghost>>

(* invalidateWrite, in `finally`: the documents, and the membership unless *)
(* every verb was an update.                                               *)
Invalidate(c) ==
  /\ At(c, "write", "settled")
  /\ Drop(call[c].docs)
  /\ members' = IF call[c].keeps THEN members ELSE {}
  /\ End(c)
  /\ UNCHANGED <<doc, now, ghost>>

(* The driver gives up on a write, `finally` invalidates, and the write    *)
(* lands after that, unseen.                                               *)
GiveUp(c, verb) ==
  /\ ghost.writes < MaxWrites /\ ghost.faults < MaxFaults
  /\ Begin(c, [kind |-> "late", pc |-> "lands", verb |-> verb])
  /\ Drop(DOMAIN verb)
  /\ members' = IF KeepsMembers(verb) THEN members ELSE {}
  /\ ghost' = [ghost EXCEPT !.writes = @ + 1, !.faults = @ + 1]
  /\ UNCHANGED <<doc, now>>

LandLate(c) ==
  /\ At(c, "late", "lands")
  /\ LET verb == call[c].verb IN
       /\ Apply(verb)
       /\ held' = [d \in DOMAIN held |->
                     [held[d] EXCEPT !.overtaken = @ \/ d \in DOMAIN verb]]
       /\ members' = {[ids |-> m.ids, at |-> m.at, overtaken |-> m.overtaken \/ ~KeepsMembers(verb)] :
                        m \in members}
  /\ End(c)
  /\ UNCHANGED <<now, ghost>>

(* maxEntries is passed: the least recently used entry goes. *)
EvictDoc(d) ==
  /\ d \in DOMAIN held
  /\ Drop({d})
  /\ UNCHANGED <<doc, members, now, call, ghost>>

EvictMembers ==
  /\ members # {} /\ members' = {}
  /\ UNCHANGED <<doc, held, now, call, ghost>>

Tick ==
  /\ now < MaxTime
  /\ now' = now + 1
  /\ UNCHANGED <<doc, held, members, call, ghost>>

(* A read fails and nothing is put. *)
ReadFails(c) ==
  /\ call[c].kind \in {"get", "list"} /\ call[c].pc = "read"
  /\ ghost.faults < MaxFaults
  /\ End(c)
  /\ ghost' = [ghost EXCEPT !.faults = @ + 1]
  /\ UNCHANGED <<doc, held, members, now>>

(* The process restarts: its memory and its calls are gone, but not a      *)
(* write on its way.                                                       *)
Restart ==
  /\ ghost.faults < MaxFaults
  /\ held' = [d \in {} |-> 0] /\ members' = {}
  /\ call' = [c \in Calls |-> IF call[c].kind = "late" THEN call[c] ELSE [kind |-> "none"]]
  /\ ghost' = [ghost EXCEPT !.faults = @ + 1]
  /\ UNCHANGED <<doc, now>>

Reading(c) ==
  (\E d \in Docs : GetDoc(c, d)) \/ GetRead(c) \/ GetPut(c)
    \/ GetCollection(c) \/ ListRead(c) \/ ListPut(c) \/ ReadFails(c)

Writing(c) ==
  \/ \E D \in (SUBSET Docs) \ {{}} : \E verb \in [D -> Verbs] : Commit(c, verb) \/ GiveUp(c, verb)
  \/ Purge(c) \/ (\E d \in Docs : PurgeDoc(c, d)) \/ Invalidate(c) \/ LandLate(c)

Next ==
  \/ \E c \in Calls : Reading(c) \/ Writing(c)
  \/ \E d \in Docs : EvictDoc(d)
  \/ EvictMembers \/ Tick \/ Restart

Spec == Init /\ [][Next]_vars

-----------------------------------------------------------------------------
(* What a call has in its hands at each of its steps: the copies it puts   *)
(* were read no earlier than it began, and the rows it found in memory were *)
(* younger than the TTL when it found them.                                *)
Times    == 0 .. MaxTime
CopyType == [n : Nat, there : BOOLEAN, at : Times, readAt : Times]
HeldType == [n : Nat, there : BOOLEAN, at : Times, readAt : Times, overtaken : BOOLEAN]

CopiesOf(c) ==
  /\ DOMAIN call[c].copies \subseteq Docs
  /\ \A d \in DOMAIN call[c].copies :
       /\ call[c].copies[d] \in CopyType
       /\ call[c].copies[d].at <= call[c].copies[d].readAt
       /\ call[c].at <= call[c].copies[d].readAt

RowsOf(c) ==
  /\ DOMAIN call[c].rows \subseteq Docs
  /\ \A d \in DOMAIN call[c].rows :
       call[c].rows[d].readAt \in Times /\ call[c].at - call[c].rows[d].readAt < Ttl

CallOK(c) ==
  \/ call[c].kind = "none"
  \/ At(c, "get", "read") /\ call[c].doc \in Docs /\ call[c].at \in 0 .. now
  \/ At(c, "get", "put") /\ call[c].at \in 0 .. now /\ CopiesOf(c)
  \/ /\ At(c, "list", "read") /\ call[c].at \in 0 .. now /\ call[c].full \in BOOLEAN
     /\ call[c].missing \subseteq Docs /\ RowsOf(c)
  \/ /\ At(c, "list", "put") /\ call[c].at \in 0 .. now /\ call[c].full \in BOOLEAN
     /\ CopiesOf(c) /\ RowsOf(c)
  \/ /\ At(c, "write", "settled") /\ call[c].docs \subseteq Docs
     /\ {call[c].keeps, call[c].purges} \subseteq BOOLEAN
     /\ call[c].purges => call[c].docs = Docs /\ ~call[c].keeps
  \/ At(c, "late", "lands") /\ \E D \in SUBSET Docs : call[c].verb \in [D -> Verbs]

(* Type invariant, of the calls in flight too; an entry is stamped no later *)
(* than it was read.                                                       *)
TypeOK ==
  /\ doc \in [Docs -> [n : Nat, there : BOOLEAN]]
  /\ now \in Times
  /\ DOMAIN held \subseteq Docs
  /\ \A d \in DOMAIN held : held[d] \in HeldType /\ held[d].at <= held[d].readAt
  /\ \A m \in members : m.ids \subseteq Docs /\ m.at \in Times /\ m.overtaken \in BOOLEAN
  /\ DOMAIN call = Calls /\ \A c \in Calls : CallOK(c)
  /\ ghost \in [late : BOOLEAN, writes : 0 .. MaxWrites, faults : 0 .. MaxFaults]

(* "There is no path by which this document changes without the cache      *)
(* learning about it" (resolveCallerTeam), but for two: an entry that      *)
(* differs from its document, and a membership that differs from the       *)
(* collection, was put by a fill that a write overtook, was there when a   *)
(* write that had been given up on landed, or is about to be dropped.  A   *)
(* batch, a tree deleted half way, a failed write make no other.           *)
Pending == {c \in Calls : At(c, "write", "settled")}

Coherent ==
  /\ \A d \in DOMAIN held : held[d].n # doc[d].n =>
       held[d].overtaken \/ \E c \in Pending : d \in call[c].docs
  /\ \A m \in members : m.ids # Existing =>
       m.overtaken \/ \E c \in Pending : ~call[c].keeps

(* "The TTL only bounds how long a stale entry could survive": whatever    *)
(* overtook what, a row that is handed out was read from Firestore less    *)
(* than the TTL before the call that gets it began.                        *)
BoundedStaleness == ~ghost.late

(* The claim without the exceptions: once no call is under way, what is     *)
(* held is what Firestore has.                                             *)
NeverStale ==
  (\A c \in Calls : call[c].kind = "none") =>
    \A d \in Hits(now) : held[d].n = doc[d].n
=============================================================================
