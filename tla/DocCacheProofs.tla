--------------------------- MODULE DocCacheProofs ---------------------------
(***************************************************************************)
(* Theorems about DocCache, for any documents, any number of calls and any *)
(* TTL: its types hold, what is stale in memory was put there by a fill    *)
(* that a write overtook, and nothing is handed out once it is as old as   *)
(* the TTL.                                                                *)
(***************************************************************************)
EXTENDS DocCache, TLAPS

HeldOK ==
  /\ DOMAIN held \subseteq Docs
  /\ \A d \in DOMAIN held : held[d] \in HeldType /\ held[d].at <= held[d].readAt

MembersOK ==
  \A m \in members : m.ids \subseteq Docs /\ m.at \in Times /\ m.overtaken \in BOOLEAN

CallsOK == DOMAIN call = Calls /\ \A c \in Calls : CallOK(c)

GhostOK == ghost \in [late : BOOLEAN, writes : 0 .. MaxWrites, faults : 0 .. MaxFaults]

LEMMA TimeBound == MaxTime \in Nat
  BY BoundsAssumption

(* A step of one call leaves the hands of the others as they were. *)
LEMMA OthersKeep ==
  ASSUME TypeOK, NEW c \in Calls, NEW r, call' = [call EXCEPT ![c] = r], now' = now, CallOK(c)'
  PROVE  CallsOK'
<1>1. DOMAIN call' = Calls /\ \A x \in Calls \ {c} : call'[x] = call[x]
  BY DEF TypeOK
<1>2. ASSUME NEW x \in Calls \ {c} PROVE CallOK(x)'
  <2>1. CallOK(x) /\ call'[x] = call[x]
    BY <1>1 DEF TypeOK
  <2> QED BY <2>1 DEF CallOK, At, CopiesOf, RowsOf
<1> QED BY <1>1, <1>2 DEF CallsOK

LEMMA CallsStay ==
  ASSUME TypeOK, call' = call, now' \in Nat, now <= now'
  PROVE  CallsOK'
<1>1. ASSUME NEW x \in Calls PROVE CallOK(x)'
  <2>1. CallOK(x) /\ now \in Nat
    BY DEF TypeOK, Times
  <2>2. \A t \in 0 .. now : t \in 0 .. now'
    BY <2>1
  <2> QED BY <2>1, <2>2 DEF CallOK, At, CopiesOf, RowsOf
<1> QED BY <1>1 DEF CallsOK, TypeOK

(* A call that ends has nothing in its hands. *)
LEMMA EndsOK ==
  ASSUME TypeOK, NEW c \in Calls, End(c), now' = now
  PROVE  CallsOK'
<1>1. call'[c] = [kind |-> "none"]
  BY DEF TypeOK, End
<1>2. CallOK(c)'
  BY <1>1 DEF CallOK
<1> QED BY <1>2, OthersKeep DEF End

(* Dropping entries leaves the others. *)
LEMMA DropKeeps ==
  ASSUME TypeOK, NEW ds, Drop(ds)
  PROVE  HeldOK'
  BY DEF TypeOK, Drop, HeldOK

(* What is put is stamped with the time its read began or an earlier one. *)
LEMMA PutKeeps ==
  ASSUME TypeOK, NEW copies, DOMAIN copies \subseteq Docs,
         \A d \in DOMAIN copies : copies[d] \in CopyType /\ copies[d].at <= copies[d].readAt,
         PutDocs(copies)
  PROVE  HeldOK'
<1>1. DOMAIN held' = DOMAIN held \cup DOMAIN copies
  BY DEF PutDocs
<1>2. ASSUME NEW d \in DOMAIN copies
      PROVE  held'[d] \in HeldType /\ held'[d].at <= held'[d].readAt
  <2>1. held'[d] = Stored(d, copies[d])
    BY DEF PutDocs
  <2> QED BY <2>1 DEF Stored, CopyType, HeldType
<1>3. ASSUME NEW d \in DOMAIN held \ DOMAIN copies
      PROVE  held'[d] \in HeldType /\ held'[d].at <= held'[d].readAt
  BY DEF PutDocs, TypeOK
<1> QED BY <1>1, <1>2, <1>3 DEF HeldOK, TypeOK

(* What a lookup finds in memory is younger than the TTL. *)
LEMMA HitsAreYoung ==
  ASSUME TypeOK, NEW d \in Hits(now)
  PROVE  d \in Docs /\ held[d].readAt \in Times /\ now - held[d].readAt < Ttl
  BY BoundsAssumption DEF TypeOK, Hits, Live, HeldType, Times

LEMMA HandOutTypes ==
  ASSUME TypeOK, NEW rows, NEW asked, ghost' = HandOut(rows, asked)
  PROVE  GhostOK'
  BY DEF TypeOK, HandOut, GhostOK

-----------------------------------------------------------------------------
(* The types, one lemma for each action. *)
LEMMA GetDocTypes ==
  ASSUME TypeOK, NEW c \in Calls, NEW d \in Docs, GetDoc(c, d)
  PROVE  TypeOK'
<1>1. HeldOK'
  BY DropKeeps DEF GetDoc, Look
<1>2. CASE d \in Hits(now)
  <2>1. GhostOK'
    BY <1>2, HandOutTypes DEF GetDoc
  <2>2. CallsOK'
    BY <1>2, CallsStay DEF GetDoc, TypeOK, Times
  <2> QED BY <1>1, <2>1, <2>2 DEF GetDoc, TypeOK, HeldOK, CallsOK, GhostOK
<1>3. CASE d \notin Hits(now)
  <2>1. call' = [call EXCEPT ![c] = [kind |-> "get", pc |-> "read", doc |-> d, at |-> now]]
    BY <1>3 DEF GetDoc, Begin
  <2>2. call'[c] = [kind |-> "get", pc |-> "read", doc |-> d, at |-> now] /\ now' = now
    BY <2>1 DEF TypeOK, GetDoc
  <2>3. CallOK(c)'
    BY <2>2 DEF CallOK, At, TypeOK, Times
  <2>4. CallsOK'
    BY <2>1, <2>2, <2>3, OthersKeep
  <2> QED BY <1>1, <1>3, <2>4 DEF GetDoc, TypeOK, HeldOK, CallsOK
<1> QED BY <1>2, <1>3

LEMMA GetReadTypes ==
  ASSUME TypeOK, NEW c \in Calls, GetRead(c)
  PROVE  TypeOK'
<1> DEFINE r == [kind |-> "get", pc |-> "put", at |-> call[c].at,
                 copies |-> [d \in {call[c].doc} |-> Copy(d, call[c].at)]]
<1>1. call' = [call EXCEPT ![c] = r] /\ now' = now
  BY DEF GetRead
<1>2. call'[c] = r
  BY <1>1 DEF TypeOK
<1>3. call[c].doc \in Docs /\ call[c].at \in 0 .. now
  BY DEF GetRead, TypeOK, CallOK, At
<1>4. \A d \in {call[c].doc} :
        LET e == Copy(d, call[c].at)
        IN  e \in CopyType /\ e.at <= e.readAt /\ call[c].at <= e.readAt
  BY <1>3, TimeBound DEF TypeOK, Copy, CopyType, Times
<1>5. CopiesOf(c)'
  BY <1>2, <1>3, <1>4 DEF CopiesOf
<1>6. CallOK(c)'
  BY <1>1, <1>2, <1>3, <1>5 DEF CallOK, At
<1>7. CallsOK'
  BY <1>1, <1>6, OthersKeep
<1> QED BY <1>7 DEF GetRead, TypeOK, CallsOK

LEMMA GetPutTypes ==
  ASSUME TypeOK, NEW c \in Calls, GetPut(c)
  PROVE  TypeOK'
<1>1. CopiesOf(c)
  BY DEF GetPut, TypeOK, CallOK, At
<1>2. HeldOK'
  BY <1>1, PutKeeps DEF GetPut, CopiesOf
<1>3. CallsOK' /\ GhostOK'
  BY EndsOK, HandOutTypes DEF GetPut
<1> QED BY <1>2, <1>3 DEF GetPut, TypeOK, HeldOK, CallsOK, GhostOK

LEMMA GetCollectionTypes ==
  ASSUME TypeOK, NEW c \in Calls, GetCollection(c)
  PROVE  TypeOK'
<1> DEFINE known == {m \in members : Live(m, now)}
           ids   == UNION {m.ids : m \in known}
           hits  == {d \in ids \cap Hits(now) : held[d].there}
           rows  == [d \in hits |-> held[d]]
           r     == [kind |-> "list", pc |-> "read", full |-> known = {}, rows |-> rows,
                     missing |-> ids \ hits, at |-> now]
<1>1. HeldOK' /\ members' \subseteq members /\ doc' = doc /\ now' = now
  BY DropKeeps DEF GetCollection, Look
<1>2. CASE known # {} /\ hits = ids
  <2>1. GhostOK'
    BY <1>2, HandOutTypes DEF GetCollection
  <2>2. CallsOK'
    BY <1>1, <1>2, CallsStay DEF GetCollection, TypeOK, Times
  <2> QED BY <1>1, <2>1, <2>2 DEF TypeOK, HeldOK, CallsOK, GhostOK
<1>3. CASE ~(known # {} /\ hits = ids)
  <2>1. call' = [call EXCEPT ![c] = r] /\ ghost' = ghost
    BY <1>3 DEF GetCollection, Begin
  <2>2. call'[c] = r
    BY <2>1 DEF TypeOK
  <2>3. ids \subseteq Docs
    BY DEF TypeOK
  <2>4. \A d \in hits : rows[d].readAt \in Times /\ now - rows[d].readAt < Ttl
    BY HitsAreYoung
  <2>5. RowsOf(c)'
    <3> HIDE DEF rows
    <3>1. DOMAIN rows = hits
      BY DEF rows
    <3> QED BY <2>2, <2>3, <2>4, <3>1 DEF RowsOf
  <2>6. CallOK(c)'
    <3>1. call'[c].kind = "list" /\ call'[c].pc = "read" /\ call'[c].at = now
          /\ call'[c].full \in BOOLEAN /\ call'[c].missing \subseteq Docs
      BY <2>2, <2>3
    <3> QED BY <3>1, <2>5, <1>1 DEF CallOK, At, TypeOK, Times
  <2>7. CallsOK'
    BY <1>1, <2>1, <2>6, OthersKeep
  <2> QED BY <1>1, <2>1, <2>7 DEF TypeOK, HeldOK, CallsOK
<1> QED BY <1>2, <1>3

LEMMA ListReadTypes ==
  ASSUME TypeOK, NEW c \in Calls, ListRead(c)
  PROVE  TypeOK'
<1> DEFINE wanted == IF call[c].full THEN Existing ELSE call[c].missing
           copies == [d \in wanted |-> Copy(d, call[c].at)]
           r == [kind |-> "list", pc |-> "put", full |-> call[c].full, rows |-> call[c].rows,
                 copies |-> copies, at |-> call[c].at]
<1>1. call' = [call EXCEPT ![c] = r] /\ now' = now
  BY DEF ListRead
<1>2. call'[c] = r
  BY <1>1 DEF TypeOK
<1>3. /\ call[c].at \in 0 .. now /\ call[c].full \in BOOLEAN
      /\ call[c].missing \subseteq Docs /\ RowsOf(c)
  BY DEF ListRead, TypeOK, CallOK, At
<1>4. wanted \subseteq Docs
  BY <1>3 DEF Existing
<1>5. \A d \in wanted :
        copies[d] \in CopyType /\ copies[d].at <= copies[d].readAt /\ call[c].at <= copies[d].readAt
  <2>1. \A d \in wanted : Copy(d, call[c].at) \in CopyType
    BY <1>3, <1>4, TimeBound DEF TypeOK, Copy, CopyType, Times
  <2> QED BY <1>3, <1>4, <2>1, TimeBound DEF TypeOK, Copy, Times
<1>6. CopiesOf(c)' /\ RowsOf(c)'
  <2> HIDE DEF copies
  <2>1. DOMAIN copies = wanted
    BY DEF copies
  <2> QED BY <1>2, <1>3, <1>4, <1>5, <2>1 DEF CopiesOf, RowsOf
<1>7. CallOK(c)'
  <2>1. call'[c].kind = "list" /\ call'[c].pc = "put" /\ call'[c].at = call[c].at
        /\ call'[c].full = call[c].full
    BY <1>2
  <2> QED BY <1>1, <1>3, <1>6, <2>1 DEF CallOK, At
<1>8. CallsOK'
  BY <1>1, <1>7, OthersKeep
<1> QED BY <1>8 DEF ListRead, TypeOK, CallsOK

LEMMA ListPutTypes ==
  ASSUME TypeOK, NEW c \in Calls, ListPut(c)
  PROVE  TypeOK'
<1>1. CopiesOf(c) /\ call[c].at \in Times
  BY TimeBound DEF ListPut, TypeOK, CallOK, At, Times
<1>2. HeldOK'
  BY <1>1, PutKeeps DEF ListPut, CopiesOf
<1>3. MembersOK'
  <2>1. CASE call[c].full
    <3> DEFINE overtaken == DOMAIN call[c].copies # Existing
    <3>1. members' = {[ids |-> DOMAIN call[c].copies, at |-> call[c].at, overtaken |-> overtaken]}
      BY <2>1 DEF ListPut
    <3>2. overtaken \in BOOLEAN
      OBVIOUS
    <3> HIDE DEF overtaken
    <3> QED BY <1>1, <3>1, <3>2 DEF MembersOK, CopiesOf
  <2>2. CASE ~call[c].full
    BY <2>2 DEF ListPut, TypeOK, MembersOK
  <2> QED BY <2>1, <2>2
<1>4. CallsOK'
  BY EndsOK DEF ListPut
<1>5. GhostOK'
  BY HandOutTypes DEF ListPut
<1> QED BY <1>2, <1>3, <1>4, <1>5 DEF ListPut, TypeOK, HeldOK, MembersOK, CallsOK, GhostOK

LEMMA ApplyTypes ==
  ASSUME TypeOK, NEW verb, Apply(verb)
  PROVE  doc' \in [Docs -> [n : Nat, there : BOOLEAN]]
<1>1. ASSUME NEW d \in Docs PROVE doc'[d] \in [n : Nat, there : BOOLEAN]
  BY DEF Apply, TypeOK
<1> QED BY <1>1 DEF Apply

LEMMA CommitTypes ==
  ASSUME TypeOK, NEW c \in Calls, NEW D \in SUBSET Docs, NEW verb \in [D -> Verbs], Commit(c, verb)
  PROVE  TypeOK'
<1> DEFINE r == [kind |-> "write", pc |-> "settled", docs |-> DOMAIN verb,
                 keeps |-> KeepsMembers(verb), purges |-> FALSE]
<1>1. call' = [call EXCEPT ![c] = r] /\ now' = now
  BY DEF Commit, Begin
<1>2. call'[c] = r
  BY <1>1 DEF TypeOK
<1>3. CallOK(c)'
  BY <1>2 DEF CallOK, At, KeepsMembers
<1>4. CallsOK'
  BY <1>1, <1>3, OthersKeep
<1>5. doc' \in [Docs -> [n : Nat, there : BOOLEAN]]
  BY ApplyTypes DEF Commit
<1>6. GhostOK'
  BY BoundsAssumption DEF Commit, TypeOK, GhostOK
<1> QED BY <1>1, <1>4, <1>5, <1>6 DEF Commit, TypeOK, CallsOK, GhostOK

LEMMA PurgeTypes ==
  ASSUME TypeOK, NEW c \in Calls, Purge(c) \/ \E d \in Docs : PurgeDoc(c, d)
  PROVE  TypeOK'
<1>1. CASE Purge(c)
  <2> DEFINE r == [kind |-> "write", pc |-> "settled", docs |-> Docs, keeps |-> FALSE, purges |-> TRUE]
  <2>1. call' = [call EXCEPT ![c] = r] /\ now' = now
    BY <1>1 DEF Purge, Begin
  <2>2. CallOK(c)'
    BY <2>1 DEF CallOK, At, TypeOK
  <2>3. CallsOK'
    BY <2>1, <2>2, OthersKeep
  <2>4. GhostOK'
    BY <1>1, BoundsAssumption DEF Purge, TypeOK, GhostOK
  <2> QED BY <1>1, <2>3, <2>4 DEF Purge, TypeOK, CallsOK, GhostOK
<1>2. ASSUME NEW d \in Docs, PurgeDoc(c, d) PROVE TypeOK'
  <2>1. call' = call /\ now' = now /\ now \in Nat
    BY <1>2 DEF PurgeDoc, TypeOK, Times
  <2>2. CallsOK'
    BY <2>1, CallsStay
  <2>3. doc' \in [Docs -> [n : Nat, there : BOOLEAN]]
    BY <1>2 DEF PurgeDoc, TypeOK
  <2> QED BY <1>2, <2>2, <2>3 DEF PurgeDoc, TypeOK, CallsOK
<1> QED BY <1>1, <1>2

LEMMA GiveUpTypes ==
  ASSUME TypeOK, NEW c \in Calls, NEW D \in SUBSET Docs, NEW verb \in [D -> Verbs], GiveUp(c, verb)
  PROVE  TypeOK'
<1> DEFINE r == [kind |-> "late", pc |-> "lands", verb |-> verb]
<1>1. call' = [call EXCEPT ![c] = r] /\ now' = now
  BY DEF GiveUp, Begin
<1>2. CallOK(c)'
  BY <1>1 DEF CallOK, At, TypeOK
<1>3. CallsOK'
  BY <1>1, <1>2, OthersKeep
<1>4. HeldOK'
  BY DropKeeps DEF GiveUp
<1>5. ghost.writes + 1 \in 0 .. MaxWrites /\ ghost.faults + 1 \in 0 .. MaxFaults
  BY BoundsAssumption DEF GiveUp, TypeOK
<1>6. ghost' = [ghost EXCEPT !.writes = ghost.writes + 1, !.faults = ghost.faults + 1]
  BY DEF GiveUp
<1>7. GhostOK'
  BY <1>5, <1>6 DEF TypeOK, GhostOK
<1> QED BY <1>3, <1>4, <1>7 DEF GiveUp, TypeOK, HeldOK, CallsOK, GhostOK

LEMMA LandLateTypes ==
  ASSUME TypeOK, NEW c \in Calls, LandLate(c)
  PROVE  TypeOK'
<1>1. PICK verb : verb = call[c].verb
  OBVIOUS
<1>2. doc' \in [Docs -> [n : Nat, there : BOOLEAN]]
  BY <1>1, ApplyTypes DEF LandLate
<1>3. /\ DOMAIN held' = DOMAIN held
      /\ \A d \in DOMAIN held :
           held'[d] = [held[d] EXCEPT !.overtaken = held[d].overtaken \/ d \in DOMAIN verb]
  BY <1>1 DEF LandLate
<1>4. ASSUME NEW d \in DOMAIN held PROVE held'[d] \in HeldType /\ held'[d].at <= held'[d].readAt
  <2>1. held[d] \in HeldType /\ held[d].at <= held[d].readAt
    BY DEF TypeOK
  <2> QED BY <1>3, <2>1 DEF HeldType
<1>5. ASSUME NEW m \in members' PROVE m.ids \subseteq Docs /\ m.at \in Times /\ m.overtaken \in BOOLEAN
  <2>1. PICK o \in members : m = [ids |-> o.ids, at |-> o.at,
                                overtaken |-> o.overtaken \/ ~KeepsMembers(verb)]
    BY <1>1, <1>5 DEF LandLate
  <2>2. o.ids \subseteq Docs /\ o.at \in Times /\ o.overtaken \in BOOLEAN
    BY DEF TypeOK
  <2> QED BY <2>1, <2>2
<1>6. CallsOK'
  BY EndsOK DEF LandLate
<1> QED BY <1>2, <1>3, <1>4, <1>5, <1>6 DEF LandLate, TypeOK, CallsOK

LEMMA InvalidateTypes ==
  ASSUME TypeOK, NEW c \in Calls, Invalidate(c)
  PROVE  TypeOK'
<1>1. HeldOK' /\ CallsOK'
  BY DropKeeps, EndsOK DEF Invalidate
<1> QED BY <1>1 DEF Invalidate, TypeOK, HeldOK, CallsOK

LEMMA ReadFailsTypes ==
  ASSUME TypeOK, NEW c \in Calls, ReadFails(c)
  PROVE  TypeOK'
<1>1. CallsOK'
  BY EndsOK DEF ReadFails
<1>2. GhostOK'
  BY BoundsAssumption DEF ReadFails, TypeOK, GhostOK
<1> QED BY <1>1, <1>2 DEF ReadFails, TypeOK, CallsOK, GhostOK

LEMMA EvictionTypes ==
  ASSUME TypeOK, (\E d \in Docs : EvictDoc(d)) \/ EvictMembers
  PROVE  TypeOK'
<1>1. HeldOK'
  BY DropKeeps DEF EvictDoc, EvictMembers, TypeOK, HeldOK
<1>2. CallsOK'
  <2>1. call' = call /\ now' = now /\ now \in Nat
    <3>1. call' = call /\ now' = now
      BY DEF EvictDoc, EvictMembers
    <3> QED BY <3>1 DEF TypeOK, Times
  <2> QED BY <2>1, CallsStay
<1> QED BY <1>1, <1>2 DEF EvictDoc, EvictMembers, TypeOK, HeldOK, CallsOK

LEMMA TickTypes ==
  ASSUME TypeOK, Tick
  PROVE  TypeOK'
<1>1. now \in Nat /\ now' = now + 1 /\ now' \in Times
  BY TimeBound DEF TypeOK, Tick, Times
<1>2. CallsOK'
  BY <1>1, CallsStay DEF Tick
<1> QED BY <1>1, <1>2 DEF Tick, TypeOK, CallsOK

LEMMA RestartTypes ==
  ASSUME TypeOK, Restart
  PROVE  TypeOK'
<1>1. /\ DOMAIN call' = Calls /\ now' = now
      /\ \A c \in Calls : call'[c].kind = "none" \/ (call'[c] = call[c] /\ call[c].kind = "late")
  BY DEF Restart
<1>2. CallsOK'
  BY <1>1 DEF CallsOK, CallOK, TypeOK, At
<1>3. GhostOK'
  BY BoundsAssumption DEF Restart, TypeOK, GhostOK
<1> QED BY <1>2, <1>3 DEF Restart, TypeOK, CallsOK, GhostOK

LEMMA InitTypes == Init => TypeOK
<1> SUFFICES ASSUME Init PROVE TypeOK
  OBVIOUS
<1>1. \A c \in Calls : call[c].kind = "none"
  BY DEF Init
<1>2. doc \in [Docs -> [n : Nat, there : BOOLEAN]]
  BY DEF Init
<1> QED BY <1>1, <1>2, BoundsAssumption DEF Init, TypeOK, CallOK, Times

LEMMA StepTypes == TypeOK /\ [Next]_vars => TypeOK'
<1> SUFFICES ASSUME TypeOK, [Next]_vars PROVE TypeOK'
  OBVIOUS
<1>1. ASSUME NEW c \in Calls, Reading(c) PROVE TypeOK'
  BY <1>1, GetDocTypes, GetReadTypes, GetPutTypes, GetCollectionTypes, ListReadTypes,
     ListPutTypes, ReadFailsTypes DEF Reading
<1>2. ASSUME NEW c \in Calls, Writing(c) PROVE TypeOK'
  BY <1>2, CommitTypes, InvalidateTypes, PurgeTypes, GiveUpTypes, LandLateTypes DEF Writing
<1>3. CASE UNCHANGED vars
  <2>1. CallsOK'
    BY <1>3, CallsStay DEF vars, TypeOK, Times
  <2> QED BY <1>3, <2>1 DEF vars, TypeOK, CallsOK
<1> QED BY <1>1, <1>2, <1>3, EvictionTypes, TickTypes, RestartTypes DEF Next

(* Every call has in its hands what its step needs, and no entry is        *)
(* stamped later than it was read.                                         *)
THEOREM TypesHold == Spec => []TypeOK
  BY InitTypes, StepTypes, PTL DEF Spec

-----------------------------------------------------------------------------
(* Coherence.  It is inductive given the types: a fill marks what a write  *)
(* overtook, a write that changes a document, or which there are, has yet  *)
(* to invalidate them, and what its invalidation leaves behind in memory   *)
(* was stale on another's account.                                         *)
Excused(d)        == held[d].overtaken \/ \E c \in Pending : d \in call[c].docs
MembersExcused(m) == m.overtaken \/ \E c \in Pending : ~call[c].keeps

(* Where no document is written and no write ends, memory may shrink.      *)
LEMMA ShrinkingKeeps ==
  ASSUME Coherent, doc' = doc, members' \subseteq members, Pending \subseteq Pending',
         \A c \in Pending : call'[c] = call[c],
         DOMAIN held' \subseteq DOMAIN held, \A d \in DOMAIN held' : held'[d] = held[d]
  PROVE  Coherent'
<1>1. Existing' = Existing
  BY DEF Existing
<1> QED BY <1>1 DEF Coherent

(* A step of a call that is no write leaves the writes pending.            *)
LEMMA ReadsLeavePending ==
  ASSUME TypeOK, NEW c \in Calls, c \notin Pending, NEW r, call' = [call EXCEPT ![c] = r]
  PROVE  Pending \subseteq Pending' /\ \A x \in Pending : call'[x] = call[x]
<1>1. \A x \in Pending : x \in Calls /\ x # c /\ call'[x] = call[x]
  BY DEF Pending, TypeOK
<1> QED BY <1>1 DEF Pending, At

LEMMA LooksKeep ==
  ASSUME TypeOK, Coherent, NEW c \in Calls,
         (\E d \in Docs : GetDoc(c, d)) \/ GetRead(c) \/ GetCollection(c) \/ ListRead(c) \/ ReadFails(c)
  PROVE  Coherent'
<1>1. c \notin Pending
  BY DEF GetDoc, GetRead, GetCollection, ListRead, ReadFails, Pending, At
<1>2. call' = call \/ \E r : call' = [call EXCEPT ![c] = r]
  BY DEF GetDoc, GetRead, GetCollection, ListRead, ReadFails, Begin, End
<1>3. Pending \subseteq Pending' /\ \A x \in Pending : call'[x] = call[x]
  <2>1. CASE call' = call
    BY <2>1 DEF Pending, At
  <2>2. CASE \E r : call' = [call EXCEPT ![c] = r]
    BY <1>1, <2>2, ReadsLeavePending
  <2> QED BY <1>2, <2>1, <2>2
<1>4. doc' = doc /\ members' \subseteq members
  BY DEF GetDoc, GetRead, GetCollection, ListRead, ReadFails
<1>5. DOMAIN held' \subseteq DOMAIN held /\ \A d \in DOMAIN held' : held'[d] = held[d]
  BY DEF GetDoc, GetRead, GetCollection, ListRead, ReadFails, Look, Drop
<1> QED BY <1>3, <1>4, <1>5, ShrinkingKeeps

LEMMA PutsKeep ==
  ASSUME TypeOK, Coherent, NEW c \in Calls, GetPut(c) \/ ListPut(c)
  PROVE  Coherent'
<1>1. c \notin Pending /\ PutDocs(call[c].copies) /\ doc' = doc
  BY DEF GetPut, ListPut, Pending, At
<1>2. Pending \subseteq Pending' /\ \A x \in Pending : call'[x] = call[x]
  BY <1>1, ReadsLeavePending DEF GetPut, ListPut, End
<1>3. Existing' = Existing
  BY <1>1 DEF Existing
<1>4. ASSUME NEW d \in DOMAIN held', held'[d].n # doc'[d].n
      PROVE  Excused(d)'
  <2>1. CASE d \in DOMAIN call[c].copies
    <3>1. held'[d] = Stored(d, call[c].copies[d])
      BY <1>1, <2>1 DEF PutDocs
    <3>2. held'[d].n = call[c].copies[d].n
      BY <3>1 DEF Stored
    <3>3. held'[d].overtaken = (call[c].copies[d].n # doc[d].n)
      BY <3>1 DEF Stored
    <3>4. call[c].copies[d].n # doc[d].n
      BY <1>1, <1>4, <3>2
    <3>5. held'[d].overtaken
      BY <3>3, <3>4
    <3> QED BY <3>5 DEF Excused
  <2>2. CASE d \notin DOMAIN call[c].copies
    <3>1. d \in DOMAIN held /\ held'[d] = held[d]
      BY <1>1, <2>2 DEF PutDocs
    <3> QED BY <1>1, <1>2, <1>4, <3>1 DEF Coherent, Excused
  <2> QED BY <2>1, <2>2
<1>5. ASSUME NEW m \in members', m.ids # Existing'
      PROVE  MembersExcused(m)'
  <2>1. CASE m \in members
    BY <1>2, <1>3, <1>5, <2>1 DEF Coherent, MembersExcused
  <2>2. CASE m \notin members
    <3>1. m = [ids |-> DOMAIN call[c].copies, at |-> call[c].at,
               overtaken |-> DOMAIN call[c].copies # Existing]
      BY <2>2 DEF GetPut, ListPut
    <3> QED BY <1>3, <1>5, <3>1 DEF MembersExcused
  <2> QED BY <2>1, <2>2
<1> QED BY <1>4, <1>5 DEF Coherent, Excused, MembersExcused

LEMMA UpdatesKeepMembers ==
  ASSUME TypeOK, NEW D \in SUBSET Docs, NEW verb \in [D -> Verbs], Apply(verb), KeepsMembers(verb)
  PROVE  Existing' = Existing
<1>1. ASSUME NEW d \in Docs PROVE doc'[d].there = doc[d].there
  <2>1. doc[d].there \in BOOLEAN
    BY DEF TypeOK
  <2>2. CASE CanCommit(verb) /\ d \in DOMAIN verb
    <3>1. verb[d] = "update" /\ doc[d].there
      BY <2>2 DEF KeepsMembers, CanCommit
    <3>2. doc'[d] = [n |-> doc[d].n + 1, there |-> verb[d] # "delete"]
      BY <2>2 DEF Apply
    <3>3. doc'[d].there = (verb[d] # "delete")
      BY <3>2
    <3>4. verb[d] # "delete"
      BY <3>1
    <3>5. doc'[d].there = TRUE
      BY <3>3, <3>4, Zenon
    <3>6. doc[d].there = TRUE
      BY <2>1, <3>1
    <3> QED BY <3>5, <3>6
  <2>3. CASE ~(CanCommit(verb) /\ d \in DOMAIN verb)
    BY <2>3 DEF Apply
  <2> QED BY <2>2, <2>3
<1> QED BY <1>1 DEF Existing

LEMMA CommitKeeps ==
  ASSUME TypeOK, Coherent, NEW c \in Calls, NEW D \in SUBSET Docs, NEW verb \in [D -> Verbs],
         Commit(c, verb)
  PROVE  Coherent'
<1> DEFINE r == [kind |-> "write", pc |-> "settled", docs |-> DOMAIN verb,
                 keeps |-> KeepsMembers(verb), purges |-> FALSE]
<1>1. c \notin Pending /\ call' = [call EXCEPT ![c] = r] /\ call'[c] = r /\ held' = held /\ members' = members
  BY DEF Commit, Begin, Pending, At, TypeOK
<1>2. Pending \subseteq Pending' /\ \A x \in Pending : call'[x] = call[x]
  BY <1>1, ReadsLeavePending
<1>3. c \in Pending'
  BY <1>1 DEF Pending, At
<1>4. \A d \in Docs \ DOMAIN verb : doc'[d] = doc[d]
  BY DEF Commit, Apply
<1>5. KeepsMembers(verb) => Existing' = Existing
  BY UpdatesKeepMembers DEF Commit
<1>6. ASSUME NEW d \in DOMAIN held', held'[d].n # doc'[d].n
      PROVE  Excused(d)'
  <2>1. CASE d \in DOMAIN verb
    BY <1>1, <1>3, <2>1 DEF Excused
  <2>2. CASE d \notin DOMAIN verb
    <3>1. d \in Docs /\ held[d].n # doc[d].n
      BY <1>1, <1>4, <1>6, <2>2 DEF TypeOK
    <3> QED BY <1>1, <1>2, <3>1 DEF Coherent, Excused
  <2> QED BY <2>1, <2>2
<1>7. ASSUME NEW m \in members', m.ids # Existing'
      PROVE  MembersExcused(m)'
  <2>1. CASE KeepsMembers(verb)
    BY <1>1, <1>2, <1>5, <1>7, <2>1 DEF Coherent, MembersExcused
  <2>2. CASE ~KeepsMembers(verb)
    BY <1>1, <1>3, <2>2 DEF MembersExcused
  <2> QED BY <2>1, <2>2
<1> QED BY <1>6, <1>7 DEF Coherent, Excused, MembersExcused

(* A tree being deleted is pending to the end, for all that is in it.      *)
LEMMA PurgeKeeps ==
  ASSUME TypeOK, Coherent, NEW c \in Calls, Purge(c) \/ \E d \in Docs : PurgeDoc(c, d)
  PROVE  Coherent'
<1>1. CASE Purge(c)
  <2> DEFINE r == [kind |-> "write", pc |-> "settled", docs |-> Docs, keeps |-> FALSE, purges |-> TRUE]
  <2>1. c \notin Pending /\ call' = [call EXCEPT ![c] = r] /\ UNCHANGED <<doc, held, members>>
    BY <1>1 DEF Purge, Begin, Pending, At
  <2>2. Pending \subseteq Pending' /\ \A x \in Pending : call'[x] = call[x]
    BY <2>1, ReadsLeavePending
  <2> QED BY <2>1, <2>2 DEF Coherent, Existing
<1>2. ASSUME NEW d \in Docs, PurgeDoc(c, d) PROVE Coherent'
  <2>1. call' = call /\ held' = held /\ members' = members
    BY <1>2 DEF PurgeDoc
  <2>2. c \in Pending' /\ call'[c].docs = Docs /\ ~call'[c].keeps
    BY <1>2, <2>1 DEF PurgeDoc, TypeOK, CallOK, At, Pending
  <2>3. DOMAIN held' \subseteq Docs
    BY <2>1 DEF TypeOK
  <2> QED BY <2>2, <2>3 DEF Coherent
<1> QED BY <1>1, <1>2

(* Where a write is given up on, what its documents leave in memory goes,  *)
(* and the documents stay; what is there when it lands is marked.          *)
LEMMA GiveUpKeeps ==
  ASSUME TypeOK, Coherent, NEW c \in Calls, NEW verb, GiveUp(c, verb)
  PROVE  Coherent'
<1>1. doc' = doc /\ members' \subseteq members /\ DOMAIN held' \subseteq DOMAIN held
  BY DEF GiveUp, Drop
<1>2. \A d \in DOMAIN held' : held'[d] = held[d]
  BY DEF GiveUp, Drop
<1>3. PICK r : call' = [call EXCEPT ![c] = r] /\ c \notin Pending
  BY DEF GiveUp, Begin, Pending, At
<1>4. Pending \subseteq Pending' /\ \A x \in Pending : call'[x] = call[x]
  BY <1>3, ReadsLeavePending
<1> QED BY <1>1, <1>2, <1>4, ShrinkingKeeps

LEMMA LandLateKeeps ==
  ASSUME TypeOK, Coherent, NEW c \in Calls, LandLate(c)
  PROVE  Coherent'
<1>1. PICK verb : verb = call[c].verb
  OBVIOUS
<1>2. PICK D \in SUBSET Docs : verb \in [D -> Verbs]
  BY <1>1 DEF LandLate, TypeOK, CallOK, At
<1>3. call' = [call EXCEPT ![c] = [kind |-> "none"]] /\ c \notin Pending
  BY DEF LandLate, End, Pending, At
<1>4. Pending \subseteq Pending' /\ \A x \in Pending : call'[x] = call[x]
  BY <1>3, ReadsLeavePending
<1>5. Apply(verb)
  BY <1>1 DEF LandLate
<1>6. /\ DOMAIN held' = DOMAIN held
      /\ \A d \in DOMAIN held :
           held'[d] = [held[d] EXCEPT !.overtaken = held[d].overtaken \/ d \in DOMAIN verb]
  BY <1>1 DEF LandLate
<1>7. ASSUME NEW d \in DOMAIN held', held'[d].n # doc'[d].n
      PROVE  Excused(d)'
  <2>1. held[d] \in HeldType /\ d \in Docs
    BY <1>6 DEF TypeOK
  <2>2. /\ held'[d].n = held[d].n
        /\ (held[d].overtaken \/ d \in DOMAIN verb) => held'[d].overtaken
    BY <1>6, <2>1 DEF HeldType
  <2>3. CASE d \in DOMAIN verb
    BY <2>2, <2>3 DEF Excused
  <2>4. CASE d \notin DOMAIN verb
    <3>1. doc'[d] = doc[d]
      BY <1>5, <2>1, <2>4 DEF Apply
    <3>2. Excused(d)
      BY <1>6, <1>7, <2>2, <3>1 DEF Coherent, Excused
    <3> QED BY <1>4, <2>2, <3>2 DEF Excused
  <2> QED BY <2>3, <2>4
<1>8. ASSUME NEW m \in members', m.ids # Existing'
      PROVE  MembersExcused(m)'
  <2>1. PICK o \in members : m = [ids |-> o.ids, at |-> o.at,
                                overtaken |-> o.overtaken \/ ~KeepsMembers(verb)]
    BY <1>1, <1>8 DEF LandLate
  <2>2. PICK b : b = (o.overtaken \/ ~KeepsMembers(verb))
    OBVIOUS
  <2>4. m.ids = o.ids /\ m.overtaken = b
    BY <2>1, <2>2
  <2>5. CASE b
    BY <2>4, <2>5 DEF MembersExcused
  <2>6. CASE ~b
    <3>1. Existing' = Existing
      BY <1>2, <1>5, <2>2, <2>6, UpdatesKeepMembers
    <3>2. MembersExcused(o)
      BY <1>8, <2>4, <3>1 DEF Coherent, MembersExcused
    <3> QED BY <1>4, <2>2, <2>6, <3>2 DEF MembersExcused
  <2> QED BY <2>5, <2>6
<1> QED BY <1>7, <1>8 DEF Coherent, Excused, MembersExcused

LEMMA InvalidateKeeps ==
  ASSUME TypeOK, Coherent, NEW c \in Calls, Invalidate(c)
  PROVE  Coherent'
<1>1. doc' = doc /\ Existing' = Existing
  BY DEF Invalidate, Existing
<1>2. \A x \in Pending \ {c} : call'[x] = call[x] /\ x \in Pending'
  BY DEF Invalidate, End, Pending, At, TypeOK
<1>3. ASSUME NEW d \in DOMAIN held', held'[d].n # doc'[d].n
      PROVE  Excused(d)'
  <2>1. d \in DOMAIN held /\ d \notin call[c].docs /\ held'[d] = held[d]
    BY DEF Invalidate, Drop
  <2> QED BY <1>1, <1>2, <1>3, <2>1 DEF Coherent, Excused
<1>4. ASSUME NEW m \in members', m.ids # Existing'
      PROVE  MembersExcused(m)'
  <2>1. m \in members /\ call[c].keeps
    BY DEF Invalidate
  <2> QED BY <1>1, <1>2, <1>4, <2>1 DEF Coherent, MembersExcused
<1> QED BY <1>3, <1>4 DEF Coherent, Excused, MembersExcused

LEMMA StepKeepsCoherent == TypeOK /\ Coherent /\ [Next]_vars => Coherent'
<1> SUFFICES ASSUME TypeOK, Coherent, [Next]_vars PROVE Coherent'
  OBVIOUS
<1>1. ASSUME NEW c \in Calls, Reading(c) PROVE Coherent'
  BY <1>1, LooksKeep, PutsKeep DEF Reading
<1>2. ASSUME NEW c \in Calls, Writing(c) PROVE Coherent'
  BY <1>2, CommitKeeps, InvalidateKeeps, PurgeKeeps, GiveUpKeeps, LandLateKeeps DEF Writing
<1>3. CASE (\E d \in Docs : EvictDoc(d)) \/ EvictMembers \/ Tick \/ UNCHANGED vars
  <2>1. call' = call /\ doc' = doc /\ members' \subseteq members
    BY <1>3 DEF EvictDoc, EvictMembers, Tick, vars
  <2>2. DOMAIN held' \subseteq DOMAIN held /\ \A d \in DOMAIN held' : held'[d] = held[d]
    BY <1>3 DEF EvictDoc, EvictMembers, Tick, vars, Drop
  <2>3. Pending \subseteq Pending' /\ \A c \in Pending : call'[c] = call[c]
    BY <2>1 DEF Pending, At
  <2> QED BY <2>1, <2>2, <2>3, ShrinkingKeeps
<1>4. CASE Restart
  BY <1>4 DEF Restart, Coherent
<1> QED BY <1>1, <1>2, <1>3, <1>4 DEF Next

(* An entry that differs from its document, or a membership from its       *)
(* collection, was put by a fill that a write overtook, was there when a   *)
(* write given up on landed, or is about to be dropped, whatever batches,  *)
(* deleted trees, failed writes, evictions and restarts meet.              *)
THEOREM CoherenceHolds == Spec => []Coherent
<1>1. Init => Coherent
  BY DEF Init, Coherent
<1> QED BY <1>1, TypesHold, StepKeepsCoherent, PTL DEF Spec

-----------------------------------------------------------------------------
(* Staleness.  What a call was given from memory was young when it was     *)
(* found, and what it read itself is younger than the call.                *)
LEMMA YoungRowsHandedOut ==
  ASSUME TypeOK, BoundedStaleness, NEW rows, NEW asked, ghost' = HandOut(rows, asked),
         \A d \in DOMAIN rows : ~(asked - rows[d].readAt >= Ttl)
  PROVE  BoundedStaleness'
  BY DEF HandOut, BoundedStaleness, TypeOK

LEMMA StepKeepsYoung == TypeOK /\ BoundedStaleness /\ [Next]_vars => BoundedStaleness'
<1> SUFFICES ASSUME TypeOK, BoundedStaleness, [Next]_vars PROVE BoundedStaleness'
  OBVIOUS
<1>1. \A d \in Hits(now) : ~(now - held[d].readAt >= Ttl)
  BY HitsAreYoung, TimeBound, BoundsAssumption DEF Times, TypeOK
<1>2. ASSUME NEW c \in Calls, NEW d \in Docs, GetDoc(c, d) PROVE BoundedStaleness'
  <2>1. CASE d \in Hits(now)
    BY <1>1, <1>2, <2>1, YoungRowsHandedOut DEF GetDoc
  <2>2. CASE d \notin Hits(now)
    BY <1>2, <2>2 DEF GetDoc, BoundedStaleness
  <2> QED BY <2>1, <2>2
<1>3. ASSUME NEW c \in Calls, GetPut(c) PROVE BoundedStaleness'
  <2>1. CopiesOf(c) /\ call[c].at \in 0 .. now
    BY <1>3 DEF GetPut, TypeOK, CallOK, At
  <2>2. \A d \in DOMAIN call[c].copies : ~(call[c].at - call[c].copies[d].readAt >= Ttl)
    BY <2>1, BoundsAssumption, TimeBound DEF CopiesOf, CopyType, Times
  <2> QED BY <1>3, <2>2, YoungRowsHandedOut DEF GetPut
<1>4. ASSUME NEW c \in Calls, GetCollection(c) PROVE BoundedStaleness'
  <2> DEFINE ids  == UNION {m.ids : m \in {m \in members : Live(m, now)}}
             hits == {d \in ids \cap Hits(now) : held[d].there}
             rows == [d \in hits |-> held[d]]
  <2>1. ghost' = ghost \/ ghost' = HandOut(rows, now)
    BY <1>4 DEF GetCollection
  <2>2. \A d \in DOMAIN rows : ~(now - rows[d].readAt >= Ttl)
    BY <1>1
  <2>3. CASE ghost' = ghost
    BY <2>3 DEF BoundedStaleness
  <2>4. CASE ghost' = HandOut(rows, now)
    <3> HIDE DEF rows
    <3> QED BY <2>2, <2>4, YoungRowsHandedOut
  <2> QED BY <2>1, <2>3, <2>4
<1>5. ASSUME NEW c \in Calls, ListPut(c) PROVE BoundedStaleness'
  <2> DEFINE found == {d \in DOMAIN call[c].copies : call[c].copies[d].there}
             rows  == [d \in DOMAIN call[c].rows \cup found |->
                         IF d \in found THEN call[c].copies[d] ELSE call[c].rows[d]]
  <2>1. CopiesOf(c) /\ RowsOf(c) /\ call[c].at \in 0 .. now
    BY <1>5 DEF ListPut, TypeOK, CallOK, At
  <2>2. ghost' = HandOut(rows, call[c].at)
    BY <1>5 DEF ListPut
  <2>3. ASSUME NEW d \in DOMAIN call[c].copies
        PROVE  ~(call[c].at - call[c].copies[d].readAt >= Ttl)
    BY <2>1, BoundsAssumption, TimeBound DEF CopiesOf, CopyType, Times
  <2>4. ASSUME NEW d \in DOMAIN call[c].rows
        PROVE  ~(call[c].at - call[c].rows[d].readAt >= Ttl)
    BY <2>1, BoundsAssumption, TimeBound DEF RowsOf, Times
  <2>5. \A d \in DOMAIN rows : ~(call[c].at - rows[d].readAt >= Ttl)
    BY <2>3, <2>4
  <2> HIDE DEF rows
  <2> QED BY <2>2, <2>5, YoungRowsHandedOut
<1>6. CASE UNCHANGED ghost
  BY <1>6 DEF BoundedStaleness
<1>7. ASSUME ghost'.late = ghost.late PROVE BoundedStaleness'
  BY <1>7 DEF BoundedStaleness
<1>8. ASSUME NEW c \in Calls,
             GetRead(c) \/ ListRead(c) \/ Invalidate(c) \/ ReadFails(c)
               \/ Purge(c) \/ LandLate(c) \/ (\E d \in Docs : PurgeDoc(c, d))
               \/ \E D \in (SUBSET Docs) \ {{}} :
                    \E verb \in [D -> Verbs] : Commit(c, verb) \/ GiveUp(c, verb)
      PROVE  ghost'.late = ghost.late
  BY <1>8 DEF GetRead, ListRead, Invalidate, ReadFails, Purge, LandLate, PurgeDoc, Commit, GiveUp,
              TypeOK
<1>9. ASSUME (\E d \in Docs : EvictDoc(d)) \/ EvictMembers \/ Tick \/ Restart \/ UNCHANGED vars
      PROVE  ghost'.late = ghost.late
  BY <1>9 DEF EvictDoc, EvictMembers, Tick, Restart, vars, TypeOK
<1> QED BY <1>2, <1>3, <1>4, <1>5, <1>7, <1>8, <1>9 DEF Next, Reading, Writing

(* Whatever overtook what, no row is handed out that was read a TTL or     *)
(* more before the call that gets it began.                                *)
THEOREM StalenessBounded == Spec => []BoundedStaleness
<1>1. Init => BoundedStaleness
  BY DEF Init, BoundedStaleness
<1> QED BY <1>1, TypesHold, StepKeepsYoung, PTL DEF Spec
=============================================================================
