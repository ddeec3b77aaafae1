----------------------------- MODULE SlotLedger -----------------------------
(***************************************************************************)
(* What station capacity promises, with no calls, documents or stages: a   *)
(* slot is taken only where there is room, is then either on a team or on   *)
(* its way (pledged by a call), and is given back exactly once -- or lost   *)
(* with the call that carried it.  openspec/specs/smart-routing states the  *)
(* requirement; StationSlots is shown to implement this.                   *)
(***************************************************************************)
EXTENDS Integers, FiniteSets

CONSTANTS Stations, Holders, Carriers, Room, Unlimited

VARIABLES
  count,    \* the occupancy counter of each station
  holds,    \* the teams at each station
  carries,  \* the calls with a slot of each station in transit
  lost      \* slots of each station that died with a call

ledger == <<count, holds, carries, lost>>

LInit ==
  /\ count = [k \in Stations |-> 0]
  /\ holds = [k \in Stations |-> {}]
  /\ carries = [k \in Stations |-> {}]
  /\ lost = [k \in Stations |-> 0]

\* A call takes a slot of a station that has room.
Take(c, k) ==
  /\ k \in Unlimited \/ count[k] < Room[k]
  /\ c \notin carries[k]
  /\ count' = [count EXCEPT ![k] = @ + 1]
  /\ carries' = [carries EXCEPT ![k] = @ \cup {c}]
  /\ UNCHANGED <<holds, lost>>

\* It hands the slot to a team, and carries away the slots that team gives up.
Hand(c, t, k, K) ==
  /\ c \in carries[k] /\ t \notin holds[k]
  /\ K \subseteq {j \in Stations \ {k} : t \in holds[j] /\ c \notin carries[j]}
  /\ holds' = [j \in Stations |-> IF j = k THEN holds[j] \cup {t}
                                  ELSE IF j \in K THEN holds[j] \ {t}
                                  ELSE holds[j]]
  /\ carries' = [j \in Stations |-> IF j = k THEN carries[j] \ {c}
                                    ELSE IF j \in K THEN carries[j] \cup {c}
                                    ELSE carries[j]]
  /\ UNCHANGED <<count, lost>>

\* A team leaves stations; a call carries the slots until it gives them back.
Leave(c, t, K) ==
  /\ K \subseteq {k \in Stations : t \in holds[k] /\ c \notin carries[k]}
  /\ holds' = [k \in Stations |-> IF k \in K THEN holds[k] \ {t} ELSE holds[k]]
  /\ carries' = [k \in Stations |-> IF k \in K THEN carries[k] \cup {c}
                                    ELSE carries[k]]
  /\ UNCHANGED <<count, lost>>

\* A team leaves stations and its slots are free at once.
Vacate(t, K) ==
  /\ K \subseteq {k \in Stations : t \in holds[k]}
  /\ holds' = [k \in Stations |-> IF k \in K THEN holds[k] \ {t} ELSE holds[k]]
  /\ count' = [k \in Stations |-> IF k \in K THEN count[k] - 1 ELSE count[k]]
  /\ UNCHANGED <<carries, lost>>

GiveBack(c, k) ==
  /\ c \in carries[k]
  /\ carries' = [carries EXCEPT ![k] = @ \ {c}]
  /\ count' = [count EXCEPT ![k] = @ - 1]
  /\ UNCHANGED <<holds, lost>>

\* A call dies with everything it carries.
Lose(c) ==
  /\ carries' = [k \in Stations |-> carries[k] \ {c}]
  /\ lost' = [k \in Stations |-> IF c \in carries[k] THEN lost[k] + 1
                                 ELSE lost[k]]
  /\ UNCHANGED <<count, holds>>

LNext ==
  \/ \E c \in Carriers : Lose(c)
  \/ \E c \in Carriers, k \in Stations : Take(c, k) \/ GiveBack(c, k)
  \/ \E c \in Carriers, t \in Holders, k \in Stations :
       \E K \in SUBSET Stations : Hand(c, t, k, K)
  \/ \E t \in Holders : \E K \in SUBSET Stations :
       Vacate(t, K) \/ \E c \in Carriers : Leave(c, t, K)

LSpec == LInit /\ [][LNext]_ledger
=============================================================================
