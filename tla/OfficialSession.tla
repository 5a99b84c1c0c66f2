--------------------------- MODULE OfficialSession ---------------------------
(***************************************************************************)
(* What an official cohort session promises, with no runner, lease, store  *)
(* or provider in it: each member is claimed at most once, trades at most  *)
(* once and only while claimed, and a concluded session never moves again. *)
(* README.md and docs/operations/t1-open-execution.md state this as        *)
(* "repeated invocation returns the same run and cannot duplicate a fill". *)
(***************************************************************************)
EXTENDS Naturals

CONSTANTS
  Members,
  Outcomes  \* what a session can conclude as

VARIABLES
  outcome,  \* "open", or the recorded outcome
  stage,    \* per member
  trades    \* per member: paper cycles applied to its book

vars == << outcome, stage, trades >>

Stage == {"untouched", "claimed", "settled"}

TypeOK ==
  /\ outcome \in Outcomes \union {"open"}
  /\ stage  \in [Members -> Stage]
  /\ trades \in [Members -> 0..1]

Init ==
  /\ outcome = "open"
  /\ stage  = [m \in Members |-> "untouched"]
  /\ trades = [m \in Members |-> 0]

Claim(m) ==
  /\ outcome = "open"
  /\ stage[m] = "untouched"
  /\ stage' = [stage EXCEPT ![m] = "claimed"]
  /\ UNCHANGED << outcome, trades >>

TradeOnce(m) ==
  /\ outcome = "open"
  /\ stage[m] = "claimed"
  /\ trades[m] = 0
  /\ trades' = [trades EXCEPT ![m] = 1]
  /\ UNCHANGED << outcome, stage >>

\* A member settles with or without having been claimed.
SettleMember(m) ==
  /\ outcome = "open"
  /\ stage[m] # "settled"
  /\ stage' = [stage EXCEPT ![m] = "settled"]
  /\ UNCHANGED << outcome, trades >>

Conclude(o) ==
  /\ outcome = "open"
  /\ outcome' = o
  /\ UNCHANGED << stage, trades >>

Next ==
  \/ \E m \in Members : Claim(m) \/ TradeOnce(m) \/ SettleMember(m)
  \/ \E o \in Outcomes : Conclude(o)

Spec == Init /\ [][Next]_vars

=============================================================================
