-------------------------- MODULE OrderDesk_proofs --------------------------
(***************************************************************************)
(* For any number of processes, invocations and requests: no order is sent *)
(* twice or forgotten, no approval token stands behind two orders, a halt  *)
(* in force keeps new invocations from the broker, and what the races may  *)
(* exceed is bounded by the number of processes. For any number of backups *)
(* (BackupDesk) and of downloads at once (ReplayLab): a manifest describes *)
(* a file that was whole, and the replay log is a chain of revisions.      *)
(***************************************************************************)
EXTENDS MCDesks, FiniteSetTheorems, WellFoundedInduction, TLAPS

Before   == {"gate", "review", "screen", "confirm", "spend", "recheck", "record"}
Confirmed == {"recheck", "record", "place", "reject", "placed", "track", "count"}

\* A process that is at something works for an invocation of its own.
Owners ==
  /\ \A p \in Desks : desk[p].at # "idle" => desk[p].id \in Invocations
  /\ \A p \in Desks : desk[p].id # NoId => desk[p].at # "idle"
  /\ \A p, q \in Desks : desk[p].id = desk[q].id /\ desk[p].id # NoId => p = q

\* What an invocation that has not begun has left behind: nothing.
Untouched ==
  \A n \in Invocations : asked[n].req = Nothing =>
    /\ intent[n] = "none" /\ placed[n] = 0 /\ token[n] = "none" /\ asked[n].token = NoId
    /\ \A p \in Desks : desk[p].id # n

\* Only an approval has a token.
Approvals ==
  \A n \in Invocations : asked[n].token # NoId <=> asked[n].kind = "approve"

\* Where a process is, and what its intent and its order look like there.
Progress ==
  \A p \in Desks :
    /\ desk[p].at \in Before => intent[Id(p)] = "none" /\ placed[Id(p)] = 0
    /\ desk[p].at \in {"gate", "review"} => token[Id(p)] = "none"
    /\ desk[p].at = "spend" => Ask(p).kind = "approve"
    /\ desk[p].at \in {"place", "reject"} => intent[Id(p)] = "pending" /\ placed[Id(p)] = 0
    /\ desk[p].at = "placed" => placed[Id(p)] = 1

\* An invocation that is past its confirmation, or whose order is at the broker
Spent(n) == placed[n] > 0 \/ \E p \in Desks : desk[p].id = n /\ desk[p].at \in Confirmed

Tokens ==
  /\ \A n \in Invocations : Spent(n) /\ asked[n].token # NoId => token[asked[n].token] = "consumed"
  /\ \A m, n \in Invocations :
       Spent(m) /\ Spent(n) /\ asked[m].token = asked[n].token /\ asked[m].token # NoId => m = n

Halted == \A p \in Desks : desk[p].halted => killed

IInv ==
  /\ TypeOK /\ Owners /\ Untouched /\ Approvals /\ Progress /\ Tokens /\ Halted
  /\ PlacedIsRecorded /\ HaltHolds


DeskStates == [at : Labels, id : Invocations \union {NoId}, halted : BOOLEAN]

\* The two ways in which a process moves
Moves(p) == Leave(p) \/ \E l \in Labels : Goto(p, l)

LEMMA MovesTyped ==
  ASSUME TypeOK, NEW p \in Desks, Moves(p)
  PROVE  desk' \in [Desks -> DeskStates]
<1>1. desk \in [Desks -> DeskStates]
  BY DEF TypeOK, DeskStates
<1>2. CASE Leave(p)
  <2>1. Idle \in DeskStates
    BY DEF Idle, DeskStates, Labels
  <2> QED BY <1>1, <1>2, <2>1 DEF Leave
<1>3. CASE \E l \in Labels : Goto(p, l)
  BY <1>1, <1>3 DEF Goto, DeskStates
<1> QED BY <1>2, <1>3 DEF Moves

\* A process that is not past its confirmation, or leaves, has sent nothing new.
LEMMA SpentKept ==
  ASSUME TypeOK, NEW p \in Desks,
         \/ Leave(p)
         \/ \E l \in Labels : Goto(p, l) /\ (l \in Confirmed => desk[p].at \in Confirmed),
         \A n \in Invocations :
           placed'[n] > 0 => placed[n] > 0 \/ (n = desk[p].id /\ desk[p].at \in Confirmed)
  PROVE  \A n \in Invocations : Spent(n)' => Spent(n)
<1> SUFFICES ASSUME NEW n \in Invocations, Spent(n)'
             PROVE  Spent(n)
  OBVIOUS
<1>1. CASE placed'[n] > 0
  BY <1>1 DEF Spent
<1>2. CASE \E q \in Desks : desk'[q].id = n /\ desk'[q].at \in Confirmed
  <2>1. PICK q \in Desks : desk'[q].id = n /\ desk'[q].at \in Confirmed
    BY <1>2
  <2>2. CASE q # p
    BY <2>1, <2>2 DEF TypeOK, Leave, Goto, Spent
  <2>3. CASE q = p
    BY <2>1, <2>3 DEF TypeOK, Leave, Goto, Spent, Idle, Confirmed
  <2> QED BY <2>2, <2>3
<1> QED BY <1>1, <1>2 DEF Spent

\* Where no token comes to stand behind anything new, and none is given back,
\* the tokens stay single-use.
LEMMA TokensKept ==
  ASSUME IInv, UNCHANGED asked,
         \A t \in Invocations : token[t] = "consumed" => token'[t] = "consumed",
         \A n \in Invocations : Spent(n)' /\ asked[n].token # NoId => Spent(n)
  PROVE  Tokens'
<1>1. \A n \in Invocations : asked[n].token \in Invocations \union {NoId}
  BY DEF IInv, TypeOK
<1>2. \A n \in Invocations : Spent(n)' /\ asked[n].token # NoId => token'[asked[n].token] = "consumed"
  BY <1>1 DEF IInv, Tokens
<1> QED BY <1>2 DEF IInv, Tokens

LEMMA InitInv == Init => IInv
<1> SUFFICES ASSUME Init PROVE IInv
  OBVIOUS
<1> USE DEF Init
<1>1. TypeOK
  BY DEF TypeOK, NotAsked, Idle, Kinds, Labels
<1>2. Owners /\ Untouched /\ Approvals /\ Halted
  BY DeskAssumption DEF Owners, Untouched, Approvals, Halted, NotAsked, Idle
<1>3. Progress /\ PlacedIsRecorded /\ HaltHolds
  BY DEF Progress, Before, PlacedIsRecorded, HaltHolds, Idle
<1>4. Tokens
  BY DEF Tokens, Spent, Confirmed, NotAsked, Idle
<1> QED BY <1>1, <1>2, <1>3, <1>4 DEF IInv

-----------------------------------------------------------------------------
(* One lemma per action *)

LEMMA BeginInv ==
  ASSUME IInv, NEW p \in Desks, NEW kind \in Kinds, NEW req \in Requests,
         NEW override \in BOOLEAN, NEW t \in Invocations \union {NoId},
         t # NoId <=> kind = "approve", Begin(p, kind, req, override, t)
  PROVE  IInv'
<1>1. PICK n \in Invocations :
        /\ asked[n].req = Nothing
        /\ asked' = [asked EXCEPT ![n] = [kind |-> kind, req |-> req, override |-> override, token |-> t]]
        /\ desk' = [desk EXCEPT ![p] = [at |-> IF kind \in {"live", "propose"} THEN "gate" ELSE "review",
                                       id |-> n, halted |-> killed]]
        /\ desk[p] = Idle
        /\ UNCHANGED << killed, stores >>
  BY DEF Begin
<1> USE <1>1, DeskAssumption DEF stores
<1>2. TypeOK'
  BY DEF IInv, TypeOK, Labels
<1>3. Owners' /\ Approvals' /\ Halted'
  BY DEF IInv, TypeOK, Owners, Untouched, Approvals, Halted, Idle
<1>4. Untouched'
  BY DEF IInv, TypeOK, Untouched
<1>5. Progress'
  BY SMTT(30) DEF IInv, TypeOK, Progress, Owners, Untouched, Before, Id, Ask
<1>6. Tokens'
  <2>1. \A m \in Invocations : Spent(m)' => Spent(m) /\ m # n
    BY DEF IInv, TypeOK, Owners, Untouched, Spent, Confirmed
  <2> QED BY <2>1 DEF IInv, TypeOK, Tokens
<1>7. PlacedIsRecorded' /\ HaltHolds'
  BY DEF IInv, TypeOK, PlacedIsRecorded, HaltHolds
<1> QED BY <1>2, <1>3, <1>4, <1>5, <1>6, <1>7 DEF IInv

LEMMA GateInv == ASSUME IInv, NEW p \in Desks, Gate(p) PROVE IInv'
<1> USE DeskAssumption DEF Gate, GateAllows, At, stores
<1>1. TypeOK'
  <2>1. Moves(p)
    BY DEF Moves, Labels
  <2>2. desk' \in [Desks -> DeskStates]
    BY <2>1, MovesTyped DEF IInv
  <2> QED BY <2>2 DEF IInv, TypeOK, DeskStates, Owners, Id
<1>2. Owners' /\ Approvals' /\ Halted'
  BY SMTT(30) DEF IInv, TypeOK, Owners, Approvals, Halted, Goto, Leave, Idle, Id, Ask
<1>3. Untouched'
  BY SMTT(30) DEF IInv, TypeOK, Owners, Untouched, Goto, Leave, Idle, Id, Ask
<1>4. Progress'
  BY SMTT(30) DEF IInv, TypeOK, Owners, Progress, Before, Goto, Leave, Idle, Id, Ask
<1>5. Tokens'
  <2>1. \A n \in Invocations : Spent(n)' => Spent(n)
    BY SpentKept DEF IInv, TypeOK, Confirmed, Labels, Id
  <2> QED BY <2>1, TokensKept
<1>6. PlacedIsRecorded' /\ HaltHolds'
  BY SMTT(30) DEF IInv, TypeOK, Owners, Progress, Before, Halted, PlacedIsRecorded, HaltHolds, Goto, Leave, Idle, Id, Ask
<1> QED BY <1>1, <1>2, <1>3, <1>4, <1>5, <1>6 DEF IInv

LEMMA ReviewInv == ASSUME IInv, NEW p \in Desks, Review(p) PROVE IInv'
<1> USE DeskAssumption DEF Review, At, stores
<1>1. TypeOK'
  <2>1. Moves(p)
    BY DEF Moves, Labels
  <2>2. desk' \in [Desks -> DeskStates]
    BY <2>1, MovesTyped DEF IInv
  <2> QED BY <2>2 DEF IInv, TypeOK, DeskStates, Owners, Id
<1>2. Owners' /\ Approvals' /\ Halted'
  BY SMTT(30) DEF IInv, TypeOK, Owners, Approvals, Halted, Goto, Leave, Idle, Id, Ask
<1>3. Untouched'
  BY SMTT(30) DEF IInv, TypeOK, Owners, Untouched, Goto, Leave, Idle, Id, Ask
<1>4. Progress'
  BY SMTT(30) DEF IInv, TypeOK, Owners, Progress, Before, Goto, Leave, Idle, Id, Ask
<1>5. Tokens'
  <2>1. \A n \in Invocations : Spent(n)' => Spent(n)
    BY SpentKept DEF IInv, TypeOK, Confirmed, Labels, Id
  <2>2. \A t \in Invocations : token[t] = "consumed" => token'[t] = "consumed"
    BY DEF IInv, TypeOK, Progress, Id, Ask
  <2> QED BY <2>1, <2>2, TokensKept
<1>6. PlacedIsRecorded' /\ HaltHolds'
  BY SMTT(30) DEF IInv, TypeOK, Owners, Progress, Before, Halted, PlacedIsRecorded, HaltHolds, Goto, Leave, Idle, Id, Ask
<1> QED BY <1>1, <1>2, <1>3, <1>4, <1>5, <1>6 DEF IInv

LEMMA ScreenInv == ASSUME IInv, NEW p \in Desks, Screen(p) PROVE IInv'
<1> USE DeskAssumption DEF Screen, Blocked, At, stores
<1>1. TypeOK'
  <2>1. Moves(p)
    BY DEF Moves, Labels
  <2>2. desk' \in [Desks -> DeskStates]
    BY <2>1, MovesTyped DEF IInv
  <2> QED BY <2>2 DEF IInv, TypeOK, DeskStates, Owners, Id
<1>2. Owners' /\ Approvals' /\ Halted'
  BY SMTT(30) DEF IInv, TypeOK, Owners, Approvals, Halted, Goto, Leave, Idle, Id, Ask
<1>3. Untouched'
  BY SMTT(30) DEF IInv, TypeOK, Owners, Untouched, Goto, Leave, Idle, Id, Ask
<1>4. Progress'
  BY SMTT(30) DEF IInv, TypeOK, Owners, Progress, Before, Goto, Leave, Idle, Id, Ask
<1>5. Tokens'
  <2>1. \A n \in Invocations : Spent(n)' => Spent(n)
    BY SpentKept DEF IInv, TypeOK, Confirmed, Labels, Id
  <2> QED BY <2>1, TokensKept
<1>6. PlacedIsRecorded' /\ HaltHolds'
  BY SMTT(30) DEF IInv, TypeOK, Owners, Progress, Before, Halted, PlacedIsRecorded, HaltHolds, Goto, Leave, Idle, Id, Ask
<1> QED BY <1>1, <1>2, <1>3, <1>4, <1>5, <1>6 DEF IInv

LEMMA ConfirmInv == ASSUME IInv, NEW p \in Desks, Confirm(p) PROVE IInv'
<1> USE DeskAssumption DEF Confirm, At, stores
<1>1. TypeOK'
  <2>1. Moves(p)
    BY DEF Moves, Labels
  <2>2. desk' \in [Desks -> DeskStates]
    BY <2>1, MovesTyped DEF IInv
  <2> QED BY <2>2 DEF IInv, TypeOK, DeskStates, Owners, Id
<1>2. Owners' /\ Approvals' /\ Halted'
  BY SMTT(30) DEF IInv, TypeOK, Owners, Approvals, Halted, Goto, Leave, Idle, Id, Ask
<1>3. Untouched'
  BY SMTT(30) DEF IInv, TypeOK, Owners, Untouched, Goto, Leave, Idle, Id, Ask
<1>4. Progress'
  BY SMTT(30) DEF IInv, TypeOK, Owners, Progress, Before, Goto, Leave, Idle, Id, Ask
<1>5. Tokens'
  <2>1. \A n \in Invocations : Spent(n)' /\ asked[n].token # NoId => Spent(n)
    <3>1. CASE Ask(p).kind # "approve" /\ Goto(p, "recheck")
      BY <3>1 DEF IInv, TypeOK, Approvals, Spent, Confirmed, Goto, Ask, Id
    <3>2. CASE Leave(p) \/ Goto(p, "spend")
      BY <3>2, SpentKept DEF IInv, TypeOK, Confirmed, Labels
    <3> QED BY <3>1, <3>2
  <2> QED BY <2>1, TokensKept
<1>6. PlacedIsRecorded' /\ HaltHolds'
  BY SMTT(30) DEF IInv, TypeOK, Owners, Progress, Before, Halted, PlacedIsRecorded, HaltHolds, Goto, Leave, Idle, Id, Ask
<1> QED BY <1>1, <1>2, <1>3, <1>4, <1>5, <1>6 DEF IInv

LEMMA SpendInv == ASSUME IInv, NEW p \in Desks, Spend(p) PROVE IInv'
<1> USE DeskAssumption DEF Spend, Spendable, At, stores
<1>1. TypeOK'
  <2>1. Moves(p)
    BY DEF Moves, Labels
  <2>2. desk' \in [Desks -> DeskStates]
    BY <2>1, MovesTyped DEF IInv
  <2> QED BY <2>2 DEF IInv, TypeOK, DeskStates, Owners, Id
<1>2. Owners' /\ Approvals' /\ Halted'
  <2>1. Owners'
    BY SMTT(30) DEF IInv, TypeOK, Owners, Goto, Leave, Idle, Id
  <2>2. Approvals'
    BY DEF IInv, Approvals
  <2>3. Halted'
    BY DEF IInv, TypeOK, Halted, Goto, Leave, Idle
  <2> QED BY <2>1, <2>2, <2>3
<1>3. Untouched'
  BY SMTT(30) DEF IInv, TypeOK, Owners, Untouched, Goto, Leave, Idle, Id, Ask
<1>4. Progress'
  BY SMTT(30) DEF IInv, TypeOK, Owners, Progress, Before, Goto, Leave, Idle, Id, Ask
<1>5. Tokens'
  <2> DEFINE t == asked[desk[p].id].token
  <2>0. desk[p].id \in Invocations /\ t \in Invocations
    BY DEF IInv, TypeOK, Owners, Progress, Approvals, Ask, Id
  <2>1. CASE ~Spendable(t) /\ UNCHANGED token /\ Leave(p)
    <3>1. \A n \in Invocations : Spent(n)' => Spent(n)
      BY <2>1, SpentKept DEF IInv
    <3> QED BY <2>1, <3>1, TokensKept
  <2>2. CASE Spendable(t) /\ token' = [token EXCEPT ![t] = "consumed"] /\ Goto(p, "recheck")
    <3>1. \A n \in Invocations : Spent(n)' => Spent(n) \/ n = desk[p].id
      BY <2>2 DEF IInv, TypeOK, Spent, Confirmed, Goto
    <3>2. \A n \in Invocations : Spent(n) => asked[n].token # t
      BY <2>0, <2>2 DEF IInv, Tokens
    <3> HIDE DEF t
    <3>3. \A n \in Invocations : Spent(n)' /\ asked[n].token # NoId => token'[asked[n].token] = "consumed"
      BY <2>0, <2>2, <3>1 DEF IInv, TypeOK, Tokens, t
    <3> QED BY <2>0, <3>1, <3>2, <3>3 DEF IInv, Tokens, t
  <2> QED BY <2>1, <2>2 DEF Ask, Id
<1>6. PlacedIsRecorded' /\ HaltHolds'
  BY SMTT(30) DEF IInv, TypeOK, Owners, Progress, Before, Halted, PlacedIsRecorded, HaltHolds, Goto, Leave, Idle, Id, Ask
<1> QED BY <1>1, <1>2, <1>3, <1>4, <1>5, <1>6 DEF IInv

LEMMA RecheckInv == ASSUME IInv, NEW p \in Desks, Recheck(p) PROVE IInv'
<1> USE DeskAssumption DEF Recheck, Blocked, At, stores
<1>1. TypeOK'
  <2>1. Moves(p)
    BY DEF Moves, Labels
  <2>2. desk' \in [Desks -> DeskStates]
    BY <2>1, MovesTyped DEF IInv
  <2> QED BY <2>2 DEF IInv, TypeOK, DeskStates, Owners, Id
<1>2. Owners' /\ Approvals' /\ Halted'
  BY SMTT(30) DEF IInv, TypeOK, Owners, Approvals, Halted, Goto, Leave, Idle, Id, Ask
<1>3. Untouched'
  BY SMTT(30) DEF IInv, TypeOK, Owners, Untouched, Goto, Leave, Idle, Id, Ask
<1>4. Progress'
  BY SMTT(30) DEF IInv, TypeOK, Owners, Progress, Before, Goto, Leave, Idle, Id, Ask
<1>5. Tokens'
  <2>1. \A n \in Invocations : Spent(n)' => Spent(n)
    BY SpentKept DEF IInv, TypeOK, Confirmed, Labels, Id
  <2> QED BY <2>1, TokensKept
<1>6. PlacedIsRecorded' /\ HaltHolds'
  BY SMTT(30) DEF IInv, TypeOK, Owners, Progress, Before, Halted, PlacedIsRecorded, HaltHolds, Goto, Leave, Idle, Id, Ask
<1> QED BY <1>1, <1>2, <1>3, <1>4, <1>5, <1>6 DEF IInv

LEMMA RecordPendingInv == ASSUME IInv, NEW p \in Desks, RecordPending(p) PROVE IInv'
<1> USE DeskAssumption DEF RecordPending, At, stores
<1>1. TypeOK'
  BY SMTT(30) DEF IInv, TypeOK, Owners, Kinds, Labels, Goto, Leave, Idle, Id
<1>2. Owners' /\ Approvals' /\ Halted'
  BY SMTT(30) DEF IInv, TypeOK, Owners, Approvals, Halted, Goto, Leave, Idle, Id, Ask
<1>3. Untouched'
  BY SMTT(30) DEF IInv, TypeOK, Owners, Untouched, Goto, Leave, Idle, Id, Ask
<1>4. Progress'
  BY SMTT(30) DEF IInv, TypeOK, Owners, Progress, Before, Goto, Leave, Idle, Id, Ask
<1>5. Tokens'
  BY SMTT(30) DEF IInv, TypeOK, Owners, Progress, Tokens, Spent, Confirmed, Goto, Leave, Idle, Id, Ask
<1>6. PlacedIsRecorded' /\ HaltHolds'
  BY SMTT(30) DEF IInv, TypeOK, Owners, Progress, Before, Halted, PlacedIsRecorded, HaltHolds, Goto, Leave, Idle, Id, Ask
<1> QED BY <1>1, <1>2, <1>3, <1>4, <1>5, <1>6 DEF IInv

LEMMA PlaceInv == ASSUME IInv, NEW p \in Desks, Place(p) PROVE IInv'
<1> USE DeskAssumption DEF Place, Accepted, Ambiguous, Rejected, Reaches, At, stores
<1>1. TypeOK'
  <2>1. Moves(p)
    BY DEF Moves, Labels
  <2>2. desk' \in [Desks -> DeskStates]
    BY <2>1, MovesTyped DEF IInv
  <2> QED BY <2>2 DEF IInv, TypeOK, DeskStates, Owners, Id
<1>2. Owners' /\ Approvals' /\ Halted'
  <2>1. Owners'
    BY SMTT(30) DEF IInv, TypeOK, Owners, Goto, Leave, Idle, Id
  <2>2. Approvals'
    BY DEF IInv, Approvals
  <2>3. Halted'
    BY DEF IInv, TypeOK, Halted, Goto, Leave, Idle
  <2> QED BY <2>1, <2>2, <2>3
<1>3. Untouched'
  BY SMTT(30) DEF IInv, TypeOK, Owners, Untouched, Goto, Leave, Idle, Id, Ask
<1>4. Progress'
  BY SMTT(30) DEF IInv, TypeOK, Owners, Progress, Before, Goto, Leave, Idle, Id, Ask
<1>5. Tokens'
  <2>1. \A n \in Invocations : Spent(n)' => Spent(n)
    BY SpentKept DEF IInv, TypeOK, Confirmed, Labels, Id
  <2> QED BY <2>1, TokensKept
<1>6. PlacedIsRecorded' /\ HaltHolds'
  BY SMTT(30) DEF IInv, TypeOK, Owners, Progress, Before, Halted, PlacedIsRecorded, HaltHolds, Goto, Leave, Idle, Id, Ask
<1> QED BY <1>1, <1>2, <1>3, <1>4, <1>5, <1>6 DEF IInv

LEMMA MarkFailedInv == ASSUME IInv, NEW p \in Desks, MarkFailed(p) PROVE IInv'
<1> USE DeskAssumption DEF MarkFailed, SetIntent, At, stores
<1>1. TypeOK'
  BY SMTT(30) DEF IInv, TypeOK, Owners, Kinds, Labels, Goto, Leave, Idle, Id
<1>2. Owners' /\ Approvals' /\ Halted'
  BY SMTT(30) DEF IInv, TypeOK, Owners, Approvals, Halted, Goto, Leave, Idle, Id, Ask
<1>3. Untouched'
  BY SMTT(30) DEF IInv, TypeOK, Owners, Untouched, Goto, Leave, Idle, Id, Ask
<1>4. Progress'
  BY SMTT(30) DEF IInv, TypeOK, Owners, Progress, Before, Goto, Leave, Idle, Id, Ask
<1>5. Tokens'
  BY SMTT(30) DEF IInv, TypeOK, Owners, Progress, Tokens, Spent, Confirmed, Goto, Leave, Idle, Id, Ask
<1>6. PlacedIsRecorded' /\ HaltHolds'
  BY SMTT(30) DEF IInv, TypeOK, Owners, Progress, Before, Halted, PlacedIsRecorded, HaltHolds, Goto, Leave, Idle, Id, Ask
<1> QED BY <1>1, <1>2, <1>3, <1>4, <1>5, <1>6 DEF IInv

LEMMA MarkSubmittedInv == ASSUME IInv, NEW p \in Desks, MarkSubmitted(p) PROVE IInv'
<1> USE DeskAssumption DEF MarkSubmitted, SetIntent, At, stores
<1>1. TypeOK'
  <2>1. Moves(p)
    BY DEF Moves, Labels
  <2>2. desk' \in [Desks -> DeskStates]
    BY <2>1, MovesTyped DEF IInv
  <2> QED BY <2>2 DEF IInv, TypeOK, DeskStates, Owners, Id
<1>2. Owners' /\ Approvals' /\ Halted'
  <2>1. Owners'
    BY SMTT(30) DEF IInv, TypeOK, Owners, Goto, Leave, Idle, Id
  <2>2. Approvals'
    BY DEF IInv, Approvals
  <2>3. Halted'
    <3>1. CASE Goto(p, "track")
      BY <3>1 DEF IInv, TypeOK, Halted, Goto
    <3>2. CASE Goto(p, "count")
      BY <3>2 DEF IInv, TypeOK, Halted, Goto
    <3> QED BY <3>1, <3>2
  <2> QED BY <2>1, <2>2, <2>3
<1>3. Untouched'
  BY SMTT(30) DEF IInv, TypeOK, Owners, Untouched, Goto, Leave, Idle, Id, Ask
<1>4. Progress'
  BY SMTT(30) DEF IInv, TypeOK, Owners, Progress, Before, Goto, Leave, Idle, Id, Ask
<1>5. Tokens'
  <2>1. \A n \in Invocations : Spent(n)' => Spent(n)
    BY SpentKept DEF IInv, TypeOK, Confirmed, Labels, Id
  <2> QED BY <2>1, TokensKept
<1>6. PlacedIsRecorded' /\ HaltHolds'
  BY SMTT(30) DEF IInv, TypeOK, Owners, Progress, Before, Halted, PlacedIsRecorded, HaltHolds, Goto, Leave, Idle, Id, Ask
<1> QED BY <1>1, <1>2, <1>3, <1>4, <1>5, <1>6 DEF IInv

LEMMA TrackInv == ASSUME IInv, NEW p \in Desks, Track(p) PROVE IInv'
<1> USE DeskAssumption DEF Track, At, stores
<1>1. TypeOK'
  BY SMTT(30) DEF IInv, TypeOK, Owners, Kinds, Labels, Goto, Leave, Idle, Id
<1>2. Owners' /\ Approvals' /\ Halted'
  BY SMTT(30) DEF IInv, TypeOK, Owners, Approvals, Halted, Goto, Leave, Idle, Id, Ask
<1>3. Untouched'
  BY SMTT(30) DEF IInv, TypeOK, Owners, Untouched, Goto, Leave, Idle, Id, Ask
<1>4. Progress'
  BY SMTT(30) DEF IInv, TypeOK, Owners, Progress, Before, Goto, Leave, Idle, Id, Ask
<1>5. Tokens'
  BY SMTT(30) DEF IInv, TypeOK, Owners, Progress, Tokens, Spent, Confirmed, Goto, Leave, Idle, Id, Ask
<1>6. PlacedIsRecorded' /\ HaltHolds'
  BY SMTT(30) DEF IInv, TypeOK, Owners, Progress, Before, Halted, PlacedIsRecorded, HaltHolds, Goto, Leave, Idle, Id, Ask
<1> QED BY <1>1, <1>2, <1>3, <1>4, <1>5, <1>6 DEF IInv

LEMMA CountInv == ASSUME IInv, NEW p \in Desks, Count(p) PROVE IInv'
<1> USE DeskAssumption DEF Count, At, stores
<1>1. TypeOK'
  BY SMTT(30) DEF IInv, TypeOK, Owners, Kinds, Labels, Goto, Leave, Idle, Id
<1>2. Owners' /\ Approvals' /\ Halted'
  BY SMTT(30) DEF IInv, TypeOK, Owners, Approvals, Halted, Goto, Leave, Idle, Id, Ask
<1>3. Untouched'
  BY SMTT(30) DEF IInv, TypeOK, Owners, Untouched, Goto, Leave, Idle, Id, Ask
<1>4. Progress'
  BY SMTT(30) DEF IInv, TypeOK, Owners, Progress, Before, Goto, Leave, Idle, Id, Ask
<1>5. Tokens'
  BY SMTT(30) DEF IInv, TypeOK, Owners, Progress, Tokens, Spent, Confirmed, Goto, Leave, Idle, Id, Ask
<1>6. PlacedIsRecorded' /\ HaltHolds'
  BY SMTT(30) DEF IInv, TypeOK, Owners, Progress, Before, Halted, PlacedIsRecorded, HaltHolds, Goto, Leave, Idle, Id, Ask
<1> QED BY <1>1, <1>2, <1>3, <1>4, <1>5, <1>6 DEF IInv

LEMMA CrashInv == ASSUME IInv, NEW p \in Desks, Crash(p) PROVE IInv'
<1> USE DeskAssumption DEF Crash, At, stores
<1>1. TypeOK'
  BY SMTT(30) DEF IInv, TypeOK, Owners, Kinds, Labels, Goto, Leave, Idle, Id
<1>2. Owners' /\ Approvals' /\ Halted'
  BY SMTT(30) DEF IInv, TypeOK, Owners, Approvals, Halted, Goto, Leave, Idle, Id, Ask
<1>3. Untouched'
  BY SMTT(30) DEF IInv, TypeOK, Owners, Untouched, Goto, Leave, Idle, Id, Ask
<1>4. Progress'
  BY SMTT(30) DEF IInv, TypeOK, Owners, Progress, Before, Goto, Leave, Idle, Id, Ask
<1>5. Tokens'
  BY SMTT(30) DEF IInv, TypeOK, Owners, Progress, Tokens, Spent, Confirmed, Goto, Leave, Idle, Id, Ask
<1>6. PlacedIsRecorded' /\ HaltHolds'
  BY SMTT(30) DEF IInv, TypeOK, Owners, Progress, Before, Halted, PlacedIsRecorded, HaltHolds, Goto, Leave, Idle, Id, Ask
<1> QED BY <1>1, <1>2, <1>3, <1>4, <1>5, <1>6 DEF IInv

\* The operator, the clock and a stuttering step disturb little.
LEMMA SystemInv ==
  ASSUME IInv, Halt \/ Resume \/ Age \/ Expire \/ UNCHANGED vars
  PROVE  IInv'
<1> USE DEF stores, vars
<1>1. CASE Halt
  BY <1>1, SMTT(30) DEF Halt, IInv, TypeOK, Owners, Untouched, Approvals, Progress, Tokens, Spent, Halted, PlacedIsRecorded, HaltHolds, Id, Ask
<1>2. CASE Resume
  <2>1. TypeOK' /\ Halted' /\ HaltHolds'
    <3>1. TypeOK'
      <4>1. UNCHANGED << asked, intent, recent, token, expired, trades, counted, placed, tracked >> /\ killed' = FALSE
        BY <1>2 DEF Resume
      <4>2. PICK Desk : Desk = [at : Labels, id : Invocations \union {NoId}, halted : BOOLEAN]
        OBVIOUS
      <4>3. desk \in [Desks -> Desk]
        BY <4>2 DEF IInv, TypeOK
      <4>4. \A p \in Desks : [desk[p] EXCEPT !.halted = FALSE] \in Desk
        BY <4>2, <4>3
      <4>5. desk' \in [Desks -> Desk]
        BY <1>2, <4>4 DEF Resume
      <4> QED BY <4>1, <4>2, <4>5 DEF IInv, TypeOK
    <3>2. Halted' /\ HaltHolds'
      BY <1>2, SMTT(30) DEF Resume, IInv, TypeOK, Halted, HaltHolds
    <3> QED BY <3>1, <3>2
  <2>2. \A p \in Desks : desk'[p].at = desk[p].at /\ desk'[p].id = desk[p].id
    BY <1>2 DEF Resume, IInv, TypeOK
  <2>3. Owners' /\ Untouched'
    <3>1. UNCHANGED << asked, intent, placed, token >>
      BY <1>2 DEF Resume
    <3> QED BY <2>2, <3>1 DEF IInv, Owners, Untouched
  <2>4. Approvals' /\ PlacedIsRecorded'
    BY <1>2 DEF Resume, IInv, Approvals, PlacedIsRecorded
  <2>5. Progress'
    BY <1>2, <2>2 DEF Resume, IInv, Progress, Id, Ask
  <2>6. Tokens'
    BY <1>2, <2>2, TokensKept DEF Resume, Spent
  <2> QED BY <2>1, <2>3, <2>4, <2>5, <2>6 DEF IInv
<1>3. CASE Age \/ Expire \/ UNCHANGED vars
  <2>1. UNCHANGED << asked, intent, token, killed, trades, counted, placed, tracked, desk >> /\ recent' \in SUBSET Invocations /\ expired' \in SUBSET Invocations
    BY <1>3 DEF Age, Expire, IInv, TypeOK
  <2> QED BY <2>1, SMTT(30) DEF IInv, TypeOK, Owners, Untouched, Approvals, Progress, Tokens, Spent, Halted, PlacedIsRecorded, HaltHolds, Id, Ask
<1> QED BY <1>1, <1>2, <1>3

LEMMA StepInv == IInv /\ [Next]_vars => IInv'
<1> SUFFICES ASSUME IInv, [Next]_vars PROVE IInv'
  OBVIOUS
<1>1. ASSUME NEW p \in Desks, Order(p) \/ Live(p) \/ Propose(p) PROVE IInv'
  BY <1>1, BeginInv DEF Order, Live, Propose, Kinds
<1>2. ASSUME NEW p \in Desks, Approve(p) PROVE IInv'
  <2>1. PICK t \in Invocations, override \in BOOLEAN :
          token[t] = "pending" /\ Begin(p, "approve", asked[t].req, override, t)
    BY <1>2 DEF Approve
  <2>2. asked[t].req \in Requests /\ t # NoId
    BY <2>1, DeskAssumption DEF IInv, TypeOK, Untouched
  <2> QED BY <2>1, <2>2, BeginInv DEF Kinds
<1>3. ASSUME NEW p \in Desks, Submit(p) \/ Crash(p) PROVE IInv'
  BY <1>3, GateInv, ReviewInv, ScreenInv, ConfirmInv, SpendInv, RecheckInv, RecordPendingInv,
     PlaceInv, MarkFailedInv, MarkSubmittedInv, TrackInv, CountInv, CrashInv DEF Submit
<1> QED BY <1>1, <1>2, <1>3, SystemInv DEF Next

-----------------------------------------------------------------------------
(* Theorems *)

LEMMA Invariance == Spec => []IInv
BY InitInv, StepInv, PTL DEF Spec

\* The desk's stores and processes keep their types.
THEOREM TypeCorrect == Spec => []TypeOK
<1>1. IInv => TypeOK
  BY DEF IInv
<1> QED BY Invariance, <1>1, PTL

\* No crash, lost answer or rejection makes the desk forget an order that is at
\* the broker, or send it twice (cli.py, _run_gated_order).
THEOREM PlacedRecorded == Spec => []PlacedIsRecorded
<1>1. IInv => PlacedIsRecorded
  BY DEF IInv
<1> QED BY Invariance, <1>1, PTL

\* However many processes approve with a token at once, one order at most
\* follows (approval.py, consume).
THEOREM TokensSingleUse == Spec => []TokenBuysOneOrder
<1>1. IInv => TokenBuysOneOrder
  BY DEF IInv, Tokens, Spent, TokenBuysOneOrder
<1> QED BY Invariance, <1>1, PTL

\* An invocation that began under a halt still in force never gets past the
\* duplicate window's check (safety.py, KillSwitch).
THEOREM HaltsHold == Spec => []HaltHolds
<1>1. IInv => HaltHolds
  BY DEF IInv
<1> QED BY Invariance, <1>1, PTL

-----------------------------------------------------------------------------
(* What races can exceed *)

\* The recent orders for a request that were to be kept apart, and the processes
\* that have had their last look at the window for such an order
Repeats(req) ==
  { n \in recent : /\ intent[n] \in {"pending", "submitted"}
                   /\ asked[n].req = req /\ ~asked[n].override }
Ready(req) ==
  { p \in Desks : desk[p].at = "record" /\ Ask(p).req = req /\ ~Ask(p).override }

\* The strategies' counted orders, and the processes past the gate with another
Strategy == { n \in counted : asked[n].kind = "live" }
InFlight == { p \in Desks : desk[p].at \notin {"idle", "gate"} /\ Ask(p).kind = "live" }

Windows ==
  \A req \in Requests : Cardinality(Repeats(req)) + Cardinality(Ready(req)) <= Cardinality(Desks)

Flights == Cardinality(Strategy) + Cardinality(InFlight) <= MaxTrades + Cardinality(Desks) - 1

Ledger ==
  /\ \A n \in counted : asked[n].req # Nothing
  /\ Cardinality(counted) <= trades

Races == Windows /\ Flights /\ Ledger

LEMMA FewerIsLess ==
  ASSUME NEW S, IsFiniteSet(S), NEW T \in SUBSET S
  PROVE  /\ IsFiniteSet(T) /\ Cardinality(T) \in Nat /\ Cardinality(S) \in Nat
         /\ Cardinality(T) <= Cardinality(S)
BY FS_Subset, FS_CardinalityType

LEMMA OneMore ==
  ASSUME NEW S, IsFiniteSet(S), NEW x, NEW T \in SUBSET (S \union {x})
  PROVE  Cardinality(T) <= Cardinality(S) + 1
<1>1. IsFiniteSet(S \union {x}) /\ Cardinality(S \union {x}) <= Cardinality(S) + 1
  <2>1. Cardinality(S) \in Nat
    BY FS_CardinalityType
  <2>2. /\ IsFiniteSet(S \union {x})
        /\ Cardinality(S \union {x}) = Cardinality(S) \/ Cardinality(S \union {x}) = Cardinality(S) + 1
    BY FS_AddElement
  <2> QED BY <2>1, <2>2
<1>2. Cardinality(T) <= Cardinality(S \union {x}) /\ Cardinality(T) \in Nat
      /\ Cardinality(S \union {x}) \in Nat
  BY <1>1, FewerIsLess
<1> QED BY <1>1, <1>2, FS_CardinalityType

LEMMA OneLess ==
  ASSUME NEW S, IsFiniteSet(S), NEW x \in S, NEW T \in SUBSET (S \ {x})
  PROVE  Cardinality(T) + 1 <= Cardinality(S)
<1>1. IsFiniteSet(S \ {x}) /\ Cardinality(S \ {x}) = Cardinality(S) - 1
  BY FS_RemoveElement
<1>2. Cardinality(T) <= Cardinality(S \ {x}) /\ Cardinality(T) \in Nat
  BY <1>1, FewerIsLess
<1> QED BY <1>1, <1>2, FS_CardinalityType

\* What moves from the processes to the records is counted once; where nothing
\* is recorded, or nobody is added, the sum is bounded by the processes alone.
LEMMA SumIsBounded ==
  ASSUME NEW R, NEW R1, IsFiniteSet(R), IsFiniteSet(R1),
         NEW P \in SUBSET Desks, NEW P1 \in SUBSET Desks, NEW bound \in Nat,
         Cardinality(R) + Cardinality(P) <= bound,
         \/ R1 \subseteq R /\ P1 \subseteq P
         \/ \E p \in P : \E n : R1 \subseteq R \union {n} /\ P1 \subseteq P \ {p}
         \/ Cardinality(R1) + Cardinality(Desks) <= bound
  PROVE  Cardinality(R1) + Cardinality(P1) <= bound
<1> IsFiniteSet(Desks)
  BY FinitelyMany
<1>1. IsFiniteSet(P) /\ IsFiniteSet(P1) /\ Cardinality(P1) <= Cardinality(Desks)
  BY FewerIsLess
<1>2. /\ Cardinality(R) \in Nat /\ Cardinality(R1) \in Nat /\ Cardinality(P) \in Nat
      /\ Cardinality(P1) \in Nat /\ Cardinality(Desks) \in Nat
  BY <1>1, FS_CardinalityType
<1>3. CASE R1 \subseteq R /\ P1 \subseteq P
  <2>1. Cardinality(R1) <= Cardinality(R) /\ Cardinality(P1) <= Cardinality(P)
    BY <1>1, <1>3, FewerIsLess
  <2> QED BY <1>2, <2>1
<1>4. ASSUME NEW p \in P, NEW n, R1 \subseteq R \union {n}, P1 \subseteq P \ {p}
      PROVE  Cardinality(R1) + Cardinality(P1) <= bound
  <2>1. Cardinality(R1) <= Cardinality(R) + 1
    BY <1>4, OneMore
  <2>2. Cardinality(P1) + 1 <= Cardinality(P)
    BY <1>1, <1>4, OneLess
  <2> QED BY <1>2, <2>1, <2>2
<1>5. CASE Cardinality(R1) + Cardinality(Desks) <= bound
  BY <1>1, <1>2, <1>5
<1> QED BY <1>3, <1>4, <1>5

LEMMA RaceSets ==
  ASSUME TypeOK
  PROVE  /\ \A req : IsFiniteSet(Repeats(req)) /\ Ready(req) \in SUBSET Desks
         /\ IsFiniteSet(Strategy) /\ InFlight \in SUBSET Desks
         /\ IsFiniteSet(counted) /\ Cardinality(Strategy) <= Cardinality(counted)
         /\ Cardinality(Strategy) \in Nat /\ Cardinality(counted) \in Nat
         /\ Cardinality(Desks) \in Nat /\ MaxTrades \in Nat \ {0} /\ trades \in Nat
<1>1. recent \in SUBSET Invocations /\ counted \in SUBSET Invocations /\ trades \in Nat
  BY DEF TypeOK
<1>2. IsFiniteSet(recent) /\ IsFiniteSet(counted)
  BY <1>1, FinitelyMany, FewerIsLess
<1>3. \A req : Repeats(req) \in SUBSET recent /\ Ready(req) \in SUBSET Desks
  BY DEF Repeats, Ready
<1>4. Strategy \in SUBSET counted /\ InFlight \in SUBSET Desks
  BY DEF Strategy, InFlight
<1> QED BY <1>1, <1>2, <1>3, <1>4, FewerIsLess, FS_CardinalityType, DeskAssumption, FinitelyMany

\* A process that leaves, or goes anywhere but to the record, is not ready.
LEMMA NotReady ==
  ASSUME TypeOK, NEW p \in Desks, UNCHANGED asked,
         Leave(p) \/ \E l \in Labels \ {"record"} : Goto(p, l), NEW req
  PROVE  Ready(req)' \subseteq Ready(req) \ {p}
<1>1. /\ desk'[p].at # "record"
      /\ \A q \in Desks : q # p => desk'[q] = desk[q]
  BY DEF Leave, Goto, Idle, TypeOK
<1> QED BY <1>1 DEF Ready, Ask, Id

\* Only the gate lets a process into flight, and one that leaves is out of it.
LEMMA StillInFlight ==
  ASSUME TypeOK, NEW p \in Desks, UNCHANGED asked,
         Leave(p) \/ (desk[p].at \notin {"idle", "gate"} /\ \E l \in Labels : Goto(p, l))
  PROVE  InFlight' \subseteq InFlight /\ (Leave(p) => InFlight' \subseteq InFlight \ {p})
<1>1. /\ \A q \in Desks : q # p => desk'[q] = desk[q]
      /\ desk'[p].at = "idle" \/ (desk[p].at \notin {"idle", "gate"} /\ desk'[p].id = desk[p].id)
      /\ Leave(p) => desk'[p].at = "idle"
  BY DEF Leave, Goto, Idle, TypeOK
<1> QED BY <1>1 DEF InFlight, Ask, Id

\* What an invocation that begins leaves alone
LEMMA Begins ==
  ASSUME IInv, NEW p \in Desks, Order(p) \/ Live(p) \/ Propose(p) \/ Approve(p)
  PROVE  \E n \in Invocations :
           /\ asked[n].req = Nothing /\ asked'[n].req # Nothing
           /\ \A m \in Invocations : m # n => asked'[m] = asked[m]
           /\ \A q \in Desks : q # p => desk'[q] = desk[q]
           /\ desk'[p].at \in {"gate", "review"} /\ desk'[p].id = n
           /\ asked'[n].kind = "live" => desk'[p].at = "gate"
           /\ UNCHANGED << intent, recent, counted, trades >>
<1>1. PICK kind \in Kinds, req \in Requests, override \in BOOLEAN, t \in Invocations \union {NoId} :
        Begin(p, kind, req, override, t)
  <2>1. CASE Approve(p)
    <3>1. PICK t \in Invocations, override \in BOOLEAN :
            token[t] = "pending" /\ Begin(p, "approve", asked[t].req, override, t)
      BY <2>1 DEF Approve
    <3>2. asked[t].req \in Requests
      BY <3>1 DEF IInv, TypeOK, Untouched
    <3> QED BY <3>1, <3>2 DEF Kinds
  <2>2. CASE Order(p) \/ Live(p) \/ Propose(p)
    BY <2>2, DeskAssumption DEF Order, Live, Propose, Kinds
  <2> QED BY <2>1, <2>2
<1> QED BY <1>1, DeskAssumption DEF Begin, IInv, TypeOK, stores

\* How a step changes the repeats of a request: it lets some go, turns a process
\* that is ready into one, or finds that there are none.
WindowMoves(req) ==
  \/ Repeats(req)' \subseteq Repeats(req) /\ Ready(req)' \subseteq Ready(req)
  \/ \E p \in Ready(req) : \E n : /\ Repeats(req)' \subseteq Repeats(req) \union {n}
                                   /\ Ready(req)' \subseteq Ready(req) \ {p}
  \/ Repeats(req)' = {}

LEMMA WindowStep ==
  ASSUME IInv, [Next]_vars, NEW req \in Requests
  PROVE  WindowMoves(req)
<1> USE DEF stores
<1>1. ASSUME NEW p \in Desks, Order(p) \/ Live(p) \/ Propose(p) \/ Approve(p)
      PROVE  WindowMoves(req)
  <2>1. PICK n \in Invocations :
          /\ asked[n].req = Nothing
          /\ \A m \in Invocations : m # n => asked'[m] = asked[m]
          /\ \A q \in Desks : q # p => desk'[q] = desk[q]
          /\ desk'[p].at \in {"gate", "review"}
          /\ UNCHANGED << intent, recent >>
    BY <1>1, Begins
  <2>2. intent[n] = "none" /\ \A q \in Desks : desk[q].id # n
    BY <2>1 DEF IInv, Untouched
  <2>3. Repeats(req)' \subseteq Repeats(req)
    BY <2>1, <2>2 DEF Repeats, IInv, TypeOK
  <2>4. Ready(req)' \subseteq Ready(req)
    BY <2>1, <2>2 DEF Ready, Ask, Id, IInv, TypeOK, Owners
  <2> QED BY <2>3, <2>4 DEF WindowMoves
<1>2. ASSUME NEW p \in Desks, Recheck(p)
      PROVE  WindowMoves(req)
  <2>1. UNCHANGED << asked, intent, recent >>
    BY <1>2 DEF Recheck
  <2>2. Repeats(req)' = Repeats(req)
    BY <2>1 DEF Repeats
  <2>3. CASE Leave(p)
    BY <2>1, <2>2, <2>3, NotReady DEF WindowMoves, IInv
  <2>4. CASE Ask(p).req = req /\ ~Blocked(p)
    <3>1. CASE Ask(p).override
      <4>1. Ready(req)' \subseteq Ready(req)
        BY <1>2, <2>1, <3>1 DEF Recheck, Leave, Goto, Idle, Ready, Ask, Id, IInv, TypeOK
      <4> QED BY <2>2, <4>1 DEF WindowMoves
    <3>2. CASE ~Ask(p).override
      <4>1. Duplicates(req) = {}
        BY <2>4, <3>2 DEF Blocked
      <4>2. Repeats(req) = {}
        BY <4>1 DEF Duplicates, ActiveStatuses, Repeats
      <4> QED BY <2>2, <4>2 DEF WindowMoves
    <3> QED BY <3>1, <3>2
  <2>5. CASE Ask(p).req # req
    <3>1. Ready(req)' \subseteq Ready(req)
      BY <1>2, <2>1, <2>5 DEF Recheck, Leave, Goto, Idle, Ready, Ask, Id, IInv, TypeOK
    <3> QED BY <2>2, <3>1 DEF WindowMoves
  <2> QED BY <1>2, <2>3, <2>4, <2>5 DEF Recheck
<1>3. ASSUME NEW p \in Desks, RecordPending(p)
      PROVE  WindowMoves(req)
  <2>1. /\ UNCHANGED asked /\ Goto(p, "place") /\ desk[p].at = "record"
        /\ desk[p].id \in Invocations
        /\ recent' = recent \union {desk[p].id}
        /\ \A m \in Invocations : m # desk[p].id => intent'[m] = intent[m]
    BY <1>3 DEF RecordPending, At, Id, IInv, TypeOK, Owners
  <2>2. Ready(req)' \subseteq Ready(req) \ {p}
    BY <2>1, NotReady DEF IInv, Labels
  <2>3. CASE p \in Ready(req)
    <3>1. Repeats(req)' \subseteq Repeats(req) \union {desk[p].id}
      BY <2>1 DEF Repeats, IInv, TypeOK
    <3> QED BY <2>2, <2>3, <3>1 DEF WindowMoves
  <2>4. CASE p \notin Ready(req)
    <3>1. Repeats(req)' \subseteq Repeats(req)
      BY <2>1, <2>4 DEF Repeats, Ready, Ask, Id, IInv, TypeOK
    <3> QED BY <2>2, <3>1 DEF WindowMoves
  <2> QED BY <2>3, <2>4
<1>4. ASSUME NEW p \in Desks,
             \/ Gate(p) \/ Review(p) \/ Screen(p) \/ Confirm(p) \/ Spend(p) \/ Place(p)
             \/ MarkFailed(p) \/ MarkSubmitted(p) \/ Track(p) \/ Count(p) \/ Crash(p)
      PROVE  WindowMoves(req)
  <2>1. UNCHANGED << asked, recent >>
    BY <1>4 DEF Gate, Review, Screen, Confirm, Spend, Place, MarkFailed, MarkSubmitted, Track, Count, Crash
  <2>2. Leave(p) \/ (\E l \in Labels \ {"record"} : Goto(p, l)) \/ UNCHANGED desk
    BY <1>4 DEF Gate, Review, Screen, Confirm, Spend, Place, Accepted, Ambiguous, Rejected, MarkFailed,
               MarkSubmitted, Track, Count, Crash, Labels
  <2>3. Ready(req)' \subseteq Ready(req)
    <3>1. CASE UNCHANGED desk
      BY <2>1, <3>1 DEF Ready, Ask, Id
    <3>2. CASE Leave(p) \/ \E l \in Labels \ {"record"} : Goto(p, l)
      BY <2>1, <3>2, NotReady DEF IInv
    <3> QED BY <2>2, <3>1, <3>2
  <2>4. \A n \in Invocations : intent'[n] \in {"pending", "submitted"} => intent[n] \in {"pending", "submitted"}
    <3>1. CASE MarkFailed(p)
      BY <3>1 DEF MarkFailed, SetIntent, IInv, TypeOK
    <3>2. CASE MarkSubmitted(p)
      <4>1. desk[p].at = "placed" /\ desk[p].id \in Invocations
        BY <3>2 DEF MarkSubmitted, At, IInv, Owners
      <4>2. intent[desk[p].id] \in {"pending", "submitted"}
        BY <4>1 DEF IInv, Progress, PlacedIsRecorded, Id
      <4> QED BY <3>2, <4>1, <4>2 DEF MarkSubmitted, SetIntent, Id, IInv, TypeOK
    <3>3. CASE ~(MarkFailed(p) \/ MarkSubmitted(p))
      BY <1>4, <3>3 DEF Gate, Review, Screen, Confirm, Spend, Place, Track, Count, Crash
    <3> QED BY <3>1, <3>2, <3>3
  <2>5. Repeats(req)' \subseteq Repeats(req)
    BY <2>1, <2>4 DEF Repeats, IInv, TypeOK
  <2> QED BY <2>3, <2>5 DEF WindowMoves
<1>5. CASE Halt \/ Resume \/ Age \/ Expire \/ UNCHANGED vars
  <2>1. UNCHANGED << asked, intent >> /\ recent' \subseteq recent
    BY <1>5 DEF Halt, Resume, Age, Expire, vars
  <2>2. \A q \in Desks : desk'[q].at = desk[q].at /\ desk'[q].id = desk[q].id
    BY <1>5 DEF Halt, Resume, Age, Expire, vars, IInv, TypeOK
  <2>3. Repeats(req)' \subseteq Repeats(req) /\ Ready(req)' \subseteq Ready(req)
    BY <2>1, <2>2 DEF Repeats, Ready, Ask, Id
  <2> QED BY <2>3 DEF WindowMoves
<1> QED BY <1>1, <1>2, <1>3, <1>4, <1>5 DEF Next, Submit

LEMMA WindowsInv == ASSUME IInv, IInv', [Next]_vars, Windows PROVE Windows'
<1> SUFFICES ASSUME NEW req \in Requests
             PROVE  Cardinality(Repeats(req)') + Cardinality(Ready(req)') <= Cardinality(Desks)
  BY DEF Windows
<1>1. PICK R, R1, P, P1 : R = Repeats(req) /\ R1 = Repeats(req)' /\ P = Ready(req) /\ P1 = Ready(req)'
  OBVIOUS
<1>2. IsFiniteSet(R) /\ P \in SUBSET Desks /\ Cardinality(Desks) \in Nat
  BY <1>1, RaceSets DEF IInv
<1>3. IsFiniteSet(R1) /\ P1 \in SUBSET Desks
  <2>1. R1 \in SUBSET Invocations
    BY <1>1 DEF Repeats, IInv, TypeOK
  <2>2. P1 \in SUBSET Desks
    BY <1>1 DEF Ready
  <2> QED BY <2>1, <2>2, FinitelyMany, FewerIsLess
<1>4. Cardinality(R) + Cardinality(P) <= Cardinality(Desks)
  BY <1>1 DEF Windows
<1>5. \/ R1 \subseteq R /\ P1 \subseteq P
      \/ \E p \in P : \E n : R1 \subseteq R \union {n} /\ P1 \subseteq P \ {p}
      \/ R1 = {}
  BY <1>1, WindowStep, Zenon DEF WindowMoves
<1>6. R1 = {} => Cardinality(R1) + Cardinality(Desks) <= Cardinality(Desks)
  BY <1>2, FS_EmptySet
<1>7. Cardinality(R1) + Cardinality(P1) <= Cardinality(Desks)
  BY <1>2, <1>3, <1>4, <1>5, <1>6, SumIsBounded
<1> QED BY <1>1, <1>7


\* How a step changes the strategies' counted orders: not at all, by turning one in
\* flight into one, or under a gate that has just read a count below the cap.
FlightMoves ==
  \/ Strategy' \subseteq Strategy /\ InFlight' \subseteq InFlight
  \/ \E p \in InFlight : \E n : /\ Strategy' \subseteq Strategy \union {n}
                                /\ InFlight' \subseteq InFlight \ {p}
  \/ Strategy' \subseteq Strategy /\ trades < MaxTrades

LEMMA FlightStep ==
  ASSUME IInv, [Next]_vars, Ledger
  PROVE  FlightMoves
<1> USE DEF stores
<1>1. ASSUME NEW p \in Desks, Order(p) \/ Live(p) \/ Propose(p) \/ Approve(p)
      PROVE  FlightMoves
  <2>1. PICK n \in Invocations :
          /\ asked[n].req = Nothing
          /\ \A m \in Invocations : m # n => asked'[m] = asked[m]
          /\ \A q \in Desks : q # p => desk'[q] = desk[q]
          /\ desk'[p].id = n
          /\ asked'[n].kind = "live" => desk'[p].at = "gate"
          /\ UNCHANGED counted
    BY <1>1, Begins
  <2>2. n \notin counted /\ \A q \in Desks : desk[q].id # n
    BY <2>1 DEF IInv, Untouched, Ledger
  <2>3. Strategy' \subseteq Strategy
    BY <2>1, <2>2 DEF Strategy, IInv, TypeOK
  <2>4. InFlight' \subseteq InFlight
    BY <2>1, <2>2 DEF InFlight, Ask, Id, IInv, TypeOK, Owners
  <2> QED BY <2>3, <2>4 DEF FlightMoves
<1>2. ASSUME NEW p \in Desks, Gate(p)
      PROVE  FlightMoves
  <2>1. UNCHANGED << asked, counted >> /\ (GateAllows \/ Leave(p))
    BY <1>2 DEF Gate
  <2>2. Strategy' = Strategy
    BY <2>1 DEF Strategy
  <2>3. CASE Leave(p)
    BY <2>1, <2>2, <2>3, StillInFlight DEF FlightMoves, IInv
  <2>4. CASE GateAllows
    BY <2>2, <2>4 DEF GateAllows, FlightMoves
  <2> QED BY <2>1, <2>3, <2>4
<1>3. ASSUME NEW p \in Desks, Count(p)
      PROVE  FlightMoves
  <2>1. /\ UNCHANGED asked /\ Leave(p) /\ desk[p].at = "count"
        /\ counted' = counted \union {desk[p].id}
    BY <1>3 DEF Count, At, Id
  <2>2. InFlight' \subseteq InFlight \ {p}
    BY <2>1, StillInFlight DEF IInv
  <2>3. CASE p \in InFlight
    <3>1. Strategy' \subseteq Strategy \union {desk[p].id}
      BY <2>1 DEF Strategy
    <3> QED BY <2>2, <2>3, <3>1 DEF FlightMoves
  <2>4. CASE p \notin InFlight
    <3>1. Strategy' \subseteq Strategy
      BY <2>1, <2>4 DEF Strategy, InFlight, Ask, Id
    <3> QED BY <2>2, <3>1 DEF FlightMoves
  <2> QED BY <2>3, <2>4
<1>4. ASSUME NEW p \in Desks,
             \/ Review(p) \/ Screen(p) \/ Confirm(p) \/ Spend(p) \/ Recheck(p) \/ RecordPending(p)
             \/ Place(p) \/ MarkFailed(p) \/ MarkSubmitted(p) \/ Track(p) \/ Crash(p)
      PROVE  FlightMoves
  <2>1. UNCHANGED << asked, counted >>
    BY <1>4 DEF Review, Screen, Confirm, Spend, Recheck, RecordPending, Place, MarkFailed, MarkSubmitted, Track, Crash
  <2>2. Leave(p) \/ (desk[p].at \notin {"idle", "gate"} /\ \E l \in Labels : Goto(p, l))
    BY <1>4 DEF Review, Screen, Confirm, Spend, Recheck, RecordPending, Place, Accepted, Ambiguous, Rejected,
               MarkFailed, MarkSubmitted, Track, Crash, Labels, At
  <2>3. InFlight' \subseteq InFlight
    BY <2>1, <2>2, StillInFlight DEF IInv
  <2>4. Strategy' = Strategy
    BY <2>1 DEF Strategy
  <2> QED BY <2>3, <2>4 DEF FlightMoves
<1>5. CASE Halt \/ Resume \/ Age \/ Expire \/ UNCHANGED vars
  <2>1. UNCHANGED << asked, counted >>
    BY <1>5 DEF Halt, Resume, Age, Expire, vars
  <2>2. \A q \in Desks : desk'[q].at = desk[q].at /\ desk'[q].id = desk[q].id
    BY <1>5 DEF Halt, Resume, Age, Expire, vars, IInv, TypeOK
  <2>3. Strategy' = Strategy /\ InFlight' \subseteq InFlight
    BY <2>1, <2>2 DEF Strategy, InFlight, Ask, Id
  <2> QED BY <2>3 DEF FlightMoves
<1> QED BY <1>1, <1>2, <1>3, <1>4, <1>5 DEF Next, Submit

LEMMA FlightsInv == ASSUME IInv, IInv', [Next]_vars, Flights, Ledger PROVE Flights'
<1>1. PICK R, R1, P, P1 : R = Strategy /\ R1 = Strategy' /\ P = InFlight /\ P1 = InFlight'
  OBVIOUS
<1>2. /\ IsFiniteSet(R) /\ P \in SUBSET Desks /\ Cardinality(R) \in Nat
      /\ Cardinality(Desks) \in Nat /\ MaxTrades \in Nat \ {0} /\ trades \in Nat
      /\ Cardinality(R) <= trades
  BY <1>1, RaceSets DEF IInv, Ledger
<1>3. IsFiniteSet(R1) /\ P1 \in SUBSET Desks
  <2>1. R1 \in SUBSET Invocations
    BY <1>1 DEF Strategy, IInv, TypeOK
  <2>2. P1 \in SUBSET Desks
    BY <1>1 DEF InFlight
  <2> QED BY <2>1, <2>2, FinitelyMany, FewerIsLess
<1>4. PICK bound \in Nat : bound = MaxTrades + Cardinality(Desks) - 1
  BY <1>2
<1>5. Cardinality(R) + Cardinality(P) <= bound
  BY <1>1, <1>4 DEF Flights
<1>6. \/ R1 \subseteq R /\ P1 \subseteq P
      \/ \E p \in P : \E n : R1 \subseteq R \union {n} /\ P1 \subseteq P \ {p}
      \/ R1 \subseteq R /\ trades < MaxTrades
  BY <1>1, FlightStep, Zenon DEF FlightMoves
<1>7. R1 \subseteq R /\ trades < MaxTrades => Cardinality(R1) + Cardinality(Desks) <= bound
  <2>1. R1 \subseteq R => Cardinality(R1) <= Cardinality(R) /\ Cardinality(R1) \in Nat
    BY <1>2, FewerIsLess
  <2> QED BY <1>2, <1>4, <2>1
<1>8. \/ R1 \subseteq R /\ P1 \subseteq P
      \/ \E p \in P : \E n : R1 \subseteq R \union {n} /\ P1 \subseteq P \ {p}
      \/ Cardinality(R1) + Cardinality(Desks) <= bound
  BY <1>6, <1>7, Zenon
<1>9. Cardinality(R1) + Cardinality(P1) <= bound
  BY <1>2, <1>3, <1>5, <1>8, SumIsBounded
<1> QED BY <1>1, <1>4, <1>9 DEF Flights

LEMMA LedgerInv == ASSUME IInv, IInv', [Next]_vars, Ledger PROVE Ledger'
<1> USE DEF stores
<1>1. ASSUME NEW p \in Desks, Order(p) \/ Live(p) \/ Propose(p) \/ Approve(p)
      PROVE  Ledger'
  <2>1. PICK n \in Invocations :
          /\ asked'[n].req # Nothing
          /\ \A m \in Invocations : m # n => asked'[m] = asked[m]
          /\ UNCHANGED << counted, trades >>
    BY <1>1, Begins
  <2> QED BY <2>1 DEF Ledger, IInv, TypeOK
<1>2. ASSUME NEW p \in Desks, Count(p)
      PROVE  Ledger'
  <2>1. /\ UNCHANGED asked /\ desk[p].at = "count" /\ trades' = trades + 1
        /\ counted' = counted \union {desk[p].id}
    BY <1>2 DEF Count, At, Id
  <2>2. desk[p].id \in Invocations /\ asked[desk[p].id].req # Nothing
    BY <2>1 DEF IInv, Owners, Untouched
  <2>3. Cardinality(counted') <= Cardinality(counted) + 1
    BY <2>1, RaceSets, OneMore DEF IInv
  <2>4. Cardinality(counted') \in Nat /\ Cardinality(counted) \in Nat /\ trades \in Nat
    <3>1. counted' \in SUBSET Invocations
      BY DEF IInv, TypeOK
    <3> QED BY <3>1, RaceSets, FinitelyMany, FewerIsLess DEF IInv
  <2> QED BY <2>1, <2>2, <2>3, <2>4 DEF Ledger
<1>3. CASE UNCHANGED << asked, counted, trades >>
  BY <1>3 DEF Ledger
<1>4. ASSUME NEW p \in Desks, Submit(p) \/ Crash(p), ~Count(p)
      PROVE  UNCHANGED << asked, counted, trades >>
  BY <1>4 DEF Submit, Gate, Review, Screen, Confirm, Spend, Recheck, RecordPending, Place, MarkFailed,
     MarkSubmitted, Track, Crash
<1>5. CASE Halt \/ Resume \/ Age \/ Expire \/ UNCHANGED vars
  BY <1>3, <1>5 DEF Halt, Resume, Age, Expire, vars
<1> QED BY <1>1, <1>2, <1>3, <1>4, <1>5 DEF Next

LEMMA InitRaces == Init => Races
<1> SUFFICES ASSUME Init PROVE Races
  OBVIOUS
<1>1. Strategy = {} /\ InFlight = {} /\ counted = {} /\ \A req : Repeats(req) = {} /\ Ready(req) = {}
  BY DEF Init, Strategy, InFlight, Repeats, Ready, Idle
<1>2. Cardinality({}) = 0 /\ Cardinality(Desks) \in Nat /\ MaxTrades \in Nat \ {0} /\ trades = 0
  BY FS_EmptySet, FS_CardinalityType, FinitelyMany, DeskAssumption DEF Init
<1>3. Windows
  BY <1>1, <1>2 DEF Windows
<1>4. Flights
  BY <1>1, <1>2 DEF Flights
<1>5. Ledger
  BY <1>1, <1>2 DEF Ledger
<1> QED BY <1>3, <1>4, <1>5 DEF Races

LEMMA RacesImply == IInv /\ Races => RacesAreBounded
<1> SUFFICES ASSUME IInv, Races PROVE RacesAreBounded
  OBVIOUS
<1> DEFINE live == { n \in recent : intent[n] \in {"pending", "submitted"} }
<1>1. ASSUME NEW req \in Requests
      PROVE  Cardinality({ n \in live : asked[n].req = req /\ ~asked[n].override }) <= Cardinality(Desks)
  <2>1. { n \in live : asked[n].req = req /\ ~asked[n].override } = Repeats(req)
    BY DEF Repeats
  <2>2. Cardinality(Repeats(req)) + Cardinality(Ready(req)) <= Cardinality(Desks)
    BY DEF Races, Windows
  <2>3. /\ Cardinality(Repeats(req)) \in Nat /\ Cardinality(Ready(req)) \in Nat
        /\ Cardinality(Desks) \in Nat
    BY RaceSets, FewerIsLess, FS_CardinalityType, FinitelyMany DEF IInv
  <2>4. Cardinality(Repeats(req)) <= Cardinality(Desks)
    BY <2>2, <2>3
  <2> QED BY <2>1, <2>4, Zenon
<1>2. Cardinality(Strategy) <= MaxTrades + Cardinality(Desks) - 1
  <2>1. /\ Cardinality(Strategy) \in Nat /\ Cardinality(InFlight) \in Nat
        /\ Cardinality(Desks) \in Nat /\ MaxTrades \in Nat
    BY RaceSets, FewerIsLess, FS_CardinalityType, FinitelyMany, DeskAssumption DEF IInv
  <2> QED BY <2>1 DEF Races, Flights
<1> QED BY <1>1, <1>2 DEF RacesAreBounded, Strategy

\* However many processes race, the orders a request may repeat within the duplicate
\* window without an override number at most the processes, and the strategies'
\* counted orders exceed the daily cap by less than that (state.py,
\* find_recent_duplicate; safety.py, SafetyGate.check).
THEOREM RacesStayBounded == Spec => []RacesAreBounded
<1>1. IInv /\ IInv' /\ Races /\ [Next]_vars => Races'
  BY WindowsInv, FlightsInv, LedgerInv DEF Races
<1>2. Spec => []Races
  BY <1>1, InitRaces, Invariance, PTL DEF Spec
<1> QED BY <1>2, RacesImply, Invariance, PTL

-----------------------------------------------------------------------------
(* BackupDesk: for any number of backups that start in seconds of their own *)

Moments == [added : Nat, removed : Nat]

Files ==
  [state : {"none", "empty", "torn", "whole"}, moment : Moments, writer : Desks \union {"none", "several"}]

Levels == {"not-run", "sqlite-full-read", "archive-toc", "archive-full-read"}

Manifests == [state : {"none", "torn", "written"}, counted : Moments, digest : Files, level : Levels]

JobPlaces ==
  {"idle", "produce", "blocks", "seal", "list", "read", "copy", "compare", "hash", "write"}

Jobs ==
  [at : JobPlaces, stamp : Backup!Stamps, counted : Moments, level : Levels, digest : Files]

BackupTypes ==
  /\ engine \in {"sqlite", "postgresql"}
  /\ source \in Moments /\ second \in Backup!Stamps /\ accidents \in Nat
  /\ artifact \in [Backup!Stamps -> Files]
  /\ manifest \in [Backup!Stamps -> Manifests]
  /\ job \in [Desks -> Jobs]

\* What a backup that stands where j says knows of its file.
Stage(p, j, f) ==
  /\ j.at = "blocks" => engine = "postgresql" /\ f.state = "empty" /\ f.writer = p
  /\ j.at = "seal" => engine = "postgresql" /\ f.state = "torn" /\ f.writer = p
  /\ j.at \in {"list", "read", "compare", "hash", "write"} => f.state = "whole"
  /\ j.at \in {"list", "read"} => engine = "postgresql"
  /\ j.at \in {"copy", "compare"} => engine = "sqlite"
  /\ j.at \notin {"idle", "produce", "copy"} => Backup!Before(j.counted, f.moment)
  /\ j.at \in {"hash", "write"} /\ engine = "sqlite" => Backup!Rows(j.counted) = Backup!Rows(f.moment)
  /\ j.at = "write" => j.digest = f

\* Each backup that is running has a name of its own, which no manifest bears yet.
Named ==
  /\ \A p, q \in Desks :
       job[p].at # "idle" /\ job[q].at # "idle" /\ job[p].stamp = job[q].stamp => p = q
  /\ \A p \in Desks : job[p].at # "idle" => manifest[job[p].stamp].state = "none"

\* No file and no count is ahead of the source.
Counted ==
  /\ \A n \in Backup!Stamps : Backup!Before(artifact[n].moment, source)
  /\ \A p \in Desks : Backup!Before(job[p].counted, source)

\* A manifest describes what was whole; only damage has come since.
Described ==
  \A n \in Backup!Stamps :
    LET told == manifest[n] IN
    told.state = "written" =>
      /\ told.digest.state = "whole" /\ Backup!Before(told.counted, told.digest.moment)
      /\ engine = "sqlite" => Backup!Rows(told.counted) = Backup!Rows(told.digest.moment)
      /\ artifact[n] \in { told.digest, [told.digest EXCEPT !.state = "torn"] }

BackupInv ==
  /\ BackupTypes /\ Named /\ Counted /\ Described
  /\ \A p \in Desks : Stage(p, job[p], artifact[job[p].stamp])

LEMMA StampsAre == 1 \in Backup!Stamps /\ Backup!Stamps \subseteq Nat
BY BackupAssumption DEF Backup!BackupAssumption, Backup!Stamps

\* What was before a moment stays before it, and Dawn is before every one.
LEMMA MomentsAre ==
  /\ Backup!Dawn \in Moments
  /\ \A m \in Moments : Backup!Before(m, m) /\ Backup!Before(Backup!Dawn, m)
  /\ \A l, m, n \in Moments : Backup!Before(l, m) /\ Backup!Before(m, n) => Backup!Before(l, n)
BY DEF Moments, Backup!Dawn, Backup!Before

LEMMA NoJobIs ==
  /\ Backup!NoJob \in Jobs /\ Backup!NoJob.at = "idle" /\ Backup!NoJob.counted = Backup!Dawn
  /\ Backup!NoFile \in Files /\ Backup!NoFile.moment = Backup!Dawn /\ Backup!NoFile.state = "none"
<1>1. Backup!NoFile \in Files /\ Backup!NoFile.moment = Backup!Dawn /\ Backup!NoFile.state = "none"
  BY MomentsAre DEF Backup!NoFile, Files
<1>2. /\ Backup!NoJob.at = "idle" /\ Backup!NoJob.counted = Backup!Dawn /\ Backup!NoJob \in Jobs
  BY <1>1, MomentsAre, StampsAre DEF Backup!NoJob, Jobs, JobPlaces, Levels
<1> QED BY <1>1, <1>2

LEMMA JobIs ==
  ASSUME BackupInv, NEW p \in Desks
  PROVE  /\ job[p] \in Jobs /\ job[p].at \in JobPlaces /\ job[p].stamp \in Backup!Stamps
         /\ job[p].counted \in Moments /\ job[p].level \in Levels /\ job[p].digest \in Files
         /\ Backup!File(p) \in Files /\ Backup!File(p) = artifact[job[p].stamp]
         /\ Backup!File(p).moment \in Moments /\ Backup!Before(Backup!File(p).moment, source)
         /\ Backup!Before(job[p].counted, source)
         /\ Stage(p, job[p], Backup!File(p)) /\ source \in Moments
BY DEF BackupInv, BackupTypes, Counted, Backup!File, Jobs, Files

\* A running backup moves on, touching no file but its own.
LEMMA BackupMoves ==
  ASSUME BackupInv, NEW p \in Desks, NEW f \in Files, NEW j \in Jobs, job[p].at # "idle",
         artifact' = [artifact EXCEPT ![job[p].stamp] = f], job' = [job EXCEPT ![p] = j],
         UNCHANGED << engine, source, second, manifest >>, accidents' \in Nat,
         Backup!Before(f.moment, source), Backup!Before(j.counted, source), j.at = "idle" \/ j.stamp = job[p].stamp,
         Stage(p, j, f)
  PROVE  BackupInv'
<1>1. PICK s \in Backup!Stamps : s = job[p].stamp
  BY JobIs
<1>2. /\ artifact' \in [Backup!Stamps -> Files] /\ artifact'[s] = f
      /\ \A n \in Backup!Stamps : n # s => artifact'[n] = artifact[n]
  BY <1>1 DEF BackupInv, BackupTypes
<1>3. /\ job' \in [Desks -> Jobs] /\ job'[p] = j
      /\ \A q \in Desks : q # p => job'[q] = job[q]
  BY DEF BackupInv, BackupTypes
<1>4. BackupTypes'
  BY <1>2, <1>3 DEF BackupInv, BackupTypes
<1>5. Named'
  BY <1>3 DEF BackupInv, Named
<1>6. Counted'
  BY <1>2, <1>3 DEF BackupInv, Counted
<1>7. manifest[s].state = "none"
  BY <1>1 DEF BackupInv, Named
<1>8. Described'
  BY <1>2, <1>7 DEF BackupInv, Described
<1>9. ASSUME NEW q \in Desks PROVE Stage(q, job'[q], artifact'[job'[q].stamp])
  <2>1. CASE q = p
    <3>1. j.at = "idle" => \A g : Stage(p, j, g)
      BY DEF Stage
    <3> QED BY <1>1, <1>2, <1>3, <2>1, <3>1
  <2>2. CASE q # p
    <3>1. PICK i \in Jobs : i = job[q]
      BY JobIs
    <3>2. Stage(q, i, artifact[i.stamp])
      BY <3>1 DEF BackupInv
    <3>3. CASE i.at # "idle"
      <4>1. i.stamp # s /\ i.stamp \in Backup!Stamps
        BY <1>1, <2>2, <3>1, <3>3 DEF BackupInv, Named, Jobs
      <4> QED BY <1>2, <1>3, <2>2, <3>1, <3>2, <4>1
    <3>4. CASE i.at = "idle"
      BY <1>3, <2>2, <3>1, <3>4 DEF Stage
    <3> QED BY <3>3, <3>4
  <2> QED BY <2>1, <2>2
<1> QED BY <1>4, <1>5, <1>6, <1>8, <1>9 DEF BackupInv, Stage

\* The same when its file stays as it is.
LEMMA BackupRests ==
  ASSUME BackupInv, NEW p \in Desks, NEW j \in Jobs, job[p].at # "idle",
         job' = [job EXCEPT ![p] = j], UNCHANGED << engine, source, second, artifact, manifest >>,
         accidents' \in Nat, Backup!Before(j.counted, source),
         j.at = "idle" \/ j.stamp = job[p].stamp, Stage(p, j, Backup!File(p))
  PROVE  BackupInv'
<1>1. PICK f \in Files : f = Backup!File(p)
  BY JobIs
<1>2. artifact' = [artifact EXCEPT ![job[p].stamp] = f]
  BY <1>1 DEF BackupInv, BackupTypes, Backup!File
<1>3. Backup!Before(f.moment, source) /\ Stage(p, j, f)
  BY <1>1, JobIs
<1> QED BY <1>2, <1>3, BackupMoves

\* It ends without a manifest; its file is gone or stays.
LEMMA RejectInv ==
  ASSUME BackupInv, NEW p \in Desks, job[p].at # "idle", Backup!Reject(p),
         UNCHANGED << engine, source, second, manifest >>, accidents' \in Nat
  PROVE  BackupInv'
<1>1. Backup!Before(Backup!NoJob.counted, source) /\ Backup!Before(Backup!NoFile.moment, source)
  <2>1. source \in Moments
    BY DEF BackupInv, BackupTypes
  <2> QED BY <2>1, NoJobIs, MomentsAre
<1>2. \A f : Stage(p, Backup!NoJob, f)
  BY NoJobIs DEF Stage
<1>3. CASE artifact' = [artifact EXCEPT ![job[p].stamp] = Backup!NoFile]
  <2>1. PICK f \in Files : f = Backup!NoFile
    BY NoJobIs
  <2>2. PICK j \in Jobs : j = Backup!NoJob
    BY NoJobIs
  <2> QED BY <1>1, <1>2, <1>3, <2>1, <2>2, NoJobIs, BackupMoves DEF Backup!Reject
<1>4. CASE UNCHANGED artifact
  BY <1>1, <1>2, <1>4, NoJobIs, BackupRests DEF Backup!Reject
<1> QED BY <1>3, <1>4 DEF Backup!Reject, Backup!Store

LEMMA SourceMovesInv == ASSUME BackupInv, Backup!RowAdded \/ Backup!RowRemoved PROVE BackupInv'
<1>1. UNCHANGED << engine, second, artifact, manifest, job, accidents >>
  BY DEF Backup!RowAdded, Backup!RowRemoved
<1>2. source \in Moments /\ source' \in Moments /\ Backup!Before(source, source')
  BY DEF Backup!RowAdded, Backup!RowRemoved, Backup!Before, Moments, BackupInv, BackupTypes
<1>3. \A m \in Moments : Backup!Before(m, source) => Backup!Before(m, source')
  BY <1>2, MomentsAre
<1>4. \A n \in Backup!Stamps : artifact[n].moment \in Moments
  BY DEF BackupInv, BackupTypes, Files
<1>5. \A p \in Desks : job[p].counted \in Moments
  BY JobIs
<1>6. Counted'
  BY <1>1, <1>3, <1>4, <1>5 DEF BackupInv, Counted
<1>7. BackupTypes'
  BY <1>1, <1>2 DEF BackupInv, BackupTypes
<1> QED BY <1>1, <1>6, <1>7 DEF BackupInv, Named, Described, Stage

LEMMA TickInv == ASSUME BackupInv, Backup!Tick PROVE BackupInv'
<1>1. second' \in Backup!Stamps
  BY BackupAssumption DEF Backup!BackupAssumption, Backup!Stamps, Backup!Tick, BackupInv, BackupTypes
<1> QED BY <1>1 DEF Backup!Tick, BackupInv, BackupTypes, Named, Counted, Described, Stage

LEMMA AccidentIs == ASSUME BackupInv, Backup!Accident PROVE accidents' \in Nat
BY DEF Backup!Accident, BackupInv, BackupTypes

LEMMA DamageInv == ASSUME BackupInv, NEW n \in Backup!Stamps, Backup!Damage(n) PROVE BackupInv'
<1>1. /\ UNCHANGED << engine, source, second, manifest, job >>
      /\ \A p \in Desks : job[p].at = "idle" \/ job[p].stamp # n
      /\ artifact' = [artifact EXCEPT ![n].state = "torn"]
  BY DEF Backup!Damage, Backup!InUse
<1>2. PICK f : f = [artifact[n] EXCEPT !.state = "torn"]
  OBVIOUS
<1>3. artifact[n] \in Files /\ f \in Files /\ f.moment = artifact[n].moment
  BY <1>2 DEF BackupInv, BackupTypes, Files
<1>4. /\ artifact' \in [Backup!Stamps -> Files] /\ artifact'[n] = f
      /\ \A m \in Backup!Stamps : m # n => artifact'[m] = artifact[m]
  BY <1>1, <1>2, <1>3 DEF BackupInv, BackupTypes
<1>5. BackupTypes'
  BY <1>1, <1>4, AccidentIs DEF Backup!Damage, BackupInv, BackupTypes
<1>6. Named'
  BY <1>1 DEF BackupInv, Named
<1>7. Counted'
  BY <1>1, <1>3, <1>4 DEF BackupInv, Counted
<1>8. ASSUME NEW m \in Backup!Stamps, manifest[m].state = "written",
             artifact[m] \in { manifest[m].digest, [manifest[m].digest EXCEPT !.state = "torn"] }
      PROVE  artifact'[m] \in { manifest[m].digest, [manifest[m].digest EXCEPT !.state = "torn"] }
  <2>1. CASE m # n
    BY <1>4, <1>8, <2>1
  <2>2. CASE m = n
    <3>1. PICK d \in Files : d = manifest[n].digest
      BY DEF BackupInv, BackupTypes, Manifests
    <3>2. f = [d EXCEPT !.state = "torn"]
      BY <1>2, <1>8, <2>2, <3>1 DEF Files
    <3> QED BY <1>4, <2>2, <3>1, <3>2
  <2> QED BY <2>1, <2>2
<1>9. Described'
  BY <1>1, <1>8 DEF BackupInv, Described
<1>10. ASSUME NEW p \in Desks PROVE Stage(p, job[p], artifact'[job[p].stamp])
  BY <1>1, <1>4, JobIs DEF BackupInv, Stage
<1> QED BY <1>1, <1>5, <1>6, <1>7, <1>9, <1>10 DEF BackupInv, Stage

LEMMA PlanInv == ASSUME BackupInv, NEW p \in Desks, Backup!Plan(p) PROVE BackupInv'
<1>1. /\ UNCHANGED << engine, source, second, artifact, manifest, accidents >>
      /\ job[p].at = "idle" /\ manifest[second].state = "none"
      /\ \A q \in Desks : job[q].at = "idle" \/ job[q].stamp # second
      /\ job' = [job EXCEPT ![p] = [Backup!NoJob EXCEPT !.at = "produce", !.stamp = second,
                                                        !.counted = source]]
  BY DEF Backup!Plan, Backup!NameIsFree, Backup!InUse
<1>2. PICK j : j = [Backup!NoJob EXCEPT !.at = "produce", !.stamp = second, !.counted = source]
  OBVIOUS
<1>3. j \in Jobs /\ j.at = "produce" /\ j.stamp = second /\ j.counted = source /\ source \in Moments
  BY <1>2, NoJobIs DEF BackupInv, BackupTypes, Jobs, JobPlaces
<1>4. /\ job' \in [Desks -> Jobs] /\ job'[p] = j
      /\ \A q \in Desks : q # p => job'[q] = job[q]
  BY <1>1, <1>2, <1>3 DEF BackupInv, BackupTypes
<1>5. BackupTypes'
  BY <1>1, <1>4 DEF BackupInv, BackupTypes
<1>6. Named'
  BY <1>1, <1>3, <1>4 DEF BackupInv, Named
<1>7. Counted'
  <2>1. Backup!Before(j.counted, source)
    BY <1>3, MomentsAre
  <2> QED BY <1>1, <1>4, <2>1 DEF BackupInv, Counted
<1>8. Described'
  BY <1>1 DEF BackupInv, Described
<1>9. ASSUME NEW q \in Desks PROVE Stage(q, job'[q], artifact[job'[q].stamp])
  BY <1>3, <1>4 DEF BackupInv, Stage
<1> QED BY <1>1, <1>5, <1>6, <1>7, <1>8, <1>9 DEF BackupInv, Stage

LEMMA ProduceInv ==
  ASSUME BackupInv, NEW p \in Desks,
         \/ Backup!OpenDump(p) \/ Backup!WriteDump(p) \/ Backup!SealDump(p)
         \/ Backup!OpenCopy(p) \/ Backup!Copy(p)
  PROVE  BackupInv'
<1>1. UNCHANGED << engine, source, second, manifest, accidents >> /\ accidents' \in Nat
  BY DEF Backup!OpenDump, Backup!WriteDump, Backup!SealDump, Backup!OpenCopy, Backup!Copy,
         BackupInv, BackupTypes
<1>2. ASSUME NEW label \in JobPlaces
      PROVE  /\ [job[p] EXCEPT !.at = label] \in Jobs
             /\ [job[p] EXCEPT !.at = label].at = label
             /\ [job[p] EXCEPT !.at = label].counted = job[p].counted
             /\ [job[p] EXCEPT !.at = label].stamp = job[p].stamp
  BY JobIs DEF Jobs
\* It suffices to look at the file and the place.
<1>3. ASSUME NEW f \in Files, NEW label \in {"blocks", "seal", "list", "copy", "compare"},
             job[p].at # "idle", artifact' = [artifact EXCEPT ![job[p].stamp] = f],
             job' = [job EXCEPT ![p].at = label], Backup!Before(f.moment, source),
             label = "blocks" => engine = "postgresql" /\ f.state = "empty" /\ f.writer = p,
             label = "seal" => engine = "postgresql" /\ f.state = "torn" /\ f.writer = p,
             label = "list" => engine = "postgresql" /\ f.state = "whole",
             label = "copy" => engine = "sqlite",
             label = "compare" => engine = "sqlite" /\ f.state = "whole",
             label # "copy" => Backup!Before(job[p].counted, f.moment)
      PROVE  BackupInv'
  <2>1. PICK j : j = [job[p] EXCEPT !.at = label]
    OBVIOUS
  <2>2. label \in JobPlaces
    BY DEF JobPlaces
  <2>3. j \in Jobs /\ j.at = label /\ j.counted = job[p].counted /\ j.stamp = job[p].stamp
    BY <1>2, <2>1, <2>2
  <2>4. Stage(p, j, f) /\ Backup!Before(j.counted, source)
    BY <1>3, <2>3, JobIs DEF Stage
  <2> QED BY <1>1, <1>3, <2>1, <2>3, <2>4, BackupMoves
<1>4. \A f \in Files : Backup!File(p) = f => artifact = [artifact EXCEPT ![job[p].stamp] = f]
  BY DEF BackupInv, BackupTypes, Backup!File
<1>5. CASE Backup!OpenDump(p)
  <2>1. PICK f : f = [state |-> "empty", moment |-> source, writer |-> p]
    OBVIOUS
  <2>2. f \in Files /\ Backup!Before(f.moment, source) /\ Backup!Before(job[p].counted, f.moment)
    BY <2>1, JobIs, MomentsAre DEF Files
  <2> QED BY <1>3, <1>5, <2>1, <2>2 DEF Backup!OpenDump, Backup!Store, Backup!Move
<1>6. CASE Backup!WriteDump(p)
  <2>1. PICK f : f = [Backup!File(p) EXCEPT !.state = "torn",
                                            !.writer = IF @ = p THEN p ELSE "several"]
    OBVIOUS
  <2>2. /\ engine = "postgresql" /\ Backup!File(p).state = "empty" /\ Backup!File(p).writer = p
        /\ Backup!Before(job[p].counted, Backup!File(p).moment) /\ job[p].at = "blocks"
    BY <1>6, JobIs DEF Stage, Backup!WriteDump
  <2>3. f \in Files /\ f.state = "torn" /\ f.writer = p /\ f.moment = Backup!File(p).moment
    BY <2>1, <2>2, JobIs DEF Files
  <2>4. artifact' = [artifact EXCEPT ![job[p].stamp] = f] /\ job' = [job EXCEPT ![p].at = "seal"]
    BY <1>6, <2>1, <2>2 DEF Backup!WriteDump, Backup!Store, Backup!Move
  <2> QED BY <1>3, <2>2, <2>3, <2>4, JobIs
<1>7. CASE Backup!SealDump(p)
  <2>1. PICK f : f = [Backup!File(p) EXCEPT !.state = "whole"]
    OBVIOUS
  <2>2. /\ engine = "postgresql" /\ Backup!File(p).writer = p
        /\ Backup!Before(job[p].counted, Backup!File(p).moment) /\ job[p].at = "seal"
    BY <1>7, JobIs DEF Stage, Backup!SealDump
  <2>3. f \in Files /\ f.state = "whole" /\ f.moment = Backup!File(p).moment
    BY <2>1, JobIs DEF Files
  <2>4. artifact' = [artifact EXCEPT ![job[p].stamp] = f] /\ job' = [job EXCEPT ![p].at = "list"]
    BY <1>7, <2>1, <2>2 DEF Backup!SealDump, Backup!Store, Backup!Move
  <2> QED BY <1>3, <2>2, <2>3, <2>4, JobIs
<1>8. CASE Backup!OpenCopy(p)
  <2>1. PICK f : f = IF Backup!File(p).state = "none"
                     THEN [state |-> "empty", moment |-> Backup!Dawn, writer |-> p] ELSE Backup!File(p)
    OBVIOUS
  <2>2. f \in Files /\ Backup!Before(f.moment, source)
    BY <2>1, JobIs, MomentsAre DEF Files
  <2>3. artifact' = [artifact EXCEPT ![job[p].stamp] = f] /\ job' = [job EXCEPT ![p].at = "copy"]
    BY <1>4, <1>8, <2>1, <2>2 DEF Backup!OpenCopy, Backup!Store, Backup!Move
  <2> QED BY <1>3, <1>8, <2>2, <2>3 DEF Backup!OpenCopy
<1>9. CASE Backup!Copy(p)
  <2>1. PICK f : f = [state |-> "whole", moment |-> source, writer |-> p]
    OBVIOUS
  <2>2. f \in Files /\ Backup!Before(f.moment, source) /\ Backup!Before(job[p].counted, f.moment) /\ f.state = "whole"
    BY <2>1, JobIs, MomentsAre DEF Files
  <2>3. engine = "sqlite"
    BY <1>9, JobIs DEF Backup!Copy, Stage
  <2> QED BY <1>3, <1>9, <2>1, <2>2, <2>3 DEF Backup!Copy, Backup!Store, Backup!Move
<1> QED BY <1>5, <1>6, <1>7, <1>8, <1>9

LEMMA BackupEndsInv ==
  ASSUME BackupInv, NEW p \in Desks, Backup!DumpFails(p) \/ Backup!Stop(p) PROVE BackupInv'
<1>1. CASE Backup!DumpFails(p)
  BY <1>1, AccidentIs, RejectInv DEF Backup!DumpFails
<1>2. CASE Backup!Stop(p)
  BY <1>2, AccidentIs, RejectInv DEF Backup!Stop, Backup!Reject
<1> QED BY <1>1, <1>2

LEMMA VerdictInv ==
  ASSUME BackupInv, NEW p \in Desks,
         \/ Backup!CompareCopy(p) \/ Backup!ListDump(p) \/ Backup!ReadDump(p)
         \/ Backup!ReadSkipped(p)
  PROVE  BackupInv'
<1>1. accidents' \in Nat /\ job[p].at # "idle"
  BY AccidentIs DEF Backup!CompareCopy, Backup!ListDump, Backup!ReadDump, Backup!ReadSkipped,
                    BackupInv, BackupTypes
<1>2. PICK label \in {"read", "hash"}, level \in Levels :
        /\ UNCHANGED << engine, source, second, manifest >>
        /\ \/ /\ label = "read" => engine = "postgresql"
              /\ Backup!File(p).state = "whole" /\ Backup!Before(job[p].counted, Backup!File(p).moment)
              /\ engine = "sqlite" => Backup!Rows(job[p].counted) = Backup!Rows(Backup!File(p).moment)
              /\ UNCHANGED artifact
              /\ job' = [job EXCEPT ![p].at = label, ![p].level = level]
           \/ Backup!Reject(p)
  <2>1. CASE Backup!CompareCopy(p)
    <3>1. Backup!SqlitePasses(Backup!File(p), job[p].counted) =>
            /\ Backup!File(p).state = "whole" /\ Backup!Before(job[p].counted, Backup!File(p).moment)
            /\ Backup!Rows(job[p].counted) = Backup!Rows(Backup!File(p).moment)
      BY <2>1, JobIs DEF Backup!SqlitePasses, Backup!CompareCopy, Stage
    <3>2. "sqlite-full-read" \in Levels
      BY DEF Levels
    <3> QED BY <2>1, <3>1, <3>2 DEF Backup!CompareCopy, Backup!Verdict
  <2>2. CASE Backup!ListDump(p)
    <3>1. /\ Backup!File(p).state = "whole" /\ Backup!Before(job[p].counted, Backup!File(p).moment)
          /\ engine = "postgresql"
      BY <2>2, JobIs DEF Backup!ListDump, Stage
    <3>2. "archive-toc" \in Levels
      BY DEF Levels
    <3> QED BY <2>2, <3>1, <3>2 DEF Backup!ListDump, Backup!Verdict
  <2>3. CASE Backup!ReadDump(p)
    <3>1. /\ Backup!File(p).state = "whole" /\ Backup!Before(job[p].counted, Backup!File(p).moment)
          /\ engine = "postgresql"
      BY <2>3, JobIs DEF Backup!ReadDump, Stage
    <3>2. "archive-full-read" \in Levels
      BY DEF Levels
    <3> QED BY <2>3, <3>1, <3>2 DEF Backup!ReadDump, Backup!Verdict
  <2>4. CASE Backup!ReadSkipped(p)
    <3>1. /\ Backup!File(p).state = "whole" /\ Backup!Before(job[p].counted, Backup!File(p).moment)
          /\ engine = "postgresql"
      BY <2>4, JobIs DEF Backup!ReadSkipped, Stage
    <3>2. "archive-toc" \in Levels
      BY DEF Levels
    <3> QED BY <2>4, <3>1, <3>2 DEF Backup!ReadSkipped, Backup!Verdict
  <2> QED BY <2>1, <2>2, <2>3, <2>4
<1>3. CASE Backup!Reject(p)
  BY <1>1, <1>2, <1>3, RejectInv
<1>4. CASE ~Backup!Reject(p)
  <2>1. PICK j : j = [job[p] EXCEPT !.at = label, !.level = level]
    OBVIOUS
  <2>2. /\ j \in Jobs /\ j.at = label /\ j.counted = job[p].counted /\ j.stamp = job[p].stamp
    BY <2>1, JobIs DEF Jobs, JobPlaces
  <2>3. Stage(p, j, Backup!File(p))
    BY <1>2, <1>4, <2>2, JobIs DEF Stage
  <2>4. job' = [job EXCEPT ![p] = j]
    BY <1>2, <1>4, <2>1
  <2> QED BY <1>1, <1>2, <1>4, <2>2, <2>3, <2>4, JobIs, BackupRests
<1> QED BY <1>3, <1>4

LEMMA HashInv == ASSUME BackupInv, NEW p \in Desks, Backup!Hash(p) PROVE BackupInv'
<1>1. /\ job[p].at = "hash" /\ Backup!File(p).state = "whole"
      /\ UNCHANGED << engine, source, second, artifact, manifest, accidents >>
  BY JobIs DEF Backup!Hash, Stage
<1>2. PICK j : j = [job[p] EXCEPT !.at = "write", !.digest = Backup!File(p)]
  OBVIOUS
<1>3. /\ j \in Jobs /\ j.at = "write" /\ j.counted = job[p].counted /\ j.stamp = job[p].stamp
      /\ j.digest = Backup!File(p)
  BY <1>2, JobIs DEF Jobs, JobPlaces
<1>4. Stage(p, j, Backup!File(p))
  BY <1>1, <1>3, JobIs DEF Stage
<1>5. job' = [job EXCEPT ![p] = j]
  BY <1>1, <1>2 DEF Backup!Hash
<1>6. accidents' \in Nat
  BY <1>1 DEF BackupInv, BackupTypes
<1> QED BY <1>1, <1>3, <1>4, <1>5, <1>6, JobIs, BackupRests

LEMMA WriteManifestInv ==
  ASSUME BackupInv, NEW p \in Desks, Backup!WriteManifest(p) PROVE BackupInv'
<1>1. PICK s \in Backup!Stamps : s = job[p].stamp
  BY JobIs
<1>2. /\ job[p].at = "write" /\ job' = [job EXCEPT ![p] = Backup!NoJob]
      /\ UNCHANGED << engine, source, second, artifact >>
  BY DEF Backup!WriteManifest
<1>3. PICK m \in Manifests :
        /\ manifest' = [manifest EXCEPT ![s] = m]
        /\ m.state = "torn" \/ (m.counted = job[p].counted /\ m.digest = job[p].digest)
  <2>1. CASE manifest' = [manifest EXCEPT ![job[p].stamp] = Backup!Described(p)]
    <3>1. PICK m : m = Backup!Described(p)
      OBVIOUS
    <3>2. m \in Manifests /\ m.counted = job[p].counted /\ m.digest = job[p].digest
      BY <3>1, JobIs DEF Backup!Described, Manifests
    <3> QED BY <1>1, <2>1, <3>1, <3>2
  <2>2. CASE manifest' = [manifest EXCEPT ![job[p].stamp] = [Backup!NoManifest EXCEPT !.state = "torn"]]
    <3>1. PICK m : m = [Backup!NoManifest EXCEPT !.state = "torn"]
      OBVIOUS
    <3>2. m \in Manifests /\ m.state = "torn"
      BY <3>1, NoJobIs, MomentsAre DEF Backup!NoManifest, Manifests, Levels
    <3> QED BY <1>1, <2>2, <3>1, <3>2
  <2> QED BY <2>1, <2>2 DEF Backup!WriteManifest
<1>4. accidents' \in Nat
  BY AccidentIs DEF Backup!WriteManifest, BackupInv, BackupTypes
<1>5. /\ manifest' \in [Backup!Stamps -> Manifests] /\ manifest'[s] = m
      /\ \A n \in Backup!Stamps : n # s => manifest'[n] = manifest[n]
  BY <1>3 DEF BackupInv, BackupTypes
<1>6. /\ job' \in [Desks -> Jobs] /\ job'[p] = Backup!NoJob
      /\ \A q \in Desks : q # p => job'[q] = job[q]
  BY <1>2, NoJobIs DEF BackupInv, BackupTypes
<1>7. BackupTypes'
  BY <1>2, <1>4, <1>5, <1>6 DEF BackupInv, BackupTypes
<1>8. Named'
  <2>1. \A q \in Desks : q # p /\ job[q].at # "idle" => job[q].stamp # s /\ job[q].stamp \in Backup!Stamps
    BY <1>1, <1>2, JobIs DEF BackupInv, Named
  <2>2. \A q \in Desks : job'[q].at # "idle" => q # p /\ job'[q] = job[q]
    BY <1>6, NoJobIs
  <2> QED BY <1>5, <2>1, <2>2 DEF BackupInv, Named
<1>9. Counted'
  <2>1. Backup!Before(Backup!NoJob.counted, source)
    BY NoJobIs, JobIs, MomentsAre
  <2> QED BY <1>2, <1>6, <2>1 DEF BackupInv, Counted
<1>10. Described'
  <2>1. /\ Backup!File(p).state = "whole" /\ Backup!Before(job[p].counted, Backup!File(p).moment)
        /\ engine = "sqlite" => Backup!Rows(job[p].counted) = Backup!Rows(Backup!File(p).moment)
        /\ job[p].digest = artifact[s] /\ Backup!File(p) = artifact[s]
    BY <1>1, <1>2, JobIs DEF Stage
  <2> QED BY <1>2, <1>3, <1>5, <2>1 DEF BackupInv, Described
<1>11. ASSUME NEW q \in Desks PROVE Stage(q, job'[q], artifact[job'[q].stamp])
  BY <1>6, NoJobIs DEF BackupInv, Stage
<1> QED BY <1>2, <1>7, <1>8, <1>9, <1>10, <1>11 DEF BackupInv, Stage

LEMMA BackupStepInv == BackupInv /\ [Backup!Next]_(Backup!vars) => BackupInv'
<1> SUFFICES ASSUME BackupInv, [Backup!Next]_(Backup!vars) PROVE BackupInv'
  OBVIOUS
<1>1. CASE UNCHANGED Backup!vars
  BY <1>1 DEF Backup!vars, BackupInv, BackupTypes, Named, Counted, Described, Stage
<1>2. CASE Backup!Next
  BY <1>2, SourceMovesInv, TickInv, DamageInv, PlanInv, ProduceInv, BackupEndsInv, VerdictInv,
     HashInv, WriteManifestInv DEF Backup!Next
<1> QED BY <1>1, <1>2

LEMMA InitBackupInv == Backup!Init => BackupInv
<1> SUFFICES ASSUME Backup!Init PROVE BackupInv
  OBVIOUS
<1>1. /\ \A n \in Backup!Stamps : artifact[n] = Backup!NoFile /\ manifest[n] = Backup!NoManifest
      /\ \A p \in Desks : job[p] = Backup!NoJob
      /\ source = Backup!Dawn
  BY DEF Backup!Init
<1>2. Backup!NoManifest \in Manifests /\ Backup!NoManifest.state = "none"
  BY NoJobIs, MomentsAre DEF Backup!NoManifest, Manifests, Levels
<1>3. BackupTypes
  BY <1>2, NoJobIs, MomentsAre, StampsAre DEF Backup!Init, BackupTypes
<1>4. Counted
  BY <1>1, NoJobIs, MomentsAre DEF Counted
<1> QED BY <1>1, <1>2, <1>3, <1>4, NoJobIs DEF BackupInv, Named, Described, Stage

LEMMA BackupInvariance == MCSpec => [](world = "backups" => BackupInv)
<1>1. MCInit => (world = "backups" => BackupInv)
  BY InitBackupInv DEF MCInit
<1>2. (world = "backups" => BackupInv)
        /\ [OrderStep \/ BackupStep \/ ReplayStep]_<< world, vars, backupVars, replayVars >>
      => (world = "backups" => BackupInv)'
  BY BackupStepInv DEF OrderStep, BackupStep, ReplayStep, backupVars, Backup!vars
<1> QED BY <1>1, <1>2, PTL DEF MCSpec

\* Whoever adds rows to the source or removes some, dies or fails meanwhile, a manifest
\* speaks of a whole file, which on SQLite holds as many rows as it counts and on
\* PostgreSQL differs from its counts by what was written after the plan only; and what
\* passes a later verification is a backup of that source since the counts (backup.py,
\* "unverified means failed").
THEOREM ManifestsSpeakTrue == MCSpec => []ManifestSpeaksTrue
<1>1. BackupInv => Backup!ManifestSpeaksTrue
  <2> SUFFICES ASSUME BackupInv, NEW n \in Backup!Stamps
               PROVE  LET told == manifest[n] IN
                      /\ told.state = "written" =>
                           /\ told.level # "archive-toc" => told.digest.state = "whole"
                           /\ engine = "sqlite" =>
                                Backup!Rows(told.counted) = Backup!Rows(told.digest.moment)
                           /\ Backup!Before(told.counted, told.digest.moment)
                           /\ artifact[n] \in { told.digest, [told.digest EXCEPT !.state = "torn"] }
                      /\ Backup!Passes(n) =>
                           /\ Backup!Before(told.counted, artifact[n].moment)
                           /\ Backup!Before(artifact[n].moment, source)
    BY DEF Backup!ManifestSpeaksTrue
  <2>1. manifest[n].state = "written" =>
          /\ manifest[n].digest.state = "whole"
          /\ Backup!Before(manifest[n].counted, manifest[n].digest.moment)
          /\ engine = "sqlite" =>
               Backup!Rows(manifest[n].counted) = Backup!Rows(manifest[n].digest.moment)
          /\ artifact[n] \in { manifest[n].digest, [manifest[n].digest EXCEPT !.state = "torn"] }
    BY DEF BackupInv, Described
  <2>2. Backup!Passes(n) => manifest[n].state = "written" /\ artifact[n] = manifest[n].digest
    BY DEF Backup!Passes
  <2> QED BY <2>1, <2>2 DEF BackupInv, Counted
<1>2. (world = "backups" => BackupInv) => ManifestSpeaksTrue
  BY <1>1 DEF ManifestSpeaksTrue
<1> QED BY <1>2, BackupInvariance, PTL

-----------------------------------------------------------------------------
(* ReplayLab: what counts as complete, for any payload *)

\* Every nonempty set of naturals has a least element.
LEMMA LeastNatural ==
  ASSUME NEW S \in SUBSET Nat, S # {}
  PROVE  \E n \in S : \A e \in S : n <= e
<1> DEFINE R == OpToRel(<, Nat)
<1>1. \A e, d \in Nat : e < d => << e, d >> \in R
  BY DEF OpToRel
<1>2. IsWellFoundedOn(R, Nat)
  BY NatLessThanWellFounded
<1> HIDE DEF R
<1>3. PICK d \in S : \A e \in S : ~ (<< e, d >> \in R)
  BY <1>2, WFMin
<1>4. S \subseteq Nat
  OBVIOUS
<1>5. \A e \in S : ~ (e < d)
  BY <1>1, <1>3, <1>4, Zenon
<1> QED BY <1>4, <1>5

Candles == {"a", "b", "invalid", "negative", "partial"}

LEMMA ElementIs == ASSUME NEW S, NEW s \in Seq(S), NEW i \in DOMAIN s PROVE i \in Nat /\ s[i] \in S
<1>1. DOMAIN s = 1..Len(s) /\ Len(s) \in Nat
  OBVIOUS
<1> QED BY <1>1

LEMMA LongerIs ==
  ASSUME NEW S, NEW s \in Seq(S), NEW e \in S
  PROVE  /\ s \o << e >> \in Seq(S) /\ Len(s \o << e >>) = Len(s) + 1
         /\ DOMAIN (s \o << e >>) = 1..(Len(s) + 1)
         /\ (s \o << e >>)[Len(s) + 1] = e /\ \A k \in 1..Len(s) : (s \o << e >>)[k] = s[k]
<1>1. << e >> \in Seq(S) /\ Len(<< e >>) = 1 /\ << e >>[1] = e /\ Len(s) \in Nat
  OBVIOUS
<1> QED BY <1>1

LEMMA PayloadIs ==
  ASSUME NEW p \in Payloads
  PROVE  /\ DOMAIN p \subseteq Nat
         /\ \A i \in DOMAIN p : /\ p[i].zoned \in BOOLEAN /\ p[i].slot \in 0..Slots
                                /\ p[i].bar \in Candles
<1>1. p \in Seq([zoned : BOOLEAN, slot : 0..Slots, bar : Candles])
  BY ReplayAssumption DEF Replay!ReplayAssumption, Candles
<1>2. \A i \in DOMAIN p : i \in Nat /\ p[i] \in [zoned : BOOLEAN, slot : 0..Slots, bar : Candles]
  BY <1>1, ElementIs
<1> QED BY <1>2

\* The bar of an interval is that of one of its complete candles.
LEMMA BarsAre ==
  ASSUME NEW p \in Payloads, NEW s \in Replay!Intervals
  PROVE  /\ Replay!Whole(p, s) = {} => Replay!Bars(p)[s] = "none"
         /\ Replay!Whole(p, s) # {} =>
              \E i \in Replay!Whole(p, s) : Replay!Bars(p)[s] = p[i].bar
<1>1. Replay!Bars(p)[s] =
        IF Replay!Whole(p, s) = {} THEN "none"
        ELSE p[CHOOSE i \in Replay!Whole(p, s) : \A j \in Replay!Whole(p, s) : i <= j].bar
  BY DEF Replay!Bars
<1>2. CASE Replay!Whole(p, s) # {}
  <2>1. Replay!Whole(p, s) \in SUBSET Nat
    BY PayloadIs DEF Replay!Whole, Replay!At
  <2>2. \E i \in Replay!Whole(p, s) : \A j \in Replay!Whole(p, s) : i <= j
    BY <1>2, <2>1, LeastNatural
  <2> QED BY <1>1, <1>2, <2>2
<1> QED BY <1>1, <1>2

LEMMA WholeIs ==
  ASSUME NEW p \in Payloads, NEW s \in Replay!Intervals, NEW i \in Replay!Whole(p, s)
  PROVE  i \in DOMAIN p /\ p[i].bar \in Candles \ {"partial"} /\ p[i].slot = s
BY PayloadIs DEF Replay!Whole, Replay!At

LEMMA MissingIs ==
  ASSUME NEW p \in Payloads, NEW s \in Replay!Intervals
  PROVE  Replay!Bars(p)[s] = "none" <=> Replay!Whole(p, s) = {}
BY BarsAre, WholeIs DEF Candles

\* What a session that is complete lacks.
Flawless(p) ==
  /\ p # << >>
  /\ \A i \in DOMAIN p : p[i].zoned
  /\ \A s \in Replay!Intervals : Replay!Bars(p)[s] # "none"
  /\ \A s \in Replay!Intervals : \A i, j \in Replay!Whole(p, s) : p[i].bar = p[j].bar
  /\ Replay!At(p, 0) = {}
  /\ \A s \in Replay!Intervals : Replay!Bars(p)[s] \notin {"invalid", "negative"}

LEMMA NoIssues ==
  ASSUME NEW p \in Payloads
  PROVE  Replay!Issues(p) \subseteq Replay!BenignIssues <=> Flawless(p)
<1> DEFINE missing == { s \in Replay!Intervals : Replay!Bars(p)[s] = "none" }
<1>1. /\ "empty_payload" \in Replay!Issues(p) <=> p = << >>
      /\ "invalid_timestamp" \in Replay!Issues(p) <=> \E i \in DOMAIN p : ~p[i].zoned
      /\ "missing_opening_bar" \in Replay!Issues(p) <=> 1 \in missing
      /\ "missing_final_bar" \in Replay!Issues(p) <=> Slots \in missing
      /\ "interior_gap" \in Replay!Issues(p) <=> missing \ {1, Slots} # {}
      /\ "conflicting_duplicate" \in Replay!Issues(p) <=>
           \E s \in Replay!Intervals : \E i, j \in Replay!Whole(p, s) : p[i].bar # p[j].bar
      /\ "out_of_session_bar" \in Replay!Issues(p) <=> Replay!At(p, 0) # {}
      /\ "invalid_ohlc" \in Replay!Issues(p) <=>
           \E s \in Replay!Intervals :
             Replay!Bars(p)[s] = "invalid" \/ (s \in missing /\ Replay!At(p, s) # {})
      /\ "negative_volume" \in Replay!Issues(p) <=>
           \E s \in Replay!Intervals : Replay!Bars(p)[s] = "negative"
  BY DEF Replay!Issues
<1>2. Replay!Issues(p) \subseteq
        {"empty_payload", "invalid_timestamp", "missing_opening_bar", "missing_final_bar",
         "interior_gap", "duplicate_timestamp", "conflicting_duplicate", "out_of_session_bar",
         "invalid_ohlc", "negative_volume"}
  BY DEF Replay!Issues
<1>3. missing = {} <=> \A s \in Replay!Intervals : Replay!Bars(p)[s] # "none"
  OBVIOUS
<1>4. missing = {} <=> 1 \notin missing /\ Slots \notin missing /\ missing \ {1, Slots} = {}
  OBVIOUS
<1>5. Replay!Issues(p) \subseteq Replay!BenignIssues <=>
        /\ "empty_payload" \notin Replay!Issues(p) /\ "invalid_timestamp" \notin Replay!Issues(p)
        /\ "missing_opening_bar" \notin Replay!Issues(p)
        /\ "missing_final_bar" \notin Replay!Issues(p) /\ "interior_gap" \notin Replay!Issues(p)
        /\ "conflicting_duplicate" \notin Replay!Issues(p)
        /\ "out_of_session_bar" \notin Replay!Issues(p) /\ "invalid_ohlc" \notin Replay!Issues(p)
        /\ "negative_volume" \notin Replay!Issues(p)
  BY <1>2 DEF Replay!BenignIssues
<1> HIDE DEF missing
<1>6. ASSUME Flawless(p) PROVE Replay!Issues(p) \subseteq Replay!BenignIssues
  <2>1. missing = {}
    BY <1>3, <1>6 DEF Flawless
  <2> QED BY <1>1, <1>4, <1>5, <1>6, <2>1 DEF Flawless
<1>7. ASSUME Replay!Issues(p) \subseteq Replay!BenignIssues PROVE Flawless(p)
  <2>1. missing = {}
    BY <1>1, <1>4, <1>5, <1>7
  <2> QED BY <1>1, <1>3, <1>5, <1>7, <2>1 DEF Flawless
<1> QED BY <1>6, <1>7

LEMMA FlawlessIsClean == \A p \in Payloads : Flawless(p) <=> Replay!Clean(p)
<1> SUFFICES ASSUME NEW p \in Payloads PROVE Flawless(p) <=> Replay!Clean(p)
  OBVIOUS
<1>1. ASSUME Flawless(p) PROVE Replay!Clean(p)
  <2>1. ASSUME NEW i \in DOMAIN p PROVE p[i].zoned /\ p[i].slot # 0
    BY <1>1 DEF Flawless, Replay!At
  <2>2. ASSUME NEW s \in Replay!Intervals
        PROVE  \E bar \in {"a", "b"} : /\ Replay!Whole(p, s) # {}
                                       /\ \A i \in Replay!Whole(p, s) : p[i].bar = bar
    <3>1. Replay!Whole(p, s) # {}
      BY <1>1, MissingIs DEF Flawless
    <3>2. PICK i \in Replay!Whole(p, s) : Replay!Bars(p)[s] = p[i].bar
      BY <3>1, BarsAre
    <3>3. p[i].bar \in {"a", "b"}
      BY <1>1, <3>2, WholeIs DEF Flawless, Candles
    <3> QED BY <1>1, <3>1, <3>3 DEF Flawless
  <2> QED BY <2>1, <2>2 DEF Replay!Clean
<1>2. ASSUME Replay!Clean(p) PROVE Flawless(p)
  <2>1. ASSUME NEW s \in Replay!Intervals
        PROVE  /\ Replay!Bars(p)[s] \in {"a", "b"}
               /\ \A i, j \in Replay!Whole(p, s) : p[i].bar = p[j].bar
    <3>1. PICK bar \in {"a", "b"} : /\ Replay!Whole(p, s) # {}
                                    /\ \A i \in Replay!Whole(p, s) : p[i].bar = bar
      BY <1>2 DEF Replay!Clean
    <3> QED BY <3>1, BarsAre
  <2>2. p # << >>
    <3>1. 1 \in Replay!Intervals
      BY ReplayAssumption DEF Replay!ReplayAssumption, Replay!Intervals
    <3>2. PICK i : i \in Replay!Whole(p, 1)
      BY <1>2, <3>1 DEF Replay!Clean
    <3> QED BY <3>1, <3>2, WholeIs
  <2>3. Replay!At(p, 0) = {} /\ \A i \in DOMAIN p : p[i].zoned
    BY <1>2 DEF Replay!Clean, Replay!At
  <2> QED BY <2>1, <2>2, <2>3 DEF Flawless
<1> QED BY <1>1, <1>2

\* What a download may have: the verdict on a payload, or a failure of the provider.
Findings ==
  { Replay!Validated(p) : p \in Payloads } \union { Replay!Unavailable(error) : error \in Errors }

LEMMA FindingsAreTrue ==
  ASSUME NEW e \in Findings
  PROVE  e.id.status = "complete" <=> (e.id.error = "none" /\ Replay!Clean(e.raw))
<1>1. ASSUME NEW p \in Payloads, e = Replay!Validated(p)
      PROVE  e.id.status = "complete" <=> (e.id.error = "none" /\ Replay!Clean(e.raw))
  <2>1. e.raw = p /\ e.id.error = "none"
        /\ e.id.status = IF Replay!Issues(p) \subseteq Replay!BenignIssues
                         THEN "complete" ELSE "incomplete"
    BY <1>1 DEF Replay!Validated, Replay!Identity
  <2> QED BY <2>1, NoIssues, FlawlessIsClean
<1>2. ASSUME NEW error \in Errors, e = Replay!Unavailable(error)
      PROVE  e.id.status = "complete" <=> (e.id.error = "none" /\ Replay!Clean(e.raw))
  <2>1. e.id.error = error /\ e.id.status = "unavailable"
    BY <1>2 DEF Replay!Unavailable, Replay!Identity
  <2> QED BY <2>1, ReplayAssumption DEF Replay!ReplayAssumption
<1> QED BY <1>1, <1>2 DEF Findings

-----------------------------------------------------------------------------
(* ReplayLab: the log, for any number of downloads at once *)

Identities == { e.id : e \in Findings }

Revisions ==
  [id : Identities, outcome : {"recorded", "corrected"}, previous : SUBSET Identities]

Downloads ==
  [at : {"idle", "register", "retrieve", "read", "write"}, universe : DOMAIN Universes \union {"none"},
   left : SUBSET Replay!Pairs, found : BOOLEAN, have : Findings \union {Replay!Unavailable("none")},
   latest : Nat, known : BOOLEAN]

Outcomes == {"recorded", "corrected", "unchanged"}

\* What a download tells the operator.
Tellings == [pair : Replay!Pairs, id : Identities, revision : Nat, outcome : Outcomes]

ReplayTypes ==
  /\ registered \subseteq DOMAIN Universes
  /\ log \in [Replay!Pairs -> Seq(Revisions)]
  /\ download \in [Desks -> Downloads]
  /\ reports \in [Desks -> SUBSET Tellings]

OnRecord(x, id) == \E row \in evidences : row.pair = x /\ row.id = id

\* The pair that comes first.
First(left) == CHOOSE x \in left : \A y \in left : x <= y

\* What a download that stands where j says knows of the tables.
Work(j) ==
  /\ j.at # "idle" => j.left # {} /\ j.universe \in DOMAIN Universes
  /\ j.at \in {"retrieve", "read", "write"} => j.universe \in registered
  /\ j.at \in {"read", "write"} => j.have \in Findings
  /\ j.at = "write" => /\ j.latest <= Len(log[First(j.left)])
                       /\ j.known => OnRecord(First(j.left), j.have.id)

\* Every row is a finding of its own, obtained for a universe that is registered.
Rows ==
  /\ \A row \in evidences :
       row.universe \in registered /\ \E e \in Findings : row.id = e.id /\ row.raw = e.raw
  /\ \A row, other \in evidences : row.pair = other.pair /\ row.id = other.id => row = other

Chained ==
  \A x \in Replay!Pairs : \A k \in DOMAIN log[x] :
    /\ OnRecord(x, log[x][k].id)
    /\ IF k = 1 THEN log[x][k].previous = {} /\ log[x][k].outcome = "recorded"
                ELSE /\ log[x][k].previous = {log[x][k - 1].id}
                     /\ log[x][k].id # log[x][k - 1].id
                     /\ log[x][k].outcome = "corrected"

\* What was reported is in the log.
Reported(told) ==
  /\ told.revision \in DOMAIN log[told.pair]
  /\ log[told.pair][told.revision].id = told.id
  /\ told.outcome # "unchanged" => log[told.pair][told.revision].outcome = told.outcome

ReplayInv ==
  /\ ReplayTypes /\ Rows /\ Chained
  /\ \A d \in Desks : Work(download[d])
  /\ \A d \in Desks : \A told \in reports[d] : Reported(told)

LEMMA PairsAre == \A x \in Replay!Pairs : x \in Nat
BY ReplayAssumption DEF Replay!ReplayAssumption, Replay!Pairs

LEMMA FirstIsLeft ==
  ASSUME NEW left \in SUBSET Replay!Pairs, left # {} PROVE First(left) \in left
<1>1. left \in SUBSET Nat
  BY PairsAre
<1>2. \E x \in left : \A y \in left : x <= y
  BY <1>1, LeastNatural
<1> QED BY <1>2 DEF First

LEMMA NoDownloadIs ==
  Replay!NoDownload \in Downloads /\ Replay!NoDownload.at = "idle"
BY DEF Replay!NoDownload, Downloads

LEMMA DownloadIs ==
  ASSUME ReplayInv, NEW d \in Desks
  PROVE  /\ download[d] \in Downloads /\ Work(download[d])
         /\ Replay!Current(d) = First(download[d].left)
         /\ download[d].at # "idle" =>
              /\ Replay!Current(d) \in Replay!Pairs /\ Replay!Current(d) \in download[d].left
              /\ log[Replay!Current(d)] \in Seq(Revisions)
<1>1. download[d] \in Downloads /\ Work(download[d])
  BY DEF ReplayInv, ReplayTypes
<1>2. Replay!Current(d) = First(download[d].left)
  BY DEF Replay!Current, First
<1>3. download[d].left \in SUBSET Replay!Pairs
  BY <1>1 DEF Downloads
<1>4. download[d].at # "idle" => Replay!Current(d) \in download[d].left
  BY <1>1, <1>2, <1>3, FirstIsLeft DEF Work
<1> QED BY <1>1, <1>2, <1>3, <1>4 DEF ReplayInv, ReplayTypes

\* A download moves on without writing to the log.
LEMMA ReplayMoves ==
  ASSUME ReplayInv, NEW d \in Desks, NEW j \in Downloads, download' = [download EXCEPT ![d] = j],
         UNCHANGED << evidences, log >>, registered \subseteq registered',
         registered' \subseteq DOMAIN Universes, Work(j)', NEW new \in SUBSET Tellings,
         reports' = [reports EXCEPT ![d] = new], \A told \in new : Reported(told)
  PROVE  ReplayInv'
<1>1. /\ download' \in [Desks -> Downloads] /\ download'[d] = j
      /\ \A e \in Desks : e # d => download'[e] = download[e]
  BY DEF ReplayInv, ReplayTypes
<1>2. reports'[d] = new /\ \A e \in Desks : e # d => reports'[e] = reports[e]
  BY DEF ReplayInv, ReplayTypes
<1>3. ReplayTypes'
  BY <1>1 DEF ReplayInv, ReplayTypes
<1>4. Rows' /\ Chained'
  BY DEF ReplayInv, Rows, Chained, OnRecord
<1>5. \A e \in Desks : Work(download[e])'
  BY <1>1 DEF ReplayInv, Work, OnRecord
<1>6. \A e \in Desks : \A told \in reports'[e] : Reported(told)'
  BY <1>2 DEF ReplayInv, Reported
<1> QED BY <1>3, <1>4, <1>5, <1>6 DEF ReplayInv

\* The same without a report, and when it ends.
LEMMA ReplayGoes ==
  ASSUME ReplayInv, NEW d \in Desks, NEW j \in Downloads, download' = [download EXCEPT ![d] = j],
         UNCHANGED << evidences, log, reports >>, registered \subseteq registered',
         registered' \subseteq DOMAIN Universes, Work(j)'
  PROVE  ReplayInv'
<1>1. PICK old : old = reports[d]
  OBVIOUS
<1>2. /\ old \in SUBSET Tellings /\ reports' = [reports EXCEPT ![d] = old]
      /\ \A told \in old : Reported(told)
  BY <1>1 DEF ReplayInv, ReplayTypes
<1> QED BY <1>2, ReplayMoves

LEMMA ReplayEnds ==
  ASSUME ReplayInv, NEW d \in Desks, download' = [download EXCEPT ![d] = Replay!NoDownload],
         UNCHANGED << evidences, log, reports, registered >>
  PROVE  ReplayInv'
<1>1. PICK j \in Downloads : j = Replay!NoDownload
  BY NoDownloadIs
<1>2. Work(j)'
  BY <1>1, NoDownloadIs DEF Work
<1>3. registered' \subseteq DOMAIN Universes
  BY DEF ReplayInv, ReplayTypes
<1> QED BY <1>1, <1>2, <1>3, ReplayGoes

LEMMA BeginReplayInv == ASSUME ReplayInv, NEW d \in Desks, Replay!Begin(d) PROVE ReplayInv'
<1>1. PICK u \in DOMAIN Universes :
        download' = [download EXCEPT ![d] =
          [Replay!NoDownload EXCEPT !.at = "register", !.universe = u, !.left = Universes[u],
                                    !.found = u \in registered]]
  BY DEF Replay!Begin
<1>2. PICK found \in BOOLEAN : found <=> u \in registered
  OBVIOUS
<1>3. PICK j : j = [Replay!NoDownload EXCEPT !.at = "register", !.universe = u, !.left = Universes[u],
                                             !.found = found]
  OBVIOUS
<1>4. Universes[u] # {} /\ Universes[u] \in SUBSET Replay!Pairs
  BY ReplayAssumption DEF Replay!ReplayAssumption, Replay!Pairs
<1>5. j \in Downloads /\ j.at = "register" /\ j.universe = u /\ j.left = Universes[u]
  BY <1>3, <1>4, NoDownloadIs DEF Downloads
<1>6. Work(j)'
  BY <1>4, <1>5 DEF Work
<1>7. download' = [download EXCEPT ![d] = j]
  BY <1>1, <1>2, <1>3
<1>8. UNCHANGED << registered, evidences, log >> /\ reports' = [reports EXCEPT ![d] = {}]
      /\ registered' \subseteq DOMAIN Universes
  BY DEF Replay!Begin, ReplayInv, ReplayTypes
<1>9. PICK new \in SUBSET Tellings : new = {}
  OBVIOUS
<1>10. \A told \in new : Reported(told)
  BY <1>9
<1> QED BY <1>5, <1>6, <1>7, <1>8, <1>9, <1>10, ReplayMoves

LEMMA RegisterInv == ASSUME ReplayInv, NEW d \in Desks, Replay!Register(d) PROVE ReplayInv'
<1>1. CASE Replay!Refused(d)
  BY <1>1, ReplayEnds DEF Replay!Refused
<1>2. CASE ~Replay!Refused(d)
  <2>1. /\ registered' = registered \union {download[d].universe}
        /\ download' = [download EXCEPT ![d].at = "retrieve"]
        /\ UNCHANGED << evidences, log, reports >> /\ download[d].at = "register"
    BY <1>2 DEF Replay!Register
  <2>2. PICK j : j = [download[d] EXCEPT !.at = "retrieve"]
    OBVIOUS
  <2>3. j \in Downloads /\ j.at = "retrieve" /\ j.universe = download[d].universe
        /\ j.left = download[d].left
    BY <2>2, DownloadIs DEF Downloads
  <2>4. download[d].left # {} /\ download[d].universe \in DOMAIN Universes
    BY <2>1, DownloadIs DEF Work
  <2>5. Work(j)'
    BY <2>1, <2>3, <2>4 DEF Work
  <2>6. registered' \subseteq DOMAIN Universes /\ registered \subseteq registered'
    BY <2>1, <2>4 DEF ReplayInv, ReplayTypes
  <2> QED BY <2>1, <2>2, <2>3, <2>5, <2>6, ReplayGoes
<1> QED BY <1>1, <1>2

LEMMA RetrieveInv == ASSUME ReplayInv, NEW d \in Desks, Replay!Retrieve(d) PROVE ReplayInv'
<1>1. PICK e \in Findings : download' = [download EXCEPT ![d].at = "read", ![d].have = e]
  BY DEF Replay!Retrieve, Findings
<1>2. UNCHANGED << registered, evidences, log, reports >> /\ download[d].at = "retrieve"
  BY DEF Replay!Retrieve
<1>3. PICK j : j = [download[d] EXCEPT !.at = "read", !.have = e]
  OBVIOUS
<1>4. j \in Downloads /\ j.at = "read" /\ j.universe = download[d].universe
      /\ j.left = download[d].left /\ j.have = e
  BY <1>3, DownloadIs DEF Downloads
<1>5. Work(j)'
  BY <1>2, <1>4, DownloadIs DEF Work
<1>6. registered' \subseteq DOMAIN Universes
  BY <1>2 DEF ReplayInv, ReplayTypes
<1> QED BY <1>1, <1>2, <1>3, <1>4, <1>5, <1>6, ReplayGoes

LEMMA ReadInv == ASSUME ReplayInv, NEW d \in Desks, Replay!Read(d) PROVE ReplayInv'
<1>1. PICK x : x = Replay!Current(d)
  OBVIOUS
<1>2. UNCHANGED << registered, evidences, log, reports >> /\ download[d].at = "read"
  BY DEF Replay!Read
<1>3. PICK known \in BOOLEAN :
        known <=> \E row \in evidences : row.pair = x /\ row.id = download[d].have.id
  OBVIOUS
<1>4. x \in Replay!Pairs /\ x = First(download[d].left) /\ log[x] \in Seq(Revisions)
  BY <1>1, <1>2, DownloadIs
<1>5. PICK latest \in Nat : latest = Len(log[x])
  BY <1>4
<1>6. PICK j : j = [download[d] EXCEPT !.at = "write", !.latest = latest, !.known = known]
  OBVIOUS
<1>7. j \in Downloads /\ j.at = "write" /\ j.universe = download[d].universe /\ j.known = known
      /\ j.left = download[d].left /\ j.have = download[d].have /\ j.latest = latest
  BY <1>6, DownloadIs DEF Downloads
<1>8. download' = [download EXCEPT ![d] = j]
  BY <1>1, <1>3, <1>5, <1>6 DEF Replay!Read
<1>9. Work(j)'
  <2>1. j.left # {} /\ j.universe \in DOMAIN Universes /\ j.universe \in registered
        /\ j.have \in Findings
    BY <1>2, <1>7, DownloadIs DEF Work
  <2>2. latest <= Len(log[First(j.left)])
    BY <1>4, <1>5, <1>7
  <2>3. j.known => OnRecord(First(j.left), j.have.id)
    BY <1>3, <1>4, <1>7 DEF OnRecord
  <2> QED BY <1>2, <1>7, <2>1, <2>2, <2>3 DEF Work, OnRecord
<1>10. registered' \subseteq DOMAIN Universes
  BY <1>2 DEF ReplayInv, ReplayTypes
<1> QED BY <1>2, <1>7, <1>8, <1>9, <1>10, ReplayGoes

\* Where a download stands after a report, and what it reported.
LEMMA ToldMoves ==
  ASSUME ReplayInv, NEW d \in Desks, download[d].at = "write", NEW outcome \in Outcomes,
         NEW revision \in Nat, Replay!Told(d, outcome, revision), UNCHANGED registered
  PROVE  /\ \E j \in Downloads : download' = [download EXCEPT ![d] = j] /\ Work(j)'
         /\ reports' = [reports EXCEPT ![d] = reports[d] \union
              {[pair |-> Replay!Current(d), id |-> download[d].have.id, outcome |-> outcome,
                revision |-> revision]}]
         /\ [pair |-> Replay!Current(d), id |-> download[d].have.id, outcome |-> outcome,
             revision |-> revision] \in Tellings
<1>1. PICK left : left = download[d].left \ {Replay!Current(d)}
  OBVIOUS
<1>2. left \in SUBSET Replay!Pairs /\ download[d].universe \in registered
      /\ download[d].universe \in DOMAIN Universes
  BY <1>1, DownloadIs DEF Downloads, Work
<1>3. PICK j : j = IF left = {} THEN Replay!NoDownload
                   ELSE [Replay!NoDownload EXCEPT !.at = "retrieve",
                           !.universe = download[d].universe, !.left = left]
  OBVIOUS
<1>4. download' = [download EXCEPT ![d] = j]
  BY <1>1, <1>3 DEF Replay!Told
<1>5. j \in Downloads /\ Work(j)'
  <2>1. CASE left = {}
    BY <1>3, <2>1, NoDownloadIs DEF Work
  <2>2. CASE left # {}
    <3>1. j \in Downloads /\ j.at = "retrieve" /\ j.universe = download[d].universe /\ j.left = left
      BY <1>2, <1>3, <2>2, NoDownloadIs DEF Downloads
    <3> QED BY <1>2, <2>2, <3>1 DEF Work
  <2> QED BY <2>1, <2>2
<1>6. reports' = [reports EXCEPT ![d] = reports[d] \union
        {[pair |-> Replay!Current(d), id |-> download[d].have.id, outcome |-> outcome,
          revision |-> revision]}]
  BY DEF Replay!Told
<1>7. Replay!Current(d) \in Replay!Pairs /\ download[d].have.id \in Identities
  BY DownloadIs DEF Work, Identities
<1> QED BY <1>4, <1>5, <1>6, <1>7 DEF Tellings

LEMMA UnchangedInv == ASSUME ReplayInv, NEW d \in Desks, Replay!Unchanged(d) PROVE ReplayInv'
<1>1. /\ download[d].at = "write" /\ UNCHANGED << registered, evidences, log >>
      /\ download[d].latest > 0 /\ Replay!Previous(d) = download[d].have.id
      /\ Replay!Told(d, "unchanged", download[d].latest)
  BY DEF Replay!Unchanged, Replay!Same
<1>2. PICK x, n : x = Replay!Current(d) /\ n = download[d].latest
  OBVIOUS
<1>3. n \in Nat /\ x \in Replay!Pairs /\ log[x] \in Seq(Revisions) /\ n <= Len(log[x])
  BY <1>1, <1>2, DownloadIs DEF Work, Downloads
<1>4. PICK told : told = [pair |-> x, id |-> download[d].have.id, outcome |-> "unchanged",
                          revision |-> n]
  OBVIOUS
<1>5. /\ \E j \in Downloads : download' = [download EXCEPT ![d] = j] /\ Work(j)'
      /\ reports' = [reports EXCEPT ![d] = reports[d] \union {told}] /\ told \in Tellings
  BY <1>1, <1>2, <1>3, <1>4, ToldMoves DEF Outcomes
<1>6. Reported(told)
  <2>1. n \in DOMAIN log[x]
    BY <1>1, <1>2, <1>3
  <2>2. log[x][n].id = download[d].have.id
    BY <1>1, <1>2 DEF Replay!Previous
  <2> QED BY <1>4, <2>1, <2>2 DEF Reported
<1>7. PICK new : new = reports[d] \union {told}
  OBVIOUS
<1>8. new \in SUBSET Tellings /\ \A one \in new : Reported(one)
  BY <1>5, <1>6, <1>7 DEF ReplayInv, ReplayTypes
<1>9. registered' \subseteq DOMAIN Universes
  BY <1>1 DEF ReplayInv, ReplayTypes
<1> QED BY <1>1, <1>5, <1>7, <1>8, <1>9, ReplayMoves

LEMMA WriteReplayInv == ASSUME ReplayInv, NEW d \in Desks, Replay!Write(d) PROVE ReplayInv'
<1>1. CASE Replay!Refused(d)
  BY <1>1, ReplayEnds DEF Replay!Refused
<1>2. CASE ~Replay!Refused(d)
  <2>1. PICK x, n, have, known :
          /\ x = Replay!Current(d) /\ n = download[d].latest /\ have = download[d].have
          /\ known = download[d].known
    OBVIOUS
  <2>2. download[d].at = "write" /\ ~Replay!Same(d) /\ ~Replay!Collides(d) /\ registered' = registered
    BY <1>2 DEF Replay!Write
  <2>3. /\ n \in Nat /\ x \in Replay!Pairs /\ log[x] \in Seq(Revisions) /\ n <= Len(log[x])
        /\ have \in Findings /\ known \in BOOLEAN /\ (known => OnRecord(x, have.id))
        /\ download[d].universe \in registered
    BY <2>1, <2>2, DownloadIs DEF Work, Downloads
  <2>4. n = Len(log[x]) /\ (~known => ~OnRecord(x, have.id)) /\ (n > 0 => log[x][n].id # have.id)
    <3>1. Len(log[x]) \in Nat /\ ~(Len(log[x]) > n)
      BY <2>1, <2>2, <2>3 DEF Replay!Collides
    <3>2. ~known => ~OnRecord(x, have.id)
      BY <2>1, <2>2 DEF Replay!Collides, OnRecord
    <3>3. n > 0 => log[x][n].id # have.id
      BY <2>1, <2>2 DEF Replay!Same, Replay!Previous
    <3> QED BY <2>3, <3>1, <3>2, <3>3
  <2>5. PICK old \in Seq(Revisions) : old = log[x]
    BY <2>3
  <2>6. PICK outcome : outcome = IF n = 0 THEN "recorded" ELSE "corrected"
    OBVIOUS
  <2>7. PICK entry : entry = [id |-> have.id, outcome |-> outcome,
                              previous |-> IF n = 0 THEN {} ELSE {old[n].id}]
    OBVIOUS
  <2>8. PICK row : row = [pair |-> x, universe |-> download[d].universe, id |-> have.id,
                          issues |-> have.issues, raw |-> have.raw]
    OBVIOUS
  <2>9. /\ evidences' = IF known THEN evidences ELSE evidences \union {row}
        /\ log' = [log EXCEPT ![x] = SubSeq(old, 1, n) \o << entry >>]
        /\ Replay!Told(d, outcome, n + 1)
    BY <1>2, <2>1, <2>2, <2>5, <2>6, <2>7, <2>8 DEF Replay!Write, Replay!Previous
  <2>10. /\ entry \in Revisions /\ entry.id = have.id /\ entry.outcome = outcome
         /\ entry.previous = IF n = 0 THEN {} ELSE {old[n].id}
    <3>1. have.id \in Identities /\ outcome \in {"recorded", "corrected"}
      BY <2>3, <2>6 DEF Identities
    <3>2. n > 0 => old[n].id \in Identities
      <4>1. n > 0 => n \in DOMAIN old
        BY <2>3, <2>4, <2>5
      <4>2. n > 0 => old[n] \in Revisions
        BY <4>1, ElementIs
      <4> QED BY <4>2 DEF Revisions
    <3>3. (IF n = 0 THEN {} ELSE {old[n].id}) \in SUBSET Identities
      BY <2>3, <3>2
    <3> QED BY <2>7, <3>1, <3>3 DEF Revisions
  <2>11. PICK longer : longer = SubSeq(old, 1, n) \o << entry >>
    OBVIOUS
  <2>12. /\ longer \in Seq(Revisions) /\ Len(longer) = n + 1 /\ DOMAIN longer = 1..(n + 1)
         /\ longer[n + 1] = entry /\ \A k \in 1..n : longer[k] = old[k]
    <3>1. n = Len(old)
      BY <2>4, <2>5
    <3>2. SubSeq(old, 1, n) = old
      BY <2>3, <3>1
    <3>3. longer = old \o << entry >>
      BY <2>11, <3>2
    <3> QED BY <2>3, <2>10, <3>1, <3>3, LongerIs
  <2>13. /\ log' \in [Replay!Pairs -> Seq(Revisions)] /\ log'[x] = longer
         /\ \A y \in Replay!Pairs : y # x => log'[y] = log[y]
    BY <2>3, <2>9, <2>11, <2>12 DEF ReplayInv, ReplayTypes
  <2>14. evidences \subseteq evidences' /\ (~known => row \in evidences')
         /\ \A one \in evidences' : one \in evidences \/ (~known /\ one = row)
    BY <2>3, <2>9
  <2>15. \A y, id : OnRecord(y, id) => OnRecord(y, id)'
    BY <2>14 DEF OnRecord
  <2>16. OnRecord(x, have.id)'
    BY <2>3, <2>8, <2>14, <2>15 DEF OnRecord
  <2>17. PICK told : told = [pair |-> x, id |-> have.id, outcome |-> outcome, revision |-> n + 1]
    OBVIOUS
  <2>18. /\ \E j \in Downloads : download' = [download EXCEPT ![d] = j] /\ Work(j)'
         /\ reports' = [reports EXCEPT ![d] = reports[d] \union {told}] /\ told \in Tellings
    <3>1. n + 1 \in Nat /\ outcome \in Outcomes
      BY <2>3, <2>6 DEF Outcomes
    <3> QED BY <2>1, <2>2, <2>9, <2>17, <3>1, ToldMoves
  <2>19. PICK j \in Downloads : download' = [download EXCEPT ![d] = j] /\ Work(j)'
    BY <2>18
  <2>20. /\ download' \in [Desks -> Downloads] /\ download'[d] = j
         /\ \A e \in Desks : e # d => download'[e] = download[e]
         /\ reports'[d] = reports[d] \union {told}
         /\ \A e \in Desks : e # d => reports'[e] = reports[e]
    BY <2>18, <2>19 DEF ReplayInv, ReplayTypes
  <2>21. ReplayTypes'
    BY <2>2, <2>13, <2>18, <2>20 DEF ReplayInv, ReplayTypes
  <2>22. Rows'
    <3>1. \A one \in evidences' :
            one.universe \in registered' /\ \E e \in Findings : one.id = e.id /\ one.raw = e.raw
      BY <2>2, <2>3, <2>8, <2>14 DEF ReplayInv, Rows
    <3>2. ASSUME NEW one \in evidences', NEW other \in evidences',
                 one.pair = other.pair, one.id = other.id
          PROVE  one = other
      <4>1. \A e \in evidences : ~known => ~(e.pair = row.pair /\ e.id = row.id)
        BY <2>4, <2>8 DEF OnRecord
      <4> QED BY <2>14, <3>2, <4>1 DEF ReplayInv, Rows
    <3> QED BY <3>1, <3>2 DEF Rows
  \* Entries before the new one are as they were.
  <2>23. ASSUME NEW y \in Replay!Pairs, NEW k \in DOMAIN log[y]
         PROVE  k \in DOMAIN log'[y] /\ log'[y][k] = log[y][k]
    <3>1. CASE y # x
      BY <2>13, <3>1
    <3>2. CASE y = x
      <4>1. k \in 1..n
        BY <2>4, <2>5, <3>2
      <4>2. k \in 1..(n + 1)
        BY <2>3, <4>1
      <4> QED BY <2>5, <2>12, <2>13, <3>2, <4>1, <4>2
    <3> QED BY <3>1, <3>2
  <2>24. ASSUME NEW y \in Replay!Pairs, NEW k \in DOMAIN log'[y]
         PROVE  /\ OnRecord(y, log[y][k].id)'
                /\ IF k = 1 THEN log'[y][k].previous = {} /\ log'[y][k].outcome = "recorded"
                            ELSE /\ log'[y][k].previous = {log'[y][k - 1].id}
                                 /\ log'[y][k].id # log'[y][k - 1].id
                                 /\ log'[y][k].outcome = "corrected"
    <3>1. CASE k \in DOMAIN log[y]
      <4>1. /\ OnRecord(y, log[y][k].id)
            /\ IF k = 1 THEN log[y][k].previous = {} /\ log[y][k].outcome = "recorded"
                        ELSE /\ log[y][k].previous = {log[y][k - 1].id}
                             /\ log[y][k].id # log[y][k - 1].id
                             /\ log[y][k].outcome = "corrected"
        BY <3>1 DEF ReplayInv, Chained
      <4>2. log'[y][k] = log[y][k]
        BY <2>23, <3>1
      <4>3. k # 1 => log'[y][k - 1] = log[y][k - 1]
        <5>1. PICK s \in Seq(Revisions) : s = log[y]
          BY DEF ReplayInv, ReplayTypes
        <5>2. k # 1 => k - 1 \in DOMAIN s
          BY <3>1, <5>1
        <5> QED BY <2>23, <5>1, <5>2
      <4>4. PICK id : id = log[y][k].id
        OBVIOUS
      <4>5. OnRecord(y, id)'
        BY <2>15, <4>1, <4>4
      <4> QED BY <4>1, <4>2, <4>3, <4>4, <4>5 DEF OnRecord
    <3>2. CASE k \notin DOMAIN log[y]
      <4>1. y = x /\ k = n + 1
        <5>1. y = x
          BY <2>13, <3>2
        <5>2. DOMAIN log[y] = 1..n
          BY <2>3, <2>4, <5>1
        <5> QED BY <2>3, <2>12, <2>13, <3>2, <5>1, <5>2
      <4>2. log'[y][k] = entry
        BY <2>12, <2>13, <4>1
      <4>3. OnRecord(y, log[y][k].id)'
        BY <2>10, <2>16, <4>1, <4>2 DEF OnRecord
      <4>4. CASE n = 0
        BY <2>6, <2>10, <4>1, <4>2, <4>3, <4>4
      <4>5. CASE n > 0
        <5>1. k # 1 /\ k - 1 = n /\ n \in 1..n
          BY <2>3, <4>1, <4>5
        <5>2. log'[y][k - 1] = old[n]
          BY <2>12, <2>13, <4>1, <5>1
        <5>3. old[n].id # have.id
          BY <2>4, <2>5, <4>5
        <5>4. n # 0
          BY <2>3, <4>5
        <5> QED BY <2>6, <2>10, <4>2, <4>3, <5>1, <5>2, <5>3, <5>4
      <4> QED BY <2>3, <4>4, <4>5
    <3> QED BY <3>1, <3>2
  <2>25. Chained'
    BY <2>24 DEF Chained
  <2>26. \A e \in Desks : Work(download[e])'
    <3>1. ASSUME NEW e \in Desks, e # d PROVE Work(download[e])'
      <4>1. PICK i : i = download[e]
        OBVIOUS
      <4>2. i \in Downloads /\ Work(i)
        BY <4>1 DEF ReplayInv, ReplayTypes
      <4>3. i.at = "write" => i.latest <= Len(log'[First(i.left)])
        <5> SUFFICES ASSUME i.at = "write" PROVE i.latest <= Len(log'[First(i.left)])
          OBVIOUS
        <5>1. PICK y : y = First(i.left)
          OBVIOUS
        <5>2. y \in Replay!Pairs /\ log[y] \in Seq(Revisions) /\ i.latest \in Nat
              /\ i.latest <= Len(log[y])
          BY <3>1, <4>1, <4>2, <5>1, DownloadIs DEF Work, Downloads
        <5>3. CASE y # x
          BY <2>13, <5>1, <5>2, <5>3
        <5>4. CASE y = x
          <6>1. Len(log'[y]) = n + 1 /\ Len(log[y]) = n
            BY <2>4, <2>12, <2>13, <5>4
          <6> QED BY <2>3, <5>1, <5>2, <6>1
        <5> QED BY <5>3, <5>4
      <4>4. OnRecord(First(i.left), i.have.id) => OnRecord(First(i.left), i.have.id)'
        BY <2>14 DEF OnRecord
      <4>5. Work(i)'
        BY <2>2, <4>2, <4>3, <4>4 DEF Work
      <4> QED BY <2>20, <3>1, <4>1, <4>5 DEF Work, OnRecord
    <3> QED BY <2>19, <2>20, <3>1 DEF Work, OnRecord
  <2>27. ASSUME NEW e \in Desks, NEW one \in reports'[e] PROVE Reported(one)'
    <3>1. CASE one = told
      <4>1. n + 1 \in DOMAIN log'[x] /\ log'[x][n + 1] = entry
        BY <2>3, <2>12, <2>13
      <4> QED BY <2>10, <2>17, <3>1, <4>1 DEF Reported
    <3>2. CASE one # told
      <4>1. Reported(one) /\ one.pair \in Replay!Pairs
        BY <2>20, <3>2 DEF ReplayInv, ReplayTypes, Tellings
      <4> QED BY <2>23, <4>1 DEF Reported
    <3> QED BY <3>1, <3>2
  <2> QED BY <2>21, <2>22, <2>25, <2>26, <2>27 DEF ReplayInv
<1> QED BY <1>1, <1>2

LEMMA ReplayStepInv == ReplayInv /\ [Replay!Next]_(Replay!vars) => ReplayInv'
<1> SUFFICES ASSUME ReplayInv, [Replay!Next]_(Replay!vars) PROVE ReplayInv'
  OBVIOUS
<1>1. CASE UNCHANGED Replay!vars
  BY <1>1 DEF Replay!vars, ReplayInv, ReplayTypes, Rows, Chained, Work, OnRecord, Reported
<1>2. ASSUME NEW d \in Desks, Replay!Crash(d) PROVE ReplayInv'
  BY <1>2, ReplayEnds DEF Replay!Crash
<1>3. CASE Replay!Next
  BY <1>2, <1>3, BeginReplayInv, RegisterInv, RetrieveInv, ReadInv, UnchangedInv, WriteReplayInv
     DEF Replay!Next
<1> QED BY <1>1, <1>3

LEMMA InitReplayInv == Replay!Init => ReplayInv
<1> SUFFICES ASSUME Replay!Init PROVE ReplayInv
  OBVIOUS
<1>1. /\ registered = {} /\ evidences = {} /\ \A x \in Replay!Pairs : log[x] = << >>
      /\ \A d \in Desks : download[d] = Replay!NoDownload /\ reports[d] = {}
  BY DEF Replay!Init
<1>2. ReplayTypes
  <2>1. << >> \in Seq(Revisions)
    OBVIOUS
  <2> QED BY <2>1, NoDownloadIs DEF Replay!Init, ReplayTypes
<1> QED BY <1>1, <1>2, NoDownloadIs DEF ReplayInv, Rows, Chained, Work

LEMMA ReplayInvariance == MCSpec => [](world = "replay" => ReplayInv)
<1>1. MCInit => (world = "replay" => ReplayInv)
  BY InitReplayInv DEF MCInit
<1>2. (world = "replay" => ReplayInv)
        /\ [OrderStep \/ BackupStep \/ ReplayStep]_<< world, vars, backupVars, replayVars >>
      => (world = "replay" => ReplayInv)'
  BY ReplayStepInv DEF OrderStep, BackupStep, ReplayStep, replayVars, Replay!vars
<1> QED BY <1>1, <1>2, PTL DEF MCSpec

\* However downloads collide, die and are repeated, for any payloads: the revisions of
\* a pair are a chain of real corrections over registered content, reports name what
\* the log holds, and only a whole session without contradiction counts as complete
\* (historical_replay.py, storage/historical_replay.py).
THEOREM TheResearchIsSound == MCSpec => []ResearchIsSound
<1>1. ReplayInv => Replay!ResearchIsSound
  <2> SUFFICES ASSUME ReplayInv PROVE Replay!ResearchIsSound
    OBVIOUS
  <2>1. ASSUME NEW x \in Replay!Pairs, NEW k \in DOMAIN log[x]
        PROVE  /\ \E row \in evidences :
                    row.pair = x /\ row.id = log[x][k].id /\ row.universe \in registered
               /\ IF k = 1 THEN log[x][k].previous = {} /\ log[x][k].outcome = "recorded"
                           ELSE /\ log[x][k].previous = {log[x][k - 1].id}
                                /\ log[x][k].id # log[x][k - 1].id
                                /\ log[x][k].outcome = "corrected"
    BY DEF ReplayInv, Chained, Rows, OnRecord
  <2>2. \A row \in evidences :
          row.id.status = "complete" <=> (row.id.error = "none" /\ Replay!Clean(row.raw))
    BY FindingsAreTrue DEF ReplayInv, Rows
  <2>3. \A d \in Desks : \A told \in reports[d] :
          /\ told.revision \in DOMAIN log[told.pair]
          /\ log[told.pair][told.revision].id = told.id
          /\ told.outcome # "unchanged" => log[told.pair][told.revision].outcome = told.outcome
    BY DEF ReplayInv, Reported
  <2>4. \A row, other \in evidences : row.pair = other.pair /\ row.id = other.id => row = other
    BY DEF ReplayInv, Rows
  <2> QED BY <2>1, <2>2, <2>3, <2>4 DEF Replay!ResearchIsSound
<1>2. (world = "replay" => ReplayInv) => ResearchIsSound
  BY <1>1 DEF ResearchIsSound
<1> QED BY <1>2, ReplayInvariance, PTL

=============================================================================
