----------------------------- MODULE OrderDesk ------------------------------
(***************************************************************************)
(* The gated path of a live order: "order submit", "order replace", "agent *)
(* live", "agent propose" and "agent approve" as processes that share the  *)
(* intent store, the approval tokens, the kill switch and the day's        *)
(* activity ledger, beside a broker that may lose an answer, and that may  *)
(* die between any two steps.                                              *)
(*                                                                         *)
(* An invocation considers one order; its name is also that of the intent  *)
(* row it writes and of the token it issues.  What becomes of an order     *)
(* once it is tracked is FillBook's subject.                               *)
(***************************************************************************)
EXTENDS Naturals, FiniteSets

CONSTANTS
  Desks,        \* processes
  Invocations,  \* the orders ever considered, a bound
  Requests,     \* fingerprints: account, side, symbol, quantity, limit price
  MaxTrades,    \* max_trades_per_day
  NoId,         \* no invocation, no token
  Nothing       \* the request of an invocation that has not begun

ASSUME DeskAssumption ==
  /\ NoId \notin Invocations
  /\ Nothing \notin Requests
  /\ MaxTrades \in Nat \ {0}

ASSUME FinitelyMany == IsFiniteSet(Desks) /\ IsFiniteSet(Invocations)

VARIABLES
  asked,     \* per invocation: [kind, req, override, token]
  intent,    \* order_intents.status, or "none"
  recent,    \* the intents younger than the duplicate window
  token,     \* approvals.status, or "none"
  expired,   \* the tokens past expires_at
  killed,    \* the kill switch file exists
  trades,    \* agent_activity.trades of the day
  counted,   \* the invocations whose order the ledger has counted
  placed,    \* orders at the broker, per invocation
  tracked,   \* reconciled_orders rows written by track_submission
  desk       \* per process: [at, id, halted]

vars == << asked, intent, recent, token, expired, killed, trades, counted, placed, tracked, desk >>

Kinds  == {"manual", "live", "propose", "approve"}
Labels == {"idle", "gate", "review", "screen", "confirm", "spend", "recheck", "record", "place",
           "reject", "placed", "track", "count"}

NotAsked == [kind |-> "manual", req |-> Nothing, override |-> FALSE, token |-> NoId]
Idle     == [at |-> "idle", id |-> NoId, halted |-> FALSE]

TypeOK ==
  /\ asked \in [Invocations -> [kind : Kinds, req : Requests \union {Nothing},
                                override : BOOLEAN, token : Invocations \union {NoId}]]
  /\ intent \in [Invocations -> {"none", "pending", "submitted", "failed"}]
  /\ recent \in SUBSET Invocations
  /\ token \in [Invocations -> {"none", "pending", "consumed"}]
  /\ expired \in SUBSET Invocations
  /\ killed \in BOOLEAN
  /\ trades \in Nat
  /\ counted \in SUBSET Invocations
  /\ placed \in [Invocations -> Nat]
  /\ tracked \in SUBSET Invocations
  /\ desk \in [Desks -> [at : Labels, id : Invocations \union {NoId}, halted : BOOLEAN]]

Init ==
  /\ asked  = [n \in Invocations |-> NotAsked]
  /\ intent = [n \in Invocations |-> "none"]
  /\ recent = {}
  /\ token  = [n \in Invocations |-> "none"]
  /\ expired = {}
  /\ killed = FALSE
  /\ trades = 0
  /\ counted = {}
  /\ placed = [n \in Invocations |-> 0]
  /\ tracked = {}
  /\ desk = [p \in Desks |-> Idle]

At(p, label) == desk[p].at = label
Goto(p, label) == desk' = [desk EXCEPT ![p].at = label]
Leave(p) == desk' = [desk EXCEPT ![p] = Idle]
Id(p)  == desk[p].id
Ask(p) == asked[Id(p)]

stores == << intent, recent, token, expired, trades, counted, placed, tracked >>

-----------------------------------------------------------------------------
(* The stores *)

\* Mutation of ActiveStatuses: a pending intent does not count.
SubmittedOnly == {"submitted"}

ActiveStatuses == {"pending", "submitted"}

\* find_recent_duplicate
Duplicates(req) ==
  { n \in recent : intent[n] \in ActiveStatuses /\ asked[n].req = req }

Blocked(p) == Duplicates(Ask(p).req) # {} /\ ~Ask(p).override

\* Mutation of Spendable: the update does not ask for a row still pending.
AlwaysSpendable(t) == TRUE

\* ApprovalStore.consume's conditional update
Spendable(t) == token[t] = "pending"

\* Mutation of GateAllows: one more than the cap.
GateAllowsOneMore == ~killed /\ trades <= MaxTrades

\* SafetyGate.check: kill switch and daily trade cap
GateAllows == ~killed /\ trades < MaxTrades

-----------------------------------------------------------------------------
(* Before the confirmation *)

Begin(p, kind, req, override, t) ==
  /\ desk[p] = Idle
  /\ \E n \in Invocations :
       /\ asked[n].req = Nothing
       /\ asked' = [asked EXCEPT ![n] = [kind |-> kind, req |-> req, override |-> override,
                                         token |-> t]]
       /\ desk' = [desk EXCEPT ![p] = [at |-> IF kind \in {"live", "propose"} THEN "gate" ELSE "review",
                                       id |-> n, halted |-> killed]]
  /\ UNCHANGED << killed, stores >>

\* order_submit, order_replace
Order(p) == \E req \in Requests, override \in BOOLEAN : Begin(p, "manual", req, override, NoId)

\* agent_live, one of its proposals; its loop returns here
Live(p) ==
  ~killed /\ \E req \in Requests, override \in BOOLEAN : Begin(p, "live", req, override, NoId)

\* agent_propose, one of its proposals
Propose(p) == ~killed /\ \E req \in Requests : Begin(p, "propose", req, FALSE, NoId)

\* agent_approve
Approve(p) ==
  \E t \in Invocations \ expired, override \in BOOLEAN :
    /\ token[t] = "pending"
    /\ Begin(p, "approve", asked[t].req, override, t)

\* The gate before a strategy's order; a breached daily loss engages the switch,
\* an order over a notional or capital cap is skipped.
Gate(p) ==
  /\ At(p, "gate")
  /\ \/ GateAllows /\ Goto(p, "review") /\ UNCHANGED killed
     \/ Leave(p) /\ UNCHANGED killed
     \/ GateAllows /\ Leave(p) /\ killed' = TRUE
  /\ UNCHANGED << asked, stores >>

\* _evaluate_live with fresh data, then the configuration gates: a failed check,
\* a data error, dry-run and a closed gate all end the invocation.
Review(p) ==
  /\ At(p, "review")
  /\ \/ Leave(p) /\ UNCHANGED token
     \/ Ask(p).kind = "propose" /\ Leave(p) /\ token' = [token EXCEPT ![Id(p)] = "pending"]
     \/ Ask(p).kind # "propose" /\ Goto(p, "screen") /\ UNCHANGED token
  /\ UNCHANGED << asked, intent, recent, expired, killed, trades, counted, placed, tracked >>

\* Mutation of Screen: a token stands in for the kill switch as well.
ScreenManualOnly(p) ==
  /\ At(p, "screen")
  /\ IF (killed /\ Ask(p).kind = "manual") \/ Blocked(p) THEN Leave(p) ELSE Goto(p, "confirm")
  /\ UNCHANGED << asked, killed, stores >>

\* The kill switch, then the duplicate window
Screen(p) ==
  /\ At(p, "screen")
  /\ IF killed \/ Blocked(p) THEN Leave(p) ELSE Goto(p, "confirm")
  /\ UNCHANGED << asked, killed, stores >>

\* The typed phrase, which may not match, or the select of consume
Confirm(p) ==
  /\ At(p, "confirm")
  /\ \/ Ask(p).kind # "approve" /\ Goto(p, "recheck")
     \/ /\ Ask(p).kind = "approve"
        /\ token[Ask(p).token] = "pending" /\ Ask(p).token \notin expired
        /\ Goto(p, "spend")
     \/ Ask(p).kind # "approve" /\ Leave(p)
     \/ /\ Ask(p).kind = "approve"
        /\ token[Ask(p).token] # "pending" \/ Ask(p).token \in expired
        /\ Leave(p)
  /\ UNCHANGED << asked, killed, stores >>

\* The update of consume
Spend(p) ==
  LET t == Ask(p).token IN
  /\ At(p, "spend")
  /\ \/ Spendable(t) /\ token' = [token EXCEPT ![t] = "consumed"] /\ Goto(p, "recheck")
     \/ ~Spendable(t) /\ UNCHANGED token /\ Leave(p)
  /\ UNCHANGED << asked, intent, recent, expired, killed, trades, counted, placed, tracked >>

-----------------------------------------------------------------------------
(* From the confirmation to the broker and back *)

\* The second evaluation, which may fail, and the second look at the duplicates
Recheck(p) ==
  /\ At(p, "recheck")
  /\ Leave(p) \/ (~Blocked(p) /\ Goto(p, "record"))
  /\ UNCHANGED << asked, killed, stores >>

RecordPending(p) ==
  /\ At(p, "record")
  /\ intent' = [intent EXCEPT ![Id(p)] = "pending"]
  /\ recent' = recent \union {Id(p)}
  /\ Goto(p, "place")
  /\ UNCHANGED << asked, token, expired, killed, trades, counted, placed, tracked >>

Reaches(p) == placed' = [placed EXCEPT ![Id(p)] = @ + 1]

Accepted(p) == At(p, "place") /\ Reaches(p) /\ Goto(p, "placed")

\* Mutation of Ambiguous: the call is tried again.
AmbiguousRetried(p) == At(p, "place") /\ Reaches(p) /\ UNCHANGED desk

\* AmbiguousSubmission: the broker has the order or not; the intent stays pending.
Ambiguous(p) == At(p, "place") /\ (Reaches(p) \/ UNCHANGED placed) /\ Leave(p)

\* OrderRejected, or an error before the request was sent
Rejected(p) == At(p, "place") /\ UNCHANGED placed /\ Goto(p, "reject")

\* The order action, once
Place(p) ==
  /\ Accepted(p) \/ Ambiguous(p) \/ Rejected(p)
  /\ UNCHANGED << asked, intent, recent, token, expired, killed, trades, counted, tracked >>

SetIntent(p, status) == intent' = [intent EXCEPT ![Id(p)] = status]

MarkFailed(p) ==
  /\ At(p, "reject")
  /\ SetIntent(p, "failed")
  /\ Leave(p)
  /\ UNCHANGED << asked, recent, token, expired, killed, trades, counted, placed, tracked >>

\* The answer may come without an order id, and is then not tracked.
MarkSubmitted(p) ==
  /\ At(p, "placed")
  /\ SetIntent(p, "submitted")
  /\ Goto(p, "track") \/ Goto(p, "count")
  /\ UNCHANGED << asked, recent, token, expired, killed, trades, counted, placed, tracked >>

Track(p) ==
  /\ At(p, "track")
  /\ tracked' = tracked \union {Id(p)}
  /\ Goto(p, "count")
  /\ UNCHANGED << asked, intent, recent, token, expired, killed, trades, counted, placed >>

\* SafetyLedger.record(trades=1)
Count(p) ==
  /\ At(p, "count")
  /\ trades' = trades + 1
  /\ counted' = counted \union {Id(p)}
  /\ Leave(p)
  /\ UNCHANGED << asked, intent, recent, token, expired, killed, placed, tracked >>

Crash(p) ==
  /\ ~At(p, "idle")
  /\ Leave(p)
  /\ UNCHANGED << asked, killed, stores >>

-----------------------------------------------------------------------------
(* The operator, the clock and the system *)

\* "safety halt" and the dashboard's halt
Halt == ~killed /\ killed' = TRUE /\ UNCHANGED << asked, stores, desk >>

\* "safety resume"
Resume ==
  /\ killed
  /\ killed' = FALSE
  /\ desk' = [p \in Desks |-> [desk[p] EXCEPT !.halted = FALSE]]
  /\ UNCHANGED << asked, stores >>

\* An intent leaves the duplicate window.
Age == \E n \in recent : recent' = recent \ {n} /\
  UNCHANGED << asked, intent, token, expired, killed, trades, counted, placed, tracked, desk >>

\* A token reaches expires_at.
Expire ==
  \E t \in Invocations \ expired :
    /\ token[t] = "pending"
    /\ expired' = expired \union {t}
    /\ UNCHANGED << asked, intent, recent, token, killed, trades, counted, placed, tracked, desk >>

Submit(p) ==
  \/ Gate(p) \/ Review(p) \/ Screen(p) \/ Confirm(p) \/ Spend(p) \/ Recheck(p)
  \/ RecordPending(p) \/ Place(p) \/ MarkFailed(p) \/ MarkSubmitted(p) \/ Track(p) \/ Count(p)

Next ==
  \/ \E p \in Desks : Order(p) \/ Live(p) \/ Propose(p) \/ Approve(p) \/ Submit(p) \/ Crash(p)
  \/ Halt \/ Resume \/ Age \/ Expire

Spec == Init /\ [][Next]_vars

-----------------------------------------------------------------------------
(* What must hold *)

\* An order at the broker was sent once, and its intent blocks duplicates while
\* the window lasts: no crash, lost answer or rejection makes the desk forget it.
PlacedIsRecorded ==
  \A n \in Invocations : placed[n] > 0 => placed[n] = 1 /\ intent[n] \in {"pending", "submitted"}

\* "single-use": a token stands behind at most one order, whoever approves with it
\* and however often (approval.py).
TokenBuysOneOrder ==
  \A m, n \in Invocations :
    /\ asked[m].token = asked[n].token /\ asked[m].token # NoId
    /\ placed[m] > 0 /\ placed[n] > 0
    => m = n

\* A halt in force since before an invocation began keeps it from the broker,
\* whatever confirms it (safety.py: "a global halt for real orders").
HaltHolds ==
  \A p \in Desks :
    desk[p].halted => desk[p].at \notin {"confirm", "spend", "recheck", "record", "place"}

\* What races can exceed is bounded by the other processes.  The duplicate block
\* survives restarts (state.py), so without an override only processes that passed
\* their last look at the window together can repeat an order.  The gate reads the
\* day's count before an order and the count is written after it, so the strategies'
\* counted orders exceed the cap by at most the orders then in flight.
RacesAreBounded ==
  /\ \A req \in Requests :
       LET live == { n \in recent : intent[n] \in {"pending", "submitted"} }
       IN Cardinality({ n \in live : asked[n].req = req /\ ~asked[n].override }) <= Cardinality(Desks)
  /\ Cardinality({ n \in counted : asked[n].kind = "live" }) <= MaxTrades + Cardinality(Desks) - 1

=============================================================================
