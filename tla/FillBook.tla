------------------------------ MODULE FillBook ------------------------------
(***************************************************************************)
(* What becomes of an order once the broker has it: reconciliation passes  *)
(* and the look right after a submission observe its fills and book each   *)
(* once in the tax-lot ledger and in the day's realized gain.  Three       *)
(* databases are written one after the other, observers may overlap, and   *)
(* each may die between any two steps.                                     *)
(*                                                                         *)
(* A pass over an account is modelled order by order: what it fetched for  *)
(* the later ones is old by the time it reaches them, and Look takes any   *)
(* answer the broker can have given by then, so its own progress is no     *)
(* variable.                                                               *)
(***************************************************************************)
EXTENDS Integers, FiniteSets, Functions

CONSTANTS
  Buys, Sells,  \* the orders
  Size,         \* shares in each order
  Observers,    \* processes that observe fills
  MayCrash,     \* whether an observer may die or meet a database error
  Incomplete    \* whether an answer may lack the side or the symbol, or the growth of an amount

ASSUME BookAssumption ==
  /\ Buys \intersect Sells = {}
  /\ Size \in [Buys \union Sells -> Nat \ {0}]
  /\ IsFiniteSet(Buys \union Sells)
  /\ MayCrash \in BOOLEAN /\ Incomplete \in BOOLEAN

Orders == Buys \union Sells

\* source_key: an order and a cumulative quantity
KeysOf(S) == UNION { {o} \X (1..Size[o]) : o \in S }
Keys == KeysOf(Orders)

VARIABLES
  row,       \* reconciled_orders
  booking,   \* fill_applications.status, per key
  delta,     \* fill_applications.delta_quantity, per key
  times,     \* how often a key was booked in the ledger
  lots,      \* tax_lots.quantity of the lot a key opened
  realized,  \* the keys whose gain the day's activity holds
  task,      \* per observer: what it is about
  clean      \* no two observers have been at work at once

vars == << row, booking, delta, times, lots, realized, task, clean >>

\* A row, and what an observer read of one; notional is whether its amount is known.
Rows == [seen : BOOLEAN, filled : Nat, notional : BOOLEAN, baseline : BOOLEAN]
NoRow == [seen |-> FALSE, filled |-> 0, notional |-> FALSE, baseline |-> FALSE]

Labels == {"idle", "write", "reserve", "book", "relieve", "gain", "mark"}
Idle   == [at |-> "idle"]

TypeOK ==
  /\ row \in [Orders -> Rows] /\ \A o \in Orders : row[o].filled <= Size[o]
  /\ booking \in [Keys -> {"none", "pending", "applied"}]
  /\ delta \in [Keys -> Nat]
  /\ times \in [Keys -> Nat]
  /\ lots \in [Keys -> Int]
  /\ realized \in SUBSET Keys
  /\ \A w \in Observers : task[w].at \in Labels
  /\ clean \in BOOLEAN

Init ==
  /\ row = [o \in Orders |-> NoRow]
  /\ booking = [k \in Keys |-> "none"]
  /\ delta = [k \in Keys |-> 0]
  /\ times = [k \in Keys |-> 0]
  /\ lots = [k \in Keys |-> 0]
  /\ realized = {}
  /\ task = [w \in Observers |-> Idle]
  /\ clean = TRUE

Total(f, S) == FoldFunctionOnSet(+, 0, f, S)

-----------------------------------------------------------------------------
(* One observation *)

At(w, label) == task[w].at = label
Order(w) == task[w].order
Key(w)   == << Order(w), task[w].to >>
Done(w)  == task' = [task EXCEPT ![w] = Idle]
Step(w, label) == task' = [task EXCEPT ![w].at = label]

\* ReconciliationStore.track_submission, of the gated path and of the look after a
\* submission: insert or ignore
Track ==
  \E o \in Orders :
    /\ ~row[o].seen
    /\ row' = [row EXCEPT ![o] =
                 [seen |-> TRUE, filled |-> 0, notional |-> TRUE, baseline |-> FALSE]]
    /\ UNCHANGED << booking, delta, times, lots, realized, task, clean >>

\* The first half of observe: an answer of the broker, with or without execution
\* prices, and the row as it is now.
Look(w) ==
  /\ At(w, "idle")
  /\ \E o \in Orders, priced \in BOOLEAN : \E f \in 0..Size[o] :
       task' = [task EXCEPT ![w] =
                  [at |-> "write", order |-> o, prior |-> row[o],
                   report |-> [filled |-> f, notional |-> priced \/ f = 0]]]
  /\ clean' = (clean /\ \A v \in Observers : At(v, "idle"))
  /\ UNCHANGED << row, booking, delta, times, lots, realized >>

\* Mutation of Kept: the watermark follows the broker's answer down.
KeptIfUnpriced(prior, report) == report.filled > prior.filled /\ ~report.notional

\* The answer regressed, or reports a fill without an amount: the watermark stays.
Kept(prior, report) ==
  \/ report.filled < prior.filled
  \/ report.filled > prior.filled /\ ~report.notional

Observed(prior, report) ==
  IF Kept(prior, report) THEN prior
  ELSE [prior EXCEPT !.filled = report.filled, !.notional = report.notional]

Baselined(report) ==
  [seen |-> TRUE, filled |-> report.filled, notional |-> report.notional,
   baseline |-> report.filled > 0]

\* A fill that may have a price: the amounts before and after are known.
Bookable(prior, report) ==
  report.filled > prior.filled /\ report.notional /\ prior.notional

\* The second half of observe; to insert a row that has appeared meanwhile raises.  A
\* fill whose amount has not grown, or whose side or symbol is unknown, is reported and
\* not booked, and the watermark has passed it.
Write(w) ==
  LET prior == task[w].prior
      report == task[w].report
  IN
  /\ At(w, "write")
  /\ \/ /\ ~prior.seen /\ ~row[Order(w)].seen
        /\ row' = [row EXCEPT ![Order(w)] = Baselined(report)]
        /\ Done(w)
     \/ ~prior.seen /\ row[Order(w)].seen /\ UNCHANGED row /\ Done(w)
     \/ /\ prior.seen
        /\ row' = [row EXCEPT ![Order(w)] = Observed(prior, report)]
        /\ \/ /\ Bookable(prior, report)
              /\ task' = [task EXCEPT ![w] = [at |-> "reserve", order |-> Order(w),
                                              from |-> prior.filled, to |-> report.filled]]
           \/ /\ Bookable(prior, report) => Incomplete
              /\ Done(w)
  /\ UNCHANGED << booking, delta, times, lots, realized, clean >>

-----------------------------------------------------------------------------
(* _apply_observed_fill *)

\* Mutation of Free: an interrupted reservation is tried again.
FreeAgain(k) == booking[k] # "applied"

\* reserve_fill answers "new" only where the key has no row.
Free(k) == booking[k] = "none"

Reserve(w) ==
  /\ At(w, "reserve")
  /\ IF Free(Key(w))
     THEN /\ booking' = [booking EXCEPT ![Key(w)] = "pending"]
          /\ delta' = [delta EXCEPT ![Key(w)] = task[w].to - task[w].from]
          /\ task' = [task EXCEPT ![w] = [at |-> IF Order(w) \in Buys THEN "book" ELSE "relieve",
                                          order |-> Order(w), to |-> task[w].to]]
     ELSE UNCHANGED << booking, delta >> /\ Done(w)
  /\ UNCHANGED << row, times, lots, realized, clean >>

Booked(w) == times' = [times EXCEPT ![Key(w)] = @ + 1]

\* Mutation of Purchase: the lot gets the order's cumulative quantity.
PurchaseCumulative(w) ==
  /\ At(w, "book") /\ Order(w) \in Buys
  /\ lots' = [lots EXCEPT ![Key(w)] = task[w].to]
  /\ Booked(w)
  /\ Step(w, "mark")
  /\ UNCHANGED << row, booking, delta, realized, clean >>

\* TaxLotStore.record_purchase
Purchase(w) ==
  /\ At(w, "book") /\ Order(w) \in Buys
  /\ lots' = [lots EXCEPT ![Key(w)] = delta[Key(w)]]
  /\ Booked(w)
  /\ Step(w, "mark")
  /\ UNCHANGED << row, booking, delta, realized, clean >>

Open == { k \in KeysOf(Buys) : lots[k] > 0 }

\* The pieces compute_sale can choose: whole lots but for the last, in the order
\* the configured method gives.
Reliefs(q) ==
  { take \in [KeysOf(Buys) -> 0..q] :
      /\ \A k \in KeysOf(Buys) : take[k] > 0 => k \in Open /\ take[k] <= lots[k]
      /\ Cardinality({ k \in Open : 0 < take[k] /\ take[k] < lots[k] }) <= 1
      /\ \/ Total(take, KeysOf(Buys)) = q
         \/ Total(take, KeysOf(Buys)) = Total(lots, Open) /\ Total(lots, Open) < q }

\* compute_sale, outside the transaction that writes
Compute(w) ==
  /\ At(w, "relieve")
  /\ \E take \in Reliefs(delta[Key(w)]) :
       task' = [task EXCEPT ![w] = [at |-> "book", order |-> Order(w), to |-> task[w].to,
                                    take |-> take]]
  /\ UNCHANGED << row, booking, delta, times, lots, realized, clean >>

\* The writes of apply_sale
Sale(w) ==
  /\ At(w, "book") /\ Order(w) \in Sells
  /\ lots' = [k \in Keys |-> IF k \in KeysOf(Buys) THEN lots[k] - task[w].take[k] ELSE lots[k]]
  /\ Booked(w)
  /\ task' = [task EXCEPT ![w] = [at |-> "gain", order |-> Order(w), to |-> task[w].to]]
  /\ UNCHANGED << row, booking, delta, realized, clean >>

\* SafetyLedger.record(realized_pnl_delta)
Gain(w) ==
  /\ At(w, "gain")
  /\ realized' = realized \union {Key(w)}
  /\ Step(w, "mark")
  /\ UNCHANGED << row, booking, delta, times, lots, clean >>

\* Mutation of Mark: marked as soon as it is booked, before the day's gain.
MarkEarly(w) ==
  /\ At(w, "mark") \/ At(w, "gain")
  /\ booking' = [booking EXCEPT ![Key(w)] = "applied"]
  /\ Done(w)
  /\ UNCHANGED << row, delta, times, lots, realized, clean >>

\* mark_fill_applied
Mark(w) ==
  /\ At(w, "mark")
  /\ booking' = [booking EXCEPT ![Key(w)] = "applied"]
  /\ Done(w)
  /\ UNCHANGED << row, delta, times, lots, realized, clean >>

\* A process dies, or a database raises: the reservation is retained.
Crash(w) ==
  /\ MayCrash
  /\ ~At(w, "idle")
  /\ Done(w)
  /\ UNCHANGED << row, booking, delta, times, lots, realized, clean >>

Observe(w) == Look(w) \/ Write(w)
Apply(w) == Reserve(w) \/ Purchase(w) \/ Compute(w) \/ Sale(w) \/ Gain(w) \/ Mark(w)

Next == Track \/ \E w \in Observers : Observe(w) \/ Apply(w) \/ Crash(w)

Spec == Init /\ [][Next]_vars

-----------------------------------------------------------------------------
(* What must hold *)

\* "An interrupted reservation remains pending ... rather than retried at the risk
\* of double-counting": a cumulative quantity reaches the ledger once, and one
\* marked applied has reached it in full, the day's gain included.
EachFillOnce ==
  \A k \in Keys :
    /\ times[k] <= 1
    /\ booking[k] = "applied" => times[k] = 1 /\ (k[1] \in Sells => k \in realized)

\* What was booked of an order
Ingested(o) == Total([k \in Keys |-> delta[k] * times[k]], KeysOf({o}))

\* No lot is oversold or holds more than was bought with it.
LotsInRange == \A k \in KeysOf(Buys) : 0 <= lots[k] /\ lots[k] <= delta[k] * times[k]

\* While observers take turns, and however the broker's answers go back and forth,
\* no share of an order is counted twice and the open lots are what the booked fills
\* leave: each is in range, and sales take no more shares out of the ledger than
\* were sold.
LotsAddUp ==
  clean =>
    /\ \A o \in Orders : Ingested(o) <= row[o].filled
    /\ LotsInRange
    /\ LET bought == Total([o \in Orders |-> Ingested(o)], Buys)
           sold   == Total([o \in Orders |-> Ingested(o)], Sells)
           open   == Total(lots, KeysOf(Buys))
       IN bought - sold <= open

\* A fill the watermark has passed without a baseline is in the ledger or under a
\* reservation someone holds: "a later observation with execution pricing can then
\* ingest it safely" (reconciliation.py).
FillsAreIngested ==
  (clean /\ \A w \in Observers : At(w, "idle")) =>
    \A o \in Orders : row[o].baseline \/ Ingested(o) = row[o].filled

=============================================================================
