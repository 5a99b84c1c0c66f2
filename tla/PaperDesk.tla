----------------------------- MODULE PaperDesk ------------------------------
(***************************************************************************)
(* The books of one paper sleeve on the shared backend, and the cycles of  *)
(* AgentRunner that trade them: settlement, margin interest, orders and    *)
(* margin calls, each a transaction that takes row locks one after the     *)
(* other and not in one order.  Two cycles may run on the same books (two  *)
(* sessions of a cohort, or a manual cycle beside them), and any of them   *)
(* may die.                                                                *)
(*                                                                         *)
(* Amounts are whole units; the quantum of an average cost is one of them. *)
(***************************************************************************)
EXTENDS Integers, FiniteSets, Functions

CONSTANTS
  Desks,          \* cycles on these books
  Symbols,
  Prices,         \* what an order fills at and a position is marked at
  Quantities,     \* shares in an order
  Start,          \* starting_cash
  Leverage,       \* 1: a cash account
  Settle,         \* settle_t1
  MaintenanceDen, \* 1 / maintenance_margin
  RateDen,        \* 1 / the interest of a day on one unit of debit
  Weekend,        \* days _next_business_day skips
  MaxDay,         \* bound on the calendar
  MaxOrders,      \* bound on the orders
  NoOrder

\* A week has a business day (_next_business_day).
PaperAssumption ==
  /\ IsFiniteSet(Symbols) /\ Start \in Int /\ MaxDay \in Nat /\ MaxOrders \in Nat
  /\ \A day \in 0..MaxDay : \E d \in (day + 1)..(day + 7) : d \notin Weekend
  /\ Prices \subseteq Nat \ {0} /\ Quantities \subseteq Nat \ {0}
  /\ Leverage \in Nat \ {0} /\ MaintenanceDen \in Nat \ {0} /\ RateDen \in Nat \ {0}
  /\ Settle \in BOOLEAN

VARIABLES
  book,    \* the committed rows of the sleeve
  today,
  desk,    \* per cycle: where it is and what it has locked
  orders,  \* orders placed so far
  history  \* what the paper_orders rows and the charged interest add up to

vars == << book, today, desk, orders, history >>

Days == 0..(MaxDay + 7)
NotYet == -1                \* last_accrual is null
Flat == [held |-> 0, avg |-> 0]
Idle == [at |-> "idle", closing |-> FALSE, order |-> NoOrder, due |-> FALSE, rows |-> {}]

\* cycle: between two calls; the others wait for the next lock they need
Labels == {"idle", "cycle", "accrue", "settle", "order", "mature", "fill", "maintain", "call"}

OrderType == [side : {"BUY", "SELL"}, symbol : Symbols, quantity : Quantities, price : Prices]

TypeOK ==
  /\ book.cash \in Int /\ book.realized \in Int
  /\ book.last \in {NotYet} \union (0..today)
  /\ book.positions \in [Symbols -> [held : Nat, avg : Nat]]
  /\ book.unsettled \in [Days -> Nat]
  /\ today \in 0..MaxDay
  /\ orders \in 0..MaxOrders
  /\ desk \in [Desks -> [at : Labels, closing : BOOLEAN, order : OrderType \union {NoOrder},
                         due : BOOLEAN, rows : SUBSET Symbols]]

Init ==
  /\ book = [cash |-> Start, realized |-> 0, last |-> NotYet,
             positions |-> [s \in Symbols |-> Flat], unsettled |-> [d \in Days |-> 0]]
  /\ today = 0
  /\ desk = [p \in Desks |-> Idle]
  /\ orders = 0
  /\ history = [flow |-> 0, interest |-> 0, rounding |-> 0, bought |-> [s \in Symbols |-> 0]]

-----------------------------------------------------------------------------
(* The arithmetic of the engine *)

\* Decimal.quantize: half to even
Quantized(a, b) ==
  LET q == a \div b
      r == 2 * (a % b)
  IN IF r > b \/ (r = b /\ q % 2 = 1) THEN q + 1 ELSE q

NextBusinessDay(day) == CHOOSE d \in Days : d > day /\ d \notin Weekend /\ \A e \in (day + 1)..(d - 1) : e \in Weekend

Held(b) == { s \in Symbols : b.positions[s].held > 0 }
Due(b) == { d \in Days : d <= today /\ b.unsettled[d] > 0 }
Sum(f, S) == FoldFunctionOnSet(+, 0, f, S)
CostBasis(b) == Sum([s \in Symbols |-> b.positions[s].held * b.positions[s].avg], Symbols)
Power(b) == Leverage * b.cash + (Leverage - 1) * CostBasis(b)

\* Mutation of SettledDue: the rows stay.
SettledKept(b) == [b EXCEPT !.cash = @ + Sum(b.unsettled, Due(b))]

\* _settle_due
SettledDue(b) ==
  [b EXCEPT !.cash = @ + Sum(b.unsettled, Due(b)),
            !.unsettled = [d \in Days |-> IF d \in Due(b) THEN 0 ELSE @[d]]]

InterestDue(b) ==
  IF Leverage > 1 /\ b.last # NotYet /\ b.cash < 0
  THEN Quantized(-b.cash * (today - b.last), RateDen) ELSE 0

\* _accrue_interest
Charged(b) ==
  IF Leverage = 1 THEN b ELSE [b EXCEPT !.cash = @ - InterestDue(b), !.last = today]

\* accrue; the due rows only where this transaction holds them
Accrued(b, due) == Charged(IF due THEN SettledDue(b) ELSE b)

\* Mutation of Bought: the last price stands for the average.
BoughtAtPrice(b, o) ==
  [b EXCEPT !.cash = @ - o.price * o.quantity,
            !.positions[o.symbol] = [held |-> @.held + o.quantity, avg |-> o.price]]

\* _apply_buy
Bought(b, o) ==
  LET p == b.positions[o.symbol]
      total == p.held + o.quantity
  IN [b EXCEPT !.cash = @ - o.price * o.quantity,
               !.positions[o.symbol] =
                 [held |-> total,
                  avg |-> IF p.held = 0 THEN o.price
                          ELSE Quantized(p.avg * p.held + o.price * o.quantity, total)]]

\* _apply_sell, to settled cash or to the next business day
Sold(b, o, later) ==
  LET p == b.positions[o.symbol]
      left == p.held - o.quantity
      proceeds == o.price * o.quantity
      paid == IF later THEN [b EXCEPT !.unsettled[NextBusinessDay(today)] = @ + proceeds]
              ELSE [b EXCEPT !.cash = @ + proceeds]
  IN [paid EXCEPT !.realized = @ + (o.price - p.avg) * o.quantity,
                  !.positions[o.symbol] = IF left > 0 THEN [p EXCEPT !.held = left] ELSE Flat]

\* Mutation of Accepted: what has not settled buys as well.
AcceptedUnsettled(b, o) ==
  IF o.side = "BUY" THEN o.price * o.quantity <= Power(b) + Sum(b.unsettled, Days)
  ELSE o.quantity <= b.positions[o.symbol].held

\* The limits place_order enforces
Accepted(b, o) ==
  IF o.side = "BUY" THEN o.price * o.quantity <= Power(b)
  ELSE o.quantity <= b.positions[o.symbol].held

Mark(b, marks, s) == IF marks[s] > 0 THEN marks[s] ELSE b.positions[s].avg
Value(b, marks, S) == Sum([s \in Symbols |-> Mark(b, marks, s) * b.positions[s].held], S)

\* Equity below the maintenance margin, with the positions of S in view
Undermargined(b, marks, S) ==
  LET value == Value(b, marks, S)
  IN value > 0 /\ MaintenanceDen * (b.cash + value) < value

Liquidation(b, marks, S) ==
  LET s == CHOOSE t \in S : \A u \in S : Value(b, marks, {u}) <= Value(b, marks, {t})
  IN [side |-> "SELL", symbol |-> s, quantity |-> b.positions[s].held, price |-> Mark(b, marks, s)]

\* The orders of enforce_maintenance: the largest position, until compliant or flat.
\* The first pass sees the rows S it has locked before the account; later ones select
\* again, what another cycle has bought meanwhile included.
Calls(b, marks, S) ==
  LET after[n \in 0..Cardinality(Symbols)] ==
        IF n = 0 THEN << b, {} >>
        ELSE LET prior == after[n - 1]
                 left == IF prior[2] = {} THEN S \intersect Held(b) ELSE Held(prior[1])
             IN IF Undermargined(prior[1], marks, left)
                THEN LET o == Liquidation(prior[1], marks, left)
                     IN << Sold(prior[1], o, FALSE), prior[2] \union {o} >>
                ELSE prior
  IN after[Cardinality(Symbols)]

-----------------------------------------------------------------------------
(* The locks, and what a transaction leaves in the history *)

At(p, label) == desk[p].at = label
Goto(p, label) == desk' = [desk EXCEPT ![p].at = label]

AccountFree(p) == \A q \in Desks \ {p} : desk[q].at \notin {"mature", "fill"}
DueFree(p)     == \A q \in Desks \ {p} : ~desk[q].due
RowFree(p, s)  == \A q \in Desks \ {p} : s \notin desk[q].rows

Between(p) == [Idle EXCEPT !.at = "cycle", !.closing = desk[p].closing]

Filled(h, o) ==
  LET s == o.symbol
      amount == o.price * o.quantity
  IN IF o.side = "BUY"
     THEN [h EXCEPT !.flow = @ - amount, !.bought[s] = @ + o.quantity]
     ELSE [h EXCEPT !.flow = @ + amount, !.bought[s] = @ - o.quantity]

\* What averaging a purchase may round away
Rounding(b, o) ==
  LET held == b.positions[o.symbol].held
  IN IF o.side = "BUY" /\ held > 0 THEN held + o.quantity ELSE 0

-----------------------------------------------------------------------------
(* The steps of a cycle *)

\* run_cycle
Cycle(p) ==
  /\ desk[p] = Idle
  /\ Goto(p, "accrue")
  /\ UNCHANGED << book, today, orders, history >>

\* The rows due are selected for update before the account.
LockDue(p) ==
  /\ At(p, "accrue")
  /\ Settle /\ Due(book) # {} => DueFree(p)
  /\ desk' = [desk EXCEPT ![p].at = "settle", ![p].due = Settle /\ Due(book) # {}]
  /\ UNCHANGED << book, today, orders, history >>

Accrue(p) ==
  LET before == IF desk[p].due THEN SettledDue(book) ELSE book IN
  /\ At(p, "settle")
  /\ AccountFree(p)
  /\ book' = Accrued(book, desk[p].due)
  /\ history' = [history EXCEPT !.interest = @ + InterestDue(before)]
  /\ desk' = [desk EXCEPT ![p] = [Between(p) EXCEPT !.at = IF desk[p].closing THEN "maintain" ELSE "cycle"]]
  /\ UNCHANGED << today, orders >>

\* A proposal of the strategy, at a marketable price; the account is locked first.
Place(p) ==
  /\ At(p, "cycle") /\ ~desk[p].closing
  /\ orders < MaxOrders
  /\ AccountFree(p)
  /\ \E o \in OrderType : desk' = [desk EXCEPT ![p].at = "mature", ![p].order = o]
  /\ orders' = orders + 1
  /\ UNCHANGED << book, today, history >>

Mature(p) ==
  /\ At(p, "mature")
  /\ Settle /\ Due(book) # {} => DueFree(p)
  /\ desk' = [desk EXCEPT ![p].at = "fill", ![p].due = Settle /\ Due(book) # {}]
  /\ UNCHANGED << book, today, orders, history >>

\* The rest of place_order: a refused order still commits what accrued.
Fill(p) ==
  LET o == desk[p].order
      due == desk[p].due
      accrued == Accrued(book, due)
      charged == [history EXCEPT !.interest = @ + InterestDue(IF due THEN SettledDue(book) ELSE book)]
  IN
  /\ At(p, "fill")
  /\ \/ /\ Accepted(accrued, o)
        /\ book.positions[o.symbol].held > 0 => RowFree(p, o.symbol)
        /\ book' = IF o.side = "BUY" THEN Bought(accrued, o) ELSE Sold(accrued, o, Settle)
        /\ history' = [Filled(charged, o) EXCEPT
                         !.rounding = @ + Rounding(accrued, o)]
     \/ /\ ~Accepted(accrued, o)
        /\ o.side = "SELL" /\ book.positions[o.symbol].held > 0 => RowFree(p, o.symbol)
        /\ book' = accrued /\ history' = charged
  /\ desk' = [desk EXCEPT ![p] = Between(p)]
  /\ UNCHANGED << today, orders >>

\* After the last order: accrue again, at the time of the marks.
Close(p) ==
  /\ At(p, "cycle")
  /\ desk' = [desk EXCEPT ![p].at = "accrue", ![p].closing = TRUE]
  /\ UNCHANGED << book, today, orders, history >>

\* enforce_maintenance selects the positions for update, then the account.
LockRows(p) ==
  /\ At(p, "maintain")
  /\ \A s \in Held(book) : RowFree(p, s)
  /\ desk' = [desk EXCEPT ![p] = IF Leverage = 1 THEN Idle
                                 ELSE [@ EXCEPT !.at = "call", !.rows = Held(book)]]
  /\ UNCHANGED << book, today, orders, history >>

Enforce(p) ==
  /\ At(p, "call")
  /\ AccountFree(p)
  /\ \E marks \in [Symbols -> Prices \union {0}] :
       LET called == Calls(book, marks, desk[p].rows) IN
       /\ book' = called[1]
       /\ history' = [history EXCEPT
                        !.flow = @ + Sum([s \in Symbols |-> Mark(book, marks, s) * book.positions[s].held],
                                         { o.symbol : o \in called[2] }),
                        !.bought = [s \in Symbols |-> IF \E o \in called[2] : o.symbol = s THEN 0 ELSE @[s]]]
  /\ desk' = [desk EXCEPT ![p] = Idle]
  /\ UNCHANGED << today, orders >>

\* A process dies, or the database picks it to end a deadlock; its transaction is
\* rolled back.
Crash(p) ==
  /\ desk[p] # Idle
  /\ desk' = [desk EXCEPT ![p] = Idle]
  /\ UNCHANGED << book, today, orders, history >>

NextDay ==
  /\ today < MaxDay
  /\ today' = today + 1
  /\ UNCHANGED << book, desk, orders, history >>

Trade(p) == Place(p) \/ Mature(p) \/ Fill(p)
Keep(p)  == LockDue(p) \/ Accrue(p) \/ LockRows(p) \/ Enforce(p)

Next == NextDay \/ \E p \in Desks : Cycle(p) \/ Trade(p) \/ Close(p) \/ Keep(p) \/ Crash(p)

Spec == Init /\ [][Next]_vars

-----------------------------------------------------------------------------
(* What must hold *)

Unsettled == Sum(book.unsettled, Days)

Abs(n) == IF n < 0 THEN -n ELSE n

\* Cash, settled or not, and shares are what the filled orders and the interest
\* add up to: no payment is settled twice, lost or overwritten by a second cycle.
\* And every unit is either still at cost or realized, but for what averaging
\* rounded: at most half a quantum per share of each averaged purchase.
BooksAgree ==
  /\ book.cash + Unsettled = Start + history.flow - history.interest
  /\ \A s \in Symbols : book.positions[s].held = history.bought[s]
  /\ 2 * Abs(book.cash + Unsettled + CostBasis(book) - (Start + book.realized - history.interest))
       <= history.rounding

\* "No buying with money you do not have" (paper.py): no purchase leaves the books
\* beyond their buying power, whatever runs beside it; a unit of tolerance per share
\* for the rounding.
WithinPower ==
  \A s \in Symbols : book'.positions[s].held > book.positions[s].held
    => Power(book') + (Leverage - 1) * book'.positions[s].held >= 0

BuysWithinPower == [][WithinPower]_vars

=============================================================================
