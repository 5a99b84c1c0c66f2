--------------------------- MODULE FillBook_proofs ---------------------------
(***************************************************************************)
(* Theorems about FillBook for any orders, sizes, number of observers and  *)
(* answers of the broker, with or without crashes; about PaperDesk for any *)
(* cycles, symbols, prices, leverage and calendar; and about TokenDesk for *)
(* any number of processes, logins and requests and any lifetimes.         *)
(***************************************************************************)
EXTENDS MCBooks, Sequences, FiniteSetTheorems, WellFoundedInduction, TLAPS

Report == [filled : Nat, notional : BOOLEAN]

\* What an observer can be about.
Task ==
  [at : {"idle"}]
    \union [at : {"write"}, order : Orders, prior : Rows, report : Report]
    \union [at : {"reserve"}, order : Orders, from : Nat, to : Nat]
    \union [at : {"relieve", "book", "gain", "mark"}, order : Orders, to : Nat]
    \union [at : {"book"}, order : Orders, to : Nat, take : [KeysOf(Buys) -> Nat]]

Applying == {"relieve", "book", "gain", "mark"}

\* What an observer read or was told is about the order, and within its size.
Sound ==
  /\ task \in [Observers -> Task]
  /\ \A w \in Observers :
       LET t == task[w] IN
       /\ t.at = "write" => t.prior.filled <= Size[t.order] /\ t.report.filled <= Size[t.order]
       /\ t.at = "reserve" => t.from < t.to
       /\ t.at \in {"reserve"} \union Applying => Key(w) \in Keys
       /\ t.at \in {"relieve", "gain"} => t.order \in Sells
       /\ t.at = "book" =>
            IF t.order \in Sells
            THEN t \in [at : {"book"}, order : Orders, to : Nat, take : [KeysOf(Buys) -> Nat]]
            ELSE t \in [at : {"book"}, order : Orders, to : Nat]

TypeInv == TypeOK /\ Sound

\* A reservation has one holder, and where it stands tells what has been written.
Held ==
  /\ \A w \in Observers : task[w].at \in Applying => booking[Key(w)] = "pending"
  /\ \A v, w \in Observers :
       v # w /\ task[v].at \in Applying /\ task[w].at \in Applying => Key(v) # Key(w)
  /\ \A w \in Observers : task[w].at \in {"relieve", "book"} => times[Key(w)] = 0
  /\ \A w \in Observers : task[w].at \in {"gain", "mark"} => times[Key(w)] = 1
  /\ \A w \in Observers :
       task[w].at = "mark" /\ task[w].order \in Sells => Key(w) \in realized

Once ==
  /\ \A k \in Keys : booking[k] = "none" => times[k] = 0
  /\ EachFillOnce

IInv == TypeInv /\ Held /\ Once

-----------------------------------------------------------------------------
(* Keys and tasks *)

LEMMA KeyIs ==
  /\ \A o \in Orders : \A n \in 1..Size[o] : << o, n >> \in Keys
  /\ \A k \in Keys : k[1] \in Orders /\ k = << k[1], k[2] >> /\ k[2] \in 1..Size[k[1]]
BY DEF Keys, KeysOf

LEMMA SizeIsNat == \A o \in Orders : Size[o] \in Nat /\ Size[o] > 0
BY BookAssumption DEF Orders

LEMMA InitInv == Init => IInv
BY SizeIsNat DEF Init, IInv, TypeInv, TypeOK, Sound, Task, Held, Once, EachFillOnce, Idle, Labels,
   Applying, NoRow, Rows

LEMMA TaskLabels == \A t \in Task : t.at \in Labels
BY DEF Task, Labels

\* The places an observer can be at, and what its task then holds.
LEMMA TaskAt ==
  ASSUME NEW t \in Task
  PROVE  /\ t.at = "write" => t \in [at : {"write"}, order : Orders, prior : Rows, report : Report]
         /\ t.at = "reserve" => t \in [at : {"reserve"}, order : Orders, from : Nat, to : Nat]
         /\ t.at \in Applying => t.order \in Orders /\ t.to \in Nat
         /\ t.at \in {"relieve", "gain", "mark"} =>
              t \in [at : {"relieve", "book", "gain", "mark"}, order : Orders, to : Nat]
BY DEF Task, Applying

\* Only w moves.
Moves(w) == \A v \in Observers : v # w => task'[v] = task[v]

LEMMA TaskIs ==
  ASSUME TypeInv, NEW w \in Observers, NEW t, task' = [task EXCEPT ![w] = t]
  PROVE  Moves(w) /\ task'[w] = t /\ task[w] \in Task /\ (t \in Task => task' \in [Observers -> Task])
BY DEF TypeInv, Sound, Moves

LEMMA StepIs ==
  ASSUME TypeInv, NEW w \in Observers, NEW l \in {"gain", "mark"}, Step(w, l),
         task[w] \in [at : {"relieve", "book", "gain", "mark"}, order : Orders, to : Nat]
  PROVE  /\ Moves(w)
         /\ task'[w] = [at |-> l, order |-> task[w].order, to |-> task[w].to]
         /\ task' \in [Observers -> Task]
<1> DEFINE t == [at |-> l, order |-> task[w].order, to |-> task[w].to]
<1>1. [task[w] EXCEPT !.at = l] = t
  OBVIOUS
<1>2. task' = [task EXCEPT ![w] = t]
  BY <1>1 DEF Step, TypeInv, Sound
<1>3. t \in Task
  BY DEF Task
<1> HIDE DEF t
<1>4. Moves(w) /\ task'[w] = t /\ task' \in [Observers -> Task]
  BY <1>2, <1>3, TaskIs
<1> QED BY <1>4 DEF t

\* An observer that is done, or has died, leaves what it reserved as it is.
LEMMA DoneInv ==
  ASSUME IInv, NEW w \in Observers, Done(w), UNCHANGED << row, booking, delta, times, lots, realized, clean >>
  PROVE  IInv'
<1>1. Moves(w) /\ task'[w] = Idle /\ task' \in [Observers -> Task]
  BY TaskIs DEF IInv, Done, Task, Idle
<1>2. Sound'
  BY <1>1 DEF IInv, TypeInv, Sound, Moves, Idle, Key, Order, Applying
<1>3. TypeOK'
  BY <1>1, TaskLabels DEF IInv, TypeInv, TypeOK
<1>4. Held' /\ Once'
  BY <1>1 DEF IInv, Held, Once, EachFillOnce, Moves, Idle, Key, Order, Applying
<1> QED BY <1>2, <1>3, <1>4 DEF IInv, TypeInv

-----------------------------------------------------------------------------
(* Observing *)

LEMMA TrackInv == ASSUME IInv, Track PROVE IInv'
<1>1. row' \in [Orders -> Rows] /\ \A o \in Orders : row'[o].filled <= Size[o]
  BY SizeIsNat DEF Track, IInv, TypeInv, TypeOK, Rows
<1>2. UNCHANGED << booking, delta, times, lots, realized, task, clean >>
  BY DEF Track
<1> QED BY <1>1, <1>2 DEF IInv, TypeInv, TypeOK, Sound, Held, Once, EachFillOnce, Key, Order, Applying

LEMMA LookInv == ASSUME IInv, NEW w \in Observers, Look(w) PROVE IInv'
<1>1. PICK o \in Orders, priced \in BOOLEAN : \E f \in 0..Size[o] :
        task' = [task EXCEPT ![w] =
                  [at |-> "write", order |-> o, prior |-> row[o],
                   report |-> [filled |-> f, notional |-> priced \/ f = 0]]]
  BY DEF Look
<1>2. PICK f \in 0..Size[o] :
        task' = [task EXCEPT ![w] =
                  [at |-> "write", order |-> o, prior |-> row[o],
                   report |-> [filled |-> f, notional |-> priced \/ f = 0]]]
  BY <1>1
<1> DEFINE t == [at |-> "write", order |-> o, prior |-> row[o],
                 report |-> [filled |-> f, notional |-> priced \/ f = 0]]
<1>3. /\ f \in Nat /\ row[o] \in Rows /\ row[o].filled <= Size[o] /\ f <= Size[o]
  BY SizeIsNat DEF IInv, TypeInv, TypeOK
<1>4. t \in Task
  BY <1>3 DEF Task, Report
<1>5. /\ Moves(w) /\ task'[w] = t /\ task' \in [Observers -> Task]
  <2> HIDE DEF t
  <2> QED BY <1>2, <1>4, TaskIs DEF IInv, t
<1>6. UNCHANGED << row, booking, delta, times, lots, realized >> /\ clean' \in BOOLEAN
  BY DEF Look, IInv, TypeInv, TypeOK
<1>7. Sound'
  BY <1>3, <1>5 DEF IInv, TypeInv, Sound, Moves, Key, Order, Applying
<1>8. TypeOK'
  BY <1>5, <1>6, TaskLabels DEF IInv, TypeInv, TypeOK
<1>9. Held' /\ Once'
  BY <1>5, <1>6 DEF IInv, Held, Once, EachFillOnce, Moves, Key, Order, Applying
<1> QED BY <1>7, <1>8, <1>9 DEF IInv, TypeInv

LEMMA WriteInv == ASSUME IInv, NEW w \in Observers, Write(w) PROVE IInv'
<1> DEFINE o == task[w].order
           prior == task[w].prior
           report == task[w].report
<1>1. /\ o \in Orders /\ prior \in Rows /\ report \in Report
      /\ prior.filled <= Size[o] /\ report.filled <= Size[o]
  BY TaskAt DEF Write, At, IInv, TypeInv, Sound
<1>2. UNCHANGED << booking, delta, times, lots, realized, clean >>
  BY DEF Write
<1>3. row' \in [Orders -> Rows] /\ \A p \in Orders : row'[p].filled <= Size[p]
  <2>1. Baselined(report) \in Rows /\ Baselined(report).filled <= Size[o]
    BY <1>1 DEF Baselined, Rows, Report
  <2>2. Observed(prior, report) \in Rows /\ Observed(prior, report).filled <= Size[o]
    BY <1>1 DEF Observed, Rows, Report
  <2>3. row' \in {row, [row EXCEPT ![o] = Baselined(report)], [row EXCEPT ![o] = Observed(prior, report)]}
    BY DEF Write, Order
  <2> QED BY <1>1, <2>1, <2>2, <2>3 DEF IInv, TypeInv, TypeOK
<1>4. CASE Done(w)
  <2>1. Moves(w) /\ task'[w] = Idle /\ task' \in [Observers -> Task]
    BY <1>4, TaskIs DEF IInv, Done, Task, Idle
  <2>2. Sound'
    BY <2>1 DEF IInv, TypeInv, Sound, Moves, Idle, Key, Order, Applying
  <2>3. TypeOK'
    BY <1>2, <1>3, <2>1, TaskLabels DEF IInv, TypeInv, TypeOK
  <2>4. Held' /\ Once'
    BY <1>2, <2>1 DEF IInv, Held, Once, EachFillOnce, Moves, Idle, Key, Order, Applying
  <2> QED BY <2>2, <2>3, <2>4 DEF IInv, TypeInv
<1>5. CASE ~Done(w)
  <2> DEFINE t == [at |-> "reserve", order |-> o, from |-> prior.filled, to |-> report.filled]
  <2>1. Bookable(prior, report) /\ task' = [task EXCEPT ![w] = t]
    BY <1>5 DEF Write, Order
  <2>2. /\ prior.filled \in Nat /\ report.filled \in Nat /\ prior.filled < report.filled
        /\ report.filled \in 1..Size[o]
    BY <1>1, <2>1, SizeIsNat DEF Bookable, Rows, Report
  <2>3. t \in Task /\ << o, report.filled >> \in Keys
    BY <1>1, <2>2, KeyIs DEF Task
  <2>4. Moves(w) /\ task'[w] = t /\ task' \in [Observers -> Task]
    <3> HIDE DEF t
    <3> QED BY <2>1, <2>3, TaskIs DEF IInv
  <2>5. Sound'
    BY <2>2, <2>3, <2>4 DEF IInv, TypeInv, Sound, Moves, Key, Order, Applying
  <2>6. TypeOK'
    BY <1>2, <1>3, <2>4, TaskLabels DEF IInv, TypeInv, TypeOK
  <2>7. Held' /\ Once'
    BY <1>2, <2>4 DEF IInv, Held, Once, EachFillOnce, Moves, Key, Order, Applying
  <2> QED BY <2>5, <2>6, <2>7 DEF IInv, TypeInv
<1> QED BY <1>4, <1>5

-----------------------------------------------------------------------------
(* Applying *)

LEMMA ReserveInv == ASSUME IInv, NEW w \in Observers, Reserve(w) PROVE IInv'
<1> DEFINE o == task[w].order
           k == Key(w)
<1>1. /\ o \in Orders /\ task[w].from \in Nat /\ task[w].to \in Nat /\ task[w].from < task[w].to
      /\ k \in Keys /\ k = << o, task[w].to >>
  BY TaskAt DEF Reserve, At, IInv, TypeInv, Sound, Key, Order
<1>2. CASE ~Free(Key(w))
  BY <1>2, DoneInv DEF Reserve
<1>3. CASE Free(Key(w))
  <2> DEFINE t == [at |-> IF o \in Buys THEN "book" ELSE "relieve", order |-> o, to |-> task[w].to]
  <2>1. /\ booking' = [booking EXCEPT ![k] = "pending"]
        /\ delta' = [delta EXCEPT ![k] = task[w].to - task[w].from]
        /\ task' = [task EXCEPT ![w] = t]
        /\ UNCHANGED << row, times, lots, realized, clean >>
        /\ booking[k] = "none"
    BY <1>3 DEF Reserve, Order, Free
  <2>2. t \in Task
    BY <1>1 DEF Task
  <2>3. Moves(w) /\ task'[w] = t /\ task' \in [Observers -> Task]
    <3> HIDE DEF t
    <3> QED BY <2>1, <2>2, TaskIs DEF IInv
  <2>4. task[w].to - task[w].from \in Nat
    BY <1>1
  <2>5. TypeOK'
    BY <1>1, <2>1, <2>3, <2>4, TaskLabels DEF IInv, TypeInv, TypeOK
  <2>6. Sound'
    BY <1>1, <2>2, <2>3, BookAssumption DEF IInv, TypeInv, Sound, Moves, Key, Order, Applying, Orders
  <2>7. times[k] = 0
    BY <1>1, <2>1 DEF IInv, Once
  <2>8. Key(w)' = k /\ \A v \in Observers : v # w => Key(v)' = Key(v)
    BY <1>1, <2>3 DEF Key, Order, Moves
  <2>9. \A v \in Observers : task[v].at \in Applying => Key(v) # k /\ Key(v) \in Keys
    BY <2>1 DEF IInv, Held, TypeInv, Sound
  <2>10. /\ booking'[k] = "pending" /\ \A j \in Keys : j # k => booking'[j] = booking[j]
         /\ times' = times /\ realized' = realized
    BY <1>1, <2>1 DEF IInv, TypeInv, TypeOK
  <2> HIDE DEF k
  <2>11. Held'
    BY <2>3, <2>7, <2>8, <2>9, <2>10 DEF IInv, Held, Moves, Applying
  <2>12. Once'
    BY <1>1, <2>7, <2>10 DEF IInv, Once, EachFillOnce
  <2> QED BY <2>5, <2>6, <2>11, <2>12 DEF IInv, TypeInv
<1> QED BY <1>2, <1>3

LEMMA ComputeInv == ASSUME IInv, NEW w \in Observers, Compute(w) PROVE IInv'
<1> DEFINE o == task[w].order
<1>1. o \in Sells /\ o \in Orders /\ task[w].to \in Nat /\ Key(w) \in Keys /\ task[w].at = "relieve"
  BY TaskAt DEF Compute, At, IInv, TypeInv, Sound, Applying
<1>2. PICK take \in Reliefs(delta[Key(w)]) :
        task' = [task EXCEPT ![w] = [at |-> "book", order |-> o, to |-> task[w].to, take |-> take]]
  BY DEF Compute, Order
<1>3. take \in [KeysOf(Buys) -> Nat]
  BY <1>1 DEF Reliefs, IInv, TypeInv, TypeOK
<1> DEFINE t == [at |-> "book", order |-> o, to |-> task[w].to, take |-> take]
<1>4. t \in Task
  BY <1>1, <1>3 DEF Task
<1>5. Moves(w) /\ task'[w] = t /\ task' \in [Observers -> Task]
  <2> HIDE DEF t
  <2> QED BY <1>2, <1>4, TaskIs DEF IInv, t
<1>6. UNCHANGED << row, booking, delta, times, lots, realized, clean >>
  BY DEF Compute
<1>7. TypeOK'
  BY <1>5, <1>6, TaskLabels DEF IInv, TypeInv, TypeOK
<1>8. Sound'
  BY <1>1, <1>3, <1>5 DEF IInv, TypeInv, Sound, Moves, Key, Order, Applying
<1>9. \A v \in Observers :
        /\ Key(v)' = Key(v)
        /\ \/ task'[v] = task[v]
           \/ task'[v].at = "book" /\ task[v].at = "relieve"
  BY <1>1, <1>5 DEF Key, Order, Moves
<1> HIDE DEF t
<1>10. Held'
  BY <1>1, <1>6, <1>9 DEF IInv, Held, Applying
<1>11. Once'
  BY <1>6 DEF IInv, Once, EachFillOnce
<1> QED BY <1>7, <1>8, <1>10, <1>11 DEF IInv, TypeInv

\* The ledger's transaction: the key is booked where nothing had been, and only its
\* holder was about to.
LEMMA BookedInv ==
  ASSUME IInv, NEW w \in Observers, task[w].at = "book", Booked(w),
         NEW l \in {"gain", "mark"}, l = "gain" <=> task[w].order \in Sells,
         Moves(w), task'[w] = [at |-> l, order |-> task[w].order, to |-> task[w].to],
         task' \in [Observers -> Task],
         lots' \in [Keys -> Int], UNCHANGED << row, booking, delta, realized, clean >>
  PROVE  IInv'
<1> DEFINE k == Key(w)
<1>1. k \in Keys /\ times[k] = 0 /\ booking[k] = "pending" /\ times \in [Keys -> Nat]
  BY DEF IInv, TypeInv, Sound, TypeOK, Held, Applying
<1>2. times'[k] = 1 /\ (\A j \in Keys : j # k => times'[j] = times[j]) /\ times' \in [Keys -> Nat]
  BY <1>1 DEF Booked
<1>3. TypeOK'
  BY <1>2, TaskLabels DEF IInv, TypeInv, TypeOK
<1>4. Sound'
  BY DEF IInv, TypeInv, Sound, Moves, Key, Order, Applying
<1>5. Key(w)' = k /\ \A v \in Observers : v # w => Key(v)' = Key(v)
  BY DEF Key, Order, Moves
<1>6. \A v \in Observers : v # w /\ task[v].at \in Applying => Key(v) # k /\ Key(v) \in Keys
  BY DEF IInv, Held, TypeInv, Sound, Applying
<1> HIDE DEF k
<1>7. Held'
  BY <1>1, <1>2, <1>5, <1>6 DEF IInv, Held, Moves, Applying
<1>8. Once'
  BY <1>1, <1>2 DEF IInv, Once, EachFillOnce
<1> QED BY <1>3, <1>4, <1>7, <1>8 DEF IInv, TypeInv

LEMMA LedgerInv == ASSUME IInv, NEW w \in Observers, Purchase(w) \/ Sale(w) PROVE IInv'
<1>1. /\ task[w].at = "book" /\ Booked(w) /\ Key(w) \in Keys
      /\ UNCHANGED << row, booking, delta, realized, clean >>
      /\ delta \in [Keys -> Nat] /\ lots \in [Keys -> Int]
  BY DEF Purchase, Sale, At, IInv, TypeInv, TypeOK, Sound, Applying
<1>2. CASE Purchase(w)
  <2>1. task[w].order \notin Sells
    BY <1>2, BookAssumption DEF Purchase, Order
  <2>2. task[w] \in [at : {"relieve", "book", "gain", "mark"}, order : Orders, to : Nat]
    BY <1>1, <2>1 DEF IInv, TypeInv, Sound
  <2>3. /\ Moves(w) /\ task'[w] = [at |-> "mark", order |-> task[w].order, to |-> task[w].to]
        /\ task' \in [Observers -> Task]
    BY <1>2, <2>2, StepIs DEF Purchase, IInv
  <2>4. lots' \in [Keys -> Int]
    BY <1>1, <1>2 DEF Purchase
  <2> QED BY <1>1, <2>1, <2>3, <2>4, BookedInv
<1>3. CASE Sale(w)
  <2>1. task[w].order \in Sells /\ task[w].order \in Orders /\ task[w].to \in Nat
    BY <1>1, <1>3, TaskAt DEF Sale, Order, IInv, TypeInv, Sound, Applying
  <2>2. task[w].take \in [KeysOf(Buys) -> Nat]
    BY <1>1, <2>1 DEF IInv, TypeInv, Sound
  <2> DEFINE t == [at |-> "gain", order |-> task[w].order, to |-> task[w].to]
  <2>3. t \in Task
    BY <2>1 DEF Task
  <2>4. Moves(w) /\ task'[w] = t /\ task' \in [Observers -> Task]
    <3>1. task' = [task EXCEPT ![w] = t]
      BY <1>3 DEF Sale, Order
    <3> HIDE DEF t
    <3> QED BY <2>3, <3>1, TaskIs DEF IInv
  <2>5. lots' \in [Keys -> Int]
    BY <1>1, <1>3, <2>2 DEF Sale
  <2> QED BY <1>1, <2>1, <2>4, <2>5, BookedInv
<1> QED BY <1>2, <1>3

LEMMA GainInv == ASSUME IInv, NEW w \in Observers, Gain(w) PROVE IInv'
<1>1. task[w].at = "gain" /\ Key(w) \in Keys /\ task[w].order \in Sells /\ times[Key(w)] = 1
  BY DEF Gain, At, IInv, TypeInv, Sound, Applying, Held
<1>2. task[w] \in [at : {"relieve", "book", "gain", "mark"}, order : Orders, to : Nat]
  BY <1>1, TaskAt DEF IInv, TypeInv, Sound
<1>3. /\ Moves(w) /\ task'[w] = [at |-> "mark", order |-> task[w].order, to |-> task[w].to]
      /\ task' \in [Observers -> Task]
  BY <1>2, StepIs DEF Gain, IInv
<1>4. realized' = realized \union {Key(w)} /\ UNCHANGED << row, booking, delta, times, lots, clean >>
  BY DEF Gain
<1>5. TypeOK'
  BY <1>1, <1>3, <1>4, TaskLabels DEF IInv, TypeInv, TypeOK
<1>6. Sound'
  BY <1>1, <1>3 DEF IInv, TypeInv, Sound, Moves, Key, Order, Applying
<1>7. Key(w)' = Key(w) /\ \A v \in Observers : v # w => Key(v)' = Key(v)
  BY <1>3 DEF Key, Order, Moves
<1>8. Held'
  BY <1>1, <1>3, <1>4, <1>7 DEF IInv, Held, Moves, Applying
<1>9. Once'
  BY <1>4 DEF IInv, Once, EachFillOnce
<1> QED BY <1>5, <1>6, <1>8, <1>9 DEF IInv, TypeInv

LEMMA MarkInv == ASSUME IInv, NEW w \in Observers, Mark(w) PROVE IInv'
<1> DEFINE k == Key(w)
<1>1. /\ task[w].at = "mark" /\ k \in Keys /\ times[k] = 1 /\ k[1] = task[w].order
      /\ task[w].order \in Sells => k \in realized
  BY DEF Mark, At, IInv, TypeInv, Sound, Applying, Held, Key, Order
<1>2. Moves(w) /\ task'[w] = Idle /\ task' \in [Observers -> Task]
  BY TaskIs DEF Mark, IInv, Done, Task, Idle
<1>3. /\ booking' \in [Keys -> {"none", "pending", "applied"}]
      /\ booking'[k] = "applied" /\ \A j \in Keys : j # k => booking'[j] = booking[j]
      /\ UNCHANGED << row, delta, times, lots, realized, clean >>
  BY <1>1 DEF Mark, IInv, TypeInv, TypeOK
<1>4. TypeOK'
  BY <1>2, <1>3, TaskLabels DEF IInv, TypeInv, TypeOK
<1>5. Sound'
  BY <1>2 DEF IInv, TypeInv, Sound, Moves, Idle, Key, Order, Applying
<1>6. \A v \in Observers : v # w => Key(v)' = Key(v)
  BY <1>2 DEF Key, Order, Moves
<1>7. \A v \in Observers : v # w /\ task[v].at \in Applying => Key(v) # k /\ Key(v) \in Keys
  BY <1>1 DEF IInv, Held, TypeInv, Sound, Applying
<1> HIDE DEF k
<1>8. Held'
  BY <1>2, <1>3, <1>6, <1>7 DEF IInv, Held, Moves, Applying, Idle
<1>9. Once'
  BY <1>1, <1>3 DEF IInv, Once, EachFillOnce
<1> QED BY <1>4, <1>5, <1>8, <1>9 DEF IInv, TypeInv

LEMMA StepInv == IInv /\ [Next]_vars => IInv'
<1> SUFFICES ASSUME IInv, [Next]_vars PROVE IInv'
  OBVIOUS
<1>1. ASSUME NEW w \in Observers, Observe(w) \/ Apply(w) PROVE IInv'
  BY <1>1, LookInv, WriteInv, ReserveInv, LedgerInv, ComputeInv, GainInv, MarkInv
     DEF Observe, Apply
<1>2. ASSUME NEW w \in Observers, Crash(w) PROVE IInv'
  BY <1>2, DoneInv DEF Crash
<1>3. CASE UNCHANGED vars
  BY <1>3 DEF vars, IInv, TypeInv, TypeOK, Sound, Held, Once, EachFillOnce, Key, Order
<1> QED BY <1>1, <1>2, <1>3, TrackInv DEF Next

-----------------------------------------------------------------------------
(* Theorems *)

THEOREM Invariance == Spec => []IInv
BY InitInv, StepInv, PTL DEF Spec

\* Every variable of the ledgers, and what an observer is about, keeps its type.
THEOREM TypeCorrect == Spec => []TypeOK
<1>1. IInv => TypeOK
  BY DEF IInv, TypeInv
<1> QED BY <1>1, Invariance, PTL

\* A cumulative quantity of an order reaches the tax lots at most once, and one
\* marked applied has reached them and the day's gain, whoever observes it, how
\* often the broker's answers regress and wherever an observer dies.
THEOREM FillsBookedOnce == Spec => []EachFillOnce
<1>1. IInv => EachFillOnce
  BY DEF IInv, Once
<1> QED BY <1>1, Invariance, PTL

-----------------------------------------------------------------------------
(* Observers that take turns *)

\* One observer is at work, and what it has computed of the lots is still so.
Turns ==
  /\ \A v, w \in Observers : v # w => task[v].at = "idle" \/ task[w].at = "idle"
  /\ \A w \in Observers :
       task[w].at = "book" /\ task[w].order \in Sells =>
         \A k \in KeysOf(Buys) : task[w].take[k] <= lots[k]

Lots ==
  \A k \in KeysOf(Buys) :
    0 <= lots[k] /\ lots[k] <= delta[k] /\ (times[k] = 0 => lots[k] = 0)

CInv == clean => Turns /\ Lots

LEMMA BuyKeys == KeysOf(Buys) \subseteq Keys /\ \A k \in KeysOf(Buys) : k[1] \in Buys
BY DEF KeysOf, Keys, Orders

LEMMA CleanStep == ASSUME IInv, IInv', CInv, [Next]_vars PROVE CInv'
<1>1. /\ lots \in [Keys -> Int] /\ delta \in [Keys -> Nat] /\ times \in [Keys -> Nat]
      /\ booking \in [Keys -> {"none", "pending", "applied"}]
  BY DEF IInv, TypeInv, TypeOK
<1>2. CASE Track \/ UNCHANGED vars
  BY <1>2 DEF Track, vars, CInv, Turns, Lots
<1>3. ASSUME NEW w \in Observers, Look(w) PROVE CInv'
  <2>1. /\ Moves(w) /\ task'[w].at = "write"
        /\ clean' = (clean /\ \A v \in Observers : task[v].at = "idle")
        /\ UNCHANGED << lots, delta, times >>
    BY <1>3 DEF Look, At, IInv, TypeInv, Sound, Moves
  <2> QED BY <2>1 DEF CInv, Turns, Lots, Moves
<1>4. ASSUME NEW w \in Observers, Write(w) \/ Crash(w) \/ Mark(w) \/ Gain(w) PROVE CInv'
  <2>1. /\ task[w].at # "idle" /\ UNCHANGED << lots, delta, times, clean >>
    BY <1>4 DEF Write, Crash, Mark, Gain, At
  <2>2. Moves(w) /\ task'[w].at # "book"
    <3>1. CASE Write(w) \/ Crash(w) \/ Mark(w)
      BY <1>4, <3>1 DEF Write, Crash, Mark, Done, Idle, IInv, TypeInv, Sound, Moves
    <3>2. CASE Gain(w)
      <4>1. task[w] \in [at : {"relieve", "book", "gain", "mark"}, order : Orders, to : Nat]
        BY <3>2, TaskAt DEF Gain, At, IInv, TypeInv, Sound
      <4>2. Moves(w) /\ task'[w] = [at |-> "mark", order |-> task[w].order, to |-> task[w].to]
        BY <3>2, <4>1, StepIs DEF Gain, IInv
      <4> QED BY <4>2
    <3> QED BY <1>4, <3>1, <3>2
  <2> QED BY <2>1, <2>2 DEF CInv, Turns, Lots, Moves
<1>5. ASSUME NEW w \in Observers, Reserve(w) PROVE CInv'
  <2>1. /\ task[w].at # "idle" /\ UNCHANGED << lots, times, clean >>
        /\ Moves(w)
        /\ task'[w].at = "book" => task'[w].order \notin Sells
    BY <1>5, BookAssumption DEF Reserve, At, Done, Idle, Order, IInv, TypeInv, Sound, Moves
  <2>2. \A k \in Keys : delta'[k] = delta[k] \/ (times[k] = 0 /\ delta'[k] \in Nat)
    <3>1. CASE ~Free(Key(w))
      BY <1>5, <3>1 DEF Reserve
    <3>2. CASE Free(Key(w))
      <4>1. Key(w) \in Keys /\ times[Key(w)] = 0 /\ delta' \in [Keys -> Nat]
        BY <1>5, <3>2 DEF Reserve, At, Free, IInv, TypeInv, TypeOK, Sound, Once
      <4> QED BY <1>1, <1>5, <3>2, <4>1 DEF Reserve
    <3> QED BY <3>1, <3>2
  <2>3. Lots => Lots'
    BY <1>1, <2>1, <2>2, BuyKeys DEF Lots
  <2> QED BY <2>1, <2>3 DEF CInv, Turns, Moves
<1>6. ASSUME NEW w \in Observers, Compute(w) PROVE CInv'
  <2>1. PICK take \in Reliefs(delta[Key(w)]) :
          task' = [task EXCEPT ![w] = [at |-> "book", order |-> Order(w), to |-> task[w].to,
                                       take |-> take]]
    BY <1>6 DEF Compute
  <2>2. /\ task[w].at # "idle" /\ UNCHANGED << lots, delta, times, clean >>
        /\ Moves(w) /\ task'[w].take = take
    BY <1>6, <2>1 DEF Compute, At, IInv, TypeInv, Sound, Moves
  <2>3. \A k \in KeysOf(Buys) : take[k] \in Nat /\ (take[k] > 0 => take[k] <= lots[k])
    BY <1>1 DEF Reliefs
  <2>4. Lots => \A k \in KeysOf(Buys) : take[k] <= lots[k]
    BY <1>1, <2>3, BuyKeys DEF Lots
  <2> QED BY <2>2, <2>4 DEF CInv, Turns, Lots, Moves
<1>7. ASSUME NEW w \in Observers, Purchase(w) PROVE CInv'
  <2>1. Key(w) \in Keys /\ task[w].order \notin Sells /\ task[w].at = "book" /\ clean' = clean
    BY <1>7, BookAssumption DEF Purchase, At, Order, IInv, TypeInv, Sound, Applying
  <2>2. Moves(w) /\ task'[w].at = "mark"
    <3>1. task[w] \in [at : {"relieve", "book", "gain", "mark"}, order : Orders, to : Nat]
      BY <2>1 DEF IInv, TypeInv, Sound
    <3>2. Moves(w) /\ task'[w] = [at |-> "mark", order |-> task[w].order, to |-> task[w].to]
      BY <1>7, <3>1, StepIs DEF Purchase, IInv
    <3> QED BY <3>2
  <2>3. /\ lots'[Key(w)] = delta[Key(w)] /\ times'[Key(w)] # 0
        /\ \A k \in Keys : k # Key(w) => lots'[k] = lots[k] /\ times'[k] = times[k]
        /\ delta' = delta
    BY <1>1, <1>7, <2>1 DEF Purchase, Booked
  <2>4. Lots => Lots'
    BY <1>1, <2>3, BuyKeys DEF Lots
  <2> QED BY <2>1, <2>2, <2>4 DEF CInv, Turns, Moves
<1>8. ASSUME NEW w \in Observers, Sale(w) PROVE CInv'
  <2>1. /\ Key(w) \in Keys /\ Key(w) \notin KeysOf(Buys) /\ task[w].order \in Sells
        /\ task[w].at = "book" /\ clean' = clean
    BY <1>8, BuyKeys, BookAssumption DEF Sale, At, Order, Key, IInv, TypeInv, Sound, Applying
  <2>2. Moves(w) /\ task'[w].at = "gain"
    BY <1>8 DEF Sale, IInv, TypeInv, Sound, Moves
  <2>3. task[w].take \in [KeysOf(Buys) -> Nat]
    BY <2>1 DEF IInv, TypeInv, Sound
  <2>4. /\ \A k \in KeysOf(Buys) : lots'[k] = lots[k] - task[w].take[k] /\ times'[k] = times[k]
        /\ delta' = delta
    BY <1>1, <1>8, <2>1, BuyKeys DEF Sale, Booked
  <2>5. Turns /\ Lots => Lots'
    BY <1>1, <2>1, <2>3, <2>4, BuyKeys DEF Turns, Lots
  <2> QED BY <2>1, <2>2, <2>5 DEF CInv, Turns, Moves
<1> QED BY <1>2, <1>3, <1>4, <1>5, <1>6, <1>7, <1>8 DEF Next, Observe, Apply

\* While observers take turns no lot is oversold or holds more than was bought with
\* it: what compute_sale chose outside its transaction still fits when it is written.
THEOREM LotsNeverOversold == Spec => [](clean => LotsInRange)
<1>1. Init => CInv
  BY BuyKeys DEF Init, CInv, Turns, Lots, Idle
<1>2. IInv /\ IInv' /\ CInv /\ [Next]_vars => CInv'
  BY CleanStep
<1>3. IInv /\ CInv => (clean => LotsInRange)
  <2> SUFFICES ASSUME IInv, CInv, clean, NEW k \in KeysOf(Buys)
               PROVE  0 <= lots[k] /\ lots[k] <= delta[k] * times[k]
    BY DEF LotsInRange
  <2>1. /\ k \in Keys /\ times[k] \in {0, 1} /\ delta[k] \in Nat /\ lots[k] \in Int
        /\ 0 <= lots[k] /\ lots[k] <= delta[k] /\ (times[k] = 0 => lots[k] = 0)
    BY BuyKeys DEF IInv, TypeInv, TypeOK, Once, EachFillOnce, CInv, Lots
  <2> QED BY <2>1
<1> QED BY <1>1, <1>2, <1>3, Invariance, PTL DEF Spec

-----------------------------------------------------------------------------
(* Totals: what a fold with + yields *)

LEMMA LeastNatural ==
  ASSUME NEW S \in SUBSET Nat, S # {}
  PROVE  \E n \in S : \A e \in S : n <= e
<1> DEFINE R == OpToRel(<, Nat)
<1>1. \A e, d \in Nat : e < d => << e, d >> \in R
  BY DEF OpToRel
<1>2. IsWellFoundedOn(R, Nat)
  BY NatLessThanWellFounded
<1> HIDE DEF R
<1>3. PICK d \in S : \A e \in S : ~ (<< e, d >> \in R)
  BY <1>2, WFMin
<1>4. S \subseteq Nat
  OBVIOUS
<1>5. \A e \in S : ~ (e < d)
  BY <1>1, <1>3, <1>4
<1> QED BY <1>4, <1>5

\* A set of sets that has a member has one of the fewest elements.
LEMMA SmallestSet ==
  ASSUME NEW S, IsFiniteSet(S), NEW Q \in SUBSET SUBSET S, Q # {}
  PROVE  \E T \in Q : \A U \in Q : Cardinality(T) <= Cardinality(U)
<1> DEFINE sizes == { n \in Nat : \E T \in Q : Cardinality(T) = n }
<1>1. \A T \in Q : Cardinality(T) \in sizes
  BY FS_Subset, FS_CardinalityType
<1>2. PICK n \in sizes : \A e \in sizes : n <= e
  <2>1. sizes \in SUBSET Nat /\ sizes # {}
    BY <1>1
  <2> HIDE DEF sizes
  <2> QED BY <2>1, LeastNatural
<1> QED BY <1>1, <1>2

\* What a sum over each part of S is.
Additive(g, f, S) ==
  /\ g \in [SUBSET S -> Int] /\ g[{}] = 0
  /\ \A T \in SUBSET S : \A x \in T : g[T] = f[x] + g[T \ {x}]

LEMMA AdditiveExists ==
  ASSUME NEW S, IsFiniteSet(S), NEW f, \A x \in S : f[x] \in Int
  PROVE  \E g : Additive(g, f, S)
<1> DEFINE Bad == { T \in SUBSET S : ~ \E g : Additive(g, f, T) }
<1> SUFFICES ASSUME Bad # {} PROVE FALSE
  BY DEF Bad
<1>1. PICK T \in Bad : \A U \in Bad : Cardinality(T) <= Cardinality(U)
  <2>1. Bad \in SUBSET SUBSET S
    OBVIOUS
  <2> HIDE DEF Bad
  <2> QED BY <2>1, SmallestSet
<1>2. T \in SUBSET S /\ IsFiniteSet(T) /\ Cardinality(T) \in Nat
  BY FS_Subset, FS_CardinalityType
<1>3. T # {}
  <2>1. Additive([U \in SUBSET {} |-> 0], f, {})
    BY DEF Additive
  <2> QED BY <2>1
<1>4. PICK x \in T : TRUE
  BY <1>3
<1>5. PICK g : Additive(g, f, T \ {x})
  <2>1. Cardinality(T \ {x}) = Cardinality(T) - 1
    BY <1>2, FS_RemoveElement
  <2>2. T \ {x} \notin Bad
    BY <1>1, <1>2, <2>1
  <2> QED BY <1>2, <2>2
<1> DEFINE h == [U \in SUBSET T |-> IF x \in U THEN f[x] + g[U \ {x}] ELSE g[U]]
<1>6. f[x] \in Int
  BY <1>2
<1>7. h \in [SUBSET T -> Int] /\ h[{}] = 0
  BY <1>5, <1>6 DEF Additive
<1>8. ASSUME NEW U \in SUBSET T, NEW y \in U PROVE h[U] = f[y] + h[U \ {y}]
  <2>0. f[y] \in Int
    BY <1>2
  <2>1. CASE x \notin U
    BY <1>5, <2>1 DEF Additive
  <2>2. CASE y = x
    BY <2>2
  <2>3. CASE x \in U /\ y # x
    <3>1. g[U \ {x}] = f[y] + g[(U \ {x}) \ {y}]
      BY <1>5, <2>3 DEF Additive
    <3>2. g[U \ {x}] = f[y] + g[(U \ {y}) \ {x}] /\ g[(U \ {y}) \ {x}] \in Int
      <4>1. (U \ {x}) \ {y} = (U \ {y}) \ {x}
        OBVIOUS
      <4> QED BY <1>5, <3>1, <4>1 DEF Additive
    <3>3. h[U] = f[x] + g[U \ {x}] /\ h[U \ {y}] = f[x] + g[(U \ {y}) \ {x}]
      BY <2>3
    <3> HIDE DEF h
    <3> QED BY <1>6, <2>0, <3>2, <3>3
  <2> QED BY <2>1, <2>2, <2>3
<1>9. Additive(h, f, T)
  <2> HIDE DEF h
  <2> QED BY <1>7, <1>8 DEF Additive
<1> QED BY <1>9

\* The recursion behind FoldFunctionOnSet
Unfolds(g, f, S) ==
  g = [s \in SUBSET S |-> IF s = {} THEN 0
                          ELSE LET x == CHOOSE x \in s : TRUE IN f[x] + g[s \ {x}]]

LEMMA TotalUnfolds ==
  ASSUME NEW f, NEW S PROVE Total(f, S) = (CHOOSE g : Unfolds(g, f, S))[S]
BY DEF Total, FoldFunctionOnSet, MapThenFoldSet, Unfolds

LEMMA TotalIsAdditive ==
  ASSUME NEW S, IsFiniteSet(S), NEW f, NEW g, Additive(g, f, S)
  PROVE  Total(f, S) = g[S]
<1>1. Unfolds(g, f, S)
  BY DEF Additive, Unfolds
<1> DEFINE iter == CHOOSE h : Unfolds(h, f, S)
<1>2. Unfolds(iter, f, S)
  BY <1>1
<1>3. Total(f, S) = iter[S]
  BY TotalUnfolds
<1> HIDE DEF iter
<1> DEFINE Bad == { T \in SUBSET S : iter[T] # g[T] }
<1> SUFFICES ASSUME Bad # {} PROVE FALSE
  BY <1>3
<1>4. PICK T \in Bad : \A U \in Bad : Cardinality(T) <= Cardinality(U)
  <2>1. Bad \in SUBSET SUBSET S
    OBVIOUS
  <2> HIDE DEF Bad
  <2> QED BY <2>1, SmallestSet
<1>5. T \in SUBSET S /\ IsFiniteSet(T) /\ Cardinality(T) \in Nat /\ iter[T] # g[T]
  BY FS_Subset, FS_CardinalityType
<1>6. T # {}
  BY <1>1, <1>2, <1>5 DEF Unfolds
<1> DEFINE x == CHOOSE x \in T : TRUE
<1>7. x \in T
  BY <1>6
<1>8. iter[T] = f[x] + iter[T \ {x}] /\ g[T] = f[x] + g[T \ {x}]
  BY <1>1, <1>2, <1>5, <1>6 DEF Unfolds
<1> HIDE DEF x
<1>9. Cardinality(T \ {x}) = Cardinality(T) - 1 /\ T \ {x} \in SUBSET S
  BY <1>5, <1>7, FS_RemoveElement
<1>10. T \ {x} \notin Bad
  BY <1>4, <1>5, <1>9
<1> QED BY <1>5, <1>8, <1>9, <1>10

LEMMA TotalIs ==
  ASSUME NEW S, IsFiniteSet(S), NEW f, \A x \in S : f[x] \in Int
  PROVE  \E g : Additive(g, f, S) /\ \A T \in SUBSET S : Total(f, T) = g[T]
<1>1. PICK g : Additive(g, f, S)
  BY AdditiveExists
<1>2. ASSUME NEW T \in SUBSET S PROVE Total(f, T) = g[T]
  <2> DEFINE h == [U \in SUBSET T |-> g[U]]
  <2>1. Additive(h, f, T) /\ h[T] = g[T]
    BY <1>1 DEF Additive
  <2> HIDE DEF h
  <2> QED BY <2>1, FS_Subset, TotalIsAdditive
<1> QED BY <1>1, <1>2

\* A sum takes its terms one by one, in any order.
LEMMA TotalRemoves ==
  ASSUME NEW S, IsFiniteSet(S), NEW f, \A x \in S : f[x] \in Int
  PROVE  /\ Total(f, S) \in Int
         /\ \A x \in S : Total(f, S) = f[x] + Total(f, S \ {x})
<1>1. PICK g : Additive(g, f, S) /\ \A T \in SUBSET S : Total(f, T) = g[T]
  BY TotalIs
<1> QED BY <1>1 DEF Additive

LEMMA TotalEmpty == ASSUME NEW f PROVE Total(f, {}) = 0
<1>1. PICK g : Additive(g, f, {}) /\ \A T \in SUBSET {} : Total(f, T) = g[T]
  BY TotalIs, FS_EmptySet
<1> QED BY <1>1 DEF Additive

LEMMA TotalSame ==
  ASSUME NEW S, IsFiniteSet(S), NEW f, NEW h, \A x \in S : f[x] \in Int /\ h[x] = f[x]
  PROVE  Total(h, S) = Total(f, S)
<1>1. PICK g : Additive(g, f, S) /\ \A T \in SUBSET S : Total(f, T) = g[T]
  BY TotalIs
<1>2. Additive(g, h, S)
  BY <1>1 DEF Additive
<1> QED BY <1>1, <1>2, TotalIsAdditive

\* One term changes.
LEMMA TotalMoves ==
  ASSUME NEW S, IsFiniteSet(S), NEW f, NEW h, NEW x \in S,
         \A y \in S : f[y] \in Int /\ h[y] \in Int,
         \A y \in S : y # x => h[y] = f[y]
  PROVE  Total(h, S) = Total(f, S) + h[x] - f[x]
<1>1. /\ Total(f, S) = f[x] + Total(f, S \ {x})
      /\ Total(h, S) = h[x] + Total(h, S \ {x})
  BY TotalRemoves
<1>2. IsFiniteSet(S \ {x}) /\ \A y \in S \ {x} : f[y] \in Int /\ h[y] = f[y]
  BY FS_RemoveElement
<1>3. Total(h, S \ {x}) = Total(f, S \ {x}) /\ Total(f, S \ {x}) \in Int
  BY <1>2, TotalSame, TotalRemoves
<1>4. f[x] \in Int /\ h[x] \in Int
  OBVIOUS
<1> QED BY <1>1, <1>3, <1>4

LEMMA TotalZero ==
  ASSUME NEW S, IsFiniteSet(S), NEW f, \A x \in S : f[x] = 0
  PROVE  Total(f, S) = 0
<1> DEFINE g == [T \in SUBSET S |-> 0]
<1>1. Additive(g, f, S) /\ g[S] = 0
  BY DEF Additive
<1> HIDE DEF g
<1> QED BY <1>1, TotalIsAdditive

LEMMA TotalAdds ==
  ASSUME NEW S, IsFiniteSet(S), NEW f, NEW h, NEW k,
         \A x \in S : f[x] \in Int /\ h[x] \in Int /\ k[x] = f[x] + h[x]
  PROVE  Total(k, S) = Total(f, S) + Total(h, S)
<1>1. PICK a : Additive(a, f, S) /\ \A T \in SUBSET S : Total(f, T) = a[T]
  BY TotalIs
<1>2. PICK b : Additive(b, h, S) /\ \A T \in SUBSET S : Total(h, T) = b[T]
  BY TotalIs
<1> DEFINE g == [T \in SUBSET S |-> a[T] + b[T]]
<1>3. ASSUME NEW T \in SUBSET S, NEW x \in T PROVE g[T] = k[x] + g[T \ {x}]
  <2>1. a[T] = f[x] + a[T \ {x}] /\ b[T] = h[x] + b[T \ {x}]
    BY <1>1, <1>2 DEF Additive
  <2>2. f[x] \in Int /\ h[x] \in Int /\ k[x] = f[x] + h[x]
    OBVIOUS
  <2>3. a[T \ {x}] \in Int /\ b[T \ {x}] \in Int /\ T \ {x} \in SUBSET S
    BY <1>1, <1>2 DEF Additive
  <2>4. g[T] = a[T] + b[T] /\ g[T \ {x}] = a[T \ {x}] + b[T \ {x}]
    BY <2>3
  <2> HIDE DEF g
  <2> QED BY <2>1, <2>2, <2>3, <2>4
<1>4. g \in [SUBSET S -> Int] /\ g[{}] = 0 /\ g[S] = a[S] + b[S]
  BY <1>1, <1>2 DEF Additive
<1> HIDE DEF g
<1>5. Additive(g, k, S)
  BY <1>3, <1>4 DEF Additive
<1>6. Total(k, S) = g[S]
  BY <1>5, TotalIsAdditive
<1> QED BY <1>1, <1>2, <1>4, <1>6

LEMMA TotalSplits ==
  ASSUME NEW S, IsFiniteSet(S), NEW f, \A x \in S : f[x] \in Int, NEW P \in SUBSET S
  PROVE  /\ Total(f, S) = Total(f, P) + Total(f, S \ P)
         /\ Total(f, P) \in Int /\ Total(f, S \ P) \in Int
<1>1. PICK a : Additive(a, f, S) /\ \A T \in SUBSET S : Total(f, T) = a[T]
  BY TotalIs
<1> DEFINE g == [T \in SUBSET S |-> a[T \intersect P] + a[T \ P]]
<1>2. ASSUME NEW T \in SUBSET S, NEW x \in T PROVE g[T] = f[x] + g[T \ {x}]
  <2>0. /\ f[x] \in Int /\ T \ {x} \in SUBSET S
        /\ g[T] = a[T \intersect P] + a[T \ P]
        /\ g[T \ {x}] = a[(T \ {x}) \intersect P] + a[(T \ {x}) \ P]
    OBVIOUS
  <2>1. a[T \intersect P] \in Int /\ a[T \ P] \in Int
    BY <1>1 DEF Additive
  <2>2. a[(T \ {x}) \intersect P] \in Int /\ a[(T \ {x}) \ P] \in Int
    BY <1>1 DEF Additive
  <2> HIDE DEF g
  <2>3. CASE x \in P
    <3>1. (T \ {x}) \intersect P = (T \intersect P) \ {x} /\ (T \ {x}) \ P = T \ P
      BY <2>3
    <3>2. a[T \intersect P] = f[x] + a[(T \intersect P) \ {x}]
      BY <1>1, <2>3 DEF Additive
    <3>3. /\ g[T \ {x}] = a[(T \intersect P) \ {x}] + a[T \ P]
          /\ a[(T \intersect P) \ {x}] \in Int
      BY <2>0, <2>2, <3>1, Zenon
    <3> QED BY <2>0, <2>1, <3>2, <3>3
  <2>4. CASE x \notin P
    <3>1. (T \ {x}) \intersect P = T \intersect P /\ (T \ {x}) \ P = (T \ P) \ {x}
      BY <2>4
    <3>2. a[T \ P] = f[x] + a[(T \ P) \ {x}]
      BY <1>1, <2>4 DEF Additive
    <3>3. /\ g[T \ {x}] = a[T \intersect P] + a[(T \ P) \ {x}]
          /\ a[(T \ P) \ {x}] \in Int
      BY <2>0, <2>2, <3>1, Zenon
    <3> QED BY <2>0, <2>1, <3>2, <3>3
  <2> QED BY <2>3, <2>4
<1>3. g \in [SUBSET S -> Int] /\ g[{}] = 0
  <2>1. ASSUME NEW T \in SUBSET S PROVE a[T \intersect P] + a[T \ P] \in Int
    <3>1. a[T \intersect P] \in Int /\ a[T \ P] \in Int
      BY <1>1 DEF Additive
    <3> QED BY <3>1
  <2>2. {} \intersect P = {} /\ {} \ P = {} /\ a[{}] = 0
    BY <1>1 DEF Additive
  <2>3. g[{}] = a[{} \intersect P] + a[{} \ P]
    OBVIOUS
  <2>4. g[{}] = a[{}] + a[{}]
    BY <2>2, <2>3, Zenon
  <2>5. g \in [SUBSET S -> Int]
    BY <2>1, Zenon
  <2> HIDE DEF g
  <2> QED BY <2>2, <2>4, <2>5
<1>4. g[S] = a[P] + a[S \ P]
  <2>1. S \intersect P = P
    OBVIOUS
  <2> QED BY <2>1
<1> HIDE DEF g
<1>9. Additive(g, f, S)
  BY <1>2, <1>3 DEF Additive
<1>5. Total(f, S) = g[S]
  BY <1>9, TotalIsAdditive
<1>6. P \in SUBSET S /\ S \ P \in SUBSET S
  OBVIOUS
<1>7. Total(f, P) = a[P] /\ Total(f, S \ P) = a[S \ P]
  BY <1>1, <1>6
<1>8. a[P] \in Int /\ a[S \ P] \in Int
  BY <1>1, <1>6 DEF Additive
<1> QED BY <1>4, <1>5, <1>7, <1>8

\* A sum of terms that are not negative is none of them's less.
LEMMA TotalBounds ==
  ASSUME NEW S, IsFiniteSet(S), NEW f, \A x \in S : f[x] \in Nat
  PROVE  Total(f, S) \in Nat /\ \A x \in S : f[x] <= Total(f, S)
<1>1. PICK a : Additive(a, f, S) /\ \A T \in SUBSET S : Total(f, T) = a[T]
  BY TotalIs
<1> DEFINE Bad == { T \in SUBSET S : a[T] \notin Nat }
<1>2. Bad = {}
  <2> SUFFICES ASSUME Bad # {} PROVE FALSE
    OBVIOUS
  <2>1. PICK T \in Bad : \A U \in Bad : Cardinality(T) <= Cardinality(U)
    <3>1. Bad \in SUBSET SUBSET S
      OBVIOUS
    <3> HIDE DEF Bad
    <3> QED BY <3>1, SmallestSet
  <2>2. T \in SUBSET S /\ IsFiniteSet(T) /\ Cardinality(T) \in Nat
    BY FS_Subset, FS_CardinalityType
  <2>7. a[T] \notin Nat /\ a[{}] = 0
    BY <1>1 DEF Additive
  <2>3. PICK x \in T : TRUE
    BY <2>7
  <2>4. a[T] = f[x] + a[T \ {x}] /\ f[x] \in Nat /\ a[T \ {x}] \notin Nat
    BY <1>1, <2>2, <2>7 DEF Additive
  <2>5. Cardinality(T \ {x}) = Cardinality(T) - 1 /\ T \ {x} \in SUBSET S
    BY <2>2, FS_RemoveElement
  <2>6. T \ {x} \in Bad
    BY <2>4, <2>5
  <2> HIDE DEF Bad
  <2> QED BY <2>1, <2>2, <2>5, <2>6
<1>3. \A T \in SUBSET S : Total(f, T) \in Nat
  BY <1>1, <1>2
<1>4. ASSUME NEW x \in S PROVE f[x] <= Total(f, S)
  <2>1. Total(f, S) = f[x] + Total(f, S \ {x})
    BY TotalRemoves
  <2>2. Total(f, S \ {x}) \in Nat /\ f[x] \in Nat
    BY <1>3
  <2> QED BY <2>1, <2>2
<1> QED BY <1>3, <1>4

-----------------------------------------------------------------------------
(* What is booked of an order, and what the open lots leave *)

LEMMA KeysFinite ==
  ASSUME NEW S \in SUBSET Orders
  PROVE  IsFiniteSet(KeysOf(S)) /\ KeysOf(S) \subseteq Keys
<1> DEFINE f == [o \in S |-> {o} \X (1..Size[o])]
           T == { {o} \X (1..Size[o]) : o \in S }
<1>1. IsFiniteSet(S)
  BY BookAssumption, FS_Subset DEF Orders
<1>2. f \in Surjection(S, T)
  BY DEF Surjection
<1>3. IsFiniteSet(T)
  <2> HIDE DEF f, T
  <2> QED BY <1>1, <1>2, FS_Surjection
<1>4. \A U \in T : IsFiniteSet(U)
  <2> SUFFICES ASSUME NEW o \in S PROVE IsFiniteSet({o} \X (1..Size[o]))
    OBVIOUS
  <2>1. Size[o] \in Int
    BY SizeIsNat
  <2>2. IsFiniteSet({o})
    BY FS_Singleton
  <2>3. IsFiniteSet(1..Size[o])
    BY <2>1, FS_Interval
  <2> QED BY <2>2, <2>3, FS_Product
<1>5. KeysOf(S) = UNION T
  BY DEF KeysOf
<1>6. IsFiniteSet(UNION T)
  <2> HIDE DEF T
  <2> QED BY <1>3, <1>4, FS_UNION
<1>7. KeysOf(S) \subseteq Keys
  BY DEF KeysOf, Keys
<1> QED BY <1>5, <1>6, <1>7

LEMMA OrderSets ==
  /\ Buys \in SUBSET Orders /\ Sells \in SUBSET Orders
  /\ IsFiniteSet(Buys) /\ IsFiniteSet(Sells)
  /\ \A o \in Orders : {o} \in SUBSET Orders
  /\ \A o \in Orders : o \in Sells <=> o \notin Buys
BY BookAssumption, FS_Subset DEF Orders

Products == [k \in Keys |-> delta[k] * times[k]]
Bought   == Total([o \in Orders |-> Ingested(o)], Buys)
SoldOff  == Total([o \in Orders |-> Ingested(o)], Sells)
OpenLots == Total(lots, KeysOf(Buys))

LEMMA ProductIsNat ==
  ASSUME TypeOK PROVE Products \in [Keys -> Nat] /\ \A k \in Keys : Products[k] = delta[k] * times[k]
<1>1. \A m, n \in Nat : m * n \in Nat
  OBVIOUS
<1> QED BY <1>1 DEF TypeOK, Products

LEMMA IngestedIsNat ==
  ASSUME TypeOK
  PROVE  /\ \A o \in Orders : Ingested(o) \in Nat
         /\ Bought \in Int /\ SoldOff \in Int /\ OpenLots \in Int
<1>1. ASSUME NEW o \in Orders PROVE Ingested(o) \in Nat
  <2>1. IsFiniteSet(KeysOf({o})) /\ \A k \in KeysOf({o}) : Products[k] \in Nat
    BY OrderSets, KeysFinite, ProductIsNat
  <2>2. Ingested(o) = Total(Products, KeysOf({o}))
    BY DEF Ingested, Products
  <2> QED BY <2>1, <2>2, TotalBounds
<1> DEFINE f == [o \in Orders |-> Ingested(o)]
<1>2. \A o \in Orders : f[o] \in Int
  BY <1>1
<1>3. Bought = Total(f, Buys) /\ SoldOff = Total(f, Sells)
  BY DEF Bought, SoldOff
<1> HIDE DEF f
<1>4. Bought \in Int /\ SoldOff \in Int
  BY <1>2, <1>3, OrderSets, TotalRemoves
<1>5. OpenLots \in Int
  <2>1. IsFiniteSet(KeysOf(Buys)) /\ \A k \in KeysOf(Buys) : lots[k] \in Int
    BY OrderSets, KeysFinite DEF TypeOK
  <2> QED BY <2>1, TotalRemoves DEF OpenLots
<1> QED BY <1>1, <1>4, <1>5

\* A step that books nothing changes no total.
LEMMA NothingBooked ==
  ASSUME TypeOK, TypeOK', \A k \in Keys : delta'[k] * times'[k] = delta[k] * times[k]
  PROVE  /\ \A o \in Orders : Ingested(o)' = Ingested(o)
         /\ Bought' = Bought /\ SoldOff' = SoldOff
<1>1. Products' = Products
  BY DEF Products
<1>2. \A o \in Orders : Ingested(o)' = Ingested(o)
  BY <1>1 DEF Ingested, Products
<1>3. [o \in Orders |-> Ingested(o)]' = [o \in Orders |-> Ingested(o)]
  BY <1>2
<1> QED BY <1>2, <1>3 DEF Bought, SoldOff

\* A booked key adds its shares to its own order.
LEMMA OneBooked ==
  ASSUME TypeOK, TypeOK', NEW k \in Keys, delta' = delta, times[k] = 0, times'[k] = 1,
         \A j \in Keys : j # k => times'[j] = times[j]
  PROVE  /\ k[1] \in Orders /\ Ingested(k[1])' = Ingested(k[1]) + delta[k]
         /\ \A o \in Orders : o # k[1] => Ingested(o)' = Ingested(o)
         /\ Bought' = Bought + (IF k[1] \in Buys THEN delta[k] ELSE 0)
         /\ SoldOff' = SoldOff + (IF k[1] \in Buys THEN 0 ELSE delta[k])
<1> DEFINE p == k[1]
<1>1. p \in Orders /\ k \in KeysOf({p}) /\ \A o \in Orders : o # p => k \notin KeysOf({o})
  BY KeyIs DEF KeysOf
<1>2. /\ Products \in [Keys -> Nat] /\ Products' \in [Keys -> Nat]
      /\ Products[k] = 0 /\ Products'[k] = delta[k] /\ delta[k] \in Nat
      /\ \A j \in Keys : j # k => Products'[j] = Products[j]
  <2>1. Products \in [Keys -> Nat] /\ \A j \in Keys : Products[j] = delta[j] * times[j]
    BY ProductIsNat
  <2>2. Products' \in [Keys -> Nat] /\ \A j \in Keys : Products'[j] = delta'[j] * times'[j]
    <3>1. \A m, n \in Nat : m * n \in Nat
      OBVIOUS
    <3> QED BY <3>1 DEF TypeOK, Products
  <2>3. delta[k] \in Nat /\ delta[k] * 0 = 0 /\ delta[k] * 1 = delta[k]
    BY DEF TypeOK
  <2> QED BY <2>1, <2>2, <2>3
<1>3. \A o \in Orders : /\ Ingested(o) = Total(Products, KeysOf({o}))
                        /\ Ingested(o)' = Total(Products', KeysOf({o}))
  BY DEF Ingested, Products
<1>4. Ingested(p)' = Ingested(p) + delta[k]
  <2>1. /\ IsFiniteSet(KeysOf({p})) /\ KeysOf({p}) \subseteq Keys
    BY <1>1, OrderSets, KeysFinite
  <2>2. Total(Products', KeysOf({p})) = Total(Products, KeysOf({p})) + Products'[k] - Products[k]
    <3>1. \A y \in KeysOf({p}) : Products[y] \in Int /\ Products'[y] \in Int
      BY <1>2, <2>1
    <3>2. \A y \in KeysOf({p}) : y # k => Products'[y] = Products[y]
      BY <1>2, <2>1
    <3>3. k \in KeysOf({p})
      BY <1>1
    <3>4. IsFiniteSet(KeysOf({p}))
      BY <2>1
    <3> DEFINE K == KeysOf({p})
               old == Products
               new == Products'
    <3>5. /\ IsFiniteSet(K) /\ k \in K /\ \A y \in K : old[y] \in Int /\ new[y] \in Int
          /\ \A y \in K : y # k => new[y] = old[y]
      BY <3>1, <3>2, <3>3, <3>4
    <3>6. Total(new, K) = Total(old, K) + new[k] - old[k]
      <4> HIDE DEF K, old, new
      <4> QED BY ONLY <3>5, TotalMoves
    <3> QED BY <3>6
  <2>3. Ingested(p) \in Nat
    BY <1>1, IngestedIsNat
  <2> QED BY <1>1, <1>2, <1>3, <2>2, <2>3
<1>5. ASSUME NEW o \in Orders, o # p PROVE Ingested(o)' = Ingested(o)
  <2>1. IsFiniteSet(KeysOf({o})) /\ KeysOf({o}) \subseteq Keys /\ k \notin KeysOf({o})
    BY <1>1, <1>5, OrderSets, KeysFinite
  <2>2. \A j \in KeysOf({o}) : Products[j] \in Int /\ Products'[j] = Products[j]
    BY <1>2, <2>1
  <2>3. Total(Products', KeysOf({o})) = Total(Products, KeysOf({o}))
    BY <2>1, <2>2, TotalSame
  <2> QED BY <1>3, <2>3
<1> DEFINE f == [o \in Orders |-> Ingested(o)]
           h == [o \in Orders |-> Ingested(o)']
<1>6. /\ \A o \in Orders : f[o] \in Int /\ h[o] \in Int /\ (o # p => h[o] = f[o])
      /\ h[p] = f[p] + delta[k] /\ f[p] \in Int
      /\ Bought = Total(f, Buys) /\ Bought' = Total(h, Buys)
      /\ SoldOff = Total(f, Sells) /\ SoldOff' = Total(h, Sells)
  <2>1. \A o \in Orders : Ingested(o) \in Nat /\ Ingested(o)' \in Nat
    BY <1>1, <1>2, <1>4, <1>5, IngestedIsNat
  <2> QED BY <1>1, <1>4, <1>5, <2>1 DEF Bought, SoldOff
<1> HIDE DEF f, h
<1>7. delta[k] \in Nat /\ Bought \in Int /\ SoldOff \in Int
  BY <1>2, IngestedIsNat
<1>8. CASE p \in Buys
  <2>1. Total(h, Buys) = Total(f, Buys) + h[p] - f[p]
    <3>1. \A y \in Buys : f[y] \in Int /\ h[y] \in Int
      BY <1>6, OrderSets
    <3>2. \A y \in Buys : y # p => h[y] = f[y]
      BY <1>6, OrderSets
    <3>3. IsFiniteSet(Buys)
      BY OrderSets
    <3> HIDE DEF p
    <3> QED BY <1>8, <3>1, <3>2, <3>3, TotalMoves
  <2>2. Total(h, Sells) = Total(f, Sells)
    <3>1. \A o \in Sells : f[o] \in Int /\ h[o] = f[o]
      BY <1>1, <1>6, <1>8, OrderSets
    <3> QED BY <3>1, OrderSets, TotalSame
  <2> QED BY <1>1, <1>4, <1>5, <1>6, <1>7, <1>8, <2>1, <2>2
<1>9. CASE p \notin Buys
  <2>1. Total(h, Sells) = Total(f, Sells) + h[p] - f[p]
    <3>1. \A y \in Sells : f[y] \in Int /\ h[y] \in Int
      BY <1>6, OrderSets
    <3>2. \A y \in Sells : y # p => h[y] = f[y]
      BY <1>6, OrderSets
    <3>3. p \in Sells
      BY <1>1, <1>9, OrderSets
    <3> HIDE DEF p
    <3> QED BY <3>1, <3>2, <3>3, OrderSets, TotalMoves
  <2>2. Total(h, Buys) = Total(f, Buys)
    <3>1. \A o \in Buys : f[o] \in Int /\ h[o] = f[o]
      BY <1>1, <1>6, <1>9, OrderSets
    <3> QED BY <3>1, OrderSets, TotalSame
  <2> QED BY <1>1, <1>4, <1>5, <1>6, <1>7, <1>9, <2>1, <2>2
<1> QED BY <1>8, <1>9

\* While observers take turns, the watermark covers what is booked of an order and
\* what the one at work is about to book, and the lots hold what was not sold.
Passing(w) ==
  LET t == task[w] IN
  /\ t.at = "write" => (t.prior.seen => row[t.order] = t.prior)
  /\ t.at = "reserve" => t.to <= row[t.order].filled /\ Ingested(t.order) <= t.from
  /\ t.at \in {"relieve", "book"} => Ingested(t.order) + delta[Key(w)] <= row[t.order].filled
  /\ (t.at = "book" /\ t.order \in Sells) => Total(t.take, KeysOf(Buys)) <= delta[Key(w)]

Covered == \A o \in Orders : Ingested(o) <= row[o].filled

Balanced == Covered /\ (\A w \in Observers : Passing(w)) /\ Bought - SoldOff <= OpenLots

Unseen == \A o \in Orders : ~row[o].seen => row[o].filled = 0

SInv == Unseen /\ (clean => Balanced)

\* An observer that is at nothing, or at a place where nothing is booked any more.
LEMMA NothingPending ==
  ASSUME NEW w \in Observers, task[w].at \in {"idle", "gain", "mark"} PROVE Passing(w)
BY DEF Passing

LEMMA InitBalanced == ASSUME IInv, Init PROVE SInv
<1>1. \A o \in Orders : Ingested(o) = 0
  <2> SUFFICES ASSUME NEW o \in Orders PROVE Ingested(o) = 0
    OBVIOUS
  <2>1. IsFiniteSet(KeysOf({o})) /\ KeysOf({o}) \subseteq Keys
    BY OrderSets, KeysFinite
  <2>2. \A k \in KeysOf({o}) : Products[k] = 0
    BY <2>1 DEF Init, Products
  <2> QED BY <2>1, <2>2, TotalZero DEF Ingested, Products
<1>2. Bought = 0 /\ SoldOff = 0
  <2> DEFINE f == [o \in Orders |-> Ingested(o)]
  <2>1. \A o \in Orders : f[o] = 0
    BY <1>1
  <2>2. Bought = Total(f, Buys) /\ SoldOff = Total(f, Sells)
    BY DEF Bought, SoldOff
  <2> HIDE DEF f
  <2>3. (\A o \in Buys : f[o] = 0) /\ (\A o \in Sells : f[o] = 0)
    BY <2>1, OrderSets
  <2> QED BY <2>2, <2>3, OrderSets, TotalZero
<1>3. OpenLots = 0
  <2>1. IsFiniteSet(KeysOf(Buys)) /\ KeysOf(Buys) \subseteq Keys
    BY OrderSets, KeysFinite
  <2>2. \A k \in KeysOf(Buys) : lots[k] = 0
    BY <2>1 DEF Init
  <2> QED BY <2>1, <2>2, TotalZero DEF OpenLots
<1>4. \A w \in Observers : Passing(w)
  BY NothingPending DEF Init, Idle
<1>5. \A o \in Orders : row[o].filled = 0
  BY DEF Init, NoRow
<1> QED BY <1>1, <1>2, <1>3, <1>4, <1>5 DEF SInv, Unseen, Balanced, Covered

\* A step that books nothing and lowers no watermark.
LEMMA QuietStep ==
  ASSUME IInv, IInv', SInv, NEW w \in Observers,
         \A k \in Keys : delta'[k] * times'[k] = delta[k] * times[k],
         lots' = lots, Unseen', \A o \in Orders : row'[o].filled >= row[o].filled,
         clean' => clean /\ Passing(w)' /\ \A v \in Observers : v # w => task'[v].at = "idle"
  PROVE  SInv'
<1>1. TypeOK /\ TypeOK'
  BY DEF IInv, TypeInv
<1>2. /\ \A o \in Orders : Ingested(o)' = Ingested(o) /\ Ingested(o) \in Nat
      /\ Bought' = Bought /\ SoldOff' = SoldOff
  BY <1>1, NothingBooked, IngestedIsNat
<1>3. OpenLots' = OpenLots
  BY DEF OpenLots
<1>4. \A o \in Orders : row[o].filled \in Nat /\ row'[o].filled \in Nat
  BY <1>1 DEF TypeOK, Rows
<1>5. ASSUME clean' PROVE Balanced'
  <2>1. Balanced /\ Passing(w)' /\ \A v \in Observers : v # w => task'[v].at = "idle"
    BY <1>5 DEF SInv
  <2>2. Covered'
    BY <1>2, <1>4, <2>1 DEF Balanced, Covered
  <2>3. \A v \in Observers : Passing(v)'
    BY <2>1 DEF Passing
  <2> QED BY <1>2, <1>3, <2>1, <2>2, <2>3 DEF Balanced
<1> QED BY <1>5 DEF SInv

LEMMA OthersRest ==
  ASSUME CInv, NEW w \in Observers, task[w].at # "idle", Moves(w), clean
  PROVE  \A v \in Observers : v # w => task[v].at = "idle" /\ task'[v].at = "idle"
BY DEF CInv, Turns, Moves

LEMMA TrackBalanced == ASSUME IInv, IInv', CInv, SInv, Track PROVE SInv'
<1>1. PICK o \in Orders :
        /\ ~row[o].seen
        /\ row' = [row EXCEPT ![o] =
                     [seen |-> TRUE, filled |-> 0, notional |-> TRUE, baseline |-> FALSE]]
        /\ UNCHANGED << booking, delta, times, lots, realized, task, clean >>
  BY DEF Track
<1>2. /\ row \in [Orders -> Rows] /\ row'[o].seen /\ row'[o].filled = 0 /\ row[o].filled = 0
      /\ \A p \in Orders : p # o => row'[p] = row[p]
  BY <1>1 DEF IInv, TypeInv, TypeOK, SInv, Unseen
<1>3. TypeOK /\ TypeOK'
  BY DEF IInv, TypeInv
<1>4. /\ \A p \in Orders : Ingested(p)' = Ingested(p)
      /\ Bought' = Bought /\ SoldOff' = SoldOff /\ OpenLots' = OpenLots
  BY <1>1, <1>3, NothingBooked DEF OpenLots
<1>5. \A p \in Orders : row'[p].filled = row[p].filled
  BY <1>2
<1>6. Unseen'
  BY <1>2 DEF SInv, Unseen
<1>7. ASSUME NEW w \in Observers, Passing(w) PROVE Passing(w)'
  <2>1. task'[w] = task[w] /\ Key(w)' = Key(w) /\ task[w] \in Task
    BY <1>1 DEF Key, Order, IInv, TypeInv, Sound
  <2>2. task[w].at = "write" => (task[w].prior.seen => row'[task[w].order] = task[w].prior)
    <3>1. task[w].at = "write" => task[w].order \in Orders
      BY <2>1, TaskAt
    <3> QED BY <1>1, <1>2, <1>7, <3>1 DEF Passing
  <2>3. task[w].at \in {"reserve"} \union Applying => task[w].order \in Orders
    BY <2>1, TaskAt
  <2> QED BY <1>1, <1>4, <1>5, <1>7, <2>1, <2>2, <2>3 DEF Passing, Applying
<1> QED BY <1>1, <1>4, <1>5, <1>6, <1>7 DEF SInv, Balanced, Covered

LEMMA LookBalanced == ASSUME IInv, IInv', CInv, SInv, NEW w \in Observers, Look(w) PROVE SInv'
<1>1. /\ Moves(w) /\ task'[w].at = "write" /\ task'[w].order \in Orders
      /\ task'[w].prior = row[task'[w].order]
      /\ clean' = (clean /\ \A v \in Observers : task[v].at = "idle")
      /\ UNCHANGED << row, delta, times, lots >>
  BY DEF Look, At, IInv, TypeInv, Sound, Moves
<1>2. Passing(w)'
  BY <1>1 DEF Passing
<1>3. clean' => clean /\ \A v \in Observers : v # w => task'[v].at = "idle"
  BY <1>1 DEF Moves
<1>4. \A o \in Orders : row'[o].filled >= row[o].filled
  BY <1>1 DEF IInv, TypeInv, TypeOK, Rows
<1>5. Unseen'
  BY <1>1 DEF SInv, Unseen
<1> QED BY <1>1, <1>2, <1>3, <1>4, <1>5, QuietStep

LEMMA WriteBalanced == ASSUME IInv, IInv', CInv, SInv, NEW w \in Observers, Write(w) PROVE SInv'
<1> DEFINE prior == task[w].prior
           report == task[w].report
<1>0. PICK o \in Orders : o = task[w].order
  BY TaskAt DEF Write, At, IInv, TypeInv, Sound
<1>1. /\ task[w].at = "write" /\ o \in Orders /\ prior \in Rows /\ report \in Report
      /\ UNCHANGED << delta, times, lots, clean >>
  BY TaskAt DEF Write, At, IInv, TypeInv, Sound
<1>2. clean => (prior.seen => row[o] = prior) /\ Covered
  BY <1>0, <1>1 DEF SInv, Balanced, Passing
<1>3. row \in [Orders -> Rows] /\ Ingested(o) \in Nat
  BY <1>1, IngestedIsNat DEF IInv, TypeInv, TypeOK
<1>4. Moves(w)
  BY DEF Write, Done, Moves, IInv, TypeInv, Sound
<1>5. clean' => clean /\ \A v \in Observers : v # w => task'[v].at = "idle"
  BY <1>1, <1>4, OthersRest
<1>6. \A p \in Orders : p # o => row'[p] = row[p]
  BY <1>0, <1>1, <1>3 DEF Write, Order
<1>7. CASE ~prior.seen /\ ~row[o].seen
  <2>1. row'[o] = Baselined(report) /\ Done(w)
    BY <1>0, <1>1, <1>3, <1>7 DEF Write, Order
  <2>2. row[o].filled = 0 /\ row'[o].seen /\ row'[o].filled \in Nat
    BY <1>1, <1>7, <2>1 DEF SInv, Unseen, Baselined, Report
  <2>3. \A p \in Orders : row'[p].filled >= row[p].filled
    BY <1>3, <1>6, <2>2 DEF Rows
  <2>4. Unseen'
    BY <1>6, <2>2 DEF SInv, Unseen
  <2>5. Passing(w)'
    BY <2>1 DEF Passing, Done, Idle, IInv, TypeInv, Sound
  <2> QED BY <1>1, <1>5, <2>3, <2>4, <2>5, QuietStep
<1>8. CASE ~prior.seen /\ row[o].seen
  <2>1. row' = row /\ Done(w)
    BY <1>0, <1>8 DEF Write, Order
  <2>2. Passing(w)'
    BY <2>1 DEF Passing, Done, Idle, IInv, TypeInv, Sound
  <2>3. \A p \in Orders : row'[p].filled >= row[p].filled
    BY <1>3, <2>1 DEF Rows
  <2>4. Unseen'
    BY <2>1 DEF SInv, Unseen
  <2> QED BY <1>1, <1>5, <2>2, <2>3, <2>4, QuietStep
<1>9. CASE prior.seen
  <2>1. row'[o] = Observed(prior, report)
    BY <1>0, <1>1, <1>3, <1>9 DEF Write, Order
  <2>2. /\ prior.filled \in Nat /\ report.filled \in Nat /\ row'[o].seen
        /\ row'[o].filled \in Nat /\ row'[o].filled >= prior.filled
    BY <1>1, <1>9, <2>1 DEF Observed, Kept, Rows, Report
  <2>3. Unseen'
    BY <1>6, <2>2 DEF SInv, Unseen
  <2>4. CASE ~clean
    BY <1>1, <2>3, <2>4 DEF SInv
  <2>5. CASE clean
    <3>1. row[o] = prior
      BY <1>2, <1>9, <2>5
    <3>2. \A p \in Orders : row'[p].filled >= row[p].filled
      BY <1>3, <1>6, <2>2, <3>1 DEF Rows
    <3>3. Ingested(o) <= prior.filled
      BY <1>1, <1>2, <2>5, <3>1 DEF Covered
    <3>4. Ingested(o)' = Ingested(o)
      <4>1. \A k \in Keys : delta'[k] * times'[k] = delta[k] * times[k]
        BY <1>1
      <4>2. TypeOK /\ TypeOK'
        BY DEF IInv, TypeInv
      <4> QED BY <1>1, <4>1, <4>2, NothingBooked
    <3>5. Passing(w)'
      <4>1. CASE Done(w)
        BY <4>1 DEF Passing, Done, Idle, IInv, TypeInv, Sound
      <4>2. CASE ~Done(w)
        <5>1. /\ Bookable(prior, report)
              /\ task'[w] = [at |-> "reserve", order |-> o, from |-> prior.filled, to |-> report.filled]
          BY <1>0, <1>9, <4>2 DEF Write, Order, IInv, TypeInv, Sound
        <5>2. row'[o].filled = report.filled
          BY <2>1, <2>2, <5>1 DEF Bookable, Observed, Kept
        <5> QED BY <2>2, <3>3, <3>4, <5>1, <5>2 DEF Passing
      <4> QED BY <4>1, <4>2
    <3> QED BY <1>1, <1>5, <2>3, <3>2, <3>5, QuietStep
  <2> QED BY <2>4, <2>5
<1> QED BY <1>7, <1>8, <1>9

LEMMA RestBalanced ==
  ASSUME IInv, IInv', CInv, SInv, NEW w \in Observers, Gain(w) \/ Mark(w) \/ Crash(w)
  PROVE  SInv'
<1>1. task[w].at # "idle" /\ UNCHANGED << row, delta, times, lots, clean >>
  BY DEF Gain, Mark, Crash, At
<1>2. Moves(w) /\ task'[w].at \in {"mark", "idle"}
  <2>1. CASE Mark(w) \/ Crash(w)
    BY <2>1 DEF Mark, Crash, Done, Idle, Moves, IInv, TypeInv, Sound
  <2>2. CASE Gain(w)
    <3>1. task[w] \in [at : {"relieve", "book", "gain", "mark"}, order : Orders, to : Nat]
      BY <2>2, TaskAt DEF Gain, At, IInv, TypeInv, Sound
    <3>2. Moves(w) /\ task'[w] = [at |-> "mark", order |-> task[w].order, to |-> task[w].to]
      BY <2>2, <3>1, StepIs DEF Gain, IInv
    <3> QED BY <3>2
  <2> QED BY <2>1, <2>2
<1>3. Passing(w)'
  BY <1>2 DEF Passing
<1>4. clean' => clean /\ \A v \in Observers : v # w => task'[v].at = "idle"
  BY <1>1, <1>2, OthersRest
<1>5. (\A o \in Orders : row'[o].filled >= row[o].filled) /\ Unseen'
  BY <1>1 DEF SInv, Unseen, IInv, TypeInv, TypeOK, Rows
<1> QED BY <1>1, <1>3, <1>4, <1>5, QuietStep

LEMMA ReserveBalanced ==
  ASSUME IInv, IInv', CInv, SInv, NEW w \in Observers, Reserve(w) PROVE SInv'
<1> DEFINE k == Key(w)
<1>0. PICK o \in Orders : o = task[w].order
  BY TaskAt DEF Reserve, At, IInv, TypeInv, Sound
<1>1. /\ task[w].at = "reserve" /\ o \in Orders /\ task[w].from \in Nat /\ task[w].to \in Nat
      /\ task[w].from < task[w].to /\ k \in Keys
      /\ UNCHANGED << row, times, lots, clean >>
  BY TaskAt DEF Reserve, At, IInv, TypeInv, Sound
<1>2. TypeOK /\ TypeOK' /\ delta \in [Keys -> Nat] /\ times \in [Keys -> Nat]
  BY DEF IInv, TypeInv, TypeOK
<1>3. Moves(w)
  BY DEF Reserve, Done, Moves, IInv, TypeInv, Sound
<1>4. clean' => clean /\ \A v \in Observers : v # w => task'[v].at = "idle"
  BY <1>1, <1>3, OthersRest
<1>5. (\A p \in Orders : row'[p].filled >= row[p].filled) /\ Unseen'
  BY <1>1 DEF SInv, Unseen, IInv, TypeInv, TypeOK, Rows
<1>6. CASE ~Free(k)
  <2>1. UNCHANGED delta /\ Done(w)
    BY <1>6 DEF Reserve
  <2>2. Passing(w)'
    BY <2>1 DEF Passing, Done, Idle, IInv, TypeInv, Sound
  <2>3. \A j \in Keys : delta'[j] * times'[j] = delta[j] * times[j]
    BY <1>1, <2>1
  <2> QED BY <1>1, <1>4, <1>5, <2>2, <2>3, QuietStep
<1>7. CASE Free(k)
  <2>1. /\ delta' = [delta EXCEPT ![k] = task[w].to - task[w].from] /\ booking[k] = "none"
        /\ task' = [task EXCEPT ![w] = [at |-> IF o \in Buys THEN "book" ELSE "relieve",
                                        order |-> o, to |-> task[w].to]]
    BY <1>0, <1>7 DEF Reserve, Order, Free
  <2>2. times[k] = 0
    BY <1>1, <2>1 DEF IInv, Once
  <2>3. \A j \in Keys : delta'[j] * times'[j] = delta[j] * times[j]
    <3>1. \A j \in Keys : j # k => delta'[j] = delta[j]
      BY <1>2, <2>1
    <3>2. delta'[k] \in Nat /\ delta[k] \in Nat /\ \A n \in Nat : n * 0 = 0
      BY <1>1, <1>2 DEF TypeOK
    <3> QED BY <1>1, <2>2, <3>1, <3>2
  <2>4. /\ task'[w].at \in {"book", "relieve"} /\ task'[w].order = o /\ Key(w)' = k
        /\ delta'[k] = task[w].to - task[w].from
        /\ task'[w].at = "book" => o \notin Sells
    BY <1>0, <1>1, <1>2, <2>1, OrderSets DEF Key, Order, IInv, TypeInv, Sound
  <2>5. Ingested(o)' = Ingested(o) /\ Ingested(o) \in Nat
    BY <1>1, <1>2, <2>3, NothingBooked, IngestedIsNat
  <2>6. row[o].filled \in Nat
    BY <1>1 DEF IInv, TypeInv, TypeOK, Rows
  <2>7. clean => Passing(w)'
    <3>1. clean => task[w].to <= row[o].filled /\ Ingested(o) <= task[w].from
      BY <1>0, <1>1 DEF SInv, Balanced, Passing
    <3>2. clean => Ingested(o)' + delta'[k] <= row'[o].filled
      BY <1>1, <2>4, <2>5, <2>6, <3>1
    <3> HIDE DEF k
    <3> QED BY <2>4, <3>2 DEF Passing
  <2> HIDE DEF k
  <2> QED BY <1>1, <1>4, <1>5, <2>3, <2>7, QuietStep
<1> QED BY <1>6, <1>7

LEMMA ComputeBalanced ==
  ASSUME IInv, IInv', CInv, SInv, NEW w \in Observers, Compute(w) PROVE SInv'
<1>0. PICK o \in Orders : o = task[w].order
  BY TaskAt DEF Compute, At, IInv, TypeInv, Sound, Applying
<1>1. PICK take \in Reliefs(delta[Key(w)]) :
        task' = [task EXCEPT ![w] = [at |-> "book", order |-> o, to |-> task[w].to, take |-> take]]
  BY <1>0 DEF Compute, Order
<1>2. /\ task[w].at = "relieve" /\ o \in Orders /\ Key(w) \in Keys
      /\ UNCHANGED << row, delta, times, lots, clean >>
  BY TaskAt DEF Compute, At, IInv, TypeInv, Sound, Applying
<1>3. /\ Moves(w) /\ Key(w)' = Key(w) /\ task'[w].at = "book" /\ task'[w].order = o
      /\ task'[w].take = take
  BY <1>0, <1>1 DEF Moves, Key, Order, IInv, TypeInv, Sound
<1>4. clean' => clean /\ \A v \in Observers : v # w => task'[v].at = "idle"
  BY <1>2, <1>3, OthersRest
<1>5. Total(take, KeysOf(Buys)) <= delta[Key(w)]
  <2> DEFINE q == delta[Key(w)]
  <2>1. q \in Nat /\ take \in [KeysOf(Buys) -> 0..q]
    BY <1>2 DEF Reliefs, IInv, TypeInv, TypeOK
  <2>2. IsFiniteSet(KeysOf(Buys)) /\ \A k \in KeysOf(Buys) : take[k] \in Int
    BY <2>1, OrderSets, KeysFinite
  <2>3. Total(take, KeysOf(Buys)) \in Int
    BY <2>2, TotalRemoves
  <2>4. \/ Total(take, KeysOf(Buys)) = q
        \/ Total(take, KeysOf(Buys)) = Total(lots, Open) /\ Total(lots, Open) < q
    BY DEF Reliefs
  <2> HIDE DEF q
  <2>5. Total(take, KeysOf(Buys)) <= q
    BY <2>1, <2>3, <2>4
  <2> QED BY <2>5 DEF q
<1>6. Ingested(o)' = Ingested(o)
  <2>1. TypeOK /\ TypeOK'
    BY DEF IInv, TypeInv
  <2>2. \A k \in Keys : delta'[k] * times'[k] = delta[k] * times[k]
    BY <1>2
  <2> QED BY <1>2, <2>1, <2>2, NothingBooked
<1>7. clean => Passing(w)'
  BY <1>0, <1>2, <1>3, <1>5, <1>6 DEF SInv, Balanced, Passing
<1>8. (\A p \in Orders : row'[p].filled >= row[p].filled) /\ Unseen'
  BY <1>2 DEF SInv, Unseen, IInv, TypeInv, TypeOK, Rows
<1> QED BY <1>2, <1>4, <1>7, <1>8, QuietStep

LEMMA PurchaseBalanced ==
  ASSUME IInv, IInv', CInv, SInv, NEW w \in Observers, Purchase(w) PROVE SInv'
<1>0. PICK o \in Orders : o = task[w].order
  BY OrderSets DEF Purchase, Order
<1> DEFINE k == Key(w)
<1>1. /\ task[w].at = "book" /\ o \in Buys /\ o \in Orders /\ k \in Keys /\ k[1] = o
      /\ UNCHANGED << row, delta, clean >> /\ lots' = [lots EXCEPT ![k] = delta[k]]
      /\ times' = [times EXCEPT ![k] = @ + 1]
  BY <1>0, OrderSets DEF Purchase, Booked, At, Order, Key, IInv, TypeInv, Sound, Applying
<1>2. TypeOK /\ TypeOK' /\ times \in [Keys -> Nat] /\ delta \in [Keys -> Nat] /\ lots \in [Keys -> Int]
  BY DEF IInv, TypeInv, TypeOK
<1>3. times[k] = 0
  BY <1>1 DEF IInv, Held
<1>4. k \in KeysOf(Buys)
  BY <1>1, KeyIs DEF KeysOf
<1>5. times'[k] = 1 /\ \A j \in Keys : j # k => times'[j] = times[j]
  BY <1>1, <1>2, <1>3
<1>6. /\ Ingested(o)' = Ingested(o) + delta[k]
      /\ \A p \in Orders : p # o => Ingested(p)' = Ingested(p)
      /\ Bought' = Bought + delta[k] /\ SoldOff' = SoldOff
      /\ Bought \in Int /\ SoldOff \in Int /\ OpenLots \in Int /\ delta[k] \in Nat
  <2>1. /\ Ingested(o)' = Ingested(o) + delta[k]
        /\ \A p \in Orders : p # o => Ingested(p)' = Ingested(p)
        /\ Bought' = Bought + (IF o \in Buys THEN delta[k] ELSE 0)
        /\ SoldOff' = SoldOff + (IF o \in Buys THEN 0 ELSE delta[k])
    <3> HIDE DEF k
    <3> QED BY <1>1, <1>2, <1>3, <1>5, OneBooked
  <2>2. Bought \in Int /\ SoldOff \in Int /\ OpenLots \in Int /\ delta[k] \in Nat
    BY <1>1, <1>2, IngestedIsNat
  <2> QED BY <1>1, <2>1, <2>2
<1>7. Moves(w) /\ task'[w].at = "mark"
  <2>1. o \notin Sells
    BY <1>1, OrderSets
  <2>2. task[w] \in [at : {"relieve", "book", "gain", "mark"}, order : Orders, to : Nat]
    BY <1>0, <1>1, <2>1 DEF IInv, TypeInv, Sound
  <2>3. Moves(w) /\ task'[w] = [at |-> "mark", order |-> o, to |-> task[w].to]
    BY <1>0, <2>2, StepIs DEF Purchase, IInv
  <2> QED BY <2>3
<1>8. ASSUME clean PROVE Balanced'
  <2>1. Balanced /\ Ingested(o) + delta[k] <= row[o].filled /\ Lots
    BY <1>0, <1>1, <1>8 DEF SInv, Balanced, Passing, CInv
  <2>2. lots[k] = 0
    BY <1>3, <1>4, <2>1 DEF Lots
  <2>3. OpenLots' = OpenLots + delta[k]
    <3> DEFINE K == KeysOf(Buys)
               new == lots'
    <3>1. IsFiniteSet(K) /\ k \in K
      BY <1>4, OrderSets, KeysFinite
    <3>2. \A j \in K : lots[j] \in Int /\ new[j] \in Int
      BY <1>1, <1>2, OrderSets, KeysFinite
    <3>3. \A j \in K : j # k => new[j] = lots[j]
      BY <1>1, <1>2, OrderSets, KeysFinite
    <3>4. new[k] = delta[k]
      BY <1>1, <1>2
    <3>5. OpenLots = Total(lots, K) /\ OpenLots' = Total(new, K)
      BY DEF OpenLots
    <3> HIDE DEF K, new, k
    <3>6. Total(new, K) = Total(lots, K) + new[k] - lots[k]
      BY ONLY <3>1, <3>2, <3>3, TotalMoves
    <3> QED BY <1>6, <2>2, <3>4, <3>5, <3>6
  <2>4. Covered'
    BY <1>1, <1>6, <2>1 DEF Balanced, Covered
  <2>5. \A v \in Observers : Passing(v)'
    BY <1>1, <1>7, <1>8, OthersRest DEF Passing
  <2> HIDE DEF k
  <2>6. Bought' - SoldOff' <= OpenLots'
    BY <1>6, <2>1, <2>3 DEF Balanced
  <2> QED BY <2>4, <2>5, <2>6 DEF Balanced
<1> QED BY <1>1, <1>8 DEF SInv, Unseen

LEMMA SaleBalanced ==
  ASSUME IInv, IInv', CInv, SInv, NEW w \in Observers, Sale(w) PROVE SInv'
<1>0. PICK o \in Orders : o = task[w].order
  BY OrderSets DEF Sale, Order
<1> DEFINE k == Key(w)
           K == KeysOf(Buys)
           take == task[w].take
<1>1. /\ task[w].at = "book" /\ o \in Sells /\ o \notin Buys /\ o \in Orders /\ k \in Keys /\ k[1] = o
      /\ UNCHANGED << row, delta, clean >>
      /\ lots' = [j \in Keys |-> IF j \in K THEN lots[j] - take[j] ELSE lots[j]]
      /\ times' = [times EXCEPT ![k] = @ + 1]
  BY <1>0, OrderSets DEF Sale, Booked, At, Order, Key, IInv, TypeInv, Sound, Applying
<1>2. TypeOK /\ TypeOK' /\ times \in [Keys -> Nat] /\ delta \in [Keys -> Nat] /\ lots \in [Keys -> Int]
  BY DEF IInv, TypeInv, TypeOK
<1>3. times[k] = 0
  BY <1>1 DEF IInv, Held
<1>4. times'[k] = 1 /\ \A j \in Keys : j # k => times'[j] = times[j]
  BY <1>1, <1>2, <1>3
<1>5. /\ Ingested(o)' = Ingested(o) + delta[k]
      /\ \A p \in Orders : p # o => Ingested(p)' = Ingested(p)
      /\ Bought' = Bought /\ SoldOff' = SoldOff + delta[k]
      /\ Bought \in Int /\ SoldOff \in Int /\ OpenLots \in Int /\ delta[k] \in Nat
  <2>1. /\ Ingested(o)' = Ingested(o) + delta[k]
        /\ \A p \in Orders : p # o => Ingested(p)' = Ingested(p)
        /\ Bought' = Bought + (IF o \in Buys THEN delta[k] ELSE 0)
        /\ SoldOff' = SoldOff + (IF o \in Buys THEN 0 ELSE delta[k])
    <3> HIDE DEF k
    <3> QED BY <1>1, <1>2, <1>3, <1>4, OneBooked
  <2>2. Bought \in Int /\ SoldOff \in Int /\ OpenLots \in Int /\ delta[k] \in Nat
    BY <1>1, <1>2, IngestedIsNat
  <2> QED BY <1>1, <2>1, <2>2
<1>6. Moves(w) /\ task'[w].at = "gain"
  BY DEF Sale, IInv, TypeInv, Sound, Moves
<1>7. take \in [K -> Nat]
  BY <1>0, <1>1 DEF IInv, TypeInv, Sound
<1>8. ASSUME clean PROVE Balanced'
  <2>1. /\ Balanced /\ Ingested(o) + delta[k] <= row[o].filled
        /\ Total(take, K) <= delta[k]
    BY <1>0, <1>1, <1>8 DEF SInv, Balanced, Passing
  <2>2. OpenLots = OpenLots' + Total(take, K) /\ Total(take, K) \in Int /\ OpenLots' \in Int
    <3> DEFINE new == lots'
    <3>1. IsFiniteSet(K) /\ K \subseteq Keys
      BY OrderSets, KeysFinite
    <3>2. \A j \in K : new[j] \in Int /\ take[j] \in Int /\ lots[j] = new[j] + take[j]
      BY <1>1, <1>2, <1>7, <3>1
    <3>3. OpenLots = Total(lots, K) /\ OpenLots' = Total(new, K)
      BY DEF OpenLots
    <3> HIDE DEF K, new, take
    <3>4. Total(lots, K) = Total(new, K) + Total(take, K)
      BY ONLY <3>1, <3>2, TotalAdds
    <3>5. Total(new, K) \in Int /\ Total(take, K) \in Int
      BY ONLY <3>1, <3>2, TotalRemoves
    <3> QED BY <3>3, <3>4, <3>5
  <2>3. Covered'
    BY <1>1, <1>5, <2>1 DEF Balanced, Covered
  <2>4. \A v \in Observers : Passing(v)'
    BY <1>1, <1>6, <1>8, OthersRest DEF Passing
  <2> HIDE DEF k, K, take
  <2>5. Bought' - SoldOff' <= OpenLots'
    BY <1>5, <2>1, <2>2 DEF Balanced
  <2> QED BY <2>3, <2>4, <2>5 DEF Balanced
<1> QED BY <1>1, <1>8 DEF SInv, Unseen

LEMMA BalanceStep == ASSUME IInv, IInv', CInv, SInv, [Next]_vars PROVE SInv'
<1>1. CASE UNCHANGED vars
  BY <1>1 DEF vars, SInv, Unseen, Balanced, Covered, Passing, Key, Order, Ingested, Bought,
     SoldOff, OpenLots
<1>2. ASSUME NEW w \in Observers, Observe(w) \/ Apply(w) \/ Crash(w) PROVE SInv'
  BY <1>2, LookBalanced, WriteBalanced, ReserveBalanced, ComputeBalanced, PurchaseBalanced,
     SaleBalanced, RestBalanced DEF Observe, Apply
<1> QED BY <1>1, <1>2, TrackBalanced DEF Next

\* While observers take turns, however the broker's answers go back and forth and
\* whatever crashes, no share of an order is booked twice, no lot is oversold, and
\* sales take no more shares out of the tax lots than were sold.
THEOREM LotsBalance == Spec => []LotsAddUp
<1>1. Init => CInv
  BY BuyKeys DEF Init, CInv, Turns, Lots, Idle
<1>2. IInv /\ Init => SInv
  BY InitBalanced
<1>3. IInv /\ IInv' /\ CInv /\ [Next]_vars => CInv'
  BY CleanStep
<1>4. IInv /\ IInv' /\ CInv /\ SInv /\ [Next]_vars => SInv'
  BY BalanceStep
<1>5. SInv /\ (clean => LotsInRange) => LotsAddUp
  BY DEF SInv, Balanced, Covered, LotsAddUp, Bought, SoldOff, OpenLots
<1> QED BY <1>1, <1>2, <1>3, <1>4, <1>5, Invariance, LotsNeverOversold, PTL DEF Spec

-----------------------------------------------------------------------------
(* PaperDesk: the engine's arithmetic, for any books *)

Books ==
  [cash : Int, realized : Int, last : Int, positions : [Symbols -> [held : Nat, avg : Nat]],
   unsettled : [Paper!Days -> Nat]]

\* All the cash of b, settled or not, and what its shares have cost
Money(b)    == b.cash + Total(b.unsettled, Paper!Days)
CostOf(b)   == [s \in Symbols |-> b.positions[s].held * b.positions[s].avg]
Basis(b)    == Total(CostOf(b), Symbols)

LEMMA SumIsTotal == ASSUME NEW f, NEW S PROVE Paper!Sum(f, S) = Total(f, S)
BY DEF Paper!Sum, Total, FoldFunctionOnSet, MapThenFoldSet, Paper!FoldFunctionOnSet,
   Paper!MapThenFoldSet

LEMMA PaperSums ==
  /\ \A b : Paper!CostBasis(b) = Basis(b)
  /\ Paper!Unsettled = Total(book.unsettled, Paper!Days)
BY SumIsTotal DEF Paper!CostBasis, Basis, CostOf, Paper!Unsettled

LEMMA PaperConstants ==
  /\ IsFiniteSet(Symbols) /\ Start \in Int /\ MaxDay \in Nat
  /\ IsFiniteSet(Paper!Days) /\ Paper!Days \subseteq Nat
  /\ Prices \subseteq Nat /\ Quantities \subseteq Nat
  /\ \A q \in Quantities : q > 0
  /\ Leverage \in Nat /\ Leverage > 0 /\ RateDen \in Nat /\ RateDen > 0
  /\ MaintenanceDen \in Nat /\ Settle \in BOOLEAN
<1>1. MaxDay \in Nat /\ 0 \in Int /\ MaxDay + 7 \in Int
  BY PaperAssumption DEF Paper!PaperAssumption
<1>2. IsFiniteSet(0..(MaxDay + 7))
  BY <1>1, FS_Interval
<1>3. IsFiniteSet(Symbols)
  BY PaperAssumption DEF Paper!PaperAssumption, Paper!IsFiniteSet, IsFiniteSet
<1> QED BY <1>1, <1>2, <1>3, PaperAssumption DEF Paper!PaperAssumption, Paper!Days

LEMMA ProductsAreNat == \A m, n \in Nat : m * n \in Nat
OBVIOUS

LEMMA DivisionIs ==
  ASSUME NEW a \in Nat, NEW b \in Nat, b > 0
  PROVE  a \div b \in Nat /\ a % b \in Nat /\ a % b < b /\ a = b * (a \div b) + (a % b)
OBVIOUS

\* Rounding half to even is off by half a unit at most.
LEMMA QuantizedIs ==
  ASSUME NEW a \in Nat, NEW b \in Nat, b > 0
  PROVE  /\ Paper!Quantized(a, b) \in Nat
         /\ -b <= 2 * (b * Paper!Quantized(a, b) - a)
         /\ 2 * (b * Paper!Quantized(a, b) - a) <= b
<1> DEFINE q == a \div b
           r == a % b
<1>1. q \in Nat /\ r \in Nat /\ r < b /\ a = b * q + r
  BY DivisionIs
<1>2. \/ Paper!Quantized(a, b) = q + 1 /\ 2 * r >= b
      \/ Paper!Quantized(a, b) = q /\ 2 * r <= b
  BY <1>1 DEF Paper!Quantized
<1> HIDE DEF q, r
<1>3. b * (q + 1) = b * q + b /\ b * q \in Nat
  BY <1>1
<1> QED BY <1>1, <1>2, <1>3

LEMMA BooksAre ==
  ASSUME NEW b \in Books
  PROVE  /\ CostOf(b) \in [Symbols -> Nat] /\ Basis(b) \in Nat
         /\ Total(b.unsettled, Paper!Days) \in Nat /\ Money(b) \in Int
         /\ \A s \in Symbols : b.positions[s].held \in Nat /\ b.positions[s].avg \in Nat
<1>1. \A s \in Symbols : b.positions[s].held \in Nat /\ b.positions[s].avg \in Nat
  BY DEF Books
<1>2. CostOf(b) \in [Symbols -> Nat]
  BY <1>1, ProductsAreNat DEF CostOf
<1>3. Basis(b) \in Nat
  BY <1>2, PaperConstants, TotalBounds DEF Basis
<1>4. \A d \in Paper!Days : b.unsettled[d] \in Nat
  BY DEF Books
<1>5. Total(b.unsettled, Paper!Days) \in Nat
  BY <1>4, PaperConstants, TotalBounds
<1>6. b.cash \in Int
  BY DEF Books
<1> QED BY <1>1, <1>2, <1>3, <1>5, <1>6 DEF Money

\* One position changes.
LEMMA BasisMoves ==
  ASSUME NEW b \in Books, NEW c \in Books, NEW s \in Symbols,
         \A t \in Symbols : t # s => c.positions[t] = b.positions[t]
  PROVE  Basis(c) = Basis(b) + c.positions[s].held * c.positions[s].avg
                             - b.positions[s].held * b.positions[s].avg
<1> DEFINE f == CostOf(b)
           h == CostOf(c)
<1>1. \A t \in Symbols : f[t] \in Int /\ h[t] \in Int
  BY BooksAre
<1>2. \A t \in Symbols : t # s => h[t] = f[t]
  BY DEF CostOf
<1>3. /\ h[s] = c.positions[s].held * c.positions[s].avg
      /\ f[s] = b.positions[s].held * b.positions[s].avg
  BY DEF CostOf
<1>4. IsFiniteSet(Symbols)
  BY PaperConstants
<1>5. Basis(b) = Total(f, Symbols) /\ Basis(c) = Total(h, Symbols)
  BY DEF Basis
<1> HIDE DEF f, h
<1>6. Total(h, Symbols) = Total(f, Symbols) + h[s] - f[s]
  BY ONLY <1>1, <1>2, <1>4, TotalMoves
<1> QED BY <1>3, <1>5, <1>6

\* Settlement moves what is due, and nothing else.
LEMMA SettledIs ==
  ASSUME NEW b \in Books
  PROVE  LET c == Paper!SettledDue(b) IN
         /\ c \in Books /\ c.last = b.last /\ c.positions = b.positions /\ c.realized = b.realized
         /\ Money(c) = Money(b)
<1> DEFINE c == Paper!SettledDue(b)
           D == Paper!Due(b)
           u == b.unsettled
           v == [d \in Paper!Days |-> IF d \in D THEN 0 ELSE u[d]]
<1>1. D \in SUBSET Paper!Days /\ IsFiniteSet(Paper!Days) /\ IsFiniteSet(D) /\ IsFiniteSet(Paper!Days \ D)
  BY PaperConstants, FS_Subset DEF Paper!Due
<1>2. (\A d \in Paper!Days : u[d] \in Int /\ v[d] \in Int) /\ v \in [Paper!Days -> Nat]
  BY DEF Books
<1>3. c = [b EXCEPT !.cash = @ + Total(u, D), !.unsettled = v]
  BY SumIsTotal DEF Paper!SettledDue
<1>4. (\A d \in D : v[d] = 0) /\ \A d \in Paper!Days \ D : u[d] \in Int /\ v[d] = u[d]
  BY <1>1, <1>2
<1> HIDE DEF D, u, v, c
<1>5. /\ Total(u, Paper!Days) = Total(u, D) + Total(u, Paper!Days \ D)
      /\ Total(u, D) \in Int /\ Total(u, Paper!Days \ D) \in Int
  BY ONLY <1>1, <1>2, TotalSplits
<1>6. Total(v, Paper!Days) = Total(v, D) + Total(v, Paper!Days \ D)
  BY ONLY <1>1, <1>2, TotalSplits
<1>7. Total(v, D) = 0 /\ Total(v, Paper!Days \ D) = Total(u, Paper!Days \ D)
  BY ONLY <1>1, <1>4, TotalZero, TotalSame
<1>8. /\ c \in Books /\ c.last = b.last /\ c.positions = b.positions /\ c.realized = b.realized
      /\ c.cash = b.cash + Total(u, D) /\ c.unsettled = v /\ b.cash \in Int
  <2>1. b.cash \in Int /\ b.cash + Total(u, D) \in Int
    BY <1>5 DEF Books
  <2>2. c = [cash |-> b.cash + Total(u, D), realized |-> b.realized, last |-> b.last,
             positions |-> b.positions, unsettled |-> v]
    BY <1>3 DEF Books
  <2> QED BY <1>2, <2>1, <2>2 DEF Books
<1>9. Money(c) = Money(b)
  BY <1>5, <1>6, <1>7, <1>8 DEF Money, u
<1> QED BY <1>8, <1>9 DEF c

\* When interest was last accrued
Since(b) == b.last = Paper!NotYet \/ b.last \in 0..today

LEMMA ChargedIs ==
  ASSUME NEW b \in Books, Since(b), today \in Nat
  PROVE  LET c == Paper!Charged(b) IN
         /\ c \in Books /\ Since(c) /\ c.positions = b.positions /\ c.realized = b.realized
         /\ Paper!InterestDue(b) \in Nat /\ Money(c) = Money(b) - Paper!InterestDue(b)
<1> DEFINE c == Paper!Charged(b)
           i == Paper!InterestDue(b)
<1>1. i \in Nat
  <2>1. CASE Leverage > 1 /\ b.last # Paper!NotYet /\ b.cash < 0
    <3>1. -b.cash \in Nat /\ today - b.last \in Nat
      BY <2>1 DEF Since, Books
    <3>2. -b.cash * (today - b.last) \in Nat
      <4>1. \A m, n \in Int : (-m \in Nat /\ n \in Nat) => -(m * n) \in Nat
        OBVIOUS
      <4>2. b.cash \in Int /\ today - b.last \in Int
        BY <3>1 DEF Books
      <4> QED BY <3>1, <4>1, <4>2
    <3>3. i = Paper!Quantized(-b.cash * (today - b.last), RateDen)
      BY <2>1 DEF Paper!InterestDue
    <3> QED BY <3>2, <3>3, PaperConstants, QuantizedIs
  <2>2. CASE ~(Leverage > 1 /\ b.last # Paper!NotYet /\ b.cash < 0)
    BY <2>2 DEF Paper!InterestDue
  <2> QED BY <2>1, <2>2
<1>2. Leverage = 1 => i = 0
  BY DEF Paper!InterestDue
<1> HIDE DEF i
<1>3. c = IF Leverage = 1 THEN b ELSE [b EXCEPT !.cash = @ - i, !.last = today]
  BY DEF Paper!Charged, i
<1> HIDE DEF c
<1>4. /\ c \in Books /\ Since(c) /\ c.positions = b.positions /\ c.realized = b.realized
      /\ c.unsettled = b.unsettled /\ c.cash = b.cash - i /\ b.cash \in Int
  <2>1. b.cash \in Int /\ b.cash - i \in Int
    BY <1>1 DEF Books
  <2>2. CASE Leverage = 1
    <3>1. c = b /\ b.cash - i = b.cash
      BY <1>2, <1>3, <2>1, <2>2
    <3> QED BY <2>1, <3>1
  <2>3. CASE Leverage # 1
    <3>1. c = [cash |-> b.cash - i, realized |-> b.realized, last |-> today,
               positions |-> b.positions, unsettled |-> b.unsettled]
      BY <1>3, <2>3 DEF Books
    <3> QED BY <2>1, <3>1 DEF Books, Since
  <2> QED BY <2>2, <2>3
<1>5. Money(c) = Money(b) - i
  BY <1>1, <1>4, BooksAre DEF Money
<1> QED BY <1>1, <1>4, <1>5 DEF c, i

LEMMA AccruedIs ==
  ASSUME NEW b \in Books, Since(b), today \in Nat, NEW due \in BOOLEAN
  PROVE  LET c == Paper!Accrued(b, due)
             i == Paper!InterestDue(IF due THEN Paper!SettledDue(b) ELSE b) IN
         /\ c \in Books /\ Since(c) /\ c.positions = b.positions /\ c.realized = b.realized
         /\ i \in Nat /\ Money(c) = Money(b) - i
<1> DEFINE a == IF due THEN Paper!SettledDue(b) ELSE b
<1>1. /\ a \in Books /\ Since(a) /\ a.positions = b.positions /\ a.realized = b.realized
      /\ Money(a) = Money(b)
  BY SettledIs DEF Since
<1>2. Paper!Accrued(b, due) = Paper!Charged(a)
  BY DEF Paper!Accrued
<1> HIDE DEF a
<1>3. LET c == Paper!Charged(a) IN
      /\ c \in Books /\ Since(c) /\ c.positions = a.positions /\ c.realized = a.realized
      /\ Paper!InterestDue(a) \in Nat /\ Money(c) = Money(a) - Paper!InterestDue(a)
  BY <1>1, ChargedIs
<1> QED BY <1>1, <1>2, <1>3 DEF a

\* A purchase: what was paid is cash before and cost after, but for the rounding.
LEMMA BoughtIs ==
  ASSUME NEW b \in Books, Since(b), NEW o \in Paper!OrderType
  PROVE  LET c == Paper!Bought(b, o)
             s == o.symbol
             total == b.positions[s].held + o.quantity IN
         /\ c \in Books /\ Since(c) /\ c.realized = b.realized
         /\ \A t \in Symbols : t # s => c.positions[t] = b.positions[t]
         /\ c.positions[s].held = total
         /\ c.cash = b.cash - o.price * o.quantity
         /\ Money(c) = Money(b) - o.price * o.quantity
         /\ LET off == Basis(c) - Basis(b) - o.price * o.quantity
                most == IF b.positions[s].held > 0 THEN total ELSE 0 IN
            off \in Int /\ -most <= 2 * off /\ 2 * off <= most
<1> DEFINE c == Paper!Bought(b, o)
           s == o.symbol
           p == b.positions[s]
           total == p.held + o.quantity
           paid == o.price * o.quantity
           avg == IF p.held = 0 THEN o.price ELSE Paper!Quantized(p.avg * p.held + paid, total)
<1>1. /\ s \in Symbols /\ o.price \in Nat /\ o.quantity \in Nat /\ o.quantity > 0
      /\ p.held \in Nat /\ p.avg \in Nat /\ total \in Nat /\ total > 0
  <2>1. s \in Symbols /\ o.price \in Prices /\ o.quantity \in Quantities
    BY DEF Paper!OrderType
  <2>2. o.price \in Nat /\ o.quantity \in Nat /\ o.quantity > 0
    BY <2>1, PaperConstants
  <2>3. p.held \in Nat /\ p.avg \in Nat
    BY <2>1, BooksAre
  <2> HIDE DEF s, p
  <2> QED BY <2>1, <2>2, <2>3
<1>2. paid \in Nat /\ p.avg * p.held \in Nat /\ p.avg * p.held = p.held * p.avg
      /\ p.avg * p.held + paid \in Nat
  <2>1. \A m, n \in Nat : m * n = n * m
    OBVIOUS
  <2>2. paid \in Nat
    BY <1>1, ProductsAreNat
  <2>3. p.avg * p.held \in Nat
    BY <1>1, ProductsAreNat
  <2>4. p.avg * p.held = p.held * p.avg
    BY <1>1, <2>1
  <2> HIDE DEF paid
  <2> QED BY <2>2, <2>3, <2>4
<1>3. avg \in Nat
  BY <1>1, <1>2, QuantizedIs
<1>4. LET off == total * avg - p.held * p.avg - paid
          most == IF p.held > 0 THEN total ELSE 0 IN
      off \in Int /\ -most <= 2 * off /\ 2 * off <= most
  <2>1. CASE p.held = 0
    <3>1. avg = o.price /\ total = o.quantity /\ total * avg = paid /\ p.held * p.avg = 0
      BY <1>1, <2>1
    <3> QED BY <1>2, <2>1, <3>1
  <2>2. CASE p.held > 0
    <3> DEFINE a == p.avg * p.held + paid
    <3>1. a \in Nat /\ avg = Paper!Quantized(a, total)
      BY <1>1, <1>2, <2>2
    <3>2. -total <= 2 * (total * avg - a) /\ 2 * (total * avg - a) <= total
      <4> HIDE DEF a, avg, total
      <4> QED BY <1>1, <3>1, QuantizedIs
    <3>3. total * avg \in Nat
      BY <1>1, <1>3, ProductsAreNat
    <3>4. total * avg - a = total * avg - p.held * p.avg - paid
      <4> HIDE DEF avg, total, p, paid
      <4> QED BY <1>2, <3>3 DEF a
    <3> HIDE DEF a, avg, total, p, paid
    <3> QED BY <1>1, <1>2, <2>2, <3>2, <3>3, <3>4
  <2> QED BY <1>1, <2>1, <2>2
<1>5. c = [b EXCEPT !.cash = @ - paid, !.positions[s] = [held |-> total, avg |-> avg]]
  BY DEF Paper!Bought
<1> HIDE DEF avg, paid, total, c
<1>6. /\ c = [cash |-> b.cash - paid, realized |-> b.realized, last |-> b.last,
              positions |-> [b.positions EXCEPT ![s] = [held |-> total, avg |-> avg]],
              unsettled |-> b.unsettled]
      /\ b.cash \in Int /\ b.cash - paid \in Int
      /\ [b.positions EXCEPT ![s] = [held |-> total, avg |-> avg]] \in [Symbols -> [held : Nat, avg : Nat]]
  <2>1. /\ b.cash \in Int /\ b.positions \in [Symbols -> [held : Nat, avg : Nat]]
        /\ b = [cash |-> b.cash, realized |-> b.realized, last |-> b.last,
                positions |-> b.positions, unsettled |-> b.unsettled]
    BY DEF Books
  <2>2. b.cash - paid \in Int
    BY <1>2, <2>1
  <2>3. [held |-> total, avg |-> avg] \in [held : Nat, avg : Nat]
    BY <1>1, <1>3
  <2> QED BY <1>5, <2>1, <2>2, <2>3
<1>7. /\ c \in Books /\ Since(c) /\ c.realized = b.realized /\ c.unsettled = b.unsettled
      /\ \A t \in Symbols : t # s => c.positions[t] = b.positions[t]
      /\ c.positions[s] = [held |-> total, avg |-> avg]
      /\ c.cash = b.cash - paid
  BY <1>1, <1>6 DEF Books, Since
<1>8. Money(c) = Money(b) - paid
  BY <1>2, <1>6, <1>7, BooksAre DEF Money
<1>9. Basis(c) = Basis(b) + total * avg - p.held * p.avg
  BY <1>1, <1>7, BasisMoves
<1>10. Basis(c) - Basis(b) - paid = total * avg - p.held * p.avg - paid
  <2>1. total * avg \in Nat /\ p.held * p.avg \in Nat /\ Basis(b) \in Nat
    BY <1>1, <1>2, <1>3, ProductsAreNat, BooksAre
  <2> QED BY <1>2, <1>9, <2>1
<1>11. c.positions[s].held = total
  BY <1>7
<1> HIDE DEF s
<1> QED BY <1>4, <1>7, <1>8, <1>10, <1>11 DEF c, paid, total, s

\* The next business day is a day of the calendar.
LEMMA NextDayIs ==
  ASSUME today \in 0..MaxDay PROVE Paper!NextBusinessDay(today) \in Paper!Days
<1> DEFINE S == { d \in (today + 1)..(today + 7) : d \notin Weekend }
<1>1. today \in Nat /\ today <= MaxDay /\ MaxDay \in Nat
  BY PaperConstants
<1>2. S # {} /\ S \in SUBSET Nat
  <2>1. \A day \in 0..MaxDay : \E d \in (day + 1)..(day + 7) : d \notin Weekend
    BY PaperAssumption DEF Paper!PaperAssumption
  <2>2. PICK d \in (today + 1)..(today + 7) : d \notin Weekend
    BY ONLY <2>1, today \in 0..MaxDay
  <2>3. \A e \in (today + 1)..(today + 7) : e \in Nat
    BY <1>1
  <2> QED BY <2>2, <2>3
<1>3. PICK d \in S : \A e \in S : d <= e
  <2> HIDE DEF S
  <2> QED BY <1>2, LeastNatural
<1>4. d \in Nat /\ today < d /\ d <= today + 7 /\ d \notin Weekend
  BY <1>1
<1>5. \A e \in (today + 1)..(d - 1) : e \in Weekend
  BY <1>1, <1>3, <1>4
<1>6. d \in Paper!Days
  BY <1>1, <1>4 DEF Paper!Days
<1> QED BY <1>4, <1>5, <1>6 DEF Paper!NextBusinessDay

\* A sale: what was received is cash after, settled or not, and cost or gain before.
LEMMA SoldIs ==
  ASSUME NEW b \in Books, Since(b), today \in 0..MaxDay, NEW later \in BOOLEAN,
         NEW o, o.symbol \in Symbols, o.price \in Nat, o.quantity \in Nat, o.quantity > 0,
         o.quantity <= b.positions[o.symbol].held
  PROVE  LET c == Paper!Sold(b, o, later)
             s == o.symbol
             left == b.positions[s].held - o.quantity IN
         /\ c \in Books /\ Since(c)
         /\ \A t \in Symbols : t # s => c.positions[t] = b.positions[t]
         /\ c.positions[s] = (IF left > 0 THEN [b.positions[s] EXCEPT !.held = left] ELSE Paper!Flat)
         /\ c.positions[s].held = left
         /\ Money(c) = Money(b) + o.price * o.quantity
         /\ Money(c) + Basis(c) - c.realized = Money(b) + Basis(b) - b.realized
<1> DEFINE c == Paper!Sold(b, o, later)
           s == o.symbol
           p == b.positions[s]
           left == p.held - o.quantity
           got == o.price * o.quantity
           n == Paper!NextBusinessDay(today)
           rest == IF left > 0 THEN [p EXCEPT !.held = left] ELSE Paper!Flat
           gain == (o.price - p.avg) * o.quantity
           paid == IF later THEN [b EXCEPT !.unsettled[n] = @ + got] ELSE [b EXCEPT !.cash = @ + got]
<1>1. /\ p.held \in Nat /\ p.avg \in Nat /\ left \in Nat /\ p \in [held : Nat, avg : Nat]
      /\ got \in Nat /\ n \in Paper!Days /\ p.avg * o.quantity \in Nat
  BY NextDayIs, ProductsAreNat DEF Books
<1>2. rest \in [held : Nat, avg : Nat] /\ rest.held = left /\ (left > 0 => rest.avg = p.avg)
  BY <1>1 DEF Paper!Flat
<1>3. gain \in Int /\ gain = got - p.avg * o.quantity
  BY <1>1
<1>4. c = [paid EXCEPT !.realized = @ + gain, !.positions[s] = rest]
  BY DEF Paper!Sold
<1>5. /\ b.cash \in Int /\ b.realized \in Int /\ b.last \in Int
      /\ b.positions \in [Symbols -> [held : Nat, avg : Nat]]
      /\ b.unsettled \in [Paper!Days -> Nat]
      /\ b = [cash |-> b.cash, realized |-> b.realized, last |-> b.last,
              positions |-> b.positions, unsettled |-> b.unsettled]
  BY DEF Books
<1> DEFINE u == IF later THEN [b.unsettled EXCEPT ![n] = @ + got] ELSE b.unsettled
           cash == IF later THEN b.cash ELSE b.cash + got
<1>6. u \in [Paper!Days -> Nat] /\ cash \in Int
  BY <1>1, <1>5
<1>7. Money(c) = Money(b) + got /\ c \in Books /\ Since(c) /\ c.realized = b.realized + gain
      /\ c.positions = [b.positions EXCEPT ![s] = rest]
  <2>1. paid = [cash |-> cash, realized |-> b.realized, last |-> b.last,
                positions |-> b.positions, unsettled |-> u]
    <3> HIDE DEF got, n
    <3> QED BY <1>5
  <2> HIDE DEF paid, rest, gain, got, n, u, cash, c
  <2>2. c = [cash |-> cash, realized |-> b.realized + gain, last |-> b.last,
             positions |-> [b.positions EXCEPT ![s] = rest], unsettled |-> u]
    BY <1>4, <2>1
  <2>3. [b.positions EXCEPT ![s] = rest] \in [Symbols -> [held : Nat, avg : Nat]]
    BY <1>2, <1>5
  <2>4. b.realized + gain \in Int
    BY <1>3, <1>5
  <2>5. c \in Books /\ c.last = b.last
    BY <1>5, <1>6, <2>2, <2>3, <2>4 DEF Books
  <2>6. Total(u, Paper!Days) = Total(b.unsettled, Paper!Days) + (IF later THEN got ELSE 0)
    <3>1. CASE later
      <4> DEFINE v == b.unsettled
      <4>1. IsFiniteSet(Paper!Days) /\ n \in Paper!Days
        BY <1>1, PaperConstants
      <4>2. u = [v EXCEPT ![n] = @ + got] /\ v \in [Paper!Days -> Nat]
        BY <1>5, <3>1 DEF u
      <4>3. u[n] = v[n] + got /\ v[n] \in Nat
        BY <4>1, <4>2
      <4>4. Total(v, Paper!Days) \in Nat
        BY <1>5, BooksAre
      <4> HIDE DEF v
      <4>5. \A y \in Paper!Days : v[y] \in Int /\ u[y] \in Int
        BY <1>6, <4>2
      <4>6. \A y \in Paper!Days : y # n => u[y] = v[y]
        BY <4>2
      <4>7. Total(u, Paper!Days) = Total(v, Paper!Days) + u[n] - v[n]
        BY ONLY <4>1, <4>5, <4>6, TotalMoves
      <4> QED BY <1>1, <3>1, <4>3, <4>4, <4>7 DEF v
    <3>2. CASE ~later
      <4>1. Total(b.unsettled, Paper!Days) \in Nat
        BY BooksAre
      <4> QED BY <3>2, <4>1 DEF u
    <3> QED BY <3>1, <3>2
  <2>7. Money(c) = Money(b) + got
    <3>1. c.cash = cash /\ c.unsettled = u
      BY <2>2
    <3>2. Total(b.unsettled, Paper!Days) \in Nat
      BY BooksAre
    <3> QED BY <1>1, <1>5, <2>6, <3>1, <3>2 DEF Money, cash
  <2> QED BY <2>2, <2>5, <2>7 DEF Since
<1>8. /\ \A t \in Symbols : t # s => c.positions[t] = b.positions[t]
      /\ c.positions[s] = rest
  BY <1>5, <1>7
<1>9. Basis(c) = Basis(b) - p.avg * o.quantity
  <2>1. Basis(c) = Basis(b) + rest.held * rest.avg - p.held * p.avg
    <3> HIDE DEF c, rest
    <3>1. s \in Symbols /\ c \in Books
      BY <1>7
    <3>2. Basis(c) = Basis(b) + c.positions[s].held * c.positions[s].avg
                              - b.positions[s].held * b.positions[s].avg
      BY <1>8, <3>1, BasisMoves
    <3> QED BY <1>8, <3>2
  <2>2. rest.held * rest.avg = p.held * p.avg - p.avg * o.quantity
    <3>1. CASE left > 0
      <4>1. rest.held = p.held - o.quantity /\ rest.avg = p.avg
        BY <1>2, <3>1
      <4>2. \A x, y, z \in Nat : (x - y) * z = x * z - z * y
        OBVIOUS
      <4> QED BY <1>1, <4>1, <4>2
    <3>2. CASE left = 0
      <4>1. p.held = o.quantity /\ rest.held = 0 /\ rest.avg \in Nat
        BY <1>1, <1>2, <3>2
      <4>2. \A x, y \in Nat : 0 * x = 0 /\ x * y = y * x /\ x * y - x * y = 0
        OBVIOUS
      <4>3. rest.held * rest.avg = 0
        BY <4>1
      <4>4. p.held * p.avg - p.avg * o.quantity = 0
        BY <1>1, <4>1
      <4> QED BY <4>3, <4>4
    <3> QED BY <1>1, <3>1, <3>2
  <2>3. Basis(b) \in Nat /\ p.held * p.avg \in Nat
    BY <1>1, BooksAre, ProductsAreNat
  <2> QED BY <1>1, <2>1, <2>2, <2>3
<1>10. Money(c) + Basis(c) - c.realized = Money(b) + Basis(b) - b.realized
  <2>1. Money(b) \in Int /\ Basis(b) \in Nat /\ b.realized \in Int
    BY BooksAre DEF Books
  <2> HIDE DEF got, gain, c
  <2> QED BY <1>1, <1>3, <1>7, <1>9, <2>1
<1> QED BY <1>2, <1>7, <1>8, <1>10

\* A non-empty finite set has a member with the largest value.
LEMMA LargestIs ==
  ASSUME NEW S, IsFiniteSet(S), S # {}, NEW f, \A x \in S : f[x] \in Nat
  PROVE  \E x \in S : \A y \in S : f[y] <= f[x]
<1> DEFINE most == Total(f, S)
           Short == { n \in Nat : \E x \in S : n = most - f[x] }
<1>1. most \in Nat /\ \A x \in S : f[x] <= most
  BY TotalBounds
<1>2. \A x \in S : most - f[x] \in Short
  <2> HIDE DEF most
  <2> QED BY <1>1
<1>3. PICK n \in Short : \A e \in Short : n <= e
  <2>1. Short \in SUBSET Nat /\ Short # {}
    BY <1>2
  <2> HIDE DEF Short
  <2> QED BY <2>1, LeastNatural
<1>4. PICK x \in S : n = most - f[x]
  OBVIOUS
<1>5. ASSUME NEW y \in S PROVE f[y] <= f[x]
  <2>1. most - f[x] <= most - f[y]
    BY <1>2, <1>3, <1>4
  <2> HIDE DEF most
  <2> QED BY <1>1, <2>1
<1> QED BY <1>5

\* One round of enforce_maintenance
NextCall(c, b, marks, S) ==
  LET left == IF c[2] = {} THEN S \intersect Paper!Held(b) ELSE Paper!Held(c[1])
  IN IF Paper!Undermargined(c[1], marks, left)
     THEN LET o == Paper!Liquidation(c[1], marks, left)
          IN << Paper!Sold(c[1], o, FALSE), c[2] \union {o} >>
     ELSE c

Rounds(g, n, b, marks, S) ==
  g = [m \in 0..n |-> IF m = 0 THEN << b, {} >> ELSE NextCall(g[m - 1], b, marks, S)]

LEMMA CallsAre ==
  ASSUME NEW b, NEW marks, NEW S
  PROVE  Paper!Calls(b, marks, S)
           = (CHOOSE g : Rounds(g, Cardinality(Symbols), b, marks, S))[Cardinality(Symbols)]
BY DEF Paper!Calls, Rounds, NextCall, Paper!Cardinality, Cardinality

LEMMA RoundsExist ==
  ASSUME NEW b, NEW marks, NEW S, NEW n \in Nat
  PROVE  \E g : Rounds(g, n, b, marks, S)
<1> DEFINE Bad == { m \in Nat : ~ \E g : Rounds(g, m, b, marks, S) }
<1> SUFFICES ASSUME Bad # {} PROVE FALSE
  OBVIOUS
<1>1. PICK m \in Bad : \A e \in Bad : m <= e
  <2>1. Bad \in SUBSET Nat
    OBVIOUS
  <2> HIDE DEF Bad
  <2> QED BY <2>1, LeastNatural
<1>2. m \in Nat /\ ~ \E g : Rounds(g, m, b, marks, S)
  OBVIOUS
<1>3. m # 0
  <2>1. Rounds([k \in 0..0 |-> << b, {} >>], 0, b, marks, S)
    BY DEF Rounds
  <2> QED BY <1>2, <2>1
<1>4. PICK g : Rounds(g, m - 1, b, marks, S)
  <2>1. m - 1 \in Nat /\ m - 1 \notin Bad
    BY <1>1, <1>2, <1>3
  <2> QED BY <2>1
<1> DEFINE h == [k \in 0..m |-> IF k = m THEN NextCall(g[m - 1], b, marks, S) ELSE g[k]]
<1>5. \A k \in 0..(m - 1) : g[k] = IF k = 0 THEN << b, {} >> ELSE NextCall(g[k - 1], b, marks, S)
  BY <1>4 DEF Rounds
<1>6. ASSUME NEW k \in 0..m
      PROVE  h[k] = IF k = 0 THEN << b, {} >> ELSE NextCall(h[k - 1], b, marks, S)
  <2>1. CASE k = m
    <3>1. h[k - 1] = g[m - 1] /\ k # 0
      BY <1>2, <1>3, <2>1
    <3> QED BY <2>1, <3>1
  <2>2. CASE k # m
    <3>1. k \in 0..(m - 1) /\ h[k] = g[k] /\ (k # 0 => h[k - 1] = g[k - 1])
      BY <1>2, <2>2
    <3> HIDE DEF h
    <3> QED BY <1>5, <3>1
  <2> QED BY <2>1, <2>2
<1>7. Rounds(h, m, b, marks, S)
  <2>1. DOMAIN h = 0..m /\ h = [k \in 0..m |-> h[k]]
    OBVIOUS
  <2> HIDE DEF h
  <2> QED BY <1>6, <2>1 DEF Rounds
<1> QED BY <1>2, <1>7

\* What b's position in s is worth
Worth(b, marks) == [s \in Symbols |-> Paper!Mark(b, marks, s) * b.positions[s].held]

Liquidated(c) == { o.symbol : o \in c[2] }

\* The books c[1] after the sales c[2] from b
Called(c, b, marks) ==
  /\ c[1] \in Books /\ Since(c[1]) /\ Liquidated(c) \subseteq Symbols
  /\ \A s \in Liquidated(c) : c[1].positions[s].held = 0
  /\ \A s \in Symbols \ Liquidated(c) : c[1].positions[s] = b.positions[s]
  /\ Money(c[1]) = Money(b) + Total(Worth(b, marks), Liquidated(c))
  /\ Money(c[1]) + Basis(c[1]) - c[1].realized = Money(b) + Basis(b) - b.realized

Marks == [Symbols -> Prices \union {0}]

LEMMA WorthIs ==
  ASSUME NEW b \in Books, NEW marks \in Marks
  PROVE  /\ \A s \in Symbols : Paper!Mark(b, marks, s) \in Nat /\ Worth(b, marks)[s] \in Nat
         /\ \A S : Paper!Value(b, marks, S) = Total(Worth(b, marks), S)
<1>1. \A s \in Symbols : marks[s] \in Nat
  <2>1. \A price \in Prices \union {0} : price \in Nat
    BY PaperConstants
  <2> QED BY <2>1 DEF Marks
<1>2. \A s \in Symbols : b.positions[s].held \in Nat /\ b.positions[s].avg \in Nat
  BY BooksAre
<1>3. \A s \in Symbols : Paper!Mark(b, marks, s) \in Nat
  BY <1>1, <1>2 DEF Paper!Mark
<1>4. \A s \in Symbols : Worth(b, marks)[s] = Paper!Mark(b, marks, s) * b.positions[s].held
  BY DEF Worth
<1>5. \A S : Paper!Value(b, marks, S) = Total(Worth(b, marks), S)
  BY SumIsTotal DEF Paper!Value, Worth
<1> QED BY <1>2, <1>3, <1>4, <1>5, ProductsAreNat

\* A margin call turns to a position that is held.
LEMMA LiquidationIs ==
  ASSUME NEW b \in Books, NEW marks \in Marks, NEW S \in SUBSET Symbols,
         Paper!Undermargined(b, marks, S)
  PROVE  Paper!Liquidation(b, marks, S).symbol \in S
<1> DEFINE w == Worth(b, marks)
           v == [t \in S |-> Paper!Value(b, marks, {t})]
           s == CHOOSE t \in S : \A u \in S : Paper!Value(b, marks, {u}) <= Paper!Value(b, marks, {t})
<1>1. IsFiniteSet(S)
  BY PaperConstants, FS_Subset
<1>2. S # {}
  <2>1. Paper!Value(b, marks, {}) = 0
    BY WorthIs, TotalEmpty
  <2> QED BY <2>1 DEF Paper!Undermargined
<1>3. \A t \in S : v[t] \in Nat
  <2> SUFFICES ASSUME NEW t \in S PROVE v[t] \in Nat
    OBVIOUS
  <2>1. IsFiniteSet({t}) /\ \A x \in {t} : w[x] \in Nat
    BY WorthIs, FS_Singleton
  <2>2. v[t] = Total(w, {t})
    BY WorthIs
  <2> HIDE DEF v, w
  <2> QED BY <2>1, <2>2, TotalBounds
<1>4. PICK t \in S : \A u \in S : v[u] <= v[t]
  <2> HIDE DEF v
  <2> QED BY <1>1, <1>2, <1>3, LargestIs
<1>5. \A u \in S : Paper!Value(b, marks, {u}) <= Paper!Value(b, marks, {t})
  BY <1>4
<1>6. s \in S
  BY <1>5
<1> QED BY <1>6 DEF Paper!Liquidation

LEMMA RoundIs ==
  ASSUME NEW b \in Books, NEW marks \in Marks, NEW S \in SUBSET Symbols, today \in 0..MaxDay,
         NEW c, Called(c, b, marks)
  PROVE  Called(NextCall(c, b, marks, S), b, marks)
<1> DEFINE left == IF c[2] = {} THEN S \intersect Paper!Held(b) ELSE Paper!Held(c[1])
           o == Paper!Liquidation(c[1], marks, left)
           s == o.symbol
           n == Paper!Sold(c[1], o, FALSE)
           Q == Liquidated(c)
           w == Worth(b, marks)
<1>1. CASE ~Paper!Undermargined(c[1], marks, left)
  BY <1>1 DEF NextCall
<1>2. CASE Paper!Undermargined(c[1], marks, left)
  <2>1. c[1] \in Books /\ Since(c[1])
    BY DEF Called
  <2>2. s \in left /\ s \in Symbols /\ c[1].positions[s].held > 0
    <3>1. left \in SUBSET Symbols /\ \A t \in left : c[1].positions[t].held > 0
      <4>1. CASE c[2] = {}
        <5>1. Liquidated(c) = {}
          BY <4>1 DEF Liquidated
        <5> QED BY <4>1, <5>1 DEF Called, Paper!Held
      <4>2. CASE c[2] # {}
        BY <4>2 DEF Paper!Held
      <4> QED BY <4>1, <4>2
    <3> HIDE DEF left
    <3>2. s \in left
      BY <1>2, <2>1, <3>1, LiquidationIs
    <3> HIDE DEF s
    <3> QED BY <3>1, <3>2
  <2>3. o.price = Paper!Mark(c[1], marks, s) /\ o.quantity = c[1].positions[s].held
    BY DEF Paper!Liquidation
  <2>4. s \notin Q /\ Q \in SUBSET Symbols /\ c[1].positions[s] = b.positions[s]
    <3> HIDE DEF s
    <3>1. s \notin Q
      BY <2>2 DEF Called
    <3> QED BY <2>2, <3>1 DEF Called
  <2> HIDE DEF s, o
  <2>5. o.price * o.quantity = w[s] /\ o.price \in Nat /\ o.quantity \in Nat /\ o.quantity > 0
    <3>1. Paper!Mark(c[1], marks, s) = Paper!Mark(b, marks, s)
      BY <2>4 DEF Paper!Mark
    <3>2. Paper!Mark(c[1], marks, s) \in Nat /\ c[1].positions[s].held \in Nat
      BY <2>1, <2>2, WorthIs, BooksAre
    <3> QED BY <2>2, <2>3, <2>4, <3>1, <3>2 DEF Worth
  <2>6. /\ n \in Books /\ Since(n)
        /\ \A t \in Symbols : t # s => n.positions[t] = c[1].positions[t]
        /\ n.positions[s].held = 0
        /\ Money(n) = Money(c[1]) + w[s]
        /\ Money(n) + Basis(n) - n.realized = Money(c[1]) + Basis(c[1]) - c[1].realized
    <3>1. c[1].positions[s].held - o.quantity = 0 /\ o.quantity <= c[1].positions[s].held
      BY <2>3, <2>5
    <3>2. s = o.symbol /\ o.symbol \in Symbols /\ o.quantity <= c[1].positions[o.symbol].held
      BY <2>2, <3>1 DEF s
    <3>3. FALSE \in BOOLEAN
      OBVIOUS
    <3>4. /\ n \in Books /\ Since(n)
          /\ \A t \in Symbols : t # o.symbol => n.positions[t] = c[1].positions[t]
          /\ n.positions[o.symbol].held = c[1].positions[o.symbol].held - o.quantity
          /\ Money(n) = Money(c[1]) + o.price * o.quantity
          /\ Money(n) + Basis(n) - n.realized = Money(c[1]) + Basis(c[1]) - c[1].realized
      BY <2>1, <2>5, <3>2, <3>3, SoldIs
    <3> HIDE DEF n
    <3> QED BY <2>5, <3>1, <3>2, <3>4
  <2> DEFINE d == << n, c[2] \union {o} >>
  <2>7. NextCall(c, b, marks, S) = d
    BY <1>2 DEF NextCall, o
  <2>8. Liquidated(d) = Q \union {s} /\ d[1] = n
    BY DEF Liquidated, s
  <2>9. Total(w, Q \union {s}) = Total(w, Q) + w[s] /\ Total(w, Q) \in Int /\ w[s] \in Int
    <3>1. IsFiniteSet(Q \union {s})
      BY <2>2, <2>4, PaperConstants, FS_Subset
    <3>2. \A x \in Q \union {s} : w[x] \in Int
      BY <2>2, <2>4, WorthIs
    <3>3. IsFiniteSet(Q) /\ (Q \union {s}) \ {s} = Q
      BY <2>4, PaperConstants, FS_Subset
    <3> HIDE DEF w, Q
    <3>4. /\ Total(w, Q \union {s}) = w[s] + Total(w, (Q \union {s}) \ {s})
          /\ Total(w, (Q \union {s}) \ {s}) \in Int
      <4>1. \A x \in Q : w[x] \in Int
        BY <3>2
      <4> QED BY <3>1, <3>2, <3>3, <4>1, TotalRemoves
    <3>5. Total(w, (Q \union {s}) \ {s}) = Total(w, Q)
      BY <3>3
    <3>6. w[s] \in Int
      BY <3>2
    <3> QED BY <3>4, <3>5, <3>6
  <2>10. Money(n) = Money(b) + Total(w, Q \union {s})
    <3>1. Money(c[1]) = Money(b) + Total(w, Q) /\ Money(b) \in Int
      BY BooksAre DEF Called
    <3> HIDE DEF w, Q, n
    <3> QED BY <2>6, <2>9, <3>1
  <2>11. Money(n) + Basis(n) - n.realized = Money(b) + Basis(b) - b.realized
    BY <2>6 DEF Called
  <2>12. \A t \in Q \union {s} : t \in Symbols /\ n.positions[t].held = 0
    <3>1. \A t \in Q : c[1].positions[t].held = 0
      BY DEF Called
    <3> HIDE DEF n
    <3> QED BY <2>2, <2>4, <2>6, <3>1
  <2>13. \A t \in Symbols \ (Q \union {s}) : n.positions[t] = b.positions[t]
    <3>1. \A t \in Symbols \ Q : c[1].positions[t] = b.positions[t]
      BY DEF Called
    <3> HIDE DEF n
    <3> QED BY <2>6, <3>1
  <2>14. Called(d, b, marks)
    <3> HIDE DEF d, n, w, Q
    <3> QED BY <2>6, <2>8, <2>10, <2>11, <2>12, <2>13 DEF Called, w
  <2> QED BY <2>7, <2>14
<1> QED BY <1>1, <1>2

LEMMA CallsSettle ==
  ASSUME NEW b \in Books, Since(b), NEW marks \in Marks, NEW S \in SUBSET Symbols,
         today \in 0..MaxDay
  PROVE  Called(Paper!Calls(b, marks, S), b, marks)
<1> DEFINE N == Cardinality(Symbols)
<1>1. N \in Nat
  BY PaperConstants, FS_CardinalityType
<1>2. PICK g : Rounds(g, N, b, marks, S) /\ Paper!Calls(b, marks, S) = g[N]
  <2>1. \E g : Rounds(g, N, b, marks, S)
    BY <1>1, RoundsExist
  <2> QED BY <2>1, CallsAre
<1> HIDE DEF N
<1>3. \A m \in 0..N : g[m] = IF m = 0 THEN << b, {} >> ELSE NextCall(g[m - 1], b, marks, S)
  BY <1>2 DEF Rounds
<1> DEFINE Bad == { m \in 0..N : ~Called(g[m], b, marks) }
<1>4. Bad = {}
  <2> SUFFICES ASSUME Bad # {} PROVE FALSE
    OBVIOUS
  <2>1. PICK m \in Bad : \A e \in Bad : m <= e
    <3>1. Bad \in SUBSET Nat
      BY <1>1
    <3> HIDE DEF Bad
    <3> QED BY <3>1, LeastNatural
  <2>2. m \in 0..N /\ ~Called(g[m], b, marks)
    OBVIOUS
  <2>3. m # 0
    <3>1. Called(<< b, {} >>, b, marks)
      <4> DEFINE c == << b, {} >>
      <4>1. c[1] = b /\ Liquidated(c) = {}
        BY DEF Liquidated
      <4>2. Total(Worth(b, marks), {}) = 0 /\ Money(b) \in Int
        BY TotalEmpty, BooksAre
      <4> HIDE DEF c
      <4>3. Called(c, b, marks)
        BY <4>1, <4>2 DEF Called
      <4> QED BY <4>3 DEF c
    <3> QED BY <1>3, <2>2, <3>1
  <2>4. m - 1 \in 0..N /\ m - 1 \notin Bad
    BY <1>1, <2>1, <2>2, <2>3
  <2>5. Called(g[m - 1], b, marks)
    BY <2>4
  <2>6. g[m] = NextCall(g[m - 1], b, marks, S)
    BY <1>3, <2>2, <2>3
  <2> QED BY <2>2, <2>5, <2>6, RoundIs
<1>5. Called(g[N], b, marks)
  BY <1>1, <1>4
<1> QED BY <1>2, <1>5

-----------------------------------------------------------------------------
(* PaperDesk: the books and what the orders and the interest add up to *)

Histories == [flow : Int, interest : Int, rounding : Int, bought : [Symbols -> Int]]

\* What the shares have cost and the cash exceed what they started from by
Off(b, h) == Money(b) + Basis(b) - (Start + b.realized - h.interest)

Agrees(b, h) ==
  /\ Money(b) = Start + h.flow - h.interest
  /\ \A s \in Symbols : b.positions[s].held = h.bought[s]
  /\ -h.rounding <= 2 * Off(b, h) /\ 2 * Off(b, h) <= h.rounding

LEMMA HistoryIs ==
  ASSUME NEW h \in Histories
  PROVE  /\ h.flow \in Int /\ h.interest \in Int /\ h.rounding \in Int
         /\ h.bought \in [Symbols -> Int]
         /\ h = [flow |-> h.flow, interest |-> h.interest, rounding |-> h.rounding, bought |-> h.bought]
BY DEF Histories

LEMMA OffIs ==
  ASSUME NEW b \in Books, NEW h \in Histories
  PROVE  /\ Off(b, h) \in Int /\ Off(b, h) = Money(b) + Basis(b) - (Start + b.realized - h.interest)
         /\ Money(b) \in Int /\ Basis(b) \in Nat /\ b.realized \in Int /\ Start \in Int
<1>1. Money(b) \in Int /\ Basis(b) \in Nat /\ b.realized \in Int /\ Start \in Int /\ h.interest \in Int
  BY BooksAre, HistoryIs, PaperConstants DEF Books
<1> QED BY <1>1 DEF Off

\* Interest comes off the cash.
LEMMA AccruedAgrees ==
  ASSUME NEW b \in Books, Since(b), today \in Nat, NEW due \in BOOLEAN,
         NEW h \in Histories, Agrees(b, h)
  PROVE  LET c == Paper!Accrued(b, due)
             i == Paper!InterestDue(IF due THEN Paper!SettledDue(b) ELSE b)
             k == [h EXCEPT !.interest = @ + i] IN
         c \in Books /\ Since(c) /\ c.positions = b.positions /\ k \in Histories /\ Agrees(c, k)
<1> DEFINE c == Paper!Accrued(b, due)
           i == Paper!InterestDue(IF due THEN Paper!SettledDue(b) ELSE b)
           k == [h EXCEPT !.interest = @ + i]
<1>1. /\ c \in Books /\ Since(c) /\ c.positions = b.positions /\ c.realized = b.realized
      /\ i \in Nat /\ Money(c) = Money(b) - i
  BY AccruedIs
<1> HIDE DEF c, i
<1>2. /\ k \in Histories /\ k.flow = h.flow /\ k.interest = h.interest + i
      /\ k.rounding = h.rounding /\ k.bought = h.bought
  BY <1>1, HistoryIs DEF Histories
<1> HIDE DEF k
<1>3. Basis(c) = Basis(b)
  BY <1>1 DEF Basis, CostOf
<1>4. Off(c, k) = Off(b, h) /\ Off(b, h) \in Int
  BY <1>1, <1>2, <1>3, OffIs, HistoryIs
<1>5. Money(c) = Start + k.flow - k.interest
  BY <1>1, <1>2, OffIs, HistoryIs DEF Agrees
<1>6. Agrees(c, k)
  BY <1>1, <1>2, <1>4, <1>5 DEF Agrees
<1> QED BY <1>1, <1>2, <1>6 DEF c, i, k

LEMMA BoughtAgrees ==
  ASSUME NEW b \in Books, Since(b), NEW o \in Paper!OrderType, o.side = "BUY",
         NEW h \in Histories, Agrees(b, h)
  PROVE  LET c == Paper!Bought(b, o)
             k == [Paper!Filled(h, o) EXCEPT !.rounding = @ + Paper!Rounding(b, o)] IN
         c \in Books /\ Since(c) /\ k \in Histories /\ Agrees(c, k)
<1> DEFINE c == Paper!Bought(b, o)
           s == o.symbol
           q == o.quantity
           paid == o.price * o.quantity
           more == Paper!Rounding(b, o)
           k == [Paper!Filled(h, o) EXCEPT !.rounding = @ + more]
           total == b.positions[s].held + q
           off == Basis(c) - Basis(b) - paid
           most == IF b.positions[s].held > 0 THEN total ELSE 0
<1>1. /\ c \in Books /\ Since(c) /\ c.realized = b.realized
      /\ \A t \in Symbols : t # s => c.positions[t] = b.positions[t]
      /\ c.positions[s].held = total
      /\ Money(c) = Money(b) - paid
      /\ off \in Int /\ -most <= 2 * off /\ 2 * off <= most
  BY BoughtIs
<1>2. s \in Symbols /\ q \in Nat /\ paid \in Nat /\ b.positions[s].held \in Nat
  <2>1. s \in Symbols /\ o.price \in Prices /\ q \in Quantities
    BY DEF Paper!OrderType
  <2>2. o.price \in Nat /\ q \in Nat
    BY <2>1, PaperConstants
  <2> QED BY <2>1, <2>2, ProductsAreNat, BooksAre
<1>3. more = most /\ most \in Nat /\ total \in Nat
  BY <1>2 DEF Paper!Rounding
<1>4. k = [flow |-> h.flow - paid, interest |-> h.interest, rounding |-> h.rounding + more,
           bought |-> [h.bought EXCEPT ![s] = @ + q]]
  <2> DEFINE f == Paper!Filled(h, o)
  <2>1. f = [flow |-> h.flow - paid, interest |-> h.interest, rounding |-> h.rounding,
             bought |-> [h.bought EXCEPT ![s] = @ + q]]
    <3>1. f = [h EXCEPT !.flow = @ - paid, !.bought[s] = @ + q]
      BY DEF Paper!Filled
    <3> HIDE DEF f, paid, q, s
    <3>2. h = [flow |-> h.flow, interest |-> h.interest, rounding |-> h.rounding, bought |-> h.bought]
      BY HistoryIs
    <3> QED BY ONLY <3>1, <3>2
  <2>2. k = [f EXCEPT !.rounding = @ + more]
    OBVIOUS
  <2> HIDE DEF f, paid, q, s, more, k
  <2> QED BY <2>1, <2>2
<1>5. k \in Histories /\ \A t \in Symbols : k.bought[t] = IF t = s THEN h.bought[s] + q ELSE h.bought[t]
  <2>1. /\ h.flow - paid \in Int /\ h.rounding + more \in Int /\ h.interest \in Int
        /\ h.bought \in [Symbols -> Int] /\ [h.bought EXCEPT ![s] = @ + q] \in [Symbols -> Int]
    <3>1. h.bought[s] + q \in Int
      BY <1>2, HistoryIs
    <3> QED BY <1>2, <1>3, <3>1, HistoryIs
  <2> HIDE DEF k, paid, q, s, more
  <2>2. k \in Histories
    BY <1>4, <2>1 DEF Histories
  <2> QED BY <1>2, <1>4, <2>1, <2>2
<1>6. k.flow = h.flow - paid /\ k.interest = h.interest /\ k.rounding = h.rounding + most
  BY <1>3, <1>4
<1> HIDE DEF c, k, paid, most, more, total, s, q
<1>7. Off(c, k) = Off(b, h) + off /\ off \in Int /\ Off(b, h) \in Int
  <2>1. Basis(c) = Basis(b) + paid + off /\ off \in Int
    BY <1>1, <1>2, OffIs
  <2> HIDE DEF off
  <2> QED BY <1>1, <1>2, <1>5, <1>6, <2>1, OffIs, HistoryIs
<1>8. -k.rounding <= 2 * Off(c, k) /\ 2 * Off(c, k) <= k.rounding
  <2> HIDE DEF off
  <2> QED BY <1>1, <1>3, <1>6, <1>7, HistoryIs DEF Agrees
<1>9. Money(c) = Start + k.flow - k.interest
  BY <1>1, <1>2, <1>6, OffIs, HistoryIs DEF Agrees
<1>10. ASSUME NEW t \in Symbols PROVE c.positions[t].held = k.bought[t]
  <2>1. b.positions[t].held = h.bought[t] /\ b.positions[s].held = h.bought[s]
    BY <1>2 DEF Agrees
  <2>2. CASE t = s
    BY <1>1, <1>5, <2>1, <2>2 DEF total
  <2>3. CASE t # s
    BY <1>1, <1>5, <2>1, <2>3
  <2> QED BY <2>2, <2>3
<1>11. Agrees(c, k)
  BY <1>8, <1>9, <1>10 DEF Agrees
<1> QED BY <1>1, <1>5, <1>11 DEF c, k, more

LEMMA SoldAgrees ==
  ASSUME NEW b \in Books, Since(b), today \in 0..MaxDay, NEW o \in Paper!OrderType, o.side = "SELL",
         o.quantity <= b.positions[o.symbol].held, NEW h \in Histories, Agrees(b, h)
  PROVE  LET c == Paper!Sold(b, o, Settle)
             k == [Paper!Filled(h, o) EXCEPT !.rounding = @ + Paper!Rounding(b, o)] IN
         c \in Books /\ Since(c) /\ k \in Histories /\ Agrees(c, k)
         /\ \A t \in Symbols : c.positions[t].held <= b.positions[t].held
<1> DEFINE c == Paper!Sold(b, o, Settle)
           s == o.symbol
           q == o.quantity
           got == o.price * o.quantity
           more == Paper!Rounding(b, o)
           k == [Paper!Filled(h, o) EXCEPT !.rounding = @ + more]
           left == b.positions[s].held - q
<1>1. s \in Symbols /\ o.price \in Nat /\ q \in Nat /\ q > 0 /\ got \in Nat /\ b.positions[s].held \in Nat
  <2>1. s \in Symbols /\ o.price \in Prices /\ q \in Quantities
    BY DEF Paper!OrderType
  <2>2. o.price \in Nat /\ q \in Nat /\ q > 0
    BY <2>1, PaperConstants
  <2> QED BY <2>1, <2>2, ProductsAreNat, BooksAre
<1>2. /\ c \in Books /\ Since(c)
      /\ \A t \in Symbols : t # s => c.positions[t] = b.positions[t]
      /\ c.positions[s].held = left
      /\ Money(c) = Money(b) + got
      /\ Money(c) + Basis(c) - c.realized = Money(b) + Basis(b) - b.realized
  <2>1. Settle \in BOOLEAN
    BY PaperConstants
  <2>2. /\ c \in Books /\ Since(c)
        /\ \A t \in Symbols : t # o.symbol => c.positions[t] = b.positions[t]
        /\ c.positions[o.symbol].held = b.positions[o.symbol].held - o.quantity
        /\ Money(c) = Money(b) + o.price * o.quantity
        /\ Money(c) + Basis(c) - c.realized = Money(b) + Basis(b) - b.realized
    <3> HIDE DEF got, c
    <3>1. /\ o.symbol \in Symbols /\ o.price \in Nat /\ o.quantity \in Nat /\ o.quantity > 0
          /\ o.quantity <= b.positions[o.symbol].held
      BY <1>1
    <3>2. LET d == Paper!Sold(b, o, Settle)
              t == o.symbol
              rest == b.positions[t].held - o.quantity IN
          /\ d \in Books /\ Since(d)
          /\ \A u \in Symbols : u # t => d.positions[u] = b.positions[u]
          /\ d.positions[t] = (IF rest > 0 THEN [b.positions[t] EXCEPT !.held = rest] ELSE Paper!Flat)
          /\ d.positions[t].held = rest
          /\ Money(d) = Money(b) + o.price * o.quantity
          /\ Money(d) + Basis(d) - d.realized = Money(b) + Basis(b) - b.realized
      BY <2>1, <3>1, SoldIs, Zenon
    <3> QED BY <3>2 DEF c
  <2> QED BY <2>2
<1>3. more = 0
  BY DEF Paper!Rounding
<1>4. k = [flow |-> h.flow + got, interest |-> h.interest, rounding |-> h.rounding,
           bought |-> [h.bought EXCEPT ![s] = @ - q]]
  <2> DEFINE f == Paper!Filled(h, o)
  <2>1. f = [flow |-> h.flow + got, interest |-> h.interest, rounding |-> h.rounding,
             bought |-> [h.bought EXCEPT ![s] = @ - q]]
    <3>1. f = [h EXCEPT !.flow = @ + got, !.bought[s] = @ - q]
      BY DEF Paper!Filled
    <3> HIDE DEF f, got, q, s
    <3>2. h = [flow |-> h.flow, interest |-> h.interest, rounding |-> h.rounding, bought |-> h.bought]
      BY HistoryIs
    <3> QED BY ONLY <3>1, <3>2
  <2>2. k = [f EXCEPT !.rounding = @ + more]
    OBVIOUS
  <2>3. h.rounding \in Int
    BY HistoryIs
  <2> HIDE DEF f, got, q, s, more, k
  <2> QED BY <1>3, <2>1, <2>2, <2>3
<1>5. k \in Histories /\ \A t \in Symbols : k.bought[t] = IF t = s THEN h.bought[s] - q ELSE h.bought[t]
  <2>1. /\ h.flow + got \in Int /\ h.rounding \in Int /\ h.interest \in Int
        /\ h.bought \in [Symbols -> Int] /\ [h.bought EXCEPT ![s] = @ - q] \in [Symbols -> Int]
    <3>1. h.bought[s] - q \in Int
      BY <1>1, HistoryIs
    <3> QED BY <1>1, <3>1, HistoryIs
  <2> HIDE DEF k, got, q, s, more
  <2>2. k \in Histories
    BY <1>4, <2>1 DEF Histories
  <2> QED BY <1>1, <1>4, <2>1, <2>2
<1>6. k.flow = h.flow + got /\ k.interest = h.interest /\ k.rounding = h.rounding
  BY <1>4
<1> HIDE DEF c, k, got, more, s, q
<1>7. Off(c, k) = Off(b, h)
  BY <1>2, <1>5, <1>6, OffIs, HistoryIs
<1>8. Money(c) = Start + k.flow - k.interest
  BY <1>1, <1>2, <1>6, OffIs, HistoryIs DEF Agrees
<1>9. ASSUME NEW t \in Symbols
      PROVE  c.positions[t].held = k.bought[t] /\ c.positions[t].held <= b.positions[t].held
  <2>1. b.positions[t].held = h.bought[t] /\ b.positions[s].held = h.bought[s] /\ b.positions[t].held \in Nat
    BY <1>1, BooksAre DEF Agrees
  <2>2. CASE t = s
    BY <1>1, <1>2, <1>5, <2>1, <2>2 DEF left
  <2>3. CASE t # s
    BY <1>2, <1>5, <2>1, <2>3
  <2> QED BY <2>2, <2>3
<1>10. Agrees(c, k)
  BY <1>6, <1>7, <1>8, <1>9 DEF Agrees
<1> QED BY <1>2, <1>5, <1>9, <1>10 DEF c, k, more

\* The history after the sale of all of Q for got
Cleared(h, got, Q) ==
  [h EXCEPT !.flow = @ + got, !.bought = [s \in Symbols |-> IF s \in Q THEN 0 ELSE @[s]]]

LEMMA CalledAgrees ==
  ASSUME NEW b \in Books, NEW marks \in Marks, NEW c, Called(c, b, marks),
         NEW h \in Histories, Agrees(b, h), NEW k,
         k = Cleared(h, Total(Worth(b, marks), Liquidated(c)), Liquidated(c))
  PROVE  k \in Histories /\ Agrees(c[1], k)
         /\ \A t \in Symbols : c[1].positions[t].held <= b.positions[t].held
<1> DEFINE Q == Liquidated(c)
           got == Total(Worth(b, marks), Q)
           bought == [s \in Symbols |-> IF s \in Q THEN 0 ELSE h.bought[s]]
<1>1. got \in Int
  <2>1. Q \in SUBSET Symbols /\ IsFiniteSet(Q)
    BY PaperConstants, FS_Subset DEF Called
  <2>2. \A x \in Q : Worth(b, marks)[x] \in Int
    BY <2>1, WorthIs
  <2> HIDE DEF Q
  <2> QED BY <2>1, <2>2, TotalRemoves
<1>2. /\ bought \in [Symbols -> Int]
      /\ \A t \in Symbols : bought[t] = IF t \in Q THEN 0 ELSE h.bought[t]
      /\ k = [h EXCEPT !.flow = @ + got, !.bought = bought]
  BY HistoryIs DEF Cleared
<1> HIDE DEF got, bought
<1>3. k \in Histories /\ k.bought = bought
  <2>1. h.flow + got \in Int
    BY <1>1, HistoryIs
  <2> QED BY <1>2, <2>1 DEF Histories
<1>4. k.flow = h.flow + got /\ k.interest = h.interest /\ k.rounding = h.rounding
  BY ONLY <1>2, h \in Histories DEF Histories
<1>5. /\ c[1] \in Books /\ Money(c[1]) = Money(b) + got
      /\ Money(c[1]) + Basis(c[1]) - c[1].realized = Money(b) + Basis(b) - b.realized
  BY DEF Called, got
<1>6. Off(c[1], k) = Off(b, h)
  <2>1. /\ Off(b, h) = Money(b) + Basis(b) - (Start + b.realized - h.interest)
        /\ Money(b) \in Int /\ Basis(b) \in Nat /\ b.realized \in Int /\ Start \in Int
    BY OffIs
  <2>2. /\ Off(c[1], k) = Money(c[1]) + Basis(c[1]) - (Start + c[1].realized - k.interest)
        /\ Money(c[1]) \in Int /\ Basis(c[1]) \in Nat /\ c[1].realized \in Int
    BY <1>3, <1>5, OffIs
  <2>3. h.interest \in Int
    BY HistoryIs
  <2> QED BY ONLY <1>4, <1>5, <2>1, <2>2, <2>3
<1>7. Money(c[1]) = Start + k.flow - k.interest
  BY <1>1, <1>4, <1>5, OffIs, HistoryIs DEF Agrees
<1>8. ASSUME NEW t \in Symbols
      PROVE  c[1].positions[t].held = k.bought[t] /\ c[1].positions[t].held <= b.positions[t].held
  <2>1. b.positions[t].held = h.bought[t] /\ b.positions[t].held \in Nat
    BY BooksAre DEF Agrees
  <2>2. k.bought[t] = IF t \in Q THEN 0 ELSE h.bought[t]
    BY <1>2, <1>3
  <2>3. CASE t \in Q
    BY <2>1, <2>2, <2>3 DEF Called
  <2>4. CASE t \notin Q
    BY <2>1, <2>2, <2>4 DEF Called
  <2> QED BY <2>3, <2>4
<1>9. Agrees(c[1], k)
  BY <1>4, <1>6, <1>7, <1>8 DEF Agrees
<1> QED BY <1>3, <1>8, <1>9

-----------------------------------------------------------------------------
(* PaperDesk: the cycles keep the books *)

Slots == [at : Paper!Labels, closing : BOOLEAN, order : Paper!OrderType \union {NoOrder},
          due : BOOLEAN, rows : SUBSET Symbols]

Trading == {"mature", "fill"}

PaperTypes ==
  /\ book \in Books /\ Since(book) /\ today \in 0..MaxDay /\ orders \in 0..MaxOrders
  /\ history \in Histories
  /\ desk \in [Observers -> Slots]
  /\ \A p \in Observers : desk[p].at \in Trading => desk[p].order \in Paper!OrderType

PaperInv == PaperTypes /\ Agrees(book, history)

\* What a cycle does that leaves the books alone
LEMMA QuietCycle ==
  ASSUME PaperInv, UNCHANGED << book, today, history >>, orders' \in 0..MaxOrders,
         NEW p \in Observers, NEW d \in Slots, desk' = [desk EXCEPT ![p] = d],
         d.at \in Trading => d.order \in Paper!OrderType
  PROVE  PaperInv'
<1>1. desk' \in [Observers -> Slots] /\ \A q \in Observers : desk'[q] = IF q = p THEN d ELSE desk[q]
  BY DEF PaperInv, PaperTypes
<1>2. \A q \in Observers : desk'[q].at \in Trading => desk'[q].order \in Paper!OrderType
  BY <1>1 DEF PaperInv, PaperTypes
<1>3. Since(book)' /\ Agrees(book, history)'
  BY DEF PaperInv, PaperTypes, Since, Agrees, Off, Money, Basis, CostOf
<1> QED BY <1>1, <1>2, <1>3 DEF PaperInv, PaperTypes

\* What a cycle does to the books
LEMMA BookedCycle ==
  ASSUME PaperInv, UNCHANGED << today, orders >>,
         NEW b \in Books, Since(b), NEW h \in Histories, Agrees(b, h), book' = b, history' = h,
         NEW p \in Observers, NEW d \in Slots, desk' = [desk EXCEPT ![p] = d], d.at \notin Trading
  PROVE  PaperInv'
<1>1. desk' \in [Observers -> Slots] /\ \A q \in Observers : desk'[q] = IF q = p THEN d ELSE desk[q]
  BY DEF PaperInv, PaperTypes
<1>2. \A q \in Observers : desk'[q].at \in Trading => desk'[q].order \in Paper!OrderType
  BY <1>1 DEF PaperInv, PaperTypes
<1>3. Since(book)' /\ Agrees(book, history)'
  BY DEF Since, Agrees, Off, Money, Basis, CostOf
<1> QED BY <1>1, <1>2, <1>3 DEF PaperInv, PaperTypes

LEMMA SlotIs ==
  ASSUME PaperInv, NEW p \in Observers
  PROVE  /\ desk[p] \in Slots /\ desk[p].due \in BOOLEAN /\ desk[p].rows \in SUBSET Symbols
         /\ desk[p].closing \in BOOLEAN /\ desk[p].order \in Paper!OrderType \union {NoOrder}
         /\ desk[p].at \in Trading => desk[p].order \in Paper!OrderType
         /\ Paper!Idle \in Slots /\ Paper!Idle.at = "idle"
         /\ Paper!Between(p) \in Slots /\ Paper!Between(p).at = "cycle"
         /\ orders \in 0..MaxOrders /\ MaxOrders \in Nat
BY PaperAssumption DEF PaperInv, PaperTypes, Slots, Paper!Idle, Paper!Between, Paper!Labels,
   Paper!PaperAssumption

LEMMA CycleInv == ASSUME PaperInv, NEW p \in Observers, Paper!Cycle(p) PROVE PaperInv'
<1> DEFINE d == [desk[p] EXCEPT !.at = "accrue"]
<1>1. d \in Slots /\ d.at \notin Trading
  BY SlotIs DEF Slots, Paper!Labels, Trading
<1>2. UNCHANGED << book, today, history >> /\ orders' \in 0..MaxOrders /\ desk' = [desk EXCEPT ![p] = d]
  BY SlotIs DEF Paper!Cycle, Paper!Goto
<1> HIDE DEF d
<1> QED BY <1>1, <1>2, QuietCycle

LEMMA LockDueInv == ASSUME PaperInv, NEW p \in Observers, Paper!LockDue(p) PROVE PaperInv'
<1> DEFINE due == Settle /\ Paper!Due(book) # {}
           d == [desk[p] EXCEPT !.at = "settle", !.due = due]
<1>1. d \in Slots /\ d.at \notin Trading
  <2>1. due \in BOOLEAN
    OBVIOUS
  <2> HIDE DEF due
  <2> QED BY <2>1, SlotIs DEF Slots, Paper!Labels, Trading
<1>2. UNCHANGED << book, today, history >> /\ orders' \in 0..MaxOrders /\ desk' = [desk EXCEPT ![p] = d]
  <2>1. desk' = [desk EXCEPT ![p].at = "settle", ![p].due = due] /\ UNCHANGED << book, today, orders, history >>
    BY DEF Paper!LockDue
  <2> HIDE DEF due
  <2>2. desk \in [Observers -> Slots]
    BY DEF PaperInv, PaperTypes
  <2> QED BY <2>1, <2>2, SlotIs
<1> HIDE DEF d
<1> QED BY <1>1, <1>2, QuietCycle

LEMMA MatureInv == ASSUME PaperInv, NEW p \in Observers, Paper!Mature(p) PROVE PaperInv'
<1> DEFINE due == Settle /\ Paper!Due(book) # {}
           d == [desk[p] EXCEPT !.at = "fill", !.due = due]
<1>1. d \in Slots /\ d.order \in Paper!OrderType
  <2>1. due \in BOOLEAN /\ desk[p].order \in Paper!OrderType
    BY SlotIs DEF Paper!Mature, Paper!At, Trading
  <2> HIDE DEF due
  <2> QED BY <2>1, SlotIs DEF Slots, Paper!Labels
<1>2. UNCHANGED << book, today, history >> /\ orders' \in 0..MaxOrders /\ desk' = [desk EXCEPT ![p] = d]
  <2>1. desk' = [desk EXCEPT ![p].at = "fill", ![p].due = due] /\ UNCHANGED << book, today, orders, history >>
    BY DEF Paper!Mature
  <2> HIDE DEF due
  <2>2. desk \in [Observers -> Slots]
    BY DEF PaperInv, PaperTypes
  <2> QED BY <2>1, <2>2, SlotIs
<1> HIDE DEF d
<1> QED BY <1>1, <1>2, QuietCycle

LEMMA PlaceInv == ASSUME PaperInv, NEW p \in Observers, Paper!Place(p) PROVE PaperInv'
<1>1. PICK o \in Paper!OrderType : desk' = [desk EXCEPT ![p].at = "mature", ![p].order = o]
  BY DEF Paper!Place
<1> DEFINE d == [desk[p] EXCEPT !.at = "mature", !.order = o]
<1>2. d \in Slots /\ d.order \in Paper!OrderType
  BY SlotIs DEF Slots, Paper!Labels
<1>3. UNCHANGED << book, today, history >> /\ orders' \in 0..MaxOrders
  <2>1. orders < MaxOrders /\ orders' = orders + 1 /\ UNCHANGED << book, today, history >>
    BY DEF Paper!Place
  <2> QED BY <2>1, SlotIs
<1>4. desk' = [desk EXCEPT ![p] = d]
  <2>1. desk \in [Observers -> Slots]
    BY DEF PaperInv, PaperTypes
  <2> QED BY <1>1, <2>1
<1> HIDE DEF d
<1> QED BY <1>2, <1>3, <1>4, QuietCycle

LEMMA CloseInv == ASSUME PaperInv, NEW p \in Observers, Paper!Close(p) PROVE PaperInv'
<1> DEFINE d == [desk[p] EXCEPT !.at = "accrue", !.closing = TRUE]
<1>1. d \in Slots /\ d.at \notin Trading
  BY SlotIs DEF Slots, Paper!Labels, Trading
<1>2. UNCHANGED << book, today, history >> /\ orders' \in 0..MaxOrders /\ desk' = [desk EXCEPT ![p] = d]
  <2>1. desk \in [Observers -> Slots]
    BY DEF PaperInv, PaperTypes
  <2> QED BY <2>1, SlotIs DEF Paper!Close
<1> HIDE DEF d
<1> QED BY <1>1, <1>2, QuietCycle

LEMMA LockRowsInv == ASSUME PaperInv, NEW p \in Observers, Paper!LockRows(p) PROVE PaperInv'
<1> DEFINE d == IF Leverage = 1 THEN Paper!Idle ELSE [desk[p] EXCEPT !.at = "call", !.rows = Paper!Held(book)]
<1>1. d \in Slots /\ d.at \notin Trading
  <2>1. Paper!Held(book) \in SUBSET Symbols
    BY DEF Paper!Held
  <2>2. [desk[p] EXCEPT !.at = "call", !.rows = Paper!Held(book)] \in Slots
    BY <2>1, SlotIs DEF Slots, Paper!Labels
  <2>3. [desk[p] EXCEPT !.at = "call", !.rows = Paper!Held(book)].at = "call"
    BY SlotIs DEF Slots
  <2> QED BY <2>2, <2>3, SlotIs DEF Trading
<1>2. UNCHANGED << book, today, history >> /\ orders' \in 0..MaxOrders /\ desk' = [desk EXCEPT ![p] = d]
  <2>1. desk \in [Observers -> Slots]
    BY DEF PaperInv, PaperTypes
  <2> QED BY <2>1, SlotIs DEF Paper!LockRows
<1> HIDE DEF d
<1> QED BY <1>1, <1>2, QuietCycle

LEMMA CrashInv == ASSUME PaperInv, NEW p \in Observers, Paper!Crash(p) PROVE PaperInv'
<1>1. Paper!Idle \in Slots /\ Paper!Idle.at \notin Trading
  BY SlotIs DEF Trading
<1>2. /\ UNCHANGED << book, today, history >> /\ orders' \in 0..MaxOrders
      /\ desk' = [desk EXCEPT ![p] = Paper!Idle]
  BY SlotIs DEF Paper!Crash
<1> QED BY <1>1, <1>2, QuietCycle

LEMMA NextDayInv == ASSUME PaperInv, Paper!NextDay PROVE PaperInv'
<1>1. today' \in 0..MaxDay /\ today' = today + 1 /\ UNCHANGED << book, desk, orders, history >>
  BY PaperConstants DEF Paper!NextDay, PaperInv, PaperTypes
<1>2. Since(book)'
  BY <1>1 DEF PaperInv, PaperTypes, Since
<1>3. Agrees(book, history)'
  BY <1>1 DEF PaperInv, Agrees, Off, Money, Basis, CostOf
<1> QED BY <1>1, <1>2, <1>3 DEF PaperInv, PaperTypes

LEMMA BooksInView ==
  ASSUME PaperInv
  PROVE  book \in Books /\ Since(book) /\ today \in 0..MaxDay /\ today \in Nat
         /\ history \in Histories /\ Agrees(book, history)
BY DEF PaperInv, PaperTypes

LEMMA AccrueInv ==
  ASSUME PaperInv, NEW p \in Observers, Paper!Accrue(p)
  PROVE  PaperInv' /\ book'.positions = book.positions
<1> DEFINE due == desk[p].due
           b == Paper!Accrued(book, due)
           i == Paper!InterestDue(IF due THEN Paper!SettledDue(book) ELSE book)
           h == [history EXCEPT !.interest = @ + i]
           d == [Paper!Between(p) EXCEPT !.at = IF desk[p].closing THEN "maintain" ELSE "cycle"]
<1>1. b \in Books /\ Since(b) /\ b.positions = book.positions /\ h \in Histories /\ Agrees(b, h)
  <2>1. due \in BOOLEAN
    BY SlotIs
  <2> QED BY <2>1, BooksInView, AccruedAgrees
<1>2. book' = b /\ history' = h /\ desk' = [desk EXCEPT ![p] = d] /\ UNCHANGED << today, orders >>
  BY DEF Paper!Accrue
<1>3. d \in Slots /\ d.at \notin Trading
  BY SlotIs DEF Slots, Paper!Labels, Trading
<1> HIDE DEF b, h, d
<1> QED BY <1>1, <1>2, <1>3, BookedCycle

LEMMA EnforceInv ==
  ASSUME PaperInv, NEW p \in Observers, Paper!Enforce(p)
  PROVE  PaperInv' /\ \A t \in Symbols : book'.positions[t].held <= book.positions[t].held
<1>1. PICK marks \in Marks :
        LET called == Paper!Calls(book, marks, desk[p].rows) IN
        /\ book' = called[1]
        /\ history' = [history EXCEPT
                         !.flow = @ + Paper!Sum([s \in Symbols |-> Paper!Mark(book, marks, s) * book.positions[s].held],
                                                { o.symbol : o \in called[2] }),
                         !.bought = [s \in Symbols |-> IF \E o \in called[2] : o.symbol = s THEN 0 ELSE @[s]]]
  BY DEF Paper!Enforce, Marks
<1> DEFINE c == Paper!Calls(book, marks, desk[p].rows)
<1>2. Called(c, book, marks) /\ book' = c[1]
  BY <1>1, SlotIs, BooksInView, CallsSettle
<1>3. history' = Cleared(history, Total(Worth(book, marks), Liquidated(c)), Liquidated(c))
  <2>1. Paper!Sum([s \in Symbols |-> Paper!Mark(book, marks, s) * book.positions[s].held],
                  { o.symbol : o \in c[2] })
          = Total(Worth(book, marks), Liquidated(c))
    BY SumIsTotal DEF Worth, Liquidated
  <2>2. \A s : (\E o \in c[2] : o.symbol = s) <=> s \in Liquidated(c)
    BY DEF Liquidated
  <2> QED BY <1>1, <2>1, <2>2 DEF Cleared
<1> HIDE DEF c
<1>4. /\ history' \in Histories /\ Agrees(c[1], history')
      /\ \A t \in Symbols : c[1].positions[t].held <= book.positions[t].held
  <2>1. book \in Books /\ history \in Histories /\ Agrees(book, history)
    BY BooksInView
  <2> QED BY ONLY <1>2, <1>3, <2>1, marks \in Marks, CalledAgrees
<1>5. c[1] \in Books /\ Since(c[1])
  BY <1>2 DEF Called
<1>6. desk' = [desk EXCEPT ![p] = Paper!Idle] /\ UNCHANGED << today, orders >>
  BY DEF Paper!Enforce
<1>7. Paper!Idle \in Slots /\ Paper!Idle.at \notin Trading
  BY SlotIs DEF Trading
<1> QED BY <1>2, <1>4, <1>5, <1>6, <1>7, BookedCycle

\* The numbers of a purchase: what is left of the power after paying, and what rounding
\* can take.
LEMMA PowerLeft ==
  ASSUME NEW lever \in Nat, lever > 0, NEW cash \in Int, NEW cost \in Nat, NEW paid \in Nat,
         NEW off \in Int, NEW total \in Nat, paid <= lever * cash + (lever - 1) * cost,
         -total <= 2 * off
  PROVE  lever * (cash - paid) + (lever - 1) * (cost + paid + off) + (lever - 1) * total >= 0
<1> DEFINE m == lever - 1
<1>1. m \in Nat /\ lever = m + 1 /\ off + total \in Nat
  OBVIOUS
<1> HIDE DEF m
<1>2. m * (off + total) \in Nat
  BY <1>1, ProductsAreNat
<1>3. \A i, j, k \in Int : i * (j + k) = i * j + i * k /\ (i + 1) * j = i * j + j
                           /\ i * (j - k) = i * j - i * k /\ i * j \in Int
  OBVIOUS
<1>4. /\ m * (cost + paid + off) = m * cost + m * paid + m * off
      /\ m * (off + total) = m * off + m * total
      /\ (m + 1) * (cash - paid) = m * cash - m * paid + cash - paid
      /\ (m + 1) * cash = m * cash + cash
      /\ m * cost \in Int /\ m * paid \in Int /\ m * off \in Int /\ m * total \in Int /\ m * cash \in Int
  <2>1. m \in Int /\ cost + paid \in Int /\ cash - paid \in Int
    BY <1>1
  <2>2. m * (cost + paid + off) = m * (cost + paid) + m * off /\ m * (cost + paid) = m * cost + m * paid
    BY <1>3, <2>1
  <2>3. (m + 1) * (cash - paid) = m * (cash - paid) + (cash - paid) /\ m * (cash - paid) = m * cash - m * paid
    BY <1>3, <2>1
  <2>4. m * (off + total) = m * off + m * total /\ (m + 1) * cash = m * cash + cash
    BY <1>3, <2>1
  <2>5. m * cost \in Int /\ m * paid \in Int /\ m * off \in Int /\ m * total \in Int /\ m * cash \in Int
    BY <1>3, <2>1
  <2> QED BY <2>2, <2>3, <2>4, <2>5
<1>5. paid <= (m + 1) * cash + m * cost
  BY <1>1 DEF m
<1>6. (m + 1) * (cash - paid) + m * (cost + paid + off) + m * total >= 0
  BY <1>2, <1>4, <1>5
<1> QED BY <1>1, <1>6 DEF m

LEMMA BoughtWithinPower ==
  ASSUME NEW b \in Books, Since(b), NEW o \in Paper!OrderType, o.side = "BUY", Paper!Accepted(b, o)
  PROVE  LET c == Paper!Bought(b, o) IN
         \A s \in Symbols : c.positions[s].held > b.positions[s].held
           => Paper!Power(c) + (Leverage - 1) * c.positions[s].held >= 0
<1> DEFINE c == Paper!Bought(b, o)
           s == o.symbol
           paid == o.price * o.quantity
           total == b.positions[s].held + o.quantity
           off == Basis(c) - Basis(b) - paid
           most == IF b.positions[s].held > 0 THEN total ELSE 0
<1>1. /\ c \in Books
      /\ \A t \in Symbols : t # s => c.positions[t] = b.positions[t]
      /\ c.positions[s].held = total
      /\ c.cash = b.cash - paid
      /\ off \in Int /\ -most <= 2 * off
  BY BoughtIs
<1>2. s \in Symbols /\ paid \in Nat /\ total \in Nat
  <2>1. s \in Symbols /\ o.price \in Prices /\ o.quantity \in Quantities
    BY DEF Paper!OrderType
  <2>2. o.price \in Nat /\ o.quantity \in Nat
    BY <2>1, PaperConstants
  <2> QED BY <2>1, <2>2, ProductsAreNat, BooksAre
<1>3. -total <= 2 * off
  <2> HIDE DEF off, total
  <2> QED BY <1>1, <1>2
<1>4. paid <= Leverage * b.cash + (Leverage - 1) * Basis(b)
  BY PaperSums DEF Paper!Accepted, Paper!Power
<1>5. Paper!Power(c) = Leverage * c.cash + (Leverage - 1) * Basis(c)
  BY PaperSums DEF Paper!Power
<1> HIDE DEF c, paid, total, s
<1>6. Basis(c) = Basis(b) + paid + off /\ b.cash \in Int /\ Basis(b) \in Nat
  <2>1. Basis(c) \in Nat /\ Basis(b) \in Nat /\ b.cash \in Int
    BY <1>1, BooksAre DEF Books
  <2> QED BY <1>2, <2>1
<1>7. Paper!Power(c) + (Leverage - 1) * total >= 0
  <2> HIDE DEF off
  <2>1. Leverage \in Nat /\ Leverage > 0
    BY PaperConstants
  <2>2. Leverage * (b.cash - paid) + (Leverage - 1) * (Basis(b) + paid + off) + (Leverage - 1) * total >= 0
    BY ONLY <1>1, <1>2, <1>3, <1>4, <1>6, <2>1, PowerLeft
  <2> QED BY <1>1, <1>5, <1>6, <2>2
<1>8. ASSUME NEW t \in Symbols, c.positions[t].held > b.positions[t].held
      PROVE  Paper!Power(c) + (Leverage - 1) * c.positions[t].held >= 0
  <2>1. t = s
    <3>1. b.positions[t].held \in Nat
      BY BooksAre
    <3> QED BY <1>1, <1>8, <3>1
  <2> QED BY <1>1, <1>7, <2>1
<1> QED BY <1>8 DEF c

\* What an order leaves: filled, or what accrued.
LEMMA FillInv ==
  ASSUME PaperInv, NEW p \in Observers, Paper!Fill(p)
  PROVE  PaperInv' /\ Paper!WithinPower
<1> DEFINE o == desk[p].order
           due == desk[p].due
           a == Paper!Accrued(book, due)
           i == Paper!InterestDue(IF due THEN Paper!SettledDue(book) ELSE book)
           h == [history EXCEPT !.interest = @ + i]
           k == [Paper!Filled(h, o) EXCEPT !.rounding = @ + Paper!Rounding(a, o)]
<1>1. a \in Books /\ Since(a) /\ a.positions = book.positions /\ h \in Histories /\ Agrees(a, h)
  <2>1. due \in BOOLEAN
    BY SlotIs
  <2> QED BY <2>1, BooksInView, AccruedAgrees
<1>2. o \in Paper!OrderType /\ o.symbol \in Symbols /\ (o.side = "BUY" \/ o.side = "SELL")
  <2>1. o \in Paper!OrderType
    BY SlotIs DEF Paper!Fill, Paper!At, Trading
  <2> HIDE DEF o
  <2> QED BY <2>1 DEF Paper!OrderType
<1>3. desk' = [desk EXCEPT ![p] = Paper!Between(p)] /\ UNCHANGED << today, orders >>
      /\ Paper!Between(p) \in Slots /\ Paper!Between(p).at \notin Trading
  BY SlotIs DEF Paper!Fill, Trading
<1>4. \/ /\ Paper!Accepted(a, o) /\ o.side = "BUY"
         /\ book' = Paper!Bought(a, o) /\ history' = k
      \/ /\ Paper!Accepted(a, o) /\ o.side = "SELL"
         /\ book' = Paper!Sold(a, o, Settle) /\ history' = k
      \/ book' = a /\ history' = h
  BY <1>2 DEF Paper!Fill
<1> HIDE DEF a, h, o
<1>5. CASE book' = a /\ history' = h
  <2>1. PaperInv'
    BY <1>1, <1>3, <1>5, BookedCycle
  <2>2. \A s \in Symbols : ~(book'.positions[s].held > book.positions[s].held)
    BY <1>1, <1>5, BooksAre
  <2> QED BY <2>1, <2>2 DEF Paper!WithinPower
<1>6. CASE Paper!Accepted(a, o) /\ o.side = "BUY" /\ book' = Paper!Bought(a, o) /\ history' = k
  <2> DEFINE c == Paper!Bought(a, o)
  <2>1. c \in Books /\ Since(c) /\ k \in Histories /\ Agrees(c, k)
    BY <1>1, <1>2, <1>6, BoughtAgrees
  <2>2. \A s \in Symbols : c.positions[s].held > a.positions[s].held
                             => Paper!Power(c) + (Leverage - 1) * c.positions[s].held >= 0
    BY <1>1, <1>2, <1>6, BoughtWithinPower
  <2>3. book' = c
    BY <1>6
  <2> HIDE DEF c, k
  <2>4. PaperInv'
    BY <1>3, <1>6, <2>1, <2>3, BookedCycle
  <2> QED BY <1>1, <2>2, <2>3, <2>4 DEF Paper!WithinPower, Paper!Power, Paper!CostBasis
<1>7. CASE Paper!Accepted(a, o) /\ o.side = "SELL" /\ book' = Paper!Sold(a, o, Settle) /\ history' = k
  <2> DEFINE c == Paper!Sold(a, o, Settle)
  <2>1. o.quantity <= a.positions[o.symbol].held /\ today \in 0..MaxDay
    BY <1>7, BooksInView DEF Paper!Accepted
  <2>2. c \in Books /\ Since(c) /\ k \in Histories /\ Agrees(c, k)
        /\ \A t \in Symbols : c.positions[t].held <= a.positions[t].held
    BY <1>1, <1>2, <1>7, <2>1, SoldAgrees
  <2>3. book' = c
    BY <1>7
  <2> HIDE DEF c, k
  <2>4. PaperInv'
    BY <1>3, <1>7, <2>2, <2>3, BookedCycle
  <2>5. \A s \in Symbols : ~(book'.positions[s].held > book.positions[s].held)
    BY <1>1, <2>2, <2>3, BooksAre
  <2> QED BY <2>4, <2>5 DEF Paper!WithinPower
<1> QED BY <1>4, <1>5, <1>6, <1>7

LEMMA PaperStepInv ==
  ASSUME PaperInv, Paper!Next PROVE PaperInv' /\ Paper!WithinPower
<1>1. \A s \in Symbols : book.positions[s].held \in Nat
  BY BooksInView, BooksAre
<1>2. CASE UNCHANGED book
  <2>1. Paper!WithinPower
    BY <1>1, <1>2 DEF Paper!WithinPower
  <2>2. PaperInv'
    <3>1. CASE Paper!NextDay
      BY <3>1, NextDayInv
    <3>2. ASSUME NEW p \in Observers,
                 Paper!Cycle(p) \/ Paper!Trade(p) \/ Paper!Close(p) \/ Paper!Keep(p) \/ Paper!Crash(p)
          PROVE  PaperInv'
      BY <3>2, CycleInv, LockDueInv, MatureInv, PlaceInv, CloseInv, LockRowsInv, CrashInv,
         AccrueInv, EnforceInv, FillInv DEF Paper!Trade, Paper!Keep
    <3> QED BY <3>1, <3>2 DEF Paper!Next
  <2> QED BY <2>1, <2>2
<1>3. CASE ~UNCHANGED book
  <2>1. PICK p \in Observers : Paper!Accrue(p) \/ Paper!Fill(p) \/ Paper!Enforce(p)
    BY <1>3 DEF Paper!Next, Paper!NextDay, Paper!Cycle, Paper!Trade, Paper!Place, Paper!Mature,
       Paper!Close, Paper!Keep, Paper!LockDue, Paper!LockRows, Paper!Crash
  <2>2. CASE Paper!Fill(p)
    BY <2>2, FillInv
  <2>3. CASE Paper!Accrue(p)
    <3>1. PaperInv' /\ \A s \in Symbols : ~(book'.positions[s].held > book.positions[s].held)
      BY <1>1, <2>3, AccrueInv
    <3> QED BY <3>1 DEF Paper!WithinPower
  <2>4. CASE Paper!Enforce(p)
    <3>1. PaperInv' /\ \A t \in Symbols : book'.positions[t].held <= book.positions[t].held
      BY <2>4, EnforceInv
    <3>2. \A s \in Symbols : book'.positions[s].held \in Nat
      BY <3>1, BooksAre DEF PaperInv, PaperTypes
    <3>3. \A s \in Symbols : ~(book'.positions[s].held > book.positions[s].held)
      BY <1>1, <3>1, <3>2
    <3> QED BY <3>1, <3>3 DEF Paper!WithinPower
  <2> QED BY <2>1, <2>2, <2>3, <2>4
<1> QED BY <1>2, <1>3

LEMMA InitPaperInv == Paper!Init => PaperInv
<1> SUFFICES ASSUME Paper!Init PROVE PaperInv
  OBVIOUS
<1> DEFINE flat == [s \in Symbols |-> Paper!Flat]
           none == [d \in Paper!Days |-> 0]
           zero == [s \in Symbols |-> 0]
<1>1. /\ book = [cash |-> Start, realized |-> 0, last |-> Paper!NotYet, positions |-> flat, unsettled |-> none]
      /\ today = 0 /\ orders = 0 /\ desk = [p \in Observers |-> Paper!Idle]
      /\ history = [flow |-> 0, interest |-> 0, rounding |-> 0, bought |-> zero]
  BY DEF Paper!Init
<1>2. /\ flat \in [Symbols -> [held : Nat, avg : Nat]] /\ none \in [Paper!Days -> Nat]
      /\ zero \in [Symbols -> Int] /\ Paper!NotYet \in Int /\ Start \in Int
  BY PaperConstants DEF Paper!Flat, Paper!NotYet
<1>3. book \in Books /\ Since(book) /\ history \in Histories
  <2> HIDE DEF flat, none, zero
  <2> QED BY <1>1, <1>2 DEF Books, Since, Histories
<1>4. Total(none, Paper!Days) = 0 /\ Basis(book) = 0
  <2>1. \A d \in Paper!Days : none[d] = 0
    OBVIOUS
  <2>2. \A s \in Symbols : CostOf(book)[s] = 0
    BY <1>1 DEF CostOf, Paper!Flat
  <2> HIDE DEF none
  <2> QED BY <2>1, <2>2, PaperConstants, TotalZero DEF Basis
<1>5. Agrees(book, history)
  <2>1. book.cash = Start /\ book.unsettled = none /\ book.realized = 0 /\ book.positions = flat
    BY <1>1
  <2>2. Money(book) = Start
    BY <1>2, <1>4, <2>1 DEF Money
  <2>3. Off(book, history) = 0
    BY <1>1, <1>2, <1>4, <2>1, <2>2 DEF Off
  <2>4. \A s \in Symbols : book.positions[s].held = history.bought[s]
    BY <1>1, <2>1 DEF Paper!Flat
  <2> QED BY <1>1, <1>2, <2>2, <2>3, <2>4 DEF Agrees
<1>6. today \in 0..MaxDay /\ orders \in 0..MaxOrders
  BY <1>1, PaperConstants, PaperAssumption DEF Paper!PaperAssumption
<1>7. desk \in [Observers -> Slots] /\ \A p \in Observers : desk[p].at \notin Trading
  <2>1. Paper!Idle \in Slots /\ Paper!Idle.at \notin Trading
    BY DEF Slots, Paper!Idle, Paper!Labels, Trading
  <2> QED BY <1>1, <2>1
<1> QED BY <1>3, <1>5, <1>6, <1>7 DEF PaperInv, PaperTypes

LEMMA PaperInvariance == MCSpec => [](ledger = "paper" => PaperInv)
<1>1. MCInit => (ledger = "paper" => PaperInv)
  BY InitPaperInv DEF MCInit
<1>2. (ledger = "paper" => PaperInv)
        /\ [FillStep \/ PaperStep \/ TokenStep]_<< ledger, vars, paperVars, tokenVars >>
      => (ledger = "paper" => PaperInv)'
  <2> SUFFICES ASSUME ledger = "paper" => PaperInv,
                      [FillStep \/ PaperStep \/ TokenStep]_<< ledger, vars, paperVars, tokenVars >>,
                      ledger' = "paper"
               PROVE  PaperInv'
    OBVIOUS
  <2>1. CASE PaperStep
    BY <2>1, PaperStepInv DEF PaperStep
  <2>2. CASE ~PaperStep
    <3>1. ledger = "paper" /\ UNCHANGED paperVars /\ PaperInv
      BY <2>2 DEF FillStep, TokenStep
    <3> QED BY <3>1 DEF PaperInv, PaperTypes, Agrees, Off, Money, Basis, CostOf, Since, paperVars
  <2> QED BY <2>1, <2>2
<1> QED BY <1>1, <1>2, PTL DEF MCSpec

\* The rows of a sleeve, the calendar and the cycles keep their types.
THEOREM PaperTypesCorrect == MCSpec => [](ledger = "paper" => Paper!TypeOK)
<1>1. PaperInv => Paper!TypeOK
  <2> SUFFICES ASSUME PaperInv PROVE Paper!TypeOK
    OBVIOUS
  <2>1. /\ book.cash \in Int /\ book.realized \in Int
        /\ book.positions \in [Symbols -> [held : Nat, avg : Nat]]
        /\ book.unsettled \in [Paper!Days -> Nat]
    BY BooksInView DEF Books
  <2>2. book.last \in {Paper!NotYet} \union (0..today)
    BY BooksInView DEF Since
  <2> QED BY <2>1, <2>2 DEF Paper!TypeOK, PaperInv, PaperTypes, Slots
<1> QED BY <1>1, PaperInvariance, PTL

\* Whatever cycles interleave or die: cash and shares are what the orders and the interest
\* add up to, and gains and cost agree with them but for what averaging rounded (paper.py).
THEOREM BooksAddUp == MCSpec => []BooksAgree
<1>1. PaperInv => Paper!BooksAgree
  <2> SUFFICES ASSUME PaperInv PROVE Paper!BooksAgree
    OBVIOUS
  <2>1. book \in Books /\ history \in Histories /\ Agrees(book, history)
    BY BooksInView
  <2>2. book.cash + Paper!Unsettled = Money(book)
    BY PaperSums DEF Money
  <2>3. book.cash + Paper!Unsettled + Paper!CostBasis(book) - (Start + book.realized - history.interest)
          = Off(book, history)
    BY <2>2, PaperSums DEF Off
  <2>4. Off(book, history) \in Int /\ history.rounding \in Int
    BY <2>1, OffIs, HistoryIs
  <2>5. 2 * Paper!Abs(Off(book, history)) <= history.rounding
    BY <2>1, <2>4 DEF Agrees, Paper!Abs
  <2> QED BY <2>1, <2>2, <2>3, <2>5 DEF Agrees, Paper!BooksAgree
<1>2. (ledger = "paper" => PaperInv) => BooksAgree
  BY <1>1 DEF BooksAgree
<1> QED BY <1>2, PaperInvariance, PTL

\* No purchase leaves the books beyond their buying power, whatever runs beside it
\* (place_order in paper.py).
THEOREM PurchasesWithinPower == MCSpec => BuysWithinPower
<1>1. (ledger = "paper" => PaperInv)
        /\ [FillStep \/ PaperStep \/ TokenStep]_<< ledger, vars, paperVars, tokenVars >>
      => [ledger = "paper" => Paper!WithinPower]_paperVars
  <2> SUFFICES ASSUME ledger = "paper" => PaperInv,
                      [FillStep \/ PaperStep \/ TokenStep]_<< ledger, vars, paperVars, tokenVars >>,
                      ledger = "paper", ~UNCHANGED paperVars
               PROVE  Paper!WithinPower
    OBVIOUS
  <2>1. PaperStep
    BY DEF FillStep, TokenStep
  <2> QED BY <2>1, PaperStepInv DEF PaperStep
<1> QED BY <1>1, PaperInvariance, PTL DEF MCSpec, BuysWithinPower

-----------------------------------------------------------------------------
(* TokenDesk: the broker's credentials, for any number of processes *)

Grants == [granted : Nat, obtained : Nat, refresh : Nat]

\* No token set, or one.
Sheets == { << >> } \union { << t >> : t \in Tokens!TokenSets }

Threads == [at : Tokens!Places, done : Nat, fresh : Sheets, told : Tokens!Told]

TokenTypes ==
  /\ clock \in 0..MaxClock /\ requests \in 0..MaxRequests
  /\ rotates \in BOOLEAN /\ scattered \in BOOLEAN
  /\ grants \in Seq(Grants) /\ Len(grants) <= MaxLogins
  /\ file \in Sheets
  /\ cache \in [Observers -> Sheets]
  /\ caller \in [Tokens!Callers -> Threads]

\* A token set that is held stems from a login and ends with its window.
Honest(s) ==
  s # << >> => /\ s[1].of \in DOMAIN grants
               /\ s[1].windowEnd = grants[s[1].of].obtained + Window

AllHonest ==
  /\ Honest(file)
  /\ \A p \in Observers : Honest(cache[p])
  /\ \A c \in Tokens!Callers : Honest(caller[c].fresh)

\* A thread at work has a token set and has not written; the lock lets one refresh.
Refreshing(c) == caller[c].at \in {"refresh", "save"}

Threaded ==
  /\ \A c \in Tokens!Callers :
       /\ caller[c].done <= 1 /\ (caller[c].told = "done" => caller[c].done = 1)
       /\ caller[c].at # "rest" => cache[c[1]] # << >> /\ caller[c].done = 0
       /\ caller[c].at = "save" <=> caller[c].fresh # << >>
  /\ \A c, d \in Tokens!Callers :
       c[1] = d[1] /\ Refreshing(c) /\ Refreshing(d) => c = d

\* The endpoint would honour this refresh token.
Live(s) == s # << >> => s[1].refresh = grants[s[1].of].refresh

\* While holders take turns, caches are the file's, a process that saves is the only
\* one with a cache, and the newest token set is live.
InTurn ==
  /\ \A p \in Observers : cache[p] # << >> => cache[p] = file
  /\ \A c \in Tokens!Callers : caller[c].told # "used up" /\ Live(caller[c].fresh)
  /\ \A c \in Tokens!Callers, p \in Observers :
       caller[c].at = "save" /\ p # c[1] => cache[p] = << >>
  /\ (\A c \in Tokens!Callers : caller[c].at # "save") => Live(file)

TokenInv == TokenTypes /\ AllHonest /\ Threaded /\ (~scattered => InTurn)

LEMMA SheetIs ==
  ASSUME NEW s \in Sheets
  PROVE  s = << >> \/ (s # << >> /\ s[1] \in Tokens!TokenSets /\ s = << s[1] >> /\ DOMAIN s = {1})
BY DEF Sheets

LEMMA CallerIs ==
  /\ \A c \in Tokens!Callers : c[1] \in Observers /\ c[2] \in {1, 2} /\ c = << c[1], c[2] >>
  /\ \A p \in Observers, t \in {1, 2} : << p, t >> \in Tokens!Callers
BY DEF Tokens!Callers

LEMMA TokenNats ==
  /\ MaxClock \in Nat /\ MaxRequests \in Nat /\ MaxLogins \in Nat
  /\ Access \in Nat /\ Window \in Nat
BY TokenAssumption DEF Tokens!TokenAssumption

\* A thread that moves on without a new token set in its hand.
LEMMA ThreadMoves ==
  ASSUME TokenInv, NEW c \in Tokens!Callers, NEW r \in Threads,
         caller' = [caller EXCEPT ![c] = r], UNCHANGED << clock, rotates, grants, file, cache >>,
         requests' \in 0..MaxRequests, scattered' \in BOOLEAN, scattered => scattered',
         caller[c].at # "save", r.at # "save", r.fresh = << >>,
         r.told = "used up" => scattered',
         r.done <= 1, r.told = "done" => r.done = 1,
         r.at # "rest" => cache[c[1]] # << >> /\ r.done = 0,
         r.at = "refresh" =>
           \A d \in Tokens!Callers : d[1] = c[1] /\ d # c => ~Refreshing(d)
  PROVE  TokenInv'
<1>1. /\ caller' \in [Tokens!Callers -> Threads] /\ caller'[c] = r
      /\ \A d \in Tokens!Callers : d # c => caller'[d] = caller[d]
  BY DEF TokenInv, TokenTypes
<1>2. TokenTypes'
  BY <1>1 DEF TokenInv, TokenTypes
<1>3. AllHonest'
  <2>1. \A s : Honest(s) => Honest(s)'
    BY DEF Honest
  <2>2. Honest(r.fresh)'
    BY DEF Honest
  <2> QED BY <1>1, <2>2 DEF TokenInv, AllHonest, Honest
<1>4. Threaded'
  <2>1. ASSUME NEW d \in Tokens!Callers
        PROVE  /\ caller'[d].done <= 1 /\ (caller'[d].told = "done" => caller'[d].done = 1)
               /\ caller'[d].at # "rest" => cache'[d[1]] # << >> /\ caller'[d].done = 0
               /\ caller'[d].at = "save" <=> caller'[d].fresh # << >>
    BY <1>1 DEF TokenInv, Threaded
  <2>2. ASSUME NEW d \in Tokens!Callers, NEW e \in Tokens!Callers,
               d[1] = e[1], Refreshing(d)', Refreshing(e)'
        PROVE  d = e
    BY <1>1, <2>2 DEF TokenInv, Threaded, Refreshing
  <2> QED BY <2>1, <2>2 DEF Threaded
<1>5. ~scattered' => InTurn'
  <2> SUFFICES ASSUME ~scattered' PROVE InTurn'
    OBVIOUS
  <2>1. InTurn
    BY DEF TokenInv
  <2>2. (\A d \in Tokens!Callers : caller'[d].at # "save") => Live(file)'
    BY <1>1, <2>1 DEF InTurn, Live
  <2>3. \A d \in Tokens!Callers : caller'[d].told # "used up" /\ Live(caller[d].fresh)'
    BY <1>1, <2>1 DEF InTurn, Live
  <2> QED BY <1>1, <2>1, <2>2, <2>3 DEF InTurn, Live
<1> QED BY <1>2, <1>3, <1>4, <1>5 DEF TokenInv

LEMMA AskInv == ASSUME TokenInv, NEW c \in Tokens!Callers, Tokens!Ask(c) PROVE TokenInv'
<1> DEFINE r == [Tokens!Idle EXCEPT !.at = "token"]
<1>1. /\ r \in Threads /\ r.at = "token" /\ r.done = 0 /\ r.fresh = << >> /\ r.told = "nothing"
      /\ caller[c].at = "rest" /\ cache[c[1]] # << >>
  BY DEF Tokens!Ask, Tokens!Idle, Tokens!At, Threads, Tokens!Places, Tokens!Told, Sheets
<1>2. requests' \in 0..MaxRequests
  <2>1. requests \in Nat
    BY TokenNats DEF TokenInv, TokenTypes
  <2>2. requests < MaxRequests /\ requests' = requests + 1
    BY DEF Tokens!Ask
  <2> QED BY <2>1, <2>2, TokenNats
<1>3. caller' = [caller EXCEPT ![c] = r]
  BY DEF Tokens!Ask, Tokens!Goes
<1> HIDE DEF r
<1>4. UNCHANGED << clock, rotates, grants, file, cache, scattered >>
  BY DEF Tokens!Ask
<1>5. scattered' \in BOOLEAN
  BY <1>4 DEF TokenInv, TokenTypes
<1>6. r.at # "save" /\ r.at # "refresh" /\ caller[c].at # "save" /\ r.told # "used up"
      /\ r.told # "done"
  BY <1>1
<1>7. r.done <= 1
  <2>1. r.done = 0
    BY <1>1
  <2> QED BY <2>1
<1> QED BY <1>1, <1>2, <1>3, <1>4, <1>5, <1>6, <1>7, ThreadMoves

LEMMA GetAccessTokenInv ==
  ASSUME TokenInv, NEW c \in Tokens!Callers, Tokens!GetAccessToken(c) PROVE TokenInv'
<1>1. PICK r :
        /\ caller' = [caller EXCEPT ![c] = r]
        /\ \/ r = [caller[c] EXCEPT !.at = "send"]
           \/ r = [Tokens!Idle EXCEPT !.done = caller[c].done, !.told = "nothing"]
           \/ r = [caller[c] EXCEPT !.at = "refresh"]
  BY DEF Tokens!GetAccessToken, Tokens!Goes, Tokens!Tells
<1>2. /\ caller[c] \in Threads /\ caller[c].at = "token" /\ caller[c].fresh = << >>
      /\ caller[c].done = 0 /\ cache[c[1]] # << >> /\ caller[c].told \in Tokens!Told
      /\ caller[c].told = "done" => caller[c].done = 1
  BY DEF Tokens!GetAccessToken, Tokens!At, TokenInv, TokenTypes, Threaded, Threads
<1>3. /\ r \in Threads /\ r.at # "save" /\ r.fresh = << >> /\ r.done = 0
      /\ (r.told = "used up" => caller[c].told = "used up")
      /\ (r.told = "done" => r.done = 1)
  BY <1>1, <1>2 DEF Tokens!Idle, Threads, Tokens!Places, Tokens!Told, Sheets
<1>4. \A d \in Tokens!Callers : d[1] = c[1] => ~Refreshing(d)
  BY CallerIs DEF Tokens!GetAccessToken, Tokens!Locked, Refreshing
<1>5. r.told = "used up" => scattered'
  BY <1>3 DEF TokenInv, InTurn, Tokens!GetAccessToken
<1>6. UNCHANGED << clock, rotates, grants, file, cache, requests, scattered >>
  BY DEF Tokens!GetAccessToken
<1>7. requests' \in 0..MaxRequests /\ scattered' \in BOOLEAN
  BY <1>6 DEF TokenInv, TokenTypes
<1>8. \A d \in Tokens!Callers : d[1] = c[1] /\ d # c => ~Refreshing(d)
  BY <1>4
<1>9. r.done <= 1
  <2>1. r.done = 0
    BY <1>3
  <2> QED BY <2>1
<1> QED BY <1>1, <1>2, <1>3, <1>5, <1>6, <1>7, <1>8, <1>9, ThreadMoves

LEMMA SendInv ==
  ASSUME TokenInv, NEW c \in Tokens!Callers, NEW kind \in {"get", "post"}, Tokens!Send(c, kind)
  PROVE  TokenInv'
<1>1. /\ caller[c] \in Threads /\ caller[c].at = "send" /\ caller[c].fresh = << >>
      /\ caller[c].done = 0 /\ cache[c[1]] # << >>
      /\ caller[c].told \in Tokens!Told \ {"done"}
  BY DEF Tokens!Send, Tokens!At, TokenInv, TokenTypes, Threaded, Threads
<1>2. PICK r, done :
        /\ caller' = [caller EXCEPT ![c] = r]
        /\ done \in {0, 1}
        /\ \/ r = [caller[c] EXCEPT !.at = "token", !.done = done] /\ done = 0
           \/ \E told \in {"done", "nothing"} :
                r = [Tokens!Idle EXCEPT !.done = done, !.told = told] /\ (told = "done" => done = 1)
  <2>1. PICK acted \in BOOLEAN, answer \in {"ok", "refused", "none"} :
          /\ (answer = "ok") => acted
          /\ LET done == caller[c].done + (IF acted /\ kind = "post" THEN 1 ELSE 0)
                 told == IF answer = "ok" /\ kind = "post" THEN "done" ELSE "nothing"
             IN \/ /\ answer = "none" /\ Tokens!Repeats(kind)
                   /\ Tokens!Goes(c, [caller[c] EXCEPT !.at = "token", !.done = done])
                \/ Tokens!Goes(c, [Tokens!Idle EXCEPT !.done = done, !.told = told])
    BY DEF Tokens!Send
  <2>2. PICK posted \in {0, 1} : posted = (IF acted /\ kind = "post" THEN 1 ELSE 0)
    OBVIOUS
  <2>3. caller[c].done + (IF acted /\ kind = "post" THEN 1 ELSE 0) = posted
    BY <1>1, <2>2
  <2>4. PICK told \in {"done", "nothing"} :
          told = (IF answer = "ok" /\ kind = "post" THEN "done" ELSE "nothing")
    OBVIOUS
  <2>5. (told = "done" => posted = 1) /\ (Tokens!Repeats(kind) => posted = 0)
    BY <2>1, <2>2, <2>4 DEF Tokens!Repeats
  <2>6. \/ /\ Tokens!Repeats(kind)
           /\ Tokens!Goes(c, [caller[c] EXCEPT !.at = "token", !.done = posted])
        \/ Tokens!Goes(c, [Tokens!Idle EXCEPT !.done = posted, !.told = told])
    BY <2>1, <2>3, <2>4
  <2> QED BY <2>5, <2>6 DEF Tokens!Goes
<1>3. /\ r \in Threads /\ r.at \in {"token", "rest"} /\ r.fresh = << >> /\ r.done \in {0, 1}
      /\ (r.told = "used up" => caller[c].told = "used up")
      /\ (r.told = "done" => r.done = 1)
      /\ (r.at # "rest" => r.done = 0)
  <2>1. CASE r = [caller[c] EXCEPT !.at = "token", !.done = done] /\ done = 0
    BY <1>1, <2>1 DEF Threads, Tokens!Places
  <2>2. ASSUME NEW told \in {"done", "nothing"},
               r = [Tokens!Idle EXCEPT !.done = done, !.told = told], told = "done" => done = 1
        PROVE  <1>3
    <3>1. r = [at |-> "rest", done |-> done, fresh |-> << >>, told |-> told]
      BY <2>2 DEF Tokens!Idle
    <3>2. /\ r.at = "rest" /\ r.done = done /\ r.fresh = << >> /\ r.told = told
          /\ r = [at |-> r.at, done |-> r.done, fresh |-> r.fresh, told |-> r.told]
      BY <3>1
    <3>3. r.at \in Tokens!Places /\ r.done \in Nat /\ r.fresh \in Sheets /\ r.told \in Tokens!Told
      <4>1. done \in Nat
        BY <1>2
      <4> QED BY <2>2, <3>2, <4>1 DEF Tokens!Places, Tokens!Told, Sheets
    <3>4. r \in Threads
      BY <3>2, <3>3 DEF Threads
    <3> QED BY <1>2, <2>2, <3>2, <3>4
  <2> QED BY <1>2, <2>1, <2>2
<1>4. r.told = "used up" => scattered'
  BY <1>3 DEF TokenInv, InTurn, Tokens!Send
<1>5. UNCHANGED << clock, rotates, grants, file, cache, requests, scattered >>
  BY DEF Tokens!Send
<1>6. requests' \in 0..MaxRequests /\ scattered' \in BOOLEAN
  BY <1>5 DEF TokenInv, TokenTypes
<1>7. r.at # "save" /\ r.at # "refresh" /\ caller[c].at # "save"
  BY <1>1, <1>3
<1>8. r.done <= 1
  <2>1. r.done = 0 \/ r.done = 1
    BY <1>3
  <2> QED BY <2>1
<1> QED BY <1>1, <1>2, <1>3, <1>4, <1>5, <1>6, <1>7, <1>8, ThreadMoves

LEMMA TickInv == ASSUME TokenInv, Tokens!Tick PROVE TokenInv'
<1>1. UNCHANGED << rotates, grants, file, cache, caller, requests, scattered >>
      /\ clock < MaxClock /\ clock' = clock + 1
  BY DEF Tokens!Tick
<1>2. clock \in Nat
  BY TokenNats DEF TokenInv, TokenTypes
<1>3. clock' \in 0..MaxClock
  BY <1>1, <1>2, TokenNats
<1>4. TokenTypes'
  BY <1>1, <1>3 DEF TokenInv, TokenTypes
<1>5. AllHonest' /\ Threaded' /\ (~scattered' => InTurn')
  BY <1>1 DEF TokenInv, AllHonest, Honest, Threaded, Refreshing, InTurn, Live
<1> QED BY <1>4, <1>5 DEF TokenInv

\* A token set that was honest, and one that was live, stay so when a login comes.
LEMMA LoginKeeps ==
  ASSUME TokenInv, NEW g \in Grants, grants' = Append(grants, g), NEW s \in Sheets
  PROVE  (Honest(s) => Honest(s)') /\ (Honest(s) /\ Live(s) => Live(s)')
<1>1. PICK seq \in Seq(Grants) : seq = grants
  BY DEF TokenInv, TokenTypes
<1>2. /\ DOMAIN seq = 1..Len(seq) /\ DOMAIN Append(seq, g) = 1..(Len(seq) + 1)
      /\ \A k \in 1..Len(seq) : Append(seq, g)[k] = seq[k]
  OBVIOUS
<1>3. \A k \in DOMAIN grants : k \in DOMAIN grants' /\ grants'[k] = grants[k]
  <2>1. Len(seq) \in Nat
    OBVIOUS
  <2> QED BY <1>1, <1>2, <2>1
<1> QED BY <1>3 DEF Honest, Live

LEMMA LoginInv == ASSUME TokenInv, Tokens!Login PROVE TokenInv'
<1>1. PICK late \in {0, 1} :
        late <= clock /\ grants' = Append(grants, [granted |-> clock - late, obtained |-> clock,
                                                   refresh |-> 0])
  BY DEF Tokens!Login
<1>2. PICK now \in Nat : now = clock
  BY TokenNats DEF TokenInv, TokenTypes
<1>3. PICK g : g = [granted |-> now - late, obtained |-> now, refresh |-> 0]
  OBVIOUS
<1>4. g \in Grants /\ grants' = Append(grants, g) /\ g.obtained = now /\ g.refresh = 0
  <2>1. now - late \in Nat
    BY <1>1, <1>2
  <2> QED BY <1>1, <1>2, <1>3, <2>1 DEF Grants
<1>5. PICK seq \in Seq(Grants) : seq = grants
  BY DEF TokenInv, TokenTypes
<1>6. PICK n \in Nat : n = Len(seq)
  OBVIOUS
<1>7. /\ Append(seq, g) \in Seq(Grants) /\ Len(Append(seq, g)) = n + 1
      /\ n + 1 \in DOMAIN Append(seq, g) /\ Append(seq, g)[n + 1] = g
  BY <1>4, <1>6
<1>8. n + 1 \in 1..MaxLogins
  BY <1>5, <1>6, TokenNats DEF Tokens!Login
<1>9. UNCHANGED << clock, rotates, cache, caller, requests >>
  BY DEF Tokens!Login
<1>10. PICK one : one = << [of |-> n + 1, refresh |-> 0, expires |-> now + Access,
                            windowEnd |-> now + Window] >>
  OBVIOUS
<1>11. \/ file' = one /\ scattered' = (scattered \/ \E p \in Observers : cache[p] # << >>)
       \/ UNCHANGED << file, scattered >>
  BY <1>2, <1>5, <1>6, <1>10 DEF Tokens!Login, Tokens!Granted
<1>12. one \in Sheets /\ one # << >> /\ one[1].of = n + 1 /\ one[1].windowEnd = now + Window
       /\ one[1].refresh = 0
  <2>1. now + Access \in Nat /\ now + Window \in Nat /\ 0 \in Nat
    BY TokenNats
  <2> QED BY <1>8, <1>10, <2>1 DEF Sheets, Tokens!TokenSets
<1>13. Honest(one)' /\ Live(one)'
  BY <1>4, <1>5, <1>7, <1>12 DEF Honest, Live
<1>14. scattered' \in BOOLEAN /\ (scattered => scattered')
  <2>1. CASE file' = one /\ scattered' = (scattered \/ \E p \in Observers : cache[p] # << >>)
    BY <2>1
  <2>2. CASE UNCHANGED << file, scattered >>
    BY <2>2 DEF TokenInv, TokenTypes
  <2> QED BY <1>11, <2>1, <2>2
<1>15. TokenTypes'
  <2>1. Len(grants') <= MaxLogins /\ grants' \in Seq(Grants)
    BY <1>4, <1>5, <1>7, <1>8
  <2>2. file' \in Sheets
    BY <1>11, <1>12 DEF TokenInv, TokenTypes
  <2> QED BY <1>9, <1>14, <2>1, <2>2 DEF TokenInv, TokenTypes
<1>16. AllHonest'
  <2>1. Honest(file)'
    <3>1. PICK f \in Sheets : f = file
      BY DEF TokenInv, TokenTypes
    <3>2. Honest(f)'
      BY <1>4, <3>1, LoginKeeps DEF TokenInv, AllHonest
    <3> QED BY <1>11, <1>13, <3>1, <3>2 DEF Honest
  <2>2. ASSUME NEW p \in Observers PROVE Honest(cache[p])'
    <3>1. PICK f \in Sheets : f = cache[p]
      BY DEF TokenInv, TokenTypes
    <3>2. Honest(f)'
      BY <1>4, <3>1, LoginKeeps DEF TokenInv, AllHonest
    <3> QED BY <1>9, <3>1, <3>2 DEF Honest
  <2>3. ASSUME NEW c \in Tokens!Callers PROVE Honest(caller[c].fresh)'
    <3>1. PICK f \in Sheets : f = caller[c].fresh
      BY DEF TokenInv, TokenTypes, Threads
    <3>2. Honest(f)'
      BY <1>4, <3>1, LoginKeeps DEF TokenInv, AllHonest
    <3> QED BY <1>9, <3>1, <3>2 DEF Honest
  <2> QED BY <2>1, <2>2, <2>3 DEF AllHonest
<1>17. Threaded'
  BY <1>9 DEF TokenInv, Threaded, Refreshing
<1>18. ASSUME ~scattered' PROVE InTurn'
  <2>1. InTurn
    BY <1>14, <1>18 DEF TokenInv
  <2>2. ASSUME NEW c \in Tokens!Callers PROVE Live(caller[c].fresh)'
    <3>1. PICK f \in Sheets : f = caller[c].fresh
      BY DEF TokenInv, TokenTypes, Threads
    <3>2. Live(f)'
      BY <1>4, <2>1, <3>1, LoginKeeps DEF TokenInv, AllHonest, InTurn
    <3> QED BY <1>9, <3>1, <3>2 DEF Live
  <2>3. (\A p \in Observers : cache'[p] # << >> => cache'[p] = file')
        /\ ((\A c \in Tokens!Callers : caller'[c].at # "save") => Live(file)')
    <3>1. CASE file' = one /\ scattered' = (scattered \/ \E p \in Observers : cache[p] # << >>)
      BY <1>9, <1>13, <1>18, <3>1 DEF Live
    <3>2. CASE UNCHANGED << file, scattered >>
      <4>1. PICK f \in Sheets : f = file
        BY DEF TokenInv, TokenTypes
      <4>2. Live(f) => Live(f)'
        BY <1>4, <4>1, LoginKeeps DEF TokenInv, AllHonest
      <4> QED BY <1>9, <2>1, <3>2, <4>1, <4>2 DEF InTurn, Live
    <3> QED BY <1>11, <3>1, <3>2
  <2> QED BY <1>9, <2>1, <2>2, <2>3 DEF InTurn
<1> QED BY <1>15, <1>16, <1>17, <1>18 DEF TokenInv

LEMMA OpenInv == ASSUME TokenInv, NEW p \in Observers, Tokens!Open(p) PROVE TokenInv'
<1>1. /\ cache[p] = << >> /\ UNCHANGED << clock, rotates, grants, file, caller, requests >>
      /\ cache' = [cache EXCEPT ![p] = file]
      /\ scattered' = (scattered \/ \E c \in Tokens!Callers : caller[c].at = "save")
  BY DEF Tokens!Open, Tokens!At
<1>2. scattered' \in BOOLEAN /\ (scattered => scattered')
      /\ (~scattered' => \A c \in Tokens!Callers : caller[c].at # "save")
  BY <1>1
<1>3. /\ cache' \in [Observers -> Sheets] /\ cache'[p] = file
      /\ \A q \in Observers : q # p => cache'[q] = cache[q]
  BY <1>1 DEF TokenInv, TokenTypes
<1>4. TokenTypes'
  BY <1>1, <1>2, <1>3 DEF TokenInv, TokenTypes
<1>5. AllHonest'
  BY <1>1, <1>3 DEF TokenInv, AllHonest, Honest
<1>6. Threaded'
  <2>1. \A c \in Tokens!Callers : caller[c].at # "rest" => c[1] # p
    BY <1>1 DEF TokenInv, Threaded
  <2> QED BY <1>1, <1>3, <2>1, CallerIs DEF TokenInv, Threaded, Refreshing
<1>7. ~scattered' => InTurn'
  BY <1>1, <1>2, <1>3 DEF TokenInv, InTurn, Live
<1> QED BY <1>4, <1>5, <1>6, <1>7 DEF TokenInv

LEMMA IdleIs ==
  /\ Tokens!Idle \in Threads /\ Tokens!Idle.at = "rest" /\ Tokens!Idle.done = 0
  /\ Tokens!Idle.fresh = << >> /\ Tokens!Idle.told = "nothing"
BY DEF Tokens!Idle, Threads, Tokens!Places, Tokens!Told, Sheets

LEMMA EndInv == ASSUME TokenInv, NEW p \in Observers, Tokens!End(p) PROVE TokenInv'
<1>1. /\ UNCHANGED << clock, rotates, grants, file, requests >>
      /\ cache' = [cache EXCEPT ![p] = << >>]
      /\ scattered' = (scattered \/ \E t \in {1, 2} : caller[<< p, t >>].at = "save")
      /\ caller' = [c \in Tokens!Callers |-> IF c[1] = p THEN Tokens!Idle ELSE caller[c]]
  BY DEF Tokens!End, Tokens!At
<1>2. scattered' \in BOOLEAN /\ (scattered => scattered')
      /\ (~scattered' => \A t \in {1, 2} : caller[<< p, t >>].at # "save")
  BY <1>1
<1>3. /\ cache' \in [Observers -> Sheets] /\ cache'[p] = << >>
      /\ \A q \in Observers : q # p => cache'[q] = cache[q]
  BY <1>1 DEF TokenInv, TokenTypes, Sheets
<1>4. \A c \in Tokens!Callers :
        \/ c[1] = p /\ caller'[c] = Tokens!Idle
        \/ c[1] # p /\ caller'[c] = caller[c]
  BY <1>1
<1>5. caller' \in [Tokens!Callers -> Threads]
  BY <1>1, IdleIs DEF TokenInv, TokenTypes
<1>6. TokenTypes'
  BY <1>1, <1>2, <1>3, <1>5 DEF TokenInv, TokenTypes
<1>7. AllHonest'
  BY <1>1, <1>3, <1>4, IdleIs DEF TokenInv, AllHonest, Honest
<1>8. Threaded'
  <2>1. ASSUME NEW c \in Tokens!Callers
        PROVE  /\ caller'[c].done <= 1 /\ (caller'[c].told = "done" => caller'[c].done = 1)
               /\ caller'[c].at # "rest" => cache'[c[1]] # << >> /\ caller'[c].done = 0
               /\ caller'[c].at = "save" <=> caller'[c].fresh # << >>
    BY <1>3, <1>4, IdleIs, CallerIs DEF TokenInv, Threaded
  <2>2. ASSUME NEW c \in Tokens!Callers, NEW d \in Tokens!Callers,
               c[1] = d[1], Refreshing(c)', Refreshing(d)'
        PROVE  c = d
    BY <1>4, <2>2, IdleIs DEF TokenInv, Threaded, Refreshing
  <2> QED BY <2>1, <2>2 DEF Threaded
<1>9. ASSUME ~scattered' PROVE InTurn'
  <2>1. InTurn /\ \A c \in Tokens!Callers : c[1] = p => caller[c].at # "save"
    BY <1>2, <1>9, CallerIs DEF TokenInv
  <2>2. (\A c \in Tokens!Callers : caller'[c].at # "save") => Live(file)'
    BY <1>1, <1>4, <2>1 DEF InTurn, Live
  <2>3. \A c \in Tokens!Callers : caller'[c].told # "used up" /\ Live(caller[c].fresh)'
    BY <1>1, <1>4, <2>1, IdleIs DEF InTurn, Live
  <2>4. \A c \in Tokens!Callers : Live(caller'[c].fresh)
    BY <1>4, <2>1, IdleIs DEF InTurn, Live
  <2> QED BY <1>1, <1>3, <1>4, <2>1, <2>2, <2>3, <2>4, IdleIs DEF InTurn, Live
<1> QED BY <1>6, <1>7, <1>8, <1>9 DEF TokenInv

LEMMA SaveInv == ASSUME TokenInv, NEW c \in Tokens!Callers, Tokens!Save(c) PROVE TokenInv'
<1>1. /\ UNCHANGED << clock, rotates, grants, requests, scattered >>
      /\ caller[c].at = "save" /\ file' = caller[c].fresh
      /\ cache' = [cache EXCEPT ![c[1]] = caller[c].fresh]
      /\ caller' = [caller EXCEPT ![c] = [caller[c] EXCEPT !.at = "send", !.fresh = << >>]]
  BY DEF Tokens!Save, Tokens!At, Tokens!Goes
<1>2. PICK f : f = caller[c].fresh
  OBVIOUS
<1>3. caller[c] \in Threads /\ f \in Sheets /\ f # << >> /\ Honest(f) /\ c[1] \in Observers
      /\ caller[c].done = 0 /\ caller[c].told # "done"
  BY <1>1, <1>2, CallerIs DEF TokenInv, TokenTypes, Threads, Threaded, AllHonest
<1>4. /\ cache' \in [Observers -> Sheets] /\ cache'[c[1]] = f
      /\ \A q \in Observers : q # c[1] => cache'[q] = cache[q]
  BY <1>1, <1>2, <1>3 DEF TokenInv, TokenTypes
<1>5. /\ caller' \in [Tokens!Callers -> Threads]
      /\ caller'[c].at = "send" /\ caller'[c].fresh = << >> /\ caller'[c].done = 0
      /\ caller'[c].told = caller[c].told
      /\ \A d \in Tokens!Callers : d # c => caller'[d] = caller[d]
  <2>1. PICK r : r = [caller[c] EXCEPT !.at = "send", !.fresh = << >>]
    OBVIOUS
  <2>2. r \in Threads /\ r.at = "send" /\ r.fresh = << >> /\ r.done = 0 /\ r.told = caller[c].told
    BY <1>3, <2>1 DEF Threads, Tokens!Places, Sheets
  <2> QED BY <1>1, <2>1, <2>2 DEF TokenInv, TokenTypes
<1>6. TokenTypes'
  BY <1>1, <1>2, <1>3, <1>4, <1>5 DEF TokenInv, TokenTypes
<1>7. AllHonest'
  BY <1>1, <1>2, <1>3, <1>4, <1>5 DEF TokenInv, AllHonest, Honest
<1>8. Threaded'
  <2>1. ASSUME NEW d \in Tokens!Callers
        PROVE  /\ caller'[d].done <= 1 /\ (caller'[d].told = "done" => caller'[d].done = 1)
               /\ caller'[d].at # "rest" => cache'[d[1]] # << >> /\ caller'[d].done = 0
               /\ caller'[d].at = "save" <=> caller'[d].fresh # << >>
    BY <1>3, <1>4, <1>5, CallerIs DEF TokenInv, Threaded
  <2>2. ASSUME NEW d \in Tokens!Callers, NEW e \in Tokens!Callers,
               d[1] = e[1], Refreshing(d)', Refreshing(e)'
        PROVE  d = e
    BY <1>5, <2>2 DEF TokenInv, Threaded, Refreshing
  <2> QED BY <2>1, <2>2 DEF Threaded
<1>9. ASSUME ~scattered' PROVE InTurn'
  <2>1. InTurn
    BY <1>1, <1>9 DEF TokenInv
  <2>2. \A q \in Observers : q # c[1] => cache[q] = << >>
    BY <1>1, <2>1 DEF InTurn
  <2>3. \A q \in Observers : cache'[q] # << >> => cache'[q] = file'
    BY <1>1, <1>2, <1>4, <2>2
  <2>4. \A d \in Tokens!Callers : caller'[d].told # "used up" /\ Live(caller'[d].fresh)
    BY <1>5, <2>1 DEF InTurn, Live
  <2>5. \A d \in Tokens!Callers : Live(caller[d].fresh)'
    BY <1>1, <2>4 DEF Live
  <2>6. Live(f)'
    BY <1>1, <1>2, <2>1 DEF InTurn, Live
  <2>7. Live(file)'
    BY <1>1, <1>2, <2>6 DEF Live
  <2>8. \A d \in Tokens!Callers : caller'[d].at # "save"
    <3>1. \A d \in Tokens!Callers : d # c /\ caller[d].at # "rest" => d[1] = c[1]
      BY <2>2, CallerIs DEF TokenInv, Threaded
    <3>2. \A d \in Tokens!Callers : d # c => caller[d].at # "save"
      BY <1>1, <3>1 DEF TokenInv, Threaded, Refreshing
    <3> QED BY <1>5, <3>2
  <2> QED BY <2>3, <2>4, <2>5, <2>7, <2>8 DEF InTurn
<1> QED BY <1>6, <1>7, <1>8, <1>9 DEF TokenInv

\* The endpoint honours a refresh token: what it notes does not change the windows.
LEMMA HonourKeeps ==
  ASSUME TokenInv, NEW g \in DOMAIN grants, NEW refresh \in Nat,
         grants' = [grants EXCEPT ![g].refresh = refresh]
  PROVE  /\ grants' \in Seq(Grants) /\ Len(grants') = Len(grants) /\ DOMAIN grants' = DOMAIN grants
         /\ grants'[g].refresh = refresh
         /\ \A k \in DOMAIN grants : grants'[k].obtained = grants[k].obtained
         /\ \A k \in DOMAIN grants : k # g => grants'[k] = grants[k]
<1>1. PICK seq \in Seq(Grants) : seq = grants
  BY DEF TokenInv, TokenTypes
<1>2. PICK one : one = [seq[g] EXCEPT !.refresh = refresh]
  OBVIOUS
<1>3. seq[g] \in Grants /\ one \in Grants /\ one.refresh = refresh /\ one.obtained = seq[g].obtained
  <2>1. seq[g] \in Grants
    BY <1>1
  <2> QED BY <1>2, <2>1 DEF Grants
<1>4. PICK new : new = [seq EXCEPT ![g] = one]
  OBVIOUS
<1>5. new \in Seq(Grants) /\ Len(new) = Len(seq) /\ DOMAIN new = DOMAIN seq /\ new[g] = one
      /\ \A k \in DOMAIN seq : k # g => new[k] = seq[k]
  BY <1>1, <1>3, <1>4
<1>6. grants' = new
  BY <1>1, <1>2, <1>4
<1> QED BY <1>1, <1>3, <1>5, <1>6

LEMMA RefreshInv == ASSUME TokenInv, NEW c \in Tokens!Callers, Tokens!Refresh(c) PROVE TokenInv'
<1>1. PICK tokens : tokens = cache[c[1]][1]
  OBVIOUS
<1>2. PICK refresh : refresh = (IF rotates THEN tokens.refresh + 1 ELSE tokens.refresh)
  OBVIOUS
<1>3. UNCHANGED << clock, rotates, file, cache, requests >> /\ caller[c].at = "refresh"
  BY DEF Tokens!Refresh, Tokens!At
<1>4. /\ caller[c] \in Threads /\ caller[c].fresh = << >> /\ caller[c].done = 0
      /\ caller[c].told \in Tokens!Told \ {"done"} /\ cache[c[1]] # << >> /\ c[1] \in Observers
  BY <1>3, CallerIs DEF TokenInv, TokenTypes, Threaded, Threads
<1>5. /\ tokens \in Tokens!TokenSets /\ cache[c[1]] = << tokens >> /\ tokens.of \in DOMAIN grants
      /\ tokens.windowEnd = grants[tokens.of].obtained + Window
  <2>1. PICK s \in Sheets : s = cache[c[1]]
    BY <1>4 DEF TokenInv, TokenTypes
  <2> QED BY <1>1, <1>4, <2>1, SheetIs DEF TokenInv, AllHonest, Honest
<1>6. refresh \in Nat /\ (~rotates => refresh = tokens.refresh)
  <2>1. tokens.refresh \in Nat
    BY <1>5 DEF Tokens!TokenSets
  <2> QED BY <1>2, <2>1
<1> DEFINE told(t) == [Tokens!Idle EXCEPT !.done = caller[c].done, !.told = t]
<1>7. ASSUME NEW t \in {"nothing", "used up"}
      PROVE  told(t) \in Threads /\ told(t).at = "rest" /\ told(t).fresh = << >>
             /\ told(t).done = 0 /\ told(t).told = t
  BY <1>4, <1>7, IdleIs DEF Threads, Tokens!Told
<1>8. \/ /\ tokens.refresh = grants[tokens.of].refresh
         /\ grants' = [grants EXCEPT ![tokens.of].refresh = refresh]
         /\ caller' = [caller EXCEPT ![c] = [caller[c] EXCEPT !.at = "save",
                                             !.fresh = << Tokens!Refreshed(tokens, refresh) >>]]
         /\ scattered' = (scattered \/ \E p \in Observers \ {c[1]} : cache[p] # << >>)
      \/ /\ tokens.refresh = grants[tokens.of].refresh
         /\ grants' = [grants EXCEPT ![tokens.of].refresh = refresh]
         /\ caller' = [caller EXCEPT ![c] = told("nothing")]
         /\ scattered' = (scattered \/ rotates)
      \/ /\ tokens.refresh # grants[tokens.of].refresh
         /\ caller' = [caller EXCEPT ![c] = told("used up")]
         /\ UNCHANGED << grants, scattered >>
      \/ /\ caller' = [caller EXCEPT ![c] = told("nothing")]
         /\ UNCHANGED << grants, scattered >>
  BY <1>1, <1>2 DEF Tokens!Refresh, Tokens!UsedUp, Tokens!Goes, Tokens!Tells
<1> HIDE DEF told
\* Nobody saves while a token set is refreshed in turn, and the token set is the file's.
<1>9. ASSUME InTurn
       PROVE  /\ \A d \in Tokens!Callers : caller[d].at # "save"
              /\ file = << tokens >> /\ tokens.refresh = grants[tokens.of].refresh
  <2>1. \A d \in Tokens!Callers : caller[d].at # "save"
    BY <1>3, <1>4, <1>9, CallerIs DEF InTurn, TokenInv, Threaded, Refreshing
  <2>2. file = << tokens >>
    BY <1>4, <1>5, <1>9 DEF InTurn
  <2> QED BY <1>9, <2>1, <2>2 DEF InTurn, Live
<1>10. requests' \in 0..MaxRequests
  BY <1>3 DEF TokenInv, TokenTypes
<1>11. CASE /\ caller' = [caller EXCEPT ![c] = told("nothing")]
            /\ UNCHANGED << grants, scattered >>
  <2>1. PICK r : r = told("nothing")
    OBVIOUS
  <2>2. r \in Threads /\ r.at = "rest" /\ r.fresh = << >> /\ r.done = 0 /\ r.told = "nothing"
    BY <1>7, <2>1
  <2>3. r.done <= 1
    <3>1. r.done = 0
      BY <2>2
    <3> QED BY <3>1
  <2>4. scattered' \in BOOLEAN /\ (scattered => scattered') /\ caller[c].at # "save"
        /\ r.at # "save" /\ r.at # "refresh" /\ r.told # "used up" /\ r.told # "done"
    BY <1>3, <1>11, <2>2 DEF TokenInv, TokenTypes
  <2> QED BY <1>3, <1>10, <1>11, <2>1, <2>2, <2>3, <2>4, ThreadMoves
<1>12. CASE /\ tokens.refresh # grants[tokens.of].refresh
            /\ caller' = [caller EXCEPT ![c] = told("used up")]
            /\ UNCHANGED << grants, scattered >>
  <2>1. PICK r : r = told("used up")
    OBVIOUS
  <2>2. r \in Threads /\ r.at = "rest" /\ r.fresh = << >> /\ r.done = 0 /\ r.told = "used up"
    BY <1>7, <2>1
  <2>3. r.done <= 1
    <3>1. r.done = 0
      BY <2>2
    <3> QED BY <3>1
  <2>4. scattered' \in BOOLEAN /\ (scattered => scattered') /\ scattered' /\ caller[c].at # "save"
        /\ r.at # "save" /\ r.at # "refresh" /\ r.told # "done"
    BY <1>3, <1>9, <1>12, <2>2 DEF TokenInv, TokenTypes
  <2> QED BY <1>3, <1>10, <1>12, <2>1, <2>2, <2>3, <2>4, ThreadMoves
\* The endpoint honours the token: the thread holds its answer, or it is lost.
<1>13. ASSUME NEW r \in Threads, caller' = [caller EXCEPT ![c] = r],
              grants' = [grants EXCEPT ![tokens.of].refresh = refresh],
              tokens.refresh = grants[tokens.of].refresh,
              scattered' \in BOOLEAN, scattered => scattered',
              r.done = 0, r.told \in Tokens!Told \ {"done"}, r.told = "used up" => scattered',
              \/ /\ r.at = "save" /\ r.fresh # << >> /\ Honest(r.fresh)
                 /\ r.fresh[1].of = tokens.of /\ r.fresh[1].refresh = refresh
                 /\ ~scattered' => \A p \in Observers : p # c[1] => cache[p] = << >>
              \/ r.at = "rest" /\ r.fresh = << >> /\ (~scattered' => refresh = tokens.refresh)
       PROVE  TokenInv'
  <2>1. /\ caller' \in [Tokens!Callers -> Threads] /\ caller'[c] = r
        /\ \A d \in Tokens!Callers : d # c => caller'[d] = caller[d]
    BY <1>13 DEF TokenInv, TokenTypes
  <2>2. /\ grants' \in Seq(Grants) /\ Len(grants') = Len(grants) /\ DOMAIN grants' = DOMAIN grants
        /\ grants'[tokens.of].refresh = refresh
        /\ \A k \in DOMAIN grants : grants'[k].obtained = grants[k].obtained
    BY <1>5, <1>6, <1>13, HonourKeeps
  <2>3. TokenTypes'
    BY <1>3, <1>10, <1>13, <2>1, <2>2 DEF TokenInv, TokenTypes
  <2>4. \A s : Honest(s) => Honest(s)'
    BY <2>2 DEF Honest
  <2>5. AllHonest'
    <3>1. Honest(r.fresh)'
      BY <1>13, <2>4 DEF Honest
    <3> QED BY <1>3, <2>1, <2>2, <3>1 DEF TokenInv, AllHonest, Honest
  <2>6. Threaded'
    <3>1. ASSUME NEW d \in Tokens!Callers
          PROVE  /\ caller'[d].done <= 1 /\ (caller'[d].told = "done" => caller'[d].done = 1)
                 /\ caller'[d].at # "rest" => cache'[d[1]] # << >> /\ caller'[d].done = 0
                 /\ caller'[d].at = "save" <=> caller'[d].fresh # << >>
      BY <1>3, <1>4, <1>13, <2>1 DEF TokenInv, Threaded
    <3>2. ASSUME NEW d \in Tokens!Callers, NEW e \in Tokens!Callers,
                 d[1] = e[1], Refreshing(d)', Refreshing(e)'
          PROVE  d = e
      BY <1>3, <2>1, <3>2 DEF TokenInv, Threaded, Refreshing
    <3> QED BY <3>1, <3>2 DEF Threaded
  <2>7. ASSUME ~scattered' PROVE InTurn'
    <3>1. InTurn
      BY <1>13, <2>7 DEF TokenInv
    <3>2. \A d \in Tokens!Callers : caller[d].at # "save" /\ caller[d].fresh = << >>
      BY <1>9, <3>1 DEF TokenInv, Threaded
    <3>3. \A d \in Tokens!Callers : caller'[d].told # "used up" /\ Live(caller[d].fresh)'
      BY <1>13, <2>1, <2>2, <2>7, <3>1, <3>2 DEF InTurn, Live
    <3>4. \A d \in Tokens!Callers, p \in Observers :
            caller'[d].at = "save" /\ p # d[1] => cache'[p] = << >>
      BY <1>3, <1>13, <2>1, <2>7, <3>2
    <3>5. (\A d \in Tokens!Callers : caller'[d].at # "save") => Live(file)'
      <4> SUFFICES ASSUME \A d \in Tokens!Callers : caller'[d].at # "save" PROVE Live(file)'
        OBVIOUS
      <4>1. r.at # "save" /\ refresh = tokens.refresh
        BY <1>13, <2>1, <2>7
      <4> QED BY <1>3, <1>9, <2>2, <3>1, <4>1 DEF Live
    <3>6. \A p \in Observers : cache'[p] # << >> => cache'[p] = file'
      BY <1>3, <3>1 DEF InTurn
    <3> QED BY <3>3, <3>4, <3>5, <3>6 DEF InTurn
  <2> QED BY <2>3, <2>5, <2>6, <2>7 DEF TokenInv
<1>14. CASE /\ tokens.refresh = grants[tokens.of].refresh
            /\ grants' = [grants EXCEPT ![tokens.of].refresh = refresh]
            /\ caller' = [caller EXCEPT ![c] = told("nothing")]
            /\ scattered' = (scattered \/ rotates)
  <2>1. PICK r : r = told("nothing")
    OBVIOUS
  <2>2. r \in Threads /\ r.at = "rest" /\ r.fresh = << >> /\ r.done = 0 /\ r.told = "nothing"
    BY <1>7, <2>1
  <2>3. scattered' \in BOOLEAN /\ (scattered => scattered') /\ (~scattered' => ~rotates)
        /\ r.told \in Tokens!Told \ {"done"} /\ r.told # "used up"
    BY <1>14, <2>2 DEF Tokens!Told
  <2> QED BY <1>6, <1>13, <1>14, <2>1, <2>2, <2>3
<1>15. CASE /\ tokens.refresh = grants[tokens.of].refresh
            /\ grants' = [grants EXCEPT ![tokens.of].refresh = refresh]
            /\ caller' = [caller EXCEPT ![c] = [caller[c] EXCEPT !.at = "save",
                                                !.fresh = << Tokens!Refreshed(tokens, refresh) >>]]
            /\ scattered' = (scattered \/ \E p \in Observers \ {c[1]} : cache[p] # << >>)
  <2>1. PICK fresh : fresh = Tokens!Refreshed(tokens, refresh)
    OBVIOUS
  <2>2. /\ fresh \in Tokens!TokenSets /\ fresh.of = tokens.of /\ fresh.refresh = refresh
        /\ fresh.windowEnd = tokens.windowEnd
    <3>1. clock \in Nat /\ clock + Access \in Nat
      <4>1. clock \in Nat
        BY TokenNats DEF TokenInv, TokenTypes
      <4> QED BY <4>1, TokenNats
    <3> QED BY <1>5, <1>6, <2>1, <3>1 DEF Tokens!Refreshed, Tokens!TokenSets
  <2>3. PICK r : r = [caller[c] EXCEPT !.at = "save", !.fresh = << fresh >>]
    OBVIOUS
  <2>4. << fresh >> \in Sheets /\ << fresh >> # << >> /\ << fresh >>[1] = fresh
    BY <2>2 DEF Sheets
  <2>5. r \in Threads /\ r.at = "save" /\ r.fresh = << fresh >> /\ r.done = 0
        /\ r.told = caller[c].told
    BY <1>4, <2>3, <2>4 DEF Threads, Tokens!Places
  <2>6. Honest(r.fresh)
    BY <1>5, <2>2, <2>4, <2>5 DEF Honest
  <2>7. scattered' \in BOOLEAN /\ (scattered => scattered')
        /\ (~scattered' => \A p \in Observers : p # c[1] => cache[p] = << >>)
    BY <1>15
  <2>8. r.told = "used up" => scattered'
    BY <2>5, <2>7 DEF TokenInv, InTurn
  <2> QED BY <1>4, <1>13, <1>15, <2>1, <2>2, <2>3, <2>4, <2>5, <2>6, <2>7, <2>8
<1> QED BY <1>8, <1>11, <1>12, <1>14, <1>15

LEMMA TokenStepInv == TokenInv /\ [Tokens!Next]_(Tokens!vars) => TokenInv'
<1> SUFFICES ASSUME TokenInv, [Tokens!Next]_(Tokens!vars) PROVE TokenInv'
  OBVIOUS
<1>1. CASE UNCHANGED Tokens!vars
  BY <1>1 DEF Tokens!vars, TokenInv, TokenTypes, AllHonest, Honest, Threaded, Refreshing, InTurn, Live
<1>2. CASE Tokens!Next
  BY <1>2, TickInv, LoginInv, OpenInv, EndInv, AskInv, GetAccessTokenInv, RefreshInv, SaveInv,
     SendInv DEF Tokens!Next
<1> QED BY <1>1, <1>2

LEMMA InitTokenInv == Tokens!Init => TokenInv
<1> SUFFICES ASSUME Tokens!Init PROVE TokenInv
  OBVIOUS
<1>1. /\ clock = 0 /\ requests = 0 /\ rotates \in BOOLEAN /\ scattered = FALSE
      /\ grants = << >> /\ file = << >> /\ \A p \in Observers : cache[p] = << >>
      /\ \A c \in Tokens!Callers : caller[c] = Tokens!Idle
      /\ cache = [p \in Observers |-> << >>] /\ caller = [c \in Tokens!Callers |-> Tokens!Idle]
  BY DEF Tokens!Init
<1>2. TokenTypes
  <2>1. clock \in 0..MaxClock /\ requests \in 0..MaxRequests
    BY <1>1, TokenNats
  <2>2. << >> \in Sheets
    BY DEF Sheets
  <2>3. grants \in Seq(Grants) /\ Len(grants) <= MaxLogins
    BY <1>1, TokenNats
  <2> QED BY <1>1, <2>1, <2>2, <2>3, IdleIs DEF TokenTypes
<1>3. AllHonest /\ InTurn
  BY <1>1, IdleIs DEF AllHonest, Honest, InTurn, Live
<1>4. Threaded
  <2>1. ASSUME NEW c \in Tokens!Callers
        PROVE  caller[c].done = 0 /\ caller[c].told = "nothing" /\ caller[c].at = "rest"
               /\ caller[c].fresh = << >>
    BY <1>1, IdleIs
  <2>2. \A c \in Tokens!Callers : caller[c].done <= 1
    BY <2>1
  <2> QED BY <2>1, <2>2 DEF Threaded, Refreshing
<1> QED BY <1>2, <1>3, <1>4 DEF TokenInv

LEMMA TokenInvariance == MCSpec => [](ledger = "tokens" => TokenInv)
<1>1. MCInit => (ledger = "tokens" => TokenInv)
  BY InitTokenInv DEF MCInit
<1>2. (ledger = "tokens" => TokenInv)
        /\ [FillStep \/ PaperStep \/ TokenStep]_<< ledger, vars, paperVars, tokenVars >>
      => (ledger = "tokens" => TokenInv)'
  BY TokenStepInv DEF FillStep, PaperStep, TokenStep, tokenVars, Tokens!vars
<1> QED BY <1>1, <1>2, PTL DEF MCSpec

\* The token file, the caches and the threads keep their types.
THEOREM TokensTypeCorrect == MCSpec => [](ledger = "tokens" => Tokens!TypeOK)
<1>1. TokenInv => Tokens!TypeOK
  <2> SUFFICES ASSUME TokenInv PROVE Tokens!TypeOK
    OBVIOUS
  <2>1. ASSUME NEW s \in Sheets
        PROVE  Len(s) <= 1 /\ \A i \in DOMAIN s : s[i] \in Tokens!TokenSets
    <3>1. CASE s = << >>
      BY <3>1
    <3>2. ASSUME NEW t \in Tokens!TokenSets, s = << t >>
          PROVE  Len(s) <= 1 /\ \A i \in DOMAIN s : s[i] \in Tokens!TokenSets
      <4>1. Len(s) = 1 /\ DOMAIN s = {1} /\ s[1] = t
        BY <3>2
      <4> QED BY <4>1
    <3> QED BY <3>1, <3>2 DEF Sheets
  <2>2. \A c \in Tokens!Callers : /\ caller[c].at \in Tokens!Places /\ caller[c].told \in Tokens!Told
                                  /\ caller[c].done \in Nat /\ caller[c].fresh \in Sheets
    BY DEF TokenInv, TokenTypes, Threads
  <2>3. \A one \in {file} \union { cache[p] : p \in Observers }
                     \union { caller[c].fresh : c \in Tokens!Callers } : one \in Sheets
    BY <2>2 DEF TokenInv, TokenTypes
  <2> QED BY <2>1, <2>2, <2>3 DEF Tokens!TypeOK, TokenInv, TokenTypes
<1> QED BY <1>1, TokenInvariance, PTL

\* However processes, their threads and logins mix: a token set ends with the window of
\* its login, a write reaches the broker once, and while holders of token sets take
\* turns none is told that its refresh token was used up (token_store.py, auth.py).
THEOREM CredentialsAreSound == MCSpec => []CredentialsHold
<1>1. TokenInv => Tokens!CredentialsHold
  <2> SUFFICES ASSUME TokenInv PROVE Tokens!CredentialsHold
    OBVIOUS
  <2>1. Tokens!WindowsAreHonest
    <3>1. ASSUME NEW s \in Sheets, Honest(s)
          PROVE  \A i \in DOMAIN s : s[i].windowEnd = grants[s[i].of].obtained + Window
      BY <3>1, SheetIs DEF Honest
    <3>2. \A one \in {file} \union { cache[p] : p \in Observers }
                       \union { caller[c].fresh : c \in Tokens!Callers } :
            one \in Sheets /\ Honest(one)
      BY DEF TokenInv, TokenTypes, AllHonest, Threads
    <3> QED BY <3>1, <3>2 DEF Tokens!WindowsAreHonest
  <2>2. Tokens!TurnsKeepTheLogin
    BY DEF TokenInv, InTurn, Tokens!TurnsKeepTheLogin
  <2>3. Tokens!WritesHappenOnce
    BY DEF TokenInv, Threaded, Tokens!WritesHappenOnce
  <2> QED BY <2>1, <2>2, <2>3 DEF Tokens!CredentialsHold
<1>2. (ledger = "tokens" => TokenInv) => CredentialsHold
  BY <1>1 DEF CredentialsHold
<1> QED BY <1>2, TokenInvariance, PTL

=============================================================================
