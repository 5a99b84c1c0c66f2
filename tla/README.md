# A verification model of schwab_trader

`src/` is a Typer command line (`src/src/schwab_trader`) around a paper and live
trading platform. Strategies run as *sleeves* over paper accounts; a *cohort* of
sleeves records one *official* session per exchange day as evidence for a later
review; a separate, heavily gated path places live orders. This directory models
the parts in which concurrency, crashes, clocks and partial failures decide
whether the records can be believed. It holds TLA+ modules, TLC configurations
and TLAPS proofs. `PROJECT.json` maps every definition to the lines it stands
for, lists the hazards of the code at the lines where they bite, and names the
properties about each.

## 1. Inventory

| Part | Source (`schwab_trader/`) | State it keeps | Modules | Modelled |
|---|---|---|---|---|
| Official run orchestrator | `sleeve_runs.py` | locals of one invocation | `CohortRun`, `OfficialSession` | yes |
| Run store | `sleeve_runs.py`, `storage/runs.py` | `sleeve_runs`, `sleeve_run_members` | `RunStore` | yes |
| Session ownership | `storage/runs.py`, `storage/schema.py` | lease row, advisory lock | `SessionLease` | yes |
| Scheduling | `scheduling.py`, `market_calendar.py` | none | `Scheduling`, `CohortSchedule` | yes |
| Health | `cohort_ops.py` | none | `CohortHealth` | focus, state, history |
| Alerts | `cohort_alerts.py`, `storage/alerts.py`, `notify.py` | `cohort_alerts` | `CohortAlerts` | not the awaiting-auth kind |
| Observations, cycles | `evaluation.py`, `storage/evaluation.py` | observations, cycles | `CohortRun` | not the metrics |
| Session commands | `cli.py` | none | `CohortSchedule`, `CohortRun` | these two commands |
| Preflight, data readiness | `cohort_preflight.py`, `history_cache.py`, `daily_bar_fallback.py`, ... | caches, bound snapshots | `CohortPreflight` | partly |
| Paper engine, agent cycle | `paper.py`, `storage/paper.py`, `agent.py` | cash, lots, settlements | `PaperDesk` | partly |
| Live order flow | `cli.py`, `state.py`, `approval.py`, `safety.py` | intents, tokens, activity, kill switch | `OrderDesk` | partly |
| Reconciliation, tax lots | `reconciliation.py`, `taxlots.py` | watermarks, reservations, lots | `FillBook` | partly |
| Review, operational gate | `cohort_review.py`, `operational_gate.py`, `cohort_phase.py`, `evidence_timing.py` | review log | `CohortReview`, `OperationalGate` | partly |
| Cohort founding | `challenger_cohort.py`, `sleeves.py`, `storage/sleeves.py` | registry, manifest | `CohortFounding` | partly |
| Storage migration | `storage/migration.py`, `storage/snapshots.py` | migration rows, snapshots | `StorageMigration` | partly |
| Backup, recovery | `storage/backup.py`, `storage/recovery.py` | artifacts, manifests | `BackupDesk`, `RecoveryAdvice` | partly |
| Broker client, auth | `client.py`, `auth.py`, `token_store.py` | token file, caches | `TokenDesk` | partly |
| Replay laboratory | `historical_replay*.py`, `storage/historical_replay.py` | evidence log | `ReplayLab` | partly |
| Lifecycle, promotion | `cohort_lifecycle.py`, `promotion.py` | constants | | no: read-only advice |
| Strategies, backtests | `strategies/`, `backtest.py`, ... | none | | no: numeric code |
| Dashboard, digest | `dashboard.py`, ... | none | its assessments only | no: rendering |

How the parts interact. A scheduler or an operator starts processes that know
nothing of each other and meet only in the stores. An invocation of the official
session reads the clock and the completed runs, gets a verdict from `scheduling`,
takes ownership of `(cohort, session)`, captures data through a cache every tool
shares, binds it as the session's snapshot, and then drives run rows, paper
accounts and observations, which share no transaction; afterwards it sends an
alert. Health, recovery and the review read the same rows at any time. A live
order goes through the intent store, tokens, the daily count and the kill switch
to the broker, and comes back through reconciliation into the lots. Founding,
migration and backup are operators' commands over the same databases.

What is hard: a process may die between any two transactions; a lease may run
out under a process that is still working; a verdict is computed before ownership
is taken; answers are lost, repeated, late or stale; two databases are written
one after the other; a cached value is older than the clock it is judged by.

## 2. Modules

An action is one transaction of one store, one file operation or one call of a
provider, so everything else may act between two of them. Clocks, counters and
faults are bounded by the constants named `Max...` (and `Days`, `Last`); sections
3 and 4 say what the bounds are for.

**`RunStore`, `SessionLease`, `CohortRun`: one session.** `runStatus`, `snapshot`,
`completed`, `member` are the columns of the two run tables, `lease` the ownership
row; `book[m]` is the sequence of snapshots m's paper account has traded on,
`cycles` the members with a cycle row, `observation[m]` the official observation.
A process is a label `pc[r]`, the member it is at and a record of the locals of
`_run_owned`. The actions follow the code: `Decide`, `Enter`/`Refused`, the
outcomes of `Ensure`, `MarkRunning`, `RecoverMember`, `Reload`, `Capture`,
`BindSnapshot`/`BindRefused`, the closing loops, `ClaimMember`, `Trade`,
`RecordCycle`, `RecordOfficial`, `CompleteMember`, the except block
`RecordPartial`/`FailMember`, `ReadOutcome`, `WriteOutcome`, `Release`. `Crash`
ends a process anywhere, `Abort` is a call that raises outside a try block,
`RecordRaises` one that raises inside it. The two backends differ in
`AdvisoryLock` (who is refused, and what a death leaves behind) and
`StrictObservations` (a conflicting observation raises, or is ignored);
`SlowRunners` lets a lease expire under a live runner. Left out: the error trail,
timestamps and the configured order of members; DUE and LATE are one verdict.

**`OfficialSession`** is the abstract promise: a member is claimed once, trades once
and only while claimed, settles once, and a concluded session never moves.
`CohortRun!Promise` is the refinement mapping, `KeepsPromise` the property.

**`RecoveryAdvice`** is `storage recover` over `CohortRun`'s rows, the lease row as it
may read (`LeaseFacts`) and the clock. It writes nothing and adds no action.

**`Scheduling`, `CohortHealth`, `CohortSchedule`: several sessions.** An instant is a
number of ticks, a day `DayTicks` of them; the exchange's calendar is a constant.
`runs[d]` is the status of day d's run. An invocation decides (`Plan`, or `Name`
with `--scheduled-for`), leaves the run alone, settles it, begins to execute,
finishes with any status, or finds it owned; `Notify` sends what the run *as
returned* is worth; `HealthCheck` is `cohort health --notify`. Executing is one
step from begin to finish here and delivery is immediate; `CohortRun` and
`CohortAlerts` have the detail.

**`CohortAlerts`: one alert.** `delivery`, `attempts`, `stale` (older than
`ambiguous_after`) are the record, `at[p]` a process's place in `emit`, `plain` and
`repeats` what the mailbox received without and with the possible-duplicate mark.

**`CohortPreflight`: what a session decides on.** The provider's series, the cache,
the five-minute fallback, the capture of a session and its verdict. A payload is
abstracted to the last session it holds and the last one settled in it. The
clock ticks twice a session, and runs on to `2 * Last`. Notes: only the histories
of members that declare one are `Relied` upon (a member that declares none may be
handed a series that stops short); how complete five-minute bars are is a choice;
missing quotes are a fault that makes the verdict wait; production never supplies
`opening_bars`, so a next-open cohort always waits; a late catch-up fills at the
quotes of its own day although execution_timing.py:27 speaks of the close.

**`CohortFounding`: how a cohort comes into being.** `sleeve`, `manifest`, and per
process the creation it works on (`creation`): `Begin` (reads the manifest), `List`,
`Resolve`, `Decide`, `CreateSleeve`, `WriteManifest`, `Undo`, `Crash`. `Overlap` says
whether creations may overlap. Left out: how a plan is built, name clashes
between cohorts, the operator's `sleeve create` and `sleeve remove` (which can take
a member of a running cohort).

**`OperationalGate`, `CohortReview`: the review.** Which sessions are evidence at an
instant, the rules of the gate, the phase shown, as operators over the rows; and
the sessions, reviews and decisions whose interleavings they judge. Simplified:
the dashboard's three reads are one step, signals are taken as present, notes are
left out. `FOR UPDATE` makes no difference that can be observed here.

**`OrderDesk`: live orders.** An invocation considers one order; its name is that of
its intent and its token. `Begin` to `Place` follow the gate's checks in order, for
the five commands that share it. The risk rules are one verdict.

**`FillBook`: what becomes of an order.** `row` is the watermark, `booking` and `delta`
the reservation of a cumulative quantity, `times` how often it was booked, `lots`
and `realized` the ledgers. An observer looks, writes the watermark, reserves,
books, computes the gain, marks. `clean` says that no two observers have been at
work at once. `Incomplete` admits growth that the code records but refuses to book
(no side or symbol, an amount that did not grow: reconciliation.py:293, :552); the
watermark passes it, and `fills_unpriced` sets it `FALSE`.

**`PaperDesk`: a sleeve's books.** The rows, and the transactions of settlement,
interest, orders and margin calls with their row locks, by two cycles at once.
A purchase may slip between the locks of a margin call, as in the code.

**`TokenDesk`: credentials.** The token file, what processes of two threads cache of
it, logins and refreshes, requests that are repeated or not. A running process
never reads the file again: with two processes a refresh can be saved over a
newer login, and an endpoint that rotates refresh tokens then demands a new
login; `TurnsKeepTheLogin` is claimed while they take turns. A crash or a lost
answer between a rotating refresh and its save loses the login. The rate limiter
is left out, and the leeway is less than a tick.

**`StorageMigration`.** `mig`, `src`, `results`, `rows`, and what sources share (`cohort`,
`sleeve`, `run`); one transaction per source, verification apart, commands of
several operators at once, faults before and after a commit. Of two commands that
register one migration for the first time the loser fails on the primary key.

**`BackupDesk`, `ReplayLab`.** Backups that plan, produce, verify, hash and write a
manifest beside a source whose rows are added and removed; downloads that classify a
provider's answer and append to a log of revisions. On SQLite a failed backup leaves
its artifact in place, and a source whose row count changes meanwhile gets a good
artifact rejected; on PostgreSQL nothing compares the counts with the dump. Two
backups in one second overwrite each other (backup.py:465), so they take turns in
the model (`Overlap = FALSE`). In the replay log a payload with the same bars and
other issues is `unchanged`, `status_counts` counts rows under the universe that
recorded them first, duplicates in another order give another digest, a negative
volume breaks a CHECK, and the loser of a collision gets an IntegrityError.

**Composites.** `MCOperations` (alerts, data, founding), `MCBooks` (fills, paper,
tokens) and `MCDesks` (orders, backups, replay) hold protocols that share nothing
in one state space: the initial state picks the one that runs, the variables of
the others rest. Their constants are the parts' own and get values in the `.cfg`. The
other `MC*` modules hold values and symmetry sets.

## 3. Runs

Twelve runs. Nine pass; three each refute a sentence of the documentation.

| Run | Question | Bounds | States |
|---|---|---|---|
| `cohort_shared` | Are rows, books, observations and advice consistent on PostgreSQL, and is the promise kept? `SnapshotIntegrity`, `AdviceIsSound`, `EvidenceAgrees`, `FinalizedIsSettled`, `KeepsPromise` | 2 members, 2 snapshots, 2 runners, 2 faults | 127,000 |
| `cohort_takeover` | Does a lease that runs out under a live runner let a book trade twice? `AtMostOnce` | SQLite, 2 members, 2 snapshots, 2 runners, 1 fault | 3,110,000 |
| `cohort_local` | Is a session concluded after its deadline? `SessionConcludes` | SQLite, 2 members, 2 runners, 1 fault | 75,000 |
| `operations` | Is an alert's record honest, and an alert sent or visible? Does no cohort decide on an unsettled bar, and does waiting resolve a wait? Is a cohort founded whole or not at all? `RecordIsHonest`, `SentOrVisible`, `DecidesOnSettledBars`, `WaitingResolves`, `AllOrNothing`, `ManifestVouches` | 3 processes and attempts; 2 sessions, 1 fault; 3 creations, 2 mishaps | 129,000 |
| `cohort_schedule` | Does a later step contradict an alert, do windows overlap, is a gap hidden? `AlertsStayTrue`, `OneWindow`, `GapsAreVisible` | days 2-4, an early close and a holiday, 2 invocations | 442,000 |
| `desks` | Is an order sent twice or forgotten, a token used twice, a halt ignored? Does a backup's manifest tell the truth? Is the replay log sound? `PlacedIsRecorded`, `TokenBuysOneOrder`, `RacesAreBounded`, `HaltHolds`, `ManifestSpeaksTrue`, `ResearchIsSound` | 2 processes, 3 orders of one fingerprint; 2 backups, 2 rows added and any of them removed, 2 faults; 3 downloads | 1,044,000 |
| `books` | Is a fill booked twice, a lot oversold, a payment lost? Do the credentials keep their promises? `EachFillOnce`, `LotsAddUp`, `BooksAgree`, `BuysWithinPower`, `CredentialsHold` | a purchase of 2, a sale of 1; 3 orders over a weekend; 2 logins, 2 requests, 3 ticks | 1,951,000 |
| `storage_migration` | Is a source imported twice or skipped, does a passed verification lie, does rerunning complete it? `ImportedWhole`, `PassedMeansWhole`, `RegistryComesFirst`, `Resumes` | 2 operators, 7 sources, 2 faults | 190,000 |
| `cohort_review` | Is the review log a line, a pass earned, evidence lost? `RevisionsFormChain`, `DecidedOnEvidence`, `PassIsEarned`, `NothingLeftSatisfiesTheGate`, `EvidenceStands` | 2 sessions, 2 members, 1 area, 2 clerks, 4 entries | 265,000 |
| `cohort_stuck` | refutes "rather than retrying forever" (sleeve_runs.py:1091) | PostgreSQL, 1 snapshot, 1 fault | |
| `fills_unpriced` | refutes "a later observation with execution pricing can then ingest it safely" (reconciliation.py:298) | 1 observer, no fault | |
| `founding_race` | refutes "A half-built cohort is never left behind" (challenger_cohort.py:720) | 2 creations of one plan, no fault | |

Why the bounds are enough. Two members are what it takes for one to have executed
while another has not; two snapshots for a retry to capture other data; two
processes for every race between an owner and a successor, an observer and
another, a clerk and another; three for alerts, because the third meets the
record a second one has left ambiguous. Two faults allow a crash in the recovery
of a crash. The calendar of `cohort_schedule` has a session before the clock starts,
an early close, a closed day, and an end, so a session is executed on time, late,
and not at all. Three orders make a duplicate, an override and a new day's count
meet. Three plans in `operations` agree on the first member and differ in the
second or third, so a creation meets sleeves it may adopt, conflicts and strangers.
What the bounds cannot show is what section 4 is for.

`CHECK_DEADLOCK FALSE` stands in `operations`, `desks`, `cohort_review` and
`founding_race`: there everything may have been done. Elsewhere invocations, ticks
or denied claims are possible in every state.

What each counterexample shows:

* `cohort_stuck`: a runner records a MISSING observation for a methodology conflict
  and dies before it settles the member; a later retry leaves the session awaiting
  data; at the deadline `_expire_awaiting_data` records the same member MISSING for
  another reason, which the shared store refuses, in this and every later invocation.
* `fills_unpriced`: an answer without prices at an unchanged quantity erases the
  amount known so far; the next priced fill moves the watermark and books nothing.
* `founding_race`: a second creation of the same plan looks a member up after the
  first has created it, writes its manifest, and the first then fails and removes
  the member. The scheduler finds a cohort by its sleeves, not by its manifest.

**Fairness.** `cohort_local`, `cohort_stuck`: the clock and the lease run on (`Tick`,
`LeaseRunsOut`), the scheduler starts invocations again and again (`Decide`), and an
invocation that is not killed takes its next step (`Proceed`). No step waits on
another process, because an invocation that finds the session owned leaves at
once. The invocations there *name* the session: the scheduled command turns to the
most recent due session only and would not come back to it. `SentOrVisible`:
time passes, and a process in `emit` goes on, fails or dies. `WaitingResolves`: a
capture goes on, and the scheduler starts the session again while it waits in its
window. `Resumes`: a running command goes on, and operators rerun the migration
again and again (strong fairness of `StartMigrate`, which a verification in progress
may disable for a while). No fairness asks a provider for a particular answer.

## 4. Proofs

Eight modules of proofs, checked by `tlapm` for every value of the constants that
meets the named assumptions; TLC evaluates the same assumptions on the runs. An
invariant `IInv` is the conjunction of the named parts below; there is one lemma
per action, and the theorems follow from `Invariance`.

| Module | Properties it proves for every instance |
|---|---|
| `CohortRun_proofs` | `AtMostOnce`, `SnapshotIntegrity`, `FinalizedIsSettled`, `AdviceIsSound`, `KeepsPromise`, `EvidenceAgrees` |
| `CohortSchedule_proofs` (lemmas in `Scheduling_proofs`) | `OneWindow`, `AlertsStayTrue`, `GapsAreVisible` |
| `CohortReview_proofs` | `RevisionsFormChain`, `DecidedOnEvidence`, `PassIsEarned`, `NothingLeftSatisfiesTheGate`, `EvidenceStands` |
| `OrderDesk_proofs` (and backups, replay) | `PlacedIsRecorded`, `TokenBuysOneOrder`, `HaltHolds`, `RacesAreBounded`, `ManifestSpeaksTrue`, `ResearchIsSound` |
| `FillBook_proofs` (and paper books, tokens) | `EachFillOnce`, `LotsAddUp`; `BooksAgree`, `BuysWithinPower`; `CredentialsHold` |
| `StorageMigration_proofs` | `ImportedWhole`, `PassedMeansWhole`, `RegistryComesFirst` |
| `Operations_proofs` | `RecordIsHonest`, `DecidesOnSettledBars`, `ManifestVouches`, `AllOrNothing` |

Type correctness is a theorem in each of them (the runs need not repeat it).

**`CohortRun_proofs`.** `ExecutesAtMostOnce` needs no assumption about ownership, on
either backend: the argument is the conditional update of `start_member`, never
the lease. `AtMostOnce` is not inductive; `Once` adds that a pending member has not
traded, that a runner executing a member has made it leave pending, that a member
about to trade has not traded, and that no two runners execute the same member,
and `Working` that a runner's locals are well-formed where they are used.
The others hold under `Exclusive == AdvisoryLock \/ ~SlowRunners`: the session has
one owner, either by the PostgreSQL lock or because no run outlasts its lease.
`Owned` says who that is; `Staged` bounds, place by place, what rows, books and
captured data can be while it works and after it has died anywhere; `Settled` that a
verdict about to be written is the one the members justify, although it was read
in another transaction. `ImplementsOfficialSession` is the refinement: initial
states map to initial states and every step to a step or a stutter. `EvidenceIsKept`
needs `StrictObservations` in addition (`Witnessed`), because the local store ignores a
conflicting row. Without `Exclusive` the claims are false in the code: on SQLite,
with a run that outlasts its lease, the advice can read "safe" while the slow
runner trades.

**`CohortSchedule_proofs`.** `WindowsNeverOverlap`: a deadline is at most the due time of
the next session, and the grace, checked first, ends earlier by `GraceAssumption`.
`AlertsAreNeverRetracted`: the invariant adds that an executing session has one owner
and a running row (`Exclusive`) and that a report not yet sent still describes its
run (`ReportsStayTrue`). `NothingOwedIsHidden`: focus and history cover what is owed;
it rests on what `Earliest` and `Latest` choose and on `LookbackAssumption`, that the
scan reaches across every closure. Were a closure longer than the scan,
`plan_run` would record a trading day as closed (scheduling.py:317-329).

**`CohortReview_proofs`.** `Executed` (what a recorded run says about its members),
`Chained` (revisions form a line, and a clerk's next revision is the next one or will
be refused), `Earned` (decisions stand on evidence). `PassesAreEarned` assumes
`MinSessions <= ReviewTarget`: otherwise an overdue session that is still executing
counts towards the history floor and a pass rests on fewer recorded sessions.
`NothingLeftIsEnough` assumes `MinDecisions <= Cardinality(Members)`. Both hold of the
defaults.

**`OrderDesk_proofs`.** `Owners`, `Progress`, `Untouched`, `Approvals`, `Halted`, `Tokens` relate
a process's place to the intent, token and halt it stands on. `RacesStayBounded`
counts: per fingerprint, the live intents plus the processes past their last look
are at most the processes (`Windows`); the strategies' counted orders plus
those in flight are at most the cap plus the other processes (`Flights`, `Ledger`).
It needs finitely many processes and invocations (`FinitelyMany`).
*Backups*: `Named` (a running backup has a name of its own that no manifest bears),
`Stage` (what a backup knows of its file at each place: on PostgreSQL it alone writes
it, and the file is never of an earlier moment than the counts) and `Described` (a manifest's digest is of
a whole file that only damage changed). It holds for backups that start in seconds of
their own (`Overlap = FALSE`). *Replay*: `FindingsAreTrue` is about the validation
alone, for any payload: it calls complete only what is whole and without
contradiction; `Rows`, `Chained`, `Work` and `Reported` say that content and revisions
only grow, that a download writes the next revision or is refused, and that what it
will report is what it found. `ReplayAssumption`: a universe names at least one symbol
(historical_replay.py:184).

**`FillBook_proofs`.** `Sound`, `Held`, `Once`: a reservation has one holder, and what a
holder is about to book has not been booked. `LotsNeverOversold` adds, while observers
take turns, that a sale computed from the lots is written before they change
(`Turns`, `Lots`), and `LotsBalance` that the open lots hold at least what was bought
less what was sold (`SInv`). *Totals*: the sums of the models are folds, and what a recursive
definition computes is proved here from least counterexamples: the section "Totals"
shows that a fold with + over a finite set is the additive function of its parts,
hence what it is when one term moves, when a set splits, and within which bounds.
It needs finitely many orders and symbols. *Paper books*: one lemma says what each
operation of the engine does to any books (`SettledIs`, `ChargedIs`, `BoughtIs`,
`SoldIs`; `CallsSettle` for a margin call of any number of sales): what it adds to the
cash (`Money`) and the cost of the shares (`Basis`). `PaperInv` is the types and `Agrees`,
which relates the rows to the history of orders and interest; it is inductive as it
stands, because every transaction recomputes from the committed rows under their
locks. Half-even rounding (`QuantizedIs`) gives the half quantum per share. `PowerLeft` is
the arithmetic of `PurchasesWithinPower`. Every week must have a business day, or
`_next_business_day` would not end. *Tokens*: `AllHonest` (a token set that anyone holds stems from a login
and ends with its window, however often it was refreshed), `Threaded` (the lock lets
one thread of a process refresh; a write was acted on once at most) and, while processes take turns, `InTurn`: a
process that saves is the only one with a cache, and otherwise the file's refresh
token is the one the provider honours. Without turns `InTurn` is false in the code.

**`StorageMigration_proofs`.** `ImportedWhole`, `Data` (each shared row has what it leans on),
`PassedIsWhole`, `Working`: what a command in flight knows is still so, although
others import beside it.

**`Operations_proofs`.** *Alert*: `Witnessed`; the count of messages received plus sends
in flight never exceeds the attempts recorded, for any number of senders. *Data*:
`Timely` (the provider publishes nothing before the close), `Cached` and `Holding` (no
payload claims to have settled what was not), `Gathered` (what a capture has
accepted ends at its session). *Founding*: `Alone` (one creation at work), `Works`
(what it knows at each place: what it has created and what is missing together
are the plan, and nothing else is there) and `Vouched`. It holds for creations that
take turns; overlapping ones break it, which `founding_race` shows.

What the proofs changed in the models. A member that declares no history may be
handed a series that stops short, so `DecidesOnSettledBars` speaks of the histories
relied upon. The lookback, the finiteness of processes and the review's two
inequalities became named assumptions. `AllOrNothing` needs somebody who creates.

Only model-checked. Liveness (`SessionConcludes`, `SentOrVisible`, `WaitingResolves`,
`Resumes`) and ENABLED, which are out of the provers' reach. Every other property a
passing run checks is a theorem.

## 5. Known departures the model keeps

They are behaviours of the code that no property is claimed against:

* `_skip_run` records a run as missed although a member of it has completed
  (sleeve_runs.py:1096), and a late catch-up in progress is shown as missed or
  overdue, and alerted so, before it completes.
* A waiting session is never resolved by the scheduled command once a later one
  is due; it stays awaiting data unless an operator names it.
* An alert whose answer is lost may arrive twice without the duplicate mark.
* The recovery advice reads `stale-lease` for a run that ended partial, failed or missed and whose lease was not released,
  `active` for up to six hours after a crash, and "safe" for a session awaiting data
  past its deadline.
* The dashboard counts observations of a session still executing in its grace
  (dashboard.py:1686); a session without a run row is invisible to the gate
  (operational_gate.py:9); one failed or missed session fails the gate for good, so
  the 98% floor never decides; a passed gate fails again when one more session is
  not reviewed yet.
* A manifest copied in part before a crash, and a plain source whose commit was
  lost, are rejected by every rerun of the migration (`Torn`, `Disowned`), against
  postgresql-runbook.md:175.
* On PostgreSQL a manifest may count rows that its dump lacks or lack rows that it
  holds, when rows were removed or added between the count and pg_dump
  (backup.py:469, :529), against "exactly the rows written after `created_at`"
  (docs/operations/storage-backup-restore.md).
* A fill without a side or symbol, or whose amount did not grow, is passed by the
  watermark and never booked.
* A cached payload with a hole (it has the next session but not this one) is never
  fetched again for this session.

And these are simplifications of the model: `inspect_recovery` reads the run, its members
and the lease in three transactions (recovery.py:412-477), the model judges one state;
two operators who copy one SQLite source share its `.partial` file (snapshots.py:72-92),
the model copies in one step; a legacy sleeve of another cohort scope
(migration.py:471-482) is left out, since the registry comes first; a settled review
that supersedes another one with other text counts as the same (`CohortReview.Differs`).

## 6. Not modelled, and what is next

Not modelled: strategies, research and backtests; rendering; promotion and
lifecycle, which are advice; the opening fill (`next_open_fill.py`), which production
never reaches; the agents' coordination scripts; `storage/health.py` beyond what the
recovery advice reads; how a plan is frozen; the operator's pg_restore.

Next: storage health and the promotion rules as operators, with the lemmas about
what they count.
