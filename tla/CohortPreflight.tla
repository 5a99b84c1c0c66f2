-------------------------- MODULE CohortPreflight ---------------------------
(***************************************************************************)
(* The data a cohort decides on: the provider's daily series, the history  *)
(* cache every tool shares (history_cache.py), the five-minute fallback    *)
(* and its evidence store (daily_bar_fallback.py, market_bar_evidence.py,  *)
(* storage/market_data.py), the capture of one session's snapshot (cli.py) *)
(* and the all-or-nothing verdict over it (data_readiness.py,              *)
(* cohort_preflight.py).                                                   *)
(*                                                                         *)
(* The clock ticks twice a session: session s is open at 2s - 1, has       *)
(* closed at 2s, and its official run may be invoked until the next one is *)
(* due, at 2s + 2.  A series is abstracted to the last session it holds    *)
(* and the last one that is settled in it; a session's own bar is still    *)
(* forming while the session is open.  A request is stamped before it is   *)
(* sent; of the stamp it matters which sessions had closed by then.        *)
(***************************************************************************)
EXTENDS Integers, FiniteSets

CONSTANTS
  Last,        \* sessions are 1..Last
  Symbols,
  Benchmark,   \* "SPY"
  Members,     \* the sleeves of the cohort
  Universe,    \* the symbols of a member
  Rosters,     \* what the members need: functions from Members to SUBSET Kinds
  MaxFaults    \* failures of the provider, the disk and the process

Kinds == {"history", "filings", "macro"}

PreflightAssumption ==
  /\ Last \in Nat \ {0}
  /\ Benchmark \in Symbols
  /\ Universe \in [Members -> (SUBSET Symbols) \ {{}}]
  /\ Rosters \subseteq [Members -> SUBSET Kinds]
  /\ MaxFaults \in Nat

Sessions == 1..Last

\* "tool" stands for every other command that reads histories through the cache.
Readers == Sessions \cup {0}
Tool == 0

VARIABLES
  needs,     \* the data requirements of the members; never changes
  now,
  published, \* per symbol: the last settled session of the provider's series
  filed,     \* the filings store covers the members' symbols
  cache,     \* per symbol: the cached payload
  capture,   \* per reader: how far it has got
  bound,     \* per session: the bars of the snapshot bound to its run, or {}
  status,    \* per session: "waiting", "executed" or "misconfigured"
  faults

world == << needs, now, published, filed >>
vars == << needs, now, published, filed, cache, capture, bound, status, faults >>

\* A cached payload: the last session that had closed when it was asked for, the
\* last session it holds and the last settled one.  A payload too short for an
\* official run (days=300) is as good as none.
Payload == [stamp : 0..Last, last : 0..Last, settled : 0..Last]

NoPayload == [stamp |-> 0, last |-> 0, settled |-> 0]

\* What one symbol resolved to: the last session of its history, how that bar
\* was had.
Bar == [through : 0..Last, how : {"settled", "forming", "derived", "short", "error"}]

Idle == [at |-> "idle", left |-> {}, held |-> NoPayload, bars |-> {}]

At == {"idle", "look", "store", "minutes", "bound"}

TypeOK ==
  /\ needs \in Rosters
  /\ now \in 1..(2 * Last)
  /\ published \in [Symbols -> 0..Last]
  /\ filed \in BOOLEAN
  /\ cache \in [Symbols -> Payload]
  /\ capture \in [Readers -> [at : At, left : SUBSET Symbols, held : Payload,
                              bars : SUBSET (Symbols \X Bar)]]
  /\ bound \in [Sessions -> SUBSET (Symbols \X Bar)]
  /\ status \in [Sessions -> {"waiting", "executed", "misconfigured"}]
  /\ faults \in 0..MaxFaults

Init ==
  /\ needs \in Rosters
  /\ now = 1
  /\ published = [s \in Symbols |-> 0]
  /\ filed = FALSE
  /\ cache = [s \in Symbols |-> NoPayload]
  /\ capture = [r \in Readers |-> Idle]
  /\ bound = [t \in Sessions |-> {}]
  /\ status = [t \in Sessions |-> "waiting"]
  /\ faults = 0

Closed(t) == now >= 2 * t
InWindow(t) == Closed(t) /\ now < 2 * t + 2

Fault == faults < MaxFaults /\ faults' = faults + 1
NoFault == UNCHANGED faults

-----------------------------------------------------------------------------
(* The world: the clock, the provider, the import of filings               *)

Tick ==
  /\ now < 2 * Last
  /\ now' = now + 1
  /\ UNCHANGED << needs, published, filed, cache, capture, bound,
                  status, faults >>

\* The settled bar of the next session enters a series some time after its close.
Publish(s) ==
  /\ published[s] < Last
  /\ Closed(published[s] + 1)
  /\ published' = [published EXCEPT ![s] = @ + 1]
  /\ UNCHANGED << needs, now, filed, cache, capture, bound,
                  status, faults >>

\* The operator imports the filings of every company the members trade.
ImportFilings ==
  /\ ~ filed
  /\ \E m \in Members : "filings" \in needs[m]
  /\ filed' = TRUE
  /\ UNCHANGED << needs, now, published, cache, capture, bound,
                  status, faults >>

-----------------------------------------------------------------------------
(* The history cache and the resolution of one symbol                      *)

\* The daily histories are fetched when any member declares them.
Histories == IF \E m \in Members : "history" \in needs[m]
             THEN (UNION { Universe[m] : m \in Members }) \cup {Benchmark} ELSE {}

\* Mutation of IsSettledEvidence: holding the session is enough.
IsSettledEvidenceCovered(c, t) == c.last >= t

\* Mutation of IsSettledEvidence: having been asked for after the close is enough.
IsSettledEvidenceFresh(c, t) == c.stamp >= t

\* A payload that holds the session and was asked for after its close.
IsSettledEvidence(c, t) == c.last >= t /\ c.stamp >= t

Current(r) == CHOOSE s \in capture[r].left : TRUE

\* The reader goes on with the next symbol.
Advance(r, bar) ==
  capture' = [capture EXCEPT
    ![r] = [at |-> "look", left |-> capture[r].left \ {Current(r)}, held |-> NoPayload,
            bars |-> capture[r].bars \cup {<< Current(r), bar >>}]]

\* What resolve_daily_history makes of a series: candles after the session are
\* not eligible, and a series without the session falls back on its minutes.
Resolve(r, c) ==
  IF r = Tool THEN capture' = [capture EXCEPT ![r] = Idle]
  ELSE IF c.last >= r
  THEN Advance(r, [through |-> r,
                   how |-> IF r <= c.settled THEN "settled" ELSE "forming"])
  ELSE capture' = [capture EXCEPT
         ![r].at = "minutes", ![r].held = [NoPayload EXCEPT !.last = c.last]]

-----------------------------------------------------------------------------
(* The steps of a capture                                                  *)

Start(t) ==
  /\ InWindow(t)
  /\ capture[t].at = "idle"
  /\ status[t] = "waiting"
  /\ capture' = [capture EXCEPT ![t] = [Idle EXCEPT !.at = "look", !.left = Histories]]
  /\ UNCHANGED << world, cache, bound, status, faults >>

\* The provider answers; while a session is open its forming bar may come along.
\* The session may have closed since the request was stamped.
Answer(r, s) ==
  \E forming \in BOOLEAN, stamp \in IF r = Tool THEN {now \div 2, (now - 1) \div 2} ELSE {now \div 2} :
    /\ forming => now = 2 * published[s] + 1 /\ published[s] < Last
    /\ capture' = [capture EXCEPT
         ![r].at = "store", ![r].left = @ \cup {s},
         ![r].held = [stamp |-> stamp, settled |-> published[s],
                      last |-> IF forming THEN published[s] + 1 ELSE published[s]]]

\* Another command reads a symbol's history, and its cached payload is not of today.
ToolAsks ==
  /\ capture[Tool].at = "idle"
  /\ \E s \in Histories : Answer(Tool, s)
  /\ UNCHANGED << world, cache, bound, status, faults >>

\* The cached payload is used, or the provider asked.
Look(t) ==
  /\ capture[t].at = "look"
  /\ capture[t].left # {}
  /\ IF IsSettledEvidence(cache[Current(t)], t)
     THEN Resolve(t, cache[Current(t)])
     ELSE Answer(t, Current(t))
  /\ UNCHANGED << world, cache, bound, status, faults >>

\* Mutation of Store: the payload is stamped when it is written.
StoreStampedLate(r) ==
  /\ capture[r].at = "store"
  /\ cache' = [cache EXCEPT ![Current(r)] = [capture[r].held EXCEPT !.stamp = now \div 2]]
  /\ NoFault
  /\ Resolve(r, capture[r].held)
  /\ UNCHANGED << world, bound, status >>

\* The payload is written to the cache; a failed write may leave nothing legible.
Store(r) ==
  /\ capture[r].at = "store"
  /\ \/ cache' = [cache EXCEPT ![Current(r)] = capture[r].held] /\ NoFault
     \/ cache' = [cache EXCEPT ![Current(r)] = NoPayload] /\ Fault
  /\ Resolve(r, capture[r].held)
  /\ UNCHANGED << world, bound, status >>

\* The provider raises.
ProviderError(t) ==
  /\ \/ capture[t].at = "look" /\ capture[t].left # {}
        /\ ~ IsSettledEvidence(cache[Current(t)], t)
     \/ capture[t].at = "minutes"
  /\ Fault
  /\ Advance(t, [through |-> 0, how |-> "error"])
  /\ UNCHANGED << world, cache, bound, status >>

\* Mutation of Minutes: bars that are there are aggregated, complete or not.
MinutesIncomplete(t) ==
  /\ capture[t].at = "minutes"
  /\ \E how \in {"derived", "short"} : Advance(t, [through |-> t, how |-> how])
  /\ UNCHANGED << world, cache, bound, status, faults >>

\* The five-minute bars of the session make up for its daily bar when every one
\* is there and sound, and they were asked for after the close.
Minutes(t) ==
  /\ capture[t].at = "minutes"
  /\ \/ Closed(t) /\ Advance(t, [through |-> t, how |-> "derived"])
     \/ Advance(t, [through |-> capture[t].held.last, how |-> "short"])
  /\ UNCHANGED << world, cache, bound, status, faults >>

-----------------------------------------------------------------------------
(* The verdict                                                             *)

\* Mutation of BarsUnready: a history that stops short of the session will do.
BarsUnreadyPresence(bars, m, t) ==
  \/ \E b \in bars : b[2].how = "error"
  \/ \E b \in bars : b[1] \in Universe[m] \cup {Benchmark} /\ b[2].through = 0

\* The daily-bars requirement of a member: the provider failed for any symbol, or
\* a symbol of the member's is absent (through 0) or stops short of the session.
BarsUnready(bars, m, t) ==
  \/ \E b \in bars : b[2].how = "error"
  \/ \E b \in bars : b[1] \in Universe[m] \cup {Benchmark} /\ b[2].through < t

\* A requirement of a member that is not met yet.
Unready(m, bars, t) ==
  \/ "history" \in needs[m] /\ BarsUnready(bars, m, t)
  \/ "filings" \in needs[m] /\ ~ filed

\* The members are judged together.
Gap(bars, t) == \E m \in Members : Unready(m, bars, t)

\* A macro requirement has no source: waiting cannot mend it.
Structural == \E m \in Members : "macro" \in needs[m]

Misconfigured(t) ==
  /\ Structural
  /\ status' = [status EXCEPT ![t] = "misconfigured"]
  /\ capture' = [capture EXCEPT ![t] = Idle]
  /\ UNCHANGED << bound, faults >>

\* The snapshot is bound to the run; one that has been bound but not executed on
\* may be replaced.
Ready(t) ==
  /\ ~ Structural /\ ~ Gap(capture[t].bars, t)
  /\ bound' = [bound EXCEPT ![t] = capture[t].bars]
  /\ capture' = [capture EXCEPT ![t] = [Idle EXCEPT !.at = "bound"]]
  /\ UNCHANGED << status, faults >>

\* Somebody's data is missing (the quotes of a symbol may be), and nobody runs.
Waits(t) ==
  /\ ~ Structural
  /\ (Gap(capture[t].bars, t) /\ NoFault) \/ Fault
  /\ capture' = [capture EXCEPT ![t] = Idle]
  /\ UNCHANGED << bound, status >>

Judge(t) ==
  /\ capture[t].at = "look" /\ capture[t].left = {}
  /\ Misconfigured(t) \/ Ready(t) \/ Waits(t)
  /\ UNCHANGED << world, cache >>

\* The first member is started against the bound snapshot.
Execute(t) ==
  /\ capture[t].at = "bound"
  /\ status' = [status EXCEPT ![t] = "executed"]
  /\ capture' = [capture EXCEPT ![t] = Idle]
  /\ UNCHANGED << world, cache, bound, faults >>

\* A process dies; while it writes the cache the file may be cut short.
Crash(r) ==
  /\ capture[r].at # "idle"
  /\ Fault
  /\ \/ UNCHANGED cache
     \/ /\ capture[r].at = "store"
        /\ cache' = [cache EXCEPT ![Current(r)] = NoPayload]
  /\ capture' = [capture EXCEPT ![r] = Idle]
  /\ UNCHANGED << world, bound, status >>

-----------------------------------------------------------------------------
Step(t) == Look(t) \/ Store(t) \/ Minutes(t) \/ Judge(t) \/ Execute(t)

Next ==
  \/ Tick \/ ImportFilings \/ ToolAsks \/ Store(Tool)
  \/ \E s \in Symbols : Publish(s)
  \/ \E t \in Sessions : Start(t) \/ Step(t) \/ ProviderError(t)
  \/ \E r \in Readers : Crash(r)

\* A capture that has been started goes on, and while the run of a session
\* waits in its window the scheduler invokes it again.
Fairness ==
  \A t \in Sessions : WF_vars(Step(t)) /\ WF_vars(Start(t))

-----------------------------------------------------------------------------
(* What must hold *)

\* The histories some member's verdict rests on: those of a member that declares
\* none are fetched along with the others, but may stop short.
Relied ==
  UNION { Universe[m] \cup {Benchmark} : m \in { n \in Members : "history" \in needs[n] } }

\* No cohort decides on a bar that is not the session's settled one: whenever a
\* member has executed, every history some member needs ends exactly at the
\* session, in the provider's settled bar or in one derived from complete
\* five-minute bars, whatever the tools put into the shared cache while the
\* session was open or the next one already is ("a pre-close response is not
\* end-of-day evidence").
DecidesOnSettledBars ==
  \A t \in Sessions : status[t] = "executed" =>
    \A s \in Relied : \E b \in bound[t] :
      b[1] = s /\ b[2].through = t /\ b[2].how \in {"settled", "derived"}

\* Everything the session needs is there to be had.
Provided(t) ==
  /\ \A s \in Histories : published[s] >= t
  /\ \A m \in Members : "filings" \in needs[m] => filed

\* Waiting is what resolves a wait: while its window lasts, a session whose data
\* has appeared is executed, or failed when it can never be, and no payload
\* cached before keeps the cohort waiting.
WaitingResolves ==
  \A t \in Sessions :
    (InWindow(t) /\ Provided(t)) ~> (status[t] # "waiting" \/ ~ InWindow(t))

=============================================================================
