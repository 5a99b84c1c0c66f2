------------------------------ MODULE ReplayLab ------------------------------
(***************************************************************************)
(* The historical replay laboratory: "replay_download download" processes  *)
(* (historical_replay_acquire.acquire) ask the provider for five-minute    *)
(* bars, one (symbol, session) after the other, classify what they get     *)
(* (historical_replay.validate_replay_session) and put it into a log of    *)
(* revisions (storage/historical_replay.py).  A transaction of the store   *)
(* is a read and a later write, which a primary key may refuse.            *)
(*                                                                         *)
(* A payload is a sequence of candles [zoned, slot, bar]: slot is one of   *)
(* the intervals 1..Slots or 0 for an instant outside the session, and     *)
(* bar names the prices, "partial" when one is missing.                    *)
(***************************************************************************)
EXTENDS Naturals, Sequences, FiniteSets

CONSTANTS
  Downloaders,  \* processes
  Slots,        \* the intervals of a session
  Payloads,     \* what the provider may answer
  Errors,       \* the sanitized names of the provider's failures
  Universes,    \* universe -> the (symbol, session) pairs it plans, 1..n
  MaxRevision,  \* bound: revisions of one pair
  MaxDownloads  \* bound: downloads begun

ReplayAssumption ==
  /\ Slots \in Nat \ {0} /\ MaxRevision \in Nat /\ MaxDownloads \in Nat
  /\ \A p \in Payloads :
       p \in Seq([zoned : BOOLEAN, slot : 0..Slots,
                 bar : {"a", "b", "invalid", "negative", "partial"}])
  /\ "none" \notin Errors
  /\ \A u \in DOMAIN Universes : Universes[u] # {} /\ Universes[u] \subseteq Nat

Pairs == UNION { Universes[u] : u \in DOMAIN Universes }

VARIABLES
  registered,  \* rows of historical_replay_universes
  evidences,   \* rows of historical_replay_sessions, with their bars
  log,         \* per pair: historical_replay_observations by revision
  download,    \* per process: its place and its locals
  reports,     \* per process: what its last download told the operator
  downloads    \* downloads begun

vars == << registered, evidences, log, download, reports, downloads >>

-----------------------------------------------------------------------------
(* validate_replay_session *)

Intervals == 1..Slots

At(p, s) == { i \in DOMAIN p : p[i].zoned /\ p[i].slot = s }

Whole(p, s) == { i \in At(p, s) : p[i].bar # "partial" }

\* The first complete candle of an interval is its bar.
Bars(p) ==
  [s \in Intervals |->
     IF Whole(p, s) = {} THEN "none"
     ELSE p[CHOOSE i \in Whole(p, s) : \A j \in Whole(p, s) : i <= j].bar]

Issues(p) ==
  LET bars == Bars(p)
      missing == { s \in Intervals : bars[s] = "none" }
  IN
  { name \in {"empty_payload"} : p = << >> }
  \union { name \in {"invalid_timestamp"} : \E i \in DOMAIN p : ~p[i].zoned }
  \union { name \in {"missing_opening_bar"} : 1 \in missing }
  \union { name \in {"missing_final_bar"} : Slots \in missing }
  \union { name \in {"interior_gap"} : missing \ {1, Slots} # {} }
  \union { name \in {"duplicate_timestamp"} : \E s \in Intervals : Cardinality(At(p, s)) > 1 }
  \union { name \in {"conflicting_duplicate"} :
             \E s \in Intervals : \E i, j \in Whole(p, s) : p[i].bar # p[j].bar }
  \union { name \in {"out_of_session_bar"} : At(p, 0) # {} }
  \union { name \in {"invalid_ohlc"} :
             \E s \in Intervals : bars[s] = "invalid" \/ (s \in missing /\ At(p, s) # {}) }
  \union { name \in {"negative_volume"} : \E s \in Intervals : bars[s] = "negative" }

\* Mutation of BenignIssues: the first of two conflicting bars is good enough.
BenignDuplicates == {"duplicate_timestamp", "conflicting_duplicate"}

BenignIssues == {"duplicate_timestamp"}

\* The identity of an evidence: its status and its bars, or the error.
Identity(status, bars, error) == [status |-> status, bars |-> bars, error |-> error]

Unavailable(error) ==
  [id |-> Identity("unavailable", [s \in Intervals |-> "none"], error),
   issues |-> {"provider_error"}, raw |-> << >>]

Validated(p) ==
  [id |-> Identity(IF Issues(p) \subseteq BenignIssues THEN "complete" ELSE "incomplete",
                   Bars(p), "none"),
   issues |-> Issues(p), raw |-> p]

-----------------------------------------------------------------------------

NoDownload ==
  [at |-> "idle", universe |-> "none", left |-> {}, found |-> FALSE, have |-> Unavailable("none"),
   latest |-> 0, known |-> FALSE]

Init ==
  /\ registered = {}
  /\ evidences = {}
  /\ log = [x \in Pairs |-> << >>]
  /\ download = [d \in Downloaders |-> NoDownload]
  /\ reports = [d \in Downloaders |-> {}]
  /\ downloads = 0

\* acquire: the confirmed plan, and the first read of register_universe.
Begin(d) ==
  /\ download[d].at = "idle"
  /\ downloads < MaxDownloads
  /\ downloads' = downloads + 1
  /\ \E u \in DOMAIN Universes :
       download' = [download EXCEPT ![d] =
         [NoDownload EXCEPT !.at = "register", !.universe = u, !.left = Universes[u],
                            !.found = u \in registered]]
  /\ reports' = [reports EXCEPT ![d] = {}]
  /\ UNCHANGED << registered, evidences, log >>

\* A unique key refuses the write: the transaction rolls back and acquire raises.
Refused(d) ==
  /\ download' = [download EXCEPT ![d] = NoDownload]
  /\ UNCHANGED << registered, evidences, log, reports, downloads >>

Register(d) ==
  LET u == download[d].universe IN
  /\ download[d].at = "register"
  /\ IF ~download[d].found /\ u \in registered
     THEN Refused(d)
     ELSE /\ registered' = registered \union {u}
          /\ download' = [download EXCEPT ![d].at = "retrieve"]
          /\ UNCHANGED << evidences, log, reports, downloads >>

\* The sessions and symbols are taken in order.
Current(d) == CHOOSE x \in download[d].left : \A y \in download[d].left : x <= y

\* _retrieve: a failure of the provider is evidence too.
Retrieve(d) ==
  /\ download[d].at = "retrieve"
  /\ \E e \in { Validated(p) : p \in Payloads } \union { Unavailable(error) : error \in Errors } :
       download' = [download EXCEPT ![d].at = "read", ![d].have = e]
  /\ UNCHANGED << registered, evidences, log, reports, downloads >>

\* ingest, first half: the newest revision, and whether this content is on record.
Read(d) ==
  LET x == Current(d) IN
  /\ download[d].at = "read"
  /\ Len(log[x]) < MaxRevision
  /\ download' = [download EXCEPT
       ![d].at = "write", ![d].latest = Len(log[x]),
       ![d].known = \E row \in evidences : row.pair = x /\ row.id = download[d].have.id]
  /\ UNCHANGED << registered, evidences, log, reports, downloads >>

Told(d, outcome, revision) ==
  /\ reports' = [reports EXCEPT ![d] = @ \union
       {[pair |-> Current(d), id |-> download[d].have.id, outcome |-> outcome, revision |-> revision]}]
  /\ LET left == download[d].left \ {Current(d)} IN
     download' = [download EXCEPT ![d] =
       IF left = {} THEN NoDownload
       ELSE [NoDownload EXCEPT !.at = "retrieve", !.universe = download[d].universe, !.left = left]]

\* The revision that was the newest when it was read
Previous(d) == log[Current(d)][download[d].latest].id

Same(d) == download[d].latest > 0 /\ Previous(d) = download[d].have.id

Unchanged(d) ==
  /\ download[d].at = "write"
  /\ Same(d)
  /\ Told(d, "unchanged", download[d].latest)
  /\ UNCHANGED << registered, evidences, log, downloads >>

\* Mutation of Collides: the row is put in place of the one that came first.
CollidesNever(d) == FALSE

\* Another process has inserted the revision, or the content, since the read; or a bar's
\* volume breaks the check of its table.
Collides(d) ==
  LET x == Current(d) IN
  \/ Len(log[x]) > download[d].latest
  \/ ~download[d].known /\ \E row \in evidences : row.pair = x /\ row.id = download[d].have.id
  \/ ~download[d].known /\ \E s \in Intervals : download[d].have.id.bars[s] = "negative"

Write(d) ==
  LET x == Current(d)
      have == download[d].have
      first == download[d].latest = 0
      outcome == IF first THEN "recorded" ELSE "corrected"
  IN
  /\ download[d].at = "write"
  /\ ~Same(d)
  /\ IF Collides(d)
     THEN Refused(d)
     ELSE /\ evidences' = IF download[d].known THEN evidences
                          ELSE evidences \union
                                 {[pair |-> x, universe |-> download[d].universe, id |-> have.id,
                                   issues |-> have.issues, raw |-> have.raw]}
          /\ log' = [log EXCEPT ![x] = SubSeq(@, 1, download[d].latest) \o
               << [id |-> have.id, outcome |-> outcome,
                   previous |-> IF first THEN {} ELSE {Previous(d)}] >>]
          /\ Told(d, outcome, download[d].latest + 1)
          /\ UNCHANGED << registered, downloads >>

Crash(d) ==
  /\ download[d].at # "idle"
  /\ download' = [download EXCEPT ![d] = NoDownload]
  /\ UNCHANGED << registered, evidences, log, reports, downloads >>

Next ==
  \E d \in Downloaders :
    Begin(d) \/ Register(d) \/ Retrieve(d) \/ Read(d) \/ Unchanged(d) \/ Write(d) \/ Crash(d)

Spec == Init /\ [][Next]_vars

-----------------------------------------------------------------------------
(* What must hold *)

\* What a complete session is: every interval has a candle, complete candles of one
\* interval agree, and nothing else came.
Clean(p) ==
  /\ \A i \in DOMAIN p : p[i].zoned /\ p[i].slot # 0
  /\ \A s \in Intervals : \E bar \in {"a", "b"} :
       /\ Whole(p, s) # {}
       /\ \A i \in Whole(p, s) : p[i].bar = bar

\* However downloads collide, die and are repeated, a pair's revisions are a chain of
\* real corrections over registered content ("never an overwrite"), a report names
\* the revision that holds what it tells, and content counts as complete only if the
\* provider returned it whole and without contradiction.
ResearchIsSound ==
  /\ \A x \in Pairs : \A k \in DOMAIN log[x] :
       /\ \E row \in evidences : row.pair = x /\ row.id = log[x][k].id /\ row.universe \in registered
       /\ IF k = 1 THEN log[x][k].previous = {} /\ log[x][k].outcome = "recorded"
                   ELSE /\ log[x][k].previous = {log[x][k - 1].id}
                        /\ log[x][k].id # log[x][k - 1].id
                        /\ log[x][k].outcome = "corrected"
  /\ \A d \in Downloaders : \A told \in reports[d] :
       /\ told.revision \in DOMAIN log[told.pair]
       /\ log[told.pair][told.revision].id = told.id
       /\ told.outcome # "unchanged" => log[told.pair][told.revision].outcome = told.outcome
  /\ \A row \in evidences : row.id.status = "complete" <=> (row.id.error = "none" /\ Clean(row.raw))
  /\ \A row, other \in evidences : row.pair = other.pair /\ row.id = other.id => row = other

=============================================================================
