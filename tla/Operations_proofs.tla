-------------------------- MODULE Operations_proofs --------------------------
(***************************************************************************)
(* Theorems about the small protocols of MCOperations: one operator alert, *)
(* for any number of senders and attempts, with or without a channel, and  *)
(* whether or not a live send may outlast ambiguous_after; the data a      *)
(* cohort decides on, for any sessions, symbols, members, requirements and *)
(* faults; and the creation of a cohort, for any plans, any number of      *)
(* creations that take turns and anything that goes wrong in them.         *)
(***************************************************************************)
EXTENDS MCOperations, Sequences, FiniteSetTheorems, NaturalsInduction, WellFoundedInduction, TLAPS

-----------------------------------------------------------------------------
(* CohortAlerts: one operator alert *)

Sending == { p \in Senders : at[p] = "send" }

\* A record nobody has written is without attempts, and a process about to record
\* that the message is sent has sent it.
Witnessed ==
  /\ delivery = "absent" => attempts = 0
  /\ \A p \in Senders : channelLive /\ at[p] = "markSent" => Received > 0

AlertInv == TypeOK /\ Witnessed /\ RecordIsHonest

LEMMA SendingIs ==
  /\ \A S \in SUBSET Senders : IsFiniteSet(S) /\ Cardinality(S) \in Nat
  /\ Sending \in SUBSET Senders
BY AlertsAssumption, FS_Subset, FS_CardinalityType DEF Sending

LEMMA MoveIs ==
  ASSUME TypeOK, NEW p \in Senders, NEW label \in At, Move(p, label)
  PROVE  /\ at' \in [Senders -> At] /\ at'[p] = label
         /\ \A q \in Senders : q # p => at'[q] = at[q]
         /\ label = "send" => Sending' = Sending \union {p}
         /\ label # "send" => Sending' = Sending \ {p}
BY DEF TypeOK, Move, Sending

\* A sender that is done, or crashes, at most stops sending.
LEMMA DoneInv ==
  ASSUME AlertInv, NEW p \in Senders, Move(p, "idle"),
         UNCHANGED << config, attempts, marked, heard >>,
         delivery' \in {"absent", "pending", "sent", "failed"}, stale' \in BOOLEAN,
         delivery' = "absent" => delivery = "absent",
         delivery' = "sent" => delivery = "sent" \/ at[p] = "markSent"
  PROVE  AlertInv'
<1> "idle" \in At
  BY DEF At
<1>1. TypeOK'
  BY MoveIs DEF AlertInv, TypeOK, config, heard
<1>2. Witnessed'
  BY MoveIs DEF AlertInv, Witnessed, config, heard, Received
<1>3. Cardinality(Sending') <= Cardinality(Sending)
  <2>1. Sending' = Sending \ {p}
    BY MoveIs DEF AlertInv
  <2> QED BY <2>1, SendingIs, FS_Subset
<1>4. Cardinality(Sending) \in Nat /\ Cardinality(Sending') \in Nat
  BY SendingIs, MoveIs DEF AlertInv
<1>5. RecordIsHonest'
  <2>1. /\ Received' = Received /\ Received \in Nat /\ attempts' = attempts /\ channelLive' = channelLive
        /\ attempts \in Nat
    BY AlertsAssumption DEF Received, heard, config, AlertInv, TypeOK
  <2>2. Received + Cardinality(Sending) <= attempts /\ attempts <= MaxAttempts
    BY DEF AlertInv, RecordIsHonest, Sending
  <2>3. Received' + Cardinality(Sending') <= attempts'
    BY <1>3, <1>4, <2>1, <2>2
  <2>4. channelLive' /\ delivery' = "sent" => Received' > 0
    BY <2>1 DEF AlertInv, RecordIsHonest, Witnessed
  <2> QED BY <2>1, <2>2, <2>3, <2>4 DEF RecordIsHonest, Sending
<1> QED BY <1>1, <1>2, <1>5 DEF AlertInv

LEMMA AgeInv == AlertInv /\ Age => AlertInv'
BY DEF AlertInv, TypeOK, Witnessed, RecordIsHonest, Received, Age, config, heard

LEMMA ClaimInv == ASSUME AlertInv, NEW p \in Senders, Claim(p) PROVE AlertInv'
<1>1. PICK label \in {"send", "markSent"} :
        Move(p, label) /\ (label = "markSent" => ~channelLive)
  BY DEF Claim
<1>2. label \in At /\ at[p] = "idle" /\ delivery' = "pending" /\ stale' = FALSE
  BY DEF At, Claim, Write
<1>3. attempts' = attempts + 1 /\ attempts < MaxAttempts /\ attempts \in Nat /\ MaxAttempts \in Nat
  BY AlertsAssumption DEF Claim, Granted, FreshClaim, UncertainClaim, AlertInv, Witnessed, TypeOK
<1>4. channelLive' = channelLive /\ slow' = slow /\ plain' = plain /\ repeats' = repeats
  BY DEF Claim, config, heard
<1>5. TypeOK'
  <2>1. marked' \in [Senders -> BOOLEAN]
    <3> DEFINE uncertain == UncertainClaim
    <3>1. uncertain \in BOOLEAN
      BY DEF UncertainClaim
    <3>2. marked' = [marked EXCEPT ![p] = uncertain] /\ marked \in [Senders -> BOOLEAN]
      BY DEF Claim, AlertInv, TypeOK
    <3> HIDE DEF uncertain
    <3> QED BY <3>1, <3>2
  <2>2. stale' \in BOOLEAN
    BY <1>2
  <2>3. channelLive' \in BOOLEAN /\ slow' \in BOOLEAN
    BY <1>4 DEF AlertInv, TypeOK
  <2>4. /\ attempts' \in 0..MaxAttempts /\ delivery' \in {"absent", "pending", "sent", "failed"}
        /\ plain' \in 0..MaxAttempts /\ repeats' \in 0..MaxAttempts
    BY <1>2, <1>3, <1>4 DEF AlertInv, TypeOK
  <2>5. at' \in [Senders -> At]
    BY <1>1, <1>2, MoveIs DEF AlertInv
  <2> QED BY <2>1, <2>2, <2>3, <2>4, <2>5, Zenon DEF TypeOK
<1>6. Witnessed'
  BY <1>1, <1>2, <1>4, MoveIs DEF AlertInv, Witnessed, Received
<1>7. Cardinality(Sending') <= Cardinality(Sending) + 1
  <2>1. Sending' = Sending \union {p} \/ Sending' = Sending \ {p}
    BY <1>1, <1>2, MoveIs DEF AlertInv
  <2>2. IsFiniteSet(Sending) /\ Cardinality(Sending) \in Nat
    BY SendingIs
  <2>3. Cardinality(Sending \union {p}) <= Cardinality(Sending) + 1
    BY <2>2, FS_AddElement
  <2>4. Cardinality(Sending \ {p}) <= Cardinality(Sending) + 1
    <3>1. PICK n \in Nat : n = Cardinality(Sending)
      BY <2>2
    <3>2. Cardinality(Sending \ {p}) = IF p \in Sending THEN Cardinality(Sending) - 1 ELSE Cardinality(Sending)
      BY <2>2, FS_RemoveElement
    <3>3. Cardinality(Sending \ {p}) \in {n - 1, n}
      BY <3>1, <3>2
    <3> QED BY <3>1, <3>3
  <2> QED BY <2>1, <2>3, <2>4
<1>8. Received' + Cardinality(Sending') <= attempts'
  <2>1. Received' = Received /\ Received \in Nat
    BY <1>4 DEF Received, AlertInv, TypeOK
  <2>2. Cardinality(Sending) \in Nat /\ Cardinality(Sending') \in Nat
    BY SendingIs, <1>5 DEF Sending
  <2>3. Received + Cardinality(Sending) <= attempts
    BY DEF AlertInv, RecordIsHonest, Sending
  <2> QED BY <1>3, <1>7, <2>1, <2>2, <2>3
<1> QED BY <1>2, <1>3, <1>5, <1>6, <1>8 DEF AlertInv, RecordIsHonest, Sending

\* A message received took the place of one about to be sent.
LEMMA SendInv == ASSUME AlertInv, NEW p \in Senders, Send(p) \/ SendRaises(p) PROVE AlertInv'
<1>1. PICK label \in {"markSent", "markFailed"} :
        Move(p, label) /\ (label = "markSent" => Deliver(p)) /\ (UNCHANGED heard \/ Deliver(p))
  BY DEF Send, SendRaises
<1>2. label \in At /\ at[p] = "send"
  BY DEF At, Send, SendRaises
<1>3. UNCHANGED << channelLive, slow, delivery, attempts, stale, marked >>
  BY DEF Send, SendRaises, config, row
<1>4. /\ plain \in Nat /\ repeats \in Nat /\ attempts \in Nat /\ MaxAttempts \in Nat
      /\ Received = plain + repeats /\ attempts <= MaxAttempts
  BY AlertsAssumption DEF AlertInv, TypeOK, Received, RecordIsHonest
<1>5. /\ plain' \in Nat /\ repeats' \in Nat /\ Received' = plain' + repeats'
      /\ Received \in Nat /\ Received' \in Nat
      /\ Received' <= Received + 1 /\ (Deliver(p) => Received' > 0) /\ Received' >= Received
  BY <1>1, <1>4 DEF Deliver, heard, Received
<1>6. Cardinality(Sending') = Cardinality(Sending) - 1 /\ Cardinality(Sending) \in Nat
  <2>1. Sending' = Sending \ {p} /\ p \in Sending
    BY <1>1, <1>2, MoveIs DEF AlertInv, Sending
  <2> QED BY <2>1, SendingIs, FS_RemoveElement
<1>7. Cardinality(Sending') \in Nat
  <2>1. Sending' \in SUBSET Senders
    BY DEF Sending
  <2> QED BY <2>1, SendingIs
<1>8. Received + Cardinality(Sending) <= attempts
  BY DEF AlertInv, RecordIsHonest, Sending
<1>9. Received' + Cardinality(Sending') <= attempts'
  <2>1. PICK before \in Nat, after \in Nat, some \in Nat, fewer \in Nat :
          /\ before = Received /\ after = Received'
          /\ some = Cardinality(Sending) /\ fewer = Cardinality(Sending')
    BY <1>5, <1>6, <1>7
  <2>2. after <= before + 1
    BY <1>5, <2>1
  <2>3. fewer = some - 1
    BY <1>6, <2>1
  <2>4. before + some <= attempts
    BY <1>8, <2>1
  <2>5. after + fewer <= attempts
    BY <1>4, <2>2, <2>3, <2>4
  <2> QED BY <1>3, <2>1, <2>5
<1>10. TypeOK'
  <2>1. plain' <= MaxAttempts /\ repeats' <= MaxAttempts
    BY <1>3, <1>4, <1>5, <1>7, <1>9
  <2> QED BY <1>1, <1>2, <1>3, <1>5, <2>1, MoveIs DEF AlertInv, TypeOK
<1>11. Witnessed'
  <2>1. Received > 0 => Received' > 0
    <3>1. PICK before \in Nat, after \in Nat : before = Received /\ after = Received'
      BY <1>5
    <3>2. after >= before
      BY <1>5, <3>1
    <3>3. before > 0 => after > 0
      BY <3>2
    <3> QED BY <3>1, <3>3
  <2>2. \A q \in Senders : at'[q] = "markSent" => at[q] = "markSent" \/ Received' > 0
    BY <1>1, <1>2, <1>5, MoveIs DEF AlertInv
  <2> QED BY <1>3, <2>1, <2>2 DEF AlertInv, Witnessed
<1>12. channelLive' /\ delivery' = "sent" => Received' > 0
  <2>1. Received > 0 => Received' > 0
    <3>1. PICK before \in Nat, after \in Nat : before = Received /\ after = Received'
      BY <1>5
    <3>2. after >= before
      BY <1>5, <3>1
    <3>3. before > 0 => after > 0
      BY <3>2
    <3> QED BY <3>1, <3>3
  <2> QED BY <1>3, <2>1 DEF AlertInv, RecordIsHonest
<1> QED BY <1>3, <1>4, <1>9, <1>10, <1>11, <1>12 DEF AlertInv, RecordIsHonest, Sending

LEMMA FinishInv ==
  ASSUME AlertInv, NEW p \in Senders, MarkSent(p) \/ MarkFailed(p) \/ MarkLost(p) \/ Crash(p)
  PROVE  AlertInv'
BY DoneInv DEF MarkSent, MarkFailed, MarkLost, Crash, Write, row, AlertInv, TypeOK

LEMMA AlertInitInv == Init => AlertInv
<1> SUFFICES ASSUME Init PROVE AlertInv
  OBVIOUS
<1>1. Sending = {}
  BY DEF Init, Sending
<1>2. Cardinality(Sending) = 0
  BY <1>1, FS_EmptySet
<1>3. TypeOK
  <2>1. at \in [Senders -> At]
    BY DEF Init, At
  <2>2. marked \in [Senders -> BOOLEAN]
    BY Zenon DEF Init
  <2>3. channelLive \in BOOLEAN /\ slow \in BOOLEAN /\ stale \in BOOLEAN
    BY Zenon DEF Init
  <2>4. /\ attempts \in 0..MaxAttempts /\ delivery \in {"absent", "pending", "sent", "failed"}
        /\ plain \in 0..MaxAttempts /\ repeats \in 0..MaxAttempts
    BY AlertsAssumption DEF Init
  <2> QED BY <2>1, <2>2, <2>3, <2>4, Zenon DEF TypeOK
<1>4. Witnessed
  BY DEF Init, Witnessed
<1>5. RecordIsHonest
  <2>1. Received = 0 /\ attempts = 0 /\ delivery # "sent"
    BY DEF Init, Received
  <2> QED BY <1>2, <2>1, AlertsAssumption DEF RecordIsHonest, Sending
<1> QED BY <1>3, <1>4, <1>5 DEF AlertInv

LEMMA AlertStepInv == AlertInv /\ [Next]_vars => AlertInv'
<1> SUFFICES ASSUME AlertInv, [Next]_vars PROVE AlertInv'
  OBVIOUS
<1>1. CASE UNCHANGED vars
  BY <1>1 DEF vars, config, row, heard, AlertInv, TypeOK, Witnessed, RecordIsHonest, Received
<1>2. ASSUME NEW p \in Senders,
             Emit(p) \/ Denied(p) \/ SendRaises(p) \/ MarkFailed(p) \/ MarkLost(p) \/ Crash(p)
      PROVE  AlertInv'
  BY <1>1, <1>2, ClaimInv, SendInv, FinishInv DEF Emit, Denied
<1> QED BY <1>1, <1>2, AgeInv DEF Next

-----------------------------------------------------------------------------
(* Theorems *)

THEOREM AlertInvariance == Spec => []AlertInv
BY AlertInitInv, AlertStepInv, PTL DEF Spec

\* The record keeps its type, and no more messages arrive than attempts are allowed.
THEOREM AlertTypeCorrect == Spec => []TypeOK
<1>1. AlertInv => TypeOK
  BY DEF AlertInv
<1> QED BY <1>1, AlertInvariance, PTL

\* An alert recorded as sent was received, and every message has used up an attempt
\* of its own, however many processes race to deliver it and wherever they die.
THEOREM TheRecordIsHonest == Spec => []RecordIsHonest
<1>1. AlertInv => RecordIsHonest
  BY DEF AlertInv
<1> QED BY <1>1, AlertInvariance, PTL

-----------------------------------------------------------------------------
(* CohortPreflight: the data a cohort decides on *)

\* A payload that passes for settled evidence of a session has settled it.
Sound(c) == \A t \in Data!Sessions : Data!IsSettledEvidence(c, t) => c.settled >= t

\* A bar as an official capture comes by it: the session's own, settled or derived,
\* or one that is known to stop short, or none.
Honest(bar, t) ==
  \/ bar.how \in {"settled", "derived"} /\ bar.through = t
  \/ bar.how = "short" /\ bar.through < t
  \/ bar.how = "error"

\* What a decision on session t rests on
Reliable(bars, t) ==
  \A s \in Data!Relied : \E b \in bars :
    b[1] = s /\ b[2].through = t /\ b[2].how \in {"settled", "derived"}

\* No series holds a session before its close.
Timely == \A s \in Symbols : 2 * published[s] <= now

Cached == \A s \in Symbols : Sound(cache[s])

\* What a reader is about to store is sound; an official one works only after the
\* close, while its run waits, and what it holds of its session is settled.
Holding ==
  \A r \in Data!Readers :
    /\ capture[r].at = "store" => Sound(capture[r].held) /\ capture[r].left # {}
    /\ r # Data!Tool /\ capture[r].at = "store" =>
         (capture[r].held.last >= r => capture[r].held.settled >= r)
    /\ r # Data!Tool /\ capture[r].at = "minutes" => capture[r].held.last < r /\ capture[r].left # {}

\* A capture in progress has an honest bar of each symbol it is done with, and what
\* has been decided rests on reliable ones.
Going(t) ==
  /\ capture[t].at # "idle" => Data!Closed(t) /\ status[t] = "waiting"
  /\ \A b \in capture[t].bars : Honest(b[2], t)
  /\ capture[t].at \in {"look", "store", "minutes"} =>
       \A s \in Data!Histories \ capture[t].left : \E b \in capture[t].bars : b[1] = s
  /\ capture[t].at = "bound" \/ status[t] = "executed" => Reliable(bound[t], t)

Gathered == \A t \in Data!Sessions : Going(t)

DataInv == Data!TypeOK /\ Timely /\ Cached /\ Holding /\ Gathered

Captures ==
  [at : Data!At, left : SUBSET Symbols, held : Data!Payload, bars : SUBSET (Symbols \X Data!Bar)]

LEMMA DataFacts ==
  /\ Last \in Nat \ {0} /\ MaxFaults \in Nat /\ Data!Sessions = 1..Last
  /\ Data!Readers = 0..Last /\ Data!Tool = 0
  /\ Data!NoPayload \in Data!Payload /\ Sound(Data!NoPayload)
  /\ Data!Idle \in Captures
BY DataAssumption DEF Data!PreflightAssumption, Data!Sessions, Data!Readers, Data!Tool, Data!NoPayload,
   Data!Payload, Sound, Data!IsSettledEvidence, Data!Idle, Captures, Data!At

LEMMA HistoriesAre ==
  ASSUME Data!TypeOK
  PROVE  Data!Histories \in SUBSET Symbols /\ Data!Relied \subseteq Data!Histories
<1>1. Benchmark \in Symbols /\ \A m \in Members : Universe[m] \in SUBSET Symbols
  BY DataAssumption DEF Data!PreflightAssumption
<1>2. Data!Histories \in SUBSET Symbols
  BY <1>1 DEF Data!Histories
<1>3. ASSUME NEW s \in Data!Relied PROVE s \in Data!Histories
  <2>1. PICK m \in Members : "history" \in needs[m] /\ s \in Universe[m] \cup {Benchmark}
    BY <1>3 DEF Data!Relied
  <2>2. Data!Histories = (UNION { Universe[n] : n \in Members }) \cup {Benchmark}
    BY <2>1 DEF Data!Histories
  <2> QED BY <2>1, <2>2
<1> QED BY <1>2, <1>3

\* The provider's answer is sound whenever it was asked for, and of a closed session
\* it holds nothing that is not settled.
LEMMA AnswerIsSound ==
  ASSUME DataInv, NEW s \in Symbols, NEW forming \in BOOLEAN,
         NEW stamp \in {now \div 2, (now - 1) \div 2},
         forming => now = 2 * published[s] + 1 /\ published[s] < Last,
         NEW c, c = [stamp |-> stamp, settled |-> published[s],
                     last |-> IF forming THEN published[s] + 1 ELSE published[s]]
  PROVE  /\ c \in Data!Payload /\ Sound(c)
         /\ \A t \in Data!Sessions : Data!Closed(t) /\ c.last >= t => c.settled >= t
<1>1. /\ now \in 1..(2 * Last) /\ published[s] \in 0..Last /\ 2 * published[s] <= now
      /\ Last \in Nat
  BY DataFacts DEF DataInv, Timely, Data!TypeOK
<1>2. stamp \in 0..Last /\ 2 * stamp <= now
  BY <1>1
<1>3. c \in Data!Payload
  BY <1>1, <1>2 DEF Data!Payload
<1>4. \A t \in Data!Sessions : c.last >= t /\ (c.stamp >= t \/ now >= 2 * t) => c.settled >= t
  BY <1>1, <1>2, DataFacts
<1> QED BY <1>3, <1>4 DEF Sound, Data!IsSettledEvidence, Data!Closed

-----------------------------------------------------------------------------
\* A step of reader r that leaves the world alone and gives it record c
LEMMA CaptureInv ==
  ASSUME DataInv, NEW r \in Data!Readers, NEW c \in Captures,
         UNCHANGED << Data!world, status, bound >>,
         capture' = [capture EXCEPT ![r] = c],
         faults' \in 0..MaxFaults,
         cache' \in [Symbols -> Data!Payload], Cached',
         c.at = "store" => Sound(c.held) /\ c.left # {},
         r # 0 /\ c.at = "store" => (c.held.last >= r => c.held.settled >= r),
         r # 0 /\ c.at = "minutes" => c.held.last < r /\ c.left # {},
         r # 0 /\ c.at # "idle" => Data!Closed(r) /\ status[r] = "waiting",
         r # 0 => \A b \in c.bars : Honest(b[2], r),
         r # 0 /\ c.at \in {"look", "store", "minutes"} =>
           \A s \in Data!Histories \ c.left : \E b \in c.bars : b[1] = s,
         r # 0 => c.at # "bound"
  PROVE  DataInv'
<1>1. capture \in [Data!Readers -> Captures]
  BY DEF DataInv, Data!TypeOK, Captures
<1>2. capture'[r] = c /\ \A q \in Data!Readers : q # r => capture'[q] = capture[q]
  BY <1>1
<1>3. Data!TypeOK'
  <2>1. capture' \in [Data!Readers -> Captures]
    BY <1>1
  <2> QED BY <2>1 DEF DataInv, Data!TypeOK, Data!world, Captures
<1>4. Timely' /\ (Data!Histories)' = Data!Histories /\ (Data!Relied)' = Data!Relied
  BY DEF DataInv, Timely, Data!world, Data!Histories, Data!Relied
<1>5. Holding'
  BY <1>2, DataFacts DEF DataInv, Holding
<1>6. ASSUME NEW t \in Data!Sessions PROVE Going(t)'
  <2>1. PICK H : H = Data!Histories /\ H = (Data!Histories)'
    BY <1>4
  <2>2. Data!Closed(t)' = Data!Closed(t) /\ status' = status /\ bound' = bound
    BY DEF Data!Closed, Data!world
  <2>3. Reliable(bound[t], t)' <=> Reliable(bound[t], t)
    BY <1>4, <2>2 DEF Reliable
  <2>4. t \in Data!Readers /\ t # 0 /\ Going(t)
    BY DataFacts DEF DataInv, Gathered
  <2>5. CASE t = r
    BY <1>2, <2>1, <2>2, <2>3, <2>4, <2>5 DEF Going
  <2>6. CASE t # r
    BY <1>2, <2>1, <2>2, <2>3, <2>4, <2>6 DEF Going
  <2> QED BY <2>5, <2>6
<1> QED BY <1>3, <1>4, <1>5, <1>6 DEF DataInv, Gathered

LEMMA CurrentIs ==
  ASSUME NEW r, capture[r].left # {}
  PROVE  Data!Current(r) \in capture[r].left
BY DEF Data!Current

\* What a reader's record looks like, to take it apart
LEMMA RecordIs ==
  ASSUME DataInv, NEW r \in Data!Readers
  PROVE  /\ capture[r] \in Captures
         /\ capture[r].at \in Data!At /\ capture[r].left \in SUBSET Symbols
         /\ capture[r].held \in Data!Payload /\ capture[r].bars \in SUBSET (Symbols \X Data!Bar)
         /\ cache \in [Symbols -> Data!Payload] /\ faults \in 0..MaxFaults
BY DEF DataInv, Data!TypeOK, Captures

\* A capture that gains an honest bar for its current symbol goes on.
LEMMA AdvanceInv ==
  ASSUME DataInv, NEW t \in Data!Sessions, NEW bar \in Data!Bar, Honest(bar, t),
         capture[t].at \in {"look", "store", "minutes"}, capture[t].left # {},
         Data!Advance(t, bar), UNCHANGED << Data!world, status, bound >>,
         faults' \in 0..MaxFaults, cache' \in [Symbols -> Data!Payload], Cached'
  PROVE  DataInv'
<1> DEFINE x == Data!Current(t)
           c == [at |-> "look", left |-> capture[t].left \ {x}, held |-> Data!NoPayload,
                 bars |-> capture[t].bars \cup {<< x, bar >>}]
<1>1. t \in Data!Readers /\ t # 0
  BY DataFacts
<1>2. x \in capture[t].left /\ x \in Symbols
  BY <1>1, CurrentIs, RecordIs
<1>3. c \in Captures
  BY <1>1, <1>2, RecordIs, DataFacts DEF Captures, Data!At
<1>4. capture' = [capture EXCEPT ![t] = c]
  BY DEF Data!Advance
<1>5. Going(t)
  BY DEF DataInv, Gathered
<1>6. \A b \in c.bars : Honest(b[2], t)
  BY <1>5 DEF Going
<1>7. \A s \in Data!Histories \ c.left : \E b \in c.bars : b[1] = s
  <2> SUFFICES ASSUME NEW s \in Data!Histories \ c.left PROVE \E b \in c.bars : b[1] = s
    OBVIOUS
  <2>1. CASE s = x
    <3>1. << x, bar >> \in c.bars
      OBVIOUS
    <3> QED BY <2>1, <3>1
  <2>2. CASE s # x
    BY <1>5, <2>2 DEF Going
  <2> QED BY <2>1, <2>2
<1>8. Data!Closed(t) /\ status[t] = "waiting"
  BY <1>5 DEF Going
<1>9. c.at = "look"
  OBVIOUS
<1> HIDE DEF c
<1> QED BY <1>1, <1>3, <1>4, <1>6, <1>7, <1>8, <1>9, CaptureInv

\* A reader that stops has nothing in its hands.
LEMMA RestInv ==
  ASSUME DataInv, NEW r \in Data!Readers, capture' = [capture EXCEPT ![r] = Data!Idle],
         UNCHANGED << Data!world, status, bound >>,
         faults' \in 0..MaxFaults, cache' \in [Symbols -> Data!Payload], Cached'
  PROVE  DataInv'
<1>1. Data!Idle \in Captures /\ Data!Idle.at = "idle" /\ Data!Idle.bars = {}
  BY DataFacts DEF Data!Idle
<1> QED BY <1>1, CaptureInv

\* A series is taken for what it is.
LEMMA ResolveInv ==
  ASSUME DataInv, NEW r \in Data!Readers, NEW c \in Data!Payload,
         r # 0 => (c.last >= r => c.settled >= r),
         capture[r].at \in {"look", "store"}, capture[r].left # {},
         Data!Resolve(r, c), UNCHANGED << Data!world, status, bound >>,
         faults' \in 0..MaxFaults, cache' \in [Symbols -> Data!Payload], Cached'
  PROVE  DataInv'
<1>1. CASE r = 0
  BY <1>1, RestInv, DataFacts DEF Data!Resolve
<1>2. CASE r # 0 /\ c.last >= r
  <2> DEFINE bar == [through |-> r, how |-> IF r <= c.settled THEN "settled" ELSE "forming"]
  <2>1. r \in Data!Sessions /\ r \in 0..Last
    BY <1>2, DataFacts
  <2>2. bar = [through |-> r, how |-> "settled"]
    BY <1>2, <2>1, DataFacts DEF Data!Payload
  <2>3. bar \in Data!Bar /\ Honest(bar, r)
    BY <2>1, <2>2 DEF Data!Bar, Honest
  <2>4. Data!Advance(r, bar)
    BY <1>2, DataFacts DEF Data!Resolve
  <2> HIDE DEF bar
  <2> QED BY <2>1, <2>3, <2>4, AdvanceInv
<1>3. CASE r # 0 /\ ~(c.last >= r)
  <2> DEFINE held == [Data!NoPayload EXCEPT !.last = c.last]
             d == [capture[r] EXCEPT !.at = "minutes", !.held = held]
  <2>1. r \in Data!Sessions /\ capture[r] \in Captures /\ capture \in [Data!Readers -> Captures]
    BY <1>3, DataFacts, RecordIs DEF DataInv, Data!TypeOK, Captures
  <2>2. held \in Data!Payload /\ held.last < r
    BY <1>3, DataFacts DEF Data!Payload, Data!NoPayload
  <2> HIDE DEF held
  <2>3. /\ d \in Captures /\ d.at = "minutes" /\ d.left = capture[r].left
        /\ d.held = held /\ d.bars = capture[r].bars
    BY <2>1, <2>2 DEF Captures, Data!At
  <2>4. capture' = [capture EXCEPT ![r] = d]
    BY <1>3, <2>1, DataFacts DEF Data!Resolve, held
  <2>5. Going(r)
    BY <2>1 DEF DataInv, Gathered
  <2> HIDE DEF d
  <2> QED BY <1>3, <2>2, <2>3, <2>4, <2>5, CaptureInv DEF Going
<1> QED BY <1>1, <1>2, <1>3

\* The provider's answer is taken as it came.
LEMMA AnswerInv ==
  ASSUME DataInv, NEW r \in Data!Readers, NEW s \in Symbols, Data!Answer(r, s),
         r # 0 => capture[r].at = "look" /\ s \in capture[r].left,
         UNCHANGED << Data!world, cache, bound, status, faults >>
  PROVE  DataInv'
<1>1. PICK forming \in BOOLEAN, stamp \in {now \div 2, (now - 1) \div 2} :
        /\ forming => now = 2 * published[s] + 1 /\ published[s] < Last
        /\ capture' = [capture EXCEPT
             ![r].at = "store", ![r].left = @ \cup {s},
             ![r].held = [stamp |-> stamp, settled |-> published[s],
                          last |-> IF forming THEN published[s] + 1 ELSE published[s]]]
  BY DEF Data!Answer
<1> DEFINE c == [stamp |-> stamp, settled |-> published[s],
                 last |-> IF forming THEN published[s] + 1 ELSE published[s]]
           d == [capture[r] EXCEPT !.at = "store", !.left = @ \cup {s}, !.held = c]
<1>2. c \in Data!Payload /\ Sound(c) /\ \A t \in Data!Sessions : Data!Closed(t) /\ c.last >= t => c.settled >= t
  BY <1>1, AnswerIsSound
<1>3. capture' = [capture EXCEPT ![r] = d]
  <2>1. capture \in [Data!Readers -> Captures]
    BY DEF DataInv, Data!TypeOK, Captures
  <2> HIDE DEF c
  <2>2. capture' = [capture EXCEPT ![r].at = "store", ![r].left = @ \cup {s}, ![r].held = c]
    BY <1>1 DEF c
  <2> QED BY <2>1, <2>2 DEF Captures
<1> HIDE DEF c
<1>4. /\ d \in Captures /\ d.at = "store" /\ d.left = capture[r].left \cup {s}
      /\ d.held = c /\ d.bars = capture[r].bars
  BY <1>2, RecordIs DEF Captures, Data!At
<1>5. r # 0 => r \in Data!Sessions /\ Going(r)
  BY DataFacts DEF DataInv, Gathered
<1>6. r # 0 => Data!Closed(r) /\ status[r] = "waiting" /\ (c.last >= r => c.settled >= r)
  BY <1>2, <1>5 DEF Going
<1>7. /\ cache' \in [Symbols -> Data!Payload] /\ Cached' /\ faults' \in 0..MaxFaults
  BY RecordIs DEF DataInv, Cached
<1> HIDE DEF d
<1> QED BY <1>2, <1>3, <1>4, <1>5, <1>6, <1>7, CaptureInv DEF Going

-----------------------------------------------------------------------------
\* The clock, the provider, the import of filings
LEMMA WorldInv ==
  ASSUME DataInv, Data!Tick \/ Data!ImportFilings \/ \E s \in Symbols : Data!Publish(s)
  PROVE  DataInv'
<1>1. /\ now \in 1..(2 * Last) /\ published \in [Symbols -> 0..Last] /\ Last \in Nat \ {0}
  BY DataFacts DEF DataInv, Data!TypeOK
<1>2. UNCHANGED << needs, cache, capture, bound, status, faults >>
  BY DEF Data!Tick, Data!ImportFilings, Data!Publish
<1>3. /\ now' \in 1..(2 * Last) /\ now' >= now /\ filed' \in BOOLEAN
      /\ published' \in [Symbols -> 0..Last] /\ \A s \in Symbols : 2 * published'[s] <= now'
  <2>1. CASE Data!Tick
    BY <1>1, <2>1 DEF Data!Tick, DataInv, Timely, Data!TypeOK
  <2>2. CASE Data!ImportFilings
    BY <1>1, <2>2 DEF Data!ImportFilings, DataInv, Timely
  <2>3. ASSUME NEW s \in Symbols, Data!Publish(s)
        PROVE  /\ now' = now /\ filed' = filed
               /\ published' \in [Symbols -> 0..Last] /\ \A q \in Symbols : 2 * published'[q] <= now'
    BY <1>1, <2>3 DEF Data!Publish, Data!Closed, DataInv, Timely
  <2> QED BY <1>1, <2>1, <2>2, <2>3 DEF DataInv, Data!TypeOK
<1>4. Data!TypeOK'
  BY <1>2, <1>3 DEF DataInv, Data!TypeOK
<1>5. Timely' /\ Cached' /\ Holding'
  BY <1>2, <1>3 DEF DataInv, Timely, Cached, Holding
<1>6. ASSUME NEW t \in Data!Sessions PROVE Going(t)'
  <2>1. PICK H : H = Data!Histories /\ H = (Data!Histories)'
    BY <1>2 DEF Data!Histories
  <2>2. Data!Closed(t) => Data!Closed(t)'
    BY <1>1, <1>3, DataFacts DEF Data!Closed
  <2>3. Reliable(bound[t], t)' <=> Reliable(bound[t], t)
    BY <1>2 DEF Reliable, Data!Relied
  <2>4. Going(t)
    BY DEF DataInv, Gathered
  <2> QED BY <1>2, <2>1, <2>2, <2>3, <2>4 DEF Going
<1> QED BY <1>4, <1>5, <1>6 DEF DataInv, Gathered

LEMMA StartInv == ASSUME DataInv, NEW t \in Data!Sessions, Data!Start(t) PROVE DataInv'
<1> DEFINE c == [Data!Idle EXCEPT !.at = "look", !.left = Data!Histories]
<1>1. Data!Histories \in SUBSET Symbols /\ t \in Data!Readers
  BY HistoriesAre, DataFacts DEF DataInv
<1>2. /\ c \in Captures /\ c.at = "look" /\ c.left = Data!Histories /\ c.bars = {}
  BY <1>1, DataFacts DEF Data!Idle, Captures, Data!At
<1>3. /\ capture' = [capture EXCEPT ![t] = c] /\ status[t] = "waiting" /\ Data!Closed(t)
      /\ UNCHANGED << Data!world, cache, bound, status, faults >>
  BY DEF Data!Start, Data!InWindow
<1>4. cache' \in [Symbols -> Data!Payload] /\ Cached' /\ faults' \in 0..MaxFaults
  BY <1>1, <1>3, RecordIs DEF DataInv, Cached
<1> HIDE DEF c
<1> QED BY <1>1, <1>2, <1>3, <1>4, CaptureInv

LEMMA ToolAsksInv == ASSUME DataInv, Data!ToolAsks PROVE DataInv'
<1>1. PICK s \in Symbols : Data!Answer(Data!Tool, s)
  BY HistoriesAre DEF Data!ToolAsks, DataInv
<1> QED BY <1>1, AnswerInv, DataFacts DEF Data!ToolAsks

LEMMA LookInv == ASSUME DataInv, NEW t \in Data!Sessions, Data!Look(t) PROVE DataInv'
<1>1. /\ t \in Data!Readers /\ t # 0 /\ Data!Current(t) \in capture[t].left /\ Data!Current(t) \in Symbols
      /\ capture[t].at = "look" /\ capture[t].left # {}
      /\ UNCHANGED << Data!world, cache, bound, status, faults >>
  BY DataFacts, CurrentIs, RecordIs DEF Data!Look
<1>2. cache' \in [Symbols -> Data!Payload] /\ Cached' /\ faults' \in 0..MaxFaults
  BY <1>1, RecordIs DEF DataInv, Cached
<1>3. CASE Data!IsSettledEvidence(cache[Data!Current(t)], t)
  <2>1. PICK c : c = cache[Data!Current(t)]
    OBVIOUS
  <2>2. c \in Data!Payload /\ c.settled >= t /\ Data!Resolve(t, c)
    BY <1>1, <1>3, <2>1, RecordIs DEF DataInv, Cached, Sound, Data!Look
  <2> QED BY <1>1, <1>2, <2>2, ResolveInv
<1>4. CASE ~Data!IsSettledEvidence(cache[Data!Current(t)], t)
  BY <1>1, <1>4, AnswerInv DEF Data!Look
<1> QED BY <1>3, <1>4

LEMMA StoreInv == ASSUME DataInv, NEW r \in Data!Readers, Data!Store(r) PROVE DataInv'
<1>1. PICK c : c = capture[r].held
  OBVIOUS
<1>2. /\ c \in Data!Payload /\ Sound(c) /\ capture[r].at = "store" /\ capture[r].left # {}
      /\ r # 0 => (c.last >= r => c.settled >= r)
  BY <1>1, RecordIs, DataFacts DEF Data!Store, DataInv, Holding
<1>3. PICK d \in {c, Data!NoPayload} : cache' = [cache EXCEPT ![Data!Current(r)] = d]
  BY <1>1 DEF Data!Store
<1>4. cache' \in [Symbols -> Data!Payload] /\ Cached'
  BY <1>2, <1>3, RecordIs, DataFacts DEF DataInv, Cached
<1>5. faults' \in 0..MaxFaults
  BY RecordIs, DataFacts DEF Data!Store, Data!Fault, Data!NoFault
<1>6. UNCHANGED << Data!world, status, bound >> /\ Data!Resolve(r, c)
  BY <1>1 DEF Data!Store
<1> QED BY <1>2, <1>4, <1>5, <1>6, ResolveInv

LEMMA ProviderErrorInv == ASSUME DataInv, NEW t \in Data!Sessions, Data!ProviderError(t) PROVE DataInv'
<1> DEFINE bar == [through |-> 0, how |-> "error"]
<1>1. bar \in Data!Bar /\ Honest(bar, t)
  BY DataFacts DEF Data!Bar, Honest
<1>2. /\ capture[t].at \in {"look", "store", "minutes"} /\ capture[t].left # {}
      /\ UNCHANGED << Data!world, cache, bound, status >> /\ Data!Advance(t, bar)
  BY DataFacts DEF Data!ProviderError, DataInv, Holding
<1>3. faults' \in 0..MaxFaults
  BY RecordIs, DataFacts DEF Data!ProviderError, Data!Fault
<1>4. cache' \in [Symbols -> Data!Payload] /\ Cached'
  BY <1>2, RecordIs, DataFacts DEF DataInv, Cached
<1> HIDE DEF bar
<1> QED BY <1>1, <1>2, <1>3, <1>4, AdvanceInv

LEMMA MinutesInv == ASSUME DataInv, NEW t \in Data!Sessions, Data!Minutes(t) PROVE DataInv'
<1>1. /\ capture[t].at = "minutes" /\ capture[t].left # {} /\ capture[t].held.last < t
      /\ capture[t].held.last \in 0..Last /\ t \in 0..Last
  <2>1. t \in Data!Readers /\ t # Data!Tool /\ t \in 0..Last /\ capture[t].at = "minutes"
    BY DataFacts DEF Data!Minutes
  <2>2. capture[t].held \in Data!Payload
    BY <2>1, RecordIs
  <2> QED BY <2>1, <2>2 DEF DataInv, Holding, Data!Payload
<1>2. PICK bar : /\ Data!Advance(t, bar)
                 /\ \/ bar = [through |-> t, how |-> "derived"]
                    \/ bar = [through |-> capture[t].held.last, how |-> "short"]
  BY DEF Data!Minutes
<1>3. bar \in Data!Bar /\ Honest(bar, t)
  BY <1>1, <1>2 DEF Data!Bar, Honest
<1>4. UNCHANGED << Data!world, cache, bound, status, faults >>
  BY DEF Data!Minutes
<1>5. cache' \in [Symbols -> Data!Payload] /\ Cached' /\ faults' \in 0..MaxFaults
  BY <1>4, RecordIs, DataFacts DEF DataInv, Cached
<1> QED BY <1>1, <1>2, <1>3, <1>4, <1>5, AdvanceInv

\* What passes the verdict is reliable.
LEMMA PassingIsReliable ==
  ASSUME DataInv, NEW t \in Data!Sessions,
         capture[t].at = "look", capture[t].left = {}, ~Data!Gap(capture[t].bars, t)
  PROVE  Reliable(capture[t].bars, t)
<1> SUFFICES ASSUME NEW s \in Data!Relied
             PROVE  \E b \in capture[t].bars :
                      b[1] = s /\ b[2].through = t /\ b[2].how \in {"settled", "derived"}
  BY DEF Reliable
<1>1. PICK m \in Members : "history" \in needs[m] /\ s \in Universe[m] \cup {Benchmark}
  BY DEF Data!Relied
<1>2. ~Data!BarsUnready(capture[t].bars, m, t)
  BY <1>1 DEF Data!Gap, Data!Unready
<1>3. s \in Data!Histories \ capture[t].left
  BY HistoriesAre DEF DataInv
<1>4. PICK b \in capture[t].bars : b[1] = s
  BY <1>3 DEF DataInv, Gathered, Going
<1>5. b[2].how # "error" /\ ~(b[2].through < t)
  BY <1>1, <1>2, <1>4 DEF Data!BarsUnready
<1>6. Honest(b[2], t)
  BY DEF DataInv, Gathered, Going
<1> QED BY <1>4, <1>5, <1>6 DEF Honest

\* A verdict, or the first member's start, ends a session's capture or binds it.
LEMMA VerdictInv ==
  ASSUME DataInv, NEW t \in Data!Sessions,
         UNCHANGED << Data!world, cache >>, faults' \in 0..MaxFaults,
         NEW c \in Captures, capture' = [capture EXCEPT ![t] = c], c.at \in {"idle", "bound"}, c.bars = {},
         c.at = "bound" => Data!Closed(t) /\ status'[t] = "waiting",
         bound' \in [Data!Sessions -> SUBSET (Symbols \X Data!Bar)],
         status' \in [Data!Sessions -> {"waiting", "executed", "misconfigured"}],
         \A u \in Data!Sessions : u # t => bound'[u] = bound[u] /\ status'[u] = status[u],
         c.at = "bound" \/ status'[t] = "executed" => Reliable(bound'[t], t)
  PROVE  DataInv'
<1>1. capture \in [Data!Readers -> Captures] /\ t \in Data!Readers
  BY DataFacts DEF DataInv, Data!TypeOK, Captures
<1>2. capture'[t] = c /\ \A q \in Data!Readers : q # t => capture'[q] = capture[q]
  BY <1>1
<1>3. Data!TypeOK'
  <2>1. capture' \in [Data!Readers -> Captures]
    BY <1>1
  <2> QED BY <2>1 DEF DataInv, Data!TypeOK, Data!world, Captures
<1>4. Timely' /\ Cached' /\ Holding'
  BY <1>2 DEF DataInv, Timely, Cached, Holding, Data!world
<1>5. ASSUME NEW u \in Data!Sessions PROVE Going(u)'
  <2>1. PICK H : H = Data!Histories /\ H = (Data!Histories)'
    BY DEF Data!Histories, Data!world
  <2>2. Data!Closed(u)' = Data!Closed(u)
    BY DEF Data!Closed, Data!world
  <2>3. (Data!Relied)' = Data!Relied
    BY DEF Data!Relied, Data!world
  <2>4. u \in Data!Readers /\ Going(u)
    BY DataFacts DEF DataInv, Gathered
  <2>5. CASE u = t
    <3>1. Reliable(bound[u], u)' <=> Reliable(bound'[t], t)
      BY <2>3, <2>5 DEF Reliable
    <3> QED BY <1>2, <2>2, <2>5, <3>1 DEF Going
  <2>6. CASE u # t
    <3>1. Reliable(bound[u], u)' <=> Reliable(bound[u], u)
      BY <2>3, <2>6 DEF Reliable
    <3> QED BY <1>2, <2>1, <2>2, <2>4, <2>6, <3>1 DEF Going
  <2> QED BY <2>5, <2>6
<1> QED BY <1>3, <1>4, <1>5 DEF DataInv, Gathered

LEMMA JudgeInv == ASSUME DataInv, NEW t \in Data!Sessions, Data!Judge(t) PROVE DataInv'
<1>1. /\ capture[t].at = "look" /\ capture[t].left = {} /\ UNCHANGED << Data!world, cache >>
      /\ t \in Data!Readers /\ Going(t) /\ capture[t].bars \in SUBSET (Symbols \X Data!Bar)
      /\ bound \in [Data!Sessions -> SUBSET (Symbols \X Data!Bar)]
      /\ status \in [Data!Sessions -> {"waiting", "executed", "misconfigured"}]
  BY DataFacts, RecordIs DEF Data!Judge, DataInv, Gathered, Data!TypeOK
<1>2. Data!Closed(t) /\ status[t] = "waiting"
  BY <1>1 DEF Going
<1>3. Data!Idle \in Captures /\ Data!Idle.at = "idle" /\ Data!Idle.bars = {}
  BY DataFacts DEF Data!Idle
<1>4. CASE Data!Misconfigured(t)
  <2>1. /\ status' = [status EXCEPT ![t] = "misconfigured"]
        /\ capture' = [capture EXCEPT ![t] = Data!Idle] /\ UNCHANGED << bound, faults >>
    BY <1>4 DEF Data!Misconfigured
  <2>2. faults' \in 0..MaxFaults
    BY <1>1, <2>1, RecordIs
  <2> QED BY <1>1, <1>3, <2>1, <2>2, VerdictInv
<1>5. CASE Data!Ready(t)
  <2> DEFINE c == [Data!Idle EXCEPT !.at = "bound"]
  <2>1. c \in Captures /\ c.at = "bound" /\ c.bars = {}
    BY <1>3, DataFacts DEF Data!Idle, Captures, Data!At
  <2>2. /\ bound' = [bound EXCEPT ![t] = capture[t].bars]
        /\ capture' = [capture EXCEPT ![t] = c] /\ UNCHANGED << status, faults >>
    BY <1>5 DEF Data!Ready
  <2>3. Reliable(capture[t].bars, t)
    BY <1>1, <1>5, PassingIsReliable DEF Data!Ready
  <2>4. faults' \in 0..MaxFaults
    BY <1>1, <2>2, RecordIs
  <2> HIDE DEF c
  <2> QED BY <1>1, <1>2, <2>1, <2>2, <2>3, <2>4, VerdictInv
<1>6. CASE Data!Waits(t)
  <2>1. capture' = [capture EXCEPT ![t] = Data!Idle] /\ UNCHANGED << bound, status >>
    BY <1>6 DEF Data!Waits
  <2>2. faults' \in 0..MaxFaults
    BY <1>1, <1>6, RecordIs, DataFacts DEF Data!Waits, Data!Fault, Data!NoFault
  <2> QED BY <1>1, <1>2, <1>3, <2>1, <2>2, VerdictInv
<1> QED BY <1>4, <1>5, <1>6 DEF Data!Judge

LEMMA ExecuteInv == ASSUME DataInv, NEW t \in Data!Sessions, Data!Execute(t) PROVE DataInv'
<1>1. /\ capture[t].at = "bound" /\ UNCHANGED << Data!world, cache, bound, faults >>
      /\ status' = [status EXCEPT ![t] = "executed"]
      /\ capture' = [capture EXCEPT ![t] = Data!Idle]
      /\ t \in Data!Readers /\ Going(t)
      /\ bound \in [Data!Sessions -> SUBSET (Symbols \X Data!Bar)]
      /\ status \in [Data!Sessions -> {"waiting", "executed", "misconfigured"}]
  BY DataFacts DEF Data!Execute, DataInv, Gathered, Data!TypeOK
<1>2. Data!Idle \in Captures /\ Data!Idle.at = "idle" /\ Data!Idle.bars = {}
  BY DataFacts DEF Data!Idle
<1>3. Reliable(bound[t], t) /\ faults' \in 0..MaxFaults
  BY <1>1, RecordIs DEF Going
<1> QED BY <1>1, <1>2, <1>3, VerdictInv

LEMMA CrashInv == ASSUME DataInv, NEW r \in Data!Readers, Data!Crash(r) PROVE DataInv'
<1>1. /\ capture' = [capture EXCEPT ![r] = Data!Idle] /\ UNCHANGED << Data!world, bound, status >>
      /\ cache' = cache \/ cache' = [cache EXCEPT ![Data!Current(r)] = Data!NoPayload]
  BY DEF Data!Crash
<1>2. cache' \in [Symbols -> Data!Payload] /\ Cached'
  BY <1>1, RecordIs, DataFacts DEF DataInv, Cached
<1>3. faults' \in 0..MaxFaults
  BY RecordIs, DataFacts DEF Data!Crash, Data!Fault
<1> QED BY <1>1, <1>2, <1>3, RestInv

LEMMA InitDataInv == Data!Init => DataInv
<1> SUFFICES ASSUME Data!Init PROVE DataInv
  OBVIOUS
<1>1. /\ needs \in Rosters /\ now = 1 /\ filed = FALSE /\ faults = 0
      /\ published = [s \in Symbols |-> 0] /\ cache = [s \in Symbols |-> Data!NoPayload]
      /\ capture = [r \in Data!Readers |-> Data!Idle]
      /\ bound = [t \in Data!Sessions |-> {}] /\ status = [t \in Data!Sessions |-> "waiting"]
  BY DEF Data!Init
<1>2. /\ Last \in Nat \ {0} /\ MaxFaults \in Nat /\ Data!NoPayload \in Data!Payload
      /\ Sound(Data!NoPayload) /\ Data!Idle \in Captures
      /\ Data!Idle.at = "idle" /\ Data!Idle.bars = {} /\ Data!Sessions \subseteq Data!Readers
  BY DataFacts, DataAssumption DEF Data!Idle, Data!PreflightAssumption
<1>3. Data!TypeOK
  <2>1. capture \in [Data!Readers -> Captures]
    BY <1>1, <1>2
  <2>2. now \in 1..(2 * Last) /\ faults \in 0..MaxFaults /\ published \in [Symbols -> 0..Last]
    BY <1>1, <1>2
  <2> QED BY <1>1, <1>2, <2>1, <2>2 DEF Data!TypeOK, Captures
<1>4. Timely /\ Cached /\ Holding
  BY <1>1, <1>2 DEF Timely, Cached, Holding
<1>5. Gathered
  BY <1>1, <1>2 DEF Gathered, Going
<1> QED BY <1>3, <1>4, <1>5 DEF DataInv

LEMMA DataStepInv == DataInv /\ [Data!Next]_(Data!vars) => DataInv'
<1> SUFFICES ASSUME DataInv, [Data!Next]_(Data!vars) PROVE DataInv'
  OBVIOUS
<1>1. CASE UNCHANGED Data!vars
  <2>1. UNCHANGED << needs, now, published, filed, cache, capture, bound, status, faults >>
    BY <1>1 DEF Data!vars
  <2>2. Data!TypeOK' /\ Timely' /\ Cached' /\ Holding'
    BY <2>1 DEF DataInv, Data!TypeOK, Timely, Cached, Holding
  <2>3. ASSUME NEW t \in Data!Sessions PROVE Going(t)'
    <3>1. PICK H : H = Data!Histories /\ H = (Data!Histories)'
      BY <2>1 DEF Data!Histories
    <3>2. Data!Closed(t)' = Data!Closed(t) /\ (Reliable(bound[t], t)' <=> Reliable(bound[t], t))
      BY <2>1 DEF Data!Closed, Reliable, Data!Relied
    <3>3. Going(t)
      BY DEF DataInv, Gathered
    <3> QED BY <2>1, <3>1, <3>2, <3>3 DEF Going
  <2> QED BY <2>2, <2>3 DEF DataInv, Gathered
<1>2. CASE Data!Store(Data!Tool)
  BY <1>2, StoreInv, DataFacts
<1>3. ASSUME NEW t \in Data!Sessions, Data!Start(t) \/ Data!Step(t) \/ Data!ProviderError(t)
      PROVE  DataInv'
  <2>1. t \in Data!Readers
    BY DataFacts
  <2> QED BY <1>3, <2>1, StartInv, LookInv, StoreInv, MinutesInv, JudgeInv, ExecuteInv,
             ProviderErrorInv DEF Data!Step
<1> QED BY <1>1, <1>2, <1>3, WorldInv, ToolAsksInv, CrashInv DEF Data!Next

\* Whatever protocol runs, the data moves by its own steps alone.
LEMMA DataRuns == MCSpec => Data!Init /\ [][Data!Next]_(Data!vars)
<1>1. MCInit => Data!Init
  BY DEF MCInit, DataAtRest
<1>2. [AlertStep \/ DataStep \/ FoundingStep]_<< world, alertVars, dataVars, foundingVars >>
        => [Data!Next]_(Data!vars)
  BY DEF AlertStep, DataStep, FoundingStep, dataVars, Data!vars
<1> QED BY <1>1, <1>2, PTL DEF MCSpec

LEMMA DataInvariance == MCSpec => []DataInv
BY DataRuns, InitDataInv, DataStepInv, PTL

\* The data keep their types, and what a capture holds is honest and sound.
THEOREM DataTypeCorrect == MCSpec => []Data!TypeOK
<1>1. DataInv => Data!TypeOK
  BY DEF DataInv
<1> QED BY <1>1, DataInvariance, PTL

\* Whatever other tools put into the shared cache, whenever they ask and whoever dies,
\* every history a member's verdict rests on ends at the decided session, settled or
\* derived from complete bars (history_cache.py, cohort_preflight.py).
THEOREM DecisionsRestOnSettledBars == MCSpec => []DecidesOnSettledBars
<1>1. DataInv => DecidesOnSettledBars
  BY DEF DataInv, Gathered, Going, Reliable, DecidesOnSettledBars, Data!DecidesOnSettledBars
<1> QED BY <1>1, DataInvariance, PTL

-----------------------------------------------------------------------------
(* CohortFounding: how a cohort comes into being, one creation at a time *)

Mishaps == Founding!Range(mishaps)

Faultless == Mishaps \subseteq {"error"}

Empty == \A m \in Names : sleeve[m] = "none"

\* The members of the plan that are no longer missing are there, and no other sleeve.
Built(c) ==
  \A m \in Names : sleeve[m] = IF m \in DOMAIN c.plan \ c.missing THEN c.plan[m] ELSE "none"

\* What a creation knows at each of its places, nobody else being at work
Works(c) ==
  /\ c.at # "rest" => c.plan \in Plans /\ c.call \in 1..MaxCalls
  /\ c.at \in {"list", "resolve", "create"} => (c.stored <=> manifest # << >>)
  /\ c.at = "list" =>
       /\ c.made = << >> /\ c.missing = {} /\ c.ahead = DOMAIN c.plan
       /\ ~c.stored /\ Faultless => Empty
  /\ c.at = "resolve" =>
       /\ c.made = << >>
       /\ ~c.stored => Empty /\ c.ahead \subseteq DOMAIN c.plan /\ c.missing = DOMAIN c.plan \ c.ahead
  /\ c.at = "create" =>
       /\ c.stored => c.missing = {}
       /\ ~c.stored => /\ Built(c) /\ c.missing \subseteq DOMAIN c.plan
                       /\ DOMAIN c.plan \ c.missing \subseteq Founding!Range(c.made)
  /\ c.at = "undo" =>
       /\ manifest # << >> => "lost-manifest" \in Mishaps
       /\ Faultless => \A m \in Names : sleeve[m] # "none" => m \in Founding!Range(c.made)
  /\ c.at = "rest" => (Faultless /\ manifest = << >> => Empty)

Alone == \A p, q \in Creators : creation[p].at # "rest" /\ creation[q].at # "rest" => p = q

\* The creation at work, or any when nobody is
AtWork(p) == \A q \in Creators : q # p => creation[q].at = "rest"

Working == \A p \in Creators : AtWork(p) => Works(creation[p])

Vouched == manifest # << >> /\ "lost-manifest" \notin Mishaps => Founding!Whole(manifest[1])

FoundingInv == Founding!TypeOK /\ Alone /\ Working /\ Vouched

Creations ==
  [at : Founding!Steps, plan : Plans \cup {<< >>}, call : 0..MaxCalls, stored : BOOLEAN,
   ahead : SUBSET Names, missing : SUBSET Names, conflict : BOOLEAN, made : Seq(Names)]

MishapKinds == {"error", "lost-sleeve", "lost-manifest", "kept", "crash"}

LEMMA FoundingFacts ==
  /\ Names \in SUBSET (Nat \ {0}) /\ MaxCalls \in Nat
  /\ \A plan \in Plans : DOMAIN plan \in SUBSET Names
  /\ Founding!Resting \in Creations /\ Founding!Resting.at = "rest"
BY FoundingAssumption DEF Founding!FoundingAssumption, Founding!Resting, Creations, Founding!Steps

LEMMA FirstIsThere ==
  ASSUME NEW S \in SUBSET Names, S # {}
  PROVE  Founding!First(S) \in S
<1>0. S \subseteq Nat
  BY FoundingFacts
<1> DEFINE R == OpToRel(<, Nat)
<1>1. \A e, d \in Nat : e < d => << e, d >> \in R
  BY DEF OpToRel
<1>2. IsWellFoundedOn(R, Nat)
  BY NatLessThanWellFounded
<1> HIDE DEF R
<1>3. PICK d \in S : \A e \in S : ~ (<< e, d >> \in R)
  BY <1>0, <1>2, WFMin
<1>4. \A e \in S : ~ (e < d)
  BY <1>0, <1>1, <1>3, Zenon
<1>5. \A e \in S : d <= e
  BY <1>0, <1>4
<1> QED BY <1>5 DEF Founding!First

LEMMA RangeIs ==
  /\ Founding!Range(<< >>) = {}
  /\ \A S : \A s \in Seq(S) : \A x :
       /\ Founding!Range(Append(s, x)) = Founding!Range(s) \cup {x}
       /\ s # << >> => /\ Founding!Front(s) \in Seq(S) /\ Founding!Last(s) \in S
                       /\ Founding!Range(s) \subseteq Founding!Range(Founding!Front(s)) \cup {Founding!Last(s)}
<1>1. Founding!Range(<< >>) = {}
  BY DEF Founding!Range
<1>2. ASSUME NEW S, NEW s \in Seq(S), NEW x
      PROVE  Founding!Range(Append(s, x)) = Founding!Range(s) \cup {x}
  BY DEF Founding!Range
<1>3. ASSUME NEW S, NEW s \in Seq(S), s # << >>
      PROVE  /\ Founding!Front(s) \in Seq(S) /\ Founding!Last(s) \in S
             /\ Founding!Range(s) \subseteq Founding!Range(Founding!Front(s)) \cup {Founding!Last(s)}
  <2>1. Len(s) \in Nat \ {0} /\ DOMAIN s = 1..Len(s) /\ \A i \in 1..Len(s) : s[i] \in S
    BY <1>3
  <2>2. Founding!Front(s) \in Seq(S) /\ Founding!Last(s) \in S
    BY <2>1 DEF Founding!Front, Founding!Last
  <2>3. DOMAIN Founding!Front(s) = 1..(Len(s) - 1) /\ \A i \in 1..(Len(s) - 1) : Founding!Front(s)[i] = s[i]
    BY <2>1 DEF Founding!Front
  <2>4. ASSUME NEW i \in 1..Len(s)
        PROVE  s[i] \in Founding!Range(Founding!Front(s)) \cup {Founding!Last(s)}
    <3>1. CASE i = Len(s)
      BY <3>1 DEF Founding!Last
    <3>2. CASE i # Len(s)
      <4>1. PICK front : front = Founding!Front(s)
        OBVIOUS
      <4>2. i \in 1..(Len(s) - 1)
        <5>1. PICK n \in Nat \ {0} : n = Len(s)
          BY <2>1
        <5>2. i \in 1..n /\ i # n
          BY <3>2, <5>1
        <5>3. i \in 1..(n - 1)
          BY <5>1, <5>2
        <5> QED BY <5>1, <5>3
      <4>3. i \in DOMAIN front /\ front[i] = s[i]
        BY <2>3, <4>1, <4>2, Zenon
      <4>4. s[i] \in Founding!Range(front)
        BY <4>3, Zenon DEF Founding!Range
      <4> QED BY <4>1, <4>4
    <3> QED BY <3>1, <3>2
  <2>5. Founding!Range(s) = { s[i] : i \in 1..Len(s) }
    BY <2>1 DEF Founding!Range
  <2> QED BY <2>2, <2>4, <2>5
<1> QED BY <1>1, <1>2, <1>3

LEMMA MishapIs ==
  ASSUME Founding!TypeOK, NEW kind \in MishapKinds, Founding!Mishap(kind)
  PROVE  Mishaps' = Mishaps \cup {kind} /\ mishaps' \in Seq(MishapKinds)
<1>1. mishaps \in Seq(MishapKinds) /\ mishaps' = Append(mishaps, kind)
  BY DEF Founding!TypeOK, Founding!Mishap, MishapKinds
<1>2. mishaps' \in Seq(MishapKinds)
  BY <1>1
<1>3. Founding!Range(Append(mishaps, kind)) = Founding!Range(mishaps) \cup {kind}
  BY <1>1, RangeIs
<1> QED BY <1>1, <1>2, <1>3 DEF Mishaps, Founding!Range

\* A turn of creation p, after which it is at c
LEMMA TurnInv ==
  ASSUME FoundingInv, NEW p \in Creators, AtWork(p), NEW c \in Creations,
         creation' = [creation EXCEPT ![p] = c],
         backend' = backend, calls' \in 0..MaxCalls,
         sleeve' \in [Names -> Founding!Configurations \cup {"none"}],
         manifest' = << >> \/ manifest' \in Plans \X (1..MaxCalls),
         mishaps' \in Seq(MishapKinds),
         Vouched', Works(c)'
  PROVE  FoundingInv'
<1>1. creation \in [Creators -> Creations]
  BY DEF FoundingInv, Founding!TypeOK, Creations
<1>2. creation'[p] = c /\ \A q \in Creators : q # p => creation'[q] = creation[q] /\ creation[q].at = "rest"
  BY <1>1 DEF AtWork
<1>3. Founding!TypeOK'
  <2>1. creation' \in [Creators -> Creations]
    BY <1>1
  <2> QED BY <2>1 DEF FoundingInv, Founding!TypeOK, Creations, MishapKinds, Founding!None
<1>4. Alone'
  BY <1>2 DEF Alone
<1>5. Working'
  <2> SUFFICES ASSUME NEW q \in Creators, AtWork(q)' PROVE Works(creation[q])'
    BY DEF Working
  <2>1. CASE q = p
    BY <1>2, <2>1
  <2>2. CASE q # p
    <3>1. creation'[q].at = "rest" /\ c.at = "rest"
      BY <1>2, <2>2 DEF AtWork
    <3>2. (Faultless /\ manifest = << >> => Empty)'
      BY <3>1 DEF Works
    <3> QED BY <3>1, <3>2 DEF Works
  <2> QED BY <2>1, <2>2
<1> QED BY <1>3, <1>4, <1>5 DEF FoundingInv

\* What only the creation at work touches stays as it is.
Still == UNCHANGED << backend, sleeve, manifest, calls, mishaps >>

LEMMA StillIs ==
  ASSUME FoundingInv, Still
  PROVE  /\ backend' = backend /\ calls' \in 0..MaxCalls
         /\ sleeve' \in [Names -> Founding!Configurations \cup {"none"}]
         /\ manifest' = << >> \/ manifest' \in Plans \X (1..MaxCalls)
         /\ mishaps' \in Seq(MishapKinds) /\ Vouched'
BY DEF FoundingInv, Founding!TypeOK, Still, Vouched, Mishaps, Founding!Whole, MishapKinds, Founding!None

\* A creation in progress is the one at work.
LEMMA WorkerIs ==
  ASSUME FoundingInv, NEW p \in Creators, creation[p].at # "rest"
  PROVE  /\ AtWork(p) /\ Works(creation[p]) /\ creation[p] \in Creations
         /\ creation \in [Creators -> Creations]
         /\ DOMAIN creation[p].plan \in SUBSET Names
<1>1. AtWork(p)
  BY DEF FoundingInv, Alone, AtWork
<1>2. creation \in [Creators -> Creations]
  BY DEF FoundingInv, Founding!TypeOK, Creations
<1>3. Works(creation[p])
  BY <1>1 DEF FoundingInv, Working
<1> QED BY <1>1, <1>2, <1>3, FoundingFacts DEF Works

LEMMA BeginInv == ASSUME FoundingInv, NEW p \in Creators, Founding!Begin(p) PROVE FoundingInv'
<1>1. PICK plan \in Plans :
        creation' = [creation EXCEPT ![p] =
          IF manifest # << >> /\ manifest[1] # plan THEN Founding!Resting
          ELSE [Founding!Resting EXCEPT !.at = "list", !.plan = plan, !.call = calls + 1,
                                        !.stored = manifest # << >>, !.ahead = DOMAIN plan]]
  BY DEF Founding!Begin
<1>0. PICK c : c = [Founding!Resting EXCEPT !.at = "list", !.plan = plan, !.call = calls + 1,
                                            !.stored = manifest # << >>, !.ahead = DOMAIN plan]
  OBVIOUS
<1>2. /\ calls' = calls + 1 /\ calls' \in 0..MaxCalls /\ calls + 1 \in 1..MaxCalls /\ AtWork(p)
      /\ \A q \in Creators : creation[q].at = "rest"
      /\ UNCHANGED << backend, sleeve, manifest, mishaps >>
  BY FoundingFacts DEF Founding!Begin, FoundingInv, Founding!TypeOK, AtWork
<1>3. /\ backend' = backend /\ mishaps' \in Seq(MishapKinds) /\ Vouched'
      /\ sleeve' \in [Names -> Founding!Configurations \cup {"none"}]
      /\ manifest' = << >> \/ manifest' \in Plans \X (1..MaxCalls)
  BY <1>2 DEF FoundingInv, Founding!TypeOK, Vouched, Mishaps, Founding!Whole, MishapKinds, Founding!None
<1>4. Faultless /\ manifest = << >> => Empty
  BY <1>2 DEF FoundingInv, Working, Works
<1>5. CASE manifest # << >> /\ manifest[1] # plan
  <2>1. creation' = [creation EXCEPT ![p] = Founding!Resting]
    BY <1>1, <1>5
  <2>2. Works(Founding!Resting)'
    BY <1>2, <1>4, FoundingFacts DEF Works, Faultless, Mishaps, Empty
  <2> QED BY <1>2, <1>3, <2>1, <2>2, FoundingFacts, TurnInv
<1>6. CASE ~(manifest # << >> /\ manifest[1] # plan)
  <2>1. creation' = [creation EXCEPT ![p] = c]
    BY <1>0, <1>1, <1>6
  <2>2. PICK stored \in BOOLEAN : stored <=> manifest # << >>
    OBVIOUS
  <2>3. c = [at |-> "list", plan |-> plan, call |-> calls + 1, stored |-> stored, ahead |-> DOMAIN plan,
             missing |-> {}, conflict |-> FALSE, made |-> << >>]
    BY <1>0, <2>2 DEF Founding!Resting
  <2>4. c \in Creations
    BY <1>2, <2>2, <2>3, FoundingFacts DEF Creations, Founding!Steps, FoundingInv, Founding!TypeOK
  <2>5. Works(c)'
    BY <1>2, <1>4, <2>2, <2>3 DEF Works, Faultless, Mishaps, Empty
  <2> QED BY <1>2, <1>3, <2>1, <2>4, <2>5, TurnInv
<1> QED BY <1>5, <1>6

LEMMA ListInv == ASSUME FoundingInv, NEW p \in Creators, Founding!List(p) PROVE FoundingInv'
<1>1. creation[p].at = "list" /\ Still
  BY DEF Founding!List, Still
<1>2. /\ AtWork(p) /\ Works(creation[p]) /\ creation[p] \in Creations /\ creation \in [Creators -> Creations]
  BY <1>1, WorkerIs
<1>0. PICK c : c = [creation[p] EXCEPT !.at = "resolve"]
  OBVIOUS
<1>3. CASE Founding!Adoptable(creation[p])
  <2>1. creation' = [creation EXCEPT ![p] = c]
    BY <1>0, <1>3 DEF Founding!List
  <2>2. /\ c \in Creations /\ c.at = "resolve" /\ c.made = creation[p].made /\ c.stored = creation[p].stored
        /\ c.plan = creation[p].plan /\ c.call = creation[p].call
        /\ c.ahead = creation[p].ahead /\ c.missing = creation[p].missing
    BY <1>0, <1>2 DEF Creations, Founding!Steps
  <2>3. ~creation[p].stored => Empty
    BY <1>3 DEF Founding!Adoptable, Founding!Present, Empty, Founding!None
  <2>4. Works(c)'
    BY <1>1, <1>2, <2>2, <2>3 DEF Works, Still, Empty
  <2> QED BY <1>1, <1>2, <2>1, <2>2, <2>4, StillIs, TurnInv DEF Still
<1>4. CASE ~Founding!Adoptable(creation[p])
  <2>1. creation' = [creation EXCEPT ![p] = Founding!Resting]
    BY <1>4 DEF Founding!List
  <2>2. Works(Founding!Resting)'
    BY <1>1, <1>2, FoundingFacts DEF Works, Still, Faultless, Mishaps, Empty
  <2> QED BY <1>1, <1>2, <2>1, <2>2, FoundingFacts, StillIs, TurnInv DEF Still
<1> QED BY <1>3, <1>4

LEMMA LookupInv == ASSUME FoundingInv, NEW p \in Creators, Founding!Resolve(p) PROVE FoundingInv'
<1>1. creation[p].at = "resolve" /\ creation[p].ahead # {} /\ Still
  BY DEF Founding!Resolve, Still
<1>2. /\ AtWork(p) /\ Works(creation[p]) /\ creation[p] \in Creations /\ creation \in [Creators -> Creations]
  BY <1>1, WorkerIs
<1>3. PICK m : m = Founding!First(creation[p].ahead)
  OBVIOUS
<1>4. m \in creation[p].ahead /\ m \in Names
  BY <1>1, <1>2, <1>3, FirstIsThere DEF Creations
<1>5. PICK more : more = IF sleeve[m] = "none" THEN creation[p].missing \cup {m} ELSE creation[p].missing
  OBVIOUS
<1>6. PICK clash \in BOOLEAN :
        clash <=> creation[p].conflict \/ sleeve[m] \notin {"none", creation[p].plan[m]}
  OBVIOUS
<1>7. PICK c : c = [creation[p] EXCEPT !.ahead = creation[p].ahead \ {m}, !.missing = more, !.conflict = clash]
  OBVIOUS
<1>8. creation' = [creation EXCEPT ![p] = c]
  <2>1. creation' = [creation EXCEPT ![p].ahead = @ \ {m},
                       ![p].missing = IF sleeve[m] = "none" THEN @ \cup {m} ELSE @,
                       ![p].conflict = @ \/ sleeve[m] \notin {"none", creation[p].plan[m]}]
    BY <1>3 DEF Founding!Resolve, Founding!None
  <2> QED BY <1>2, <1>5, <1>6, <1>7, <2>1 DEF Creations
<1>9. /\ c \in Creations /\ c.at = "resolve" /\ c.made = creation[p].made /\ c.stored = creation[p].stored
      /\ c.plan = creation[p].plan /\ c.call = creation[p].call
      /\ c.ahead = creation[p].ahead \ {m} /\ c.missing = more
  BY <1>1, <1>2, <1>4, <1>5, <1>6, <1>7 DEF Creations
<1>10. ~creation[p].stored =>
         /\ Empty /\ creation[p].ahead \subseteq DOMAIN creation[p].plan
         /\ creation[p].missing = DOMAIN creation[p].plan \ creation[p].ahead
  BY <1>1, <1>2 DEF Works
<1>11. ~c.stored => Empty /\ c.ahead \subseteq DOMAIN c.plan /\ c.missing = DOMAIN c.plan \ c.ahead
  BY <1>4, <1>5, <1>9, <1>10 DEF Empty
<1>12. Works(c)'
  BY <1>1, <1>2, <1>9, <1>11 DEF Works, Still, Empty
<1> QED BY <1>2, <1>8, <1>9, <1>12, <1>1, StillIs, TurnInv

LEMMA DecideCreationInv == ASSUME FoundingInv, NEW p \in Creators, Founding!Decide(p) PROVE FoundingInv'
<1>1. creation[p].at = "resolve" /\ creation[p].ahead = {} /\ Still
  BY DEF Founding!Decide, Still
<1>2. /\ AtWork(p) /\ Works(creation[p]) /\ creation[p] \in Creations /\ creation \in [Creators -> Creations]
      /\ DOMAIN creation[p].plan \in SUBSET Names
  BY <1>1, WorkerIs
<1>3. CASE creation[p].conflict \/ (creation[p].stored /\ creation[p].missing # {})
  <2>1. creation' = [creation EXCEPT ![p] = Founding!Resting]
    BY <1>3 DEF Founding!Decide
  <2>2. Works(Founding!Resting)'
    BY <1>1, <1>2, FoundingFacts DEF Works, Still, Faultless, Mishaps, Empty
  <2> QED BY <1>1, <1>2, <2>1, <2>2, FoundingFacts, StillIs, TurnInv
<1>4. CASE ~(creation[p].conflict \/ (creation[p].stored /\ creation[p].missing # {}))
  <2>0. PICK c : c = [creation[p] EXCEPT !.at = "create"]
    OBVIOUS
  <2>1. creation' = [creation EXCEPT ![p] = c]
    BY <1>4, <2>0 DEF Founding!Decide
  <2>2. /\ c \in Creations /\ c.at = "create" /\ c.made = creation[p].made /\ c.stored = creation[p].stored
        /\ c.plan = creation[p].plan /\ c.call = creation[p].call /\ c.missing = creation[p].missing
    BY <1>2, <2>0 DEF Creations, Founding!Steps
  <2>3. c.stored => c.missing = {}
    BY <1>4, <2>2
  <2>4. ~c.stored => Empty /\ c.missing = DOMAIN c.plan
    BY <1>1, <1>2, <2>2 DEF Works
  <2>5. ~c.stored => Built(c)' /\ c.missing \subseteq DOMAIN c.plan
                     /\ DOMAIN c.plan \ c.missing \subseteq Founding!Range(c.made)
    BY <1>1, <2>4 DEF Built, Empty, Still
  <2>6. Works(c)'
    BY <1>1, <1>2, <2>2, <2>3, <2>5 DEF Works, Still
  <2> QED BY <1>1, <1>2, <2>1, <2>2, <2>6, StillIs, TurnInv
<1> QED BY <1>3, <1>4

\* A creation that fails turns to undoing what it knows it has made.
LEMMA FailInv ==
  ASSUME FoundingInv, NEW p \in Creators, creation[p].at = "create", Founding!Failed(p),
         backend' = backend, calls' = calls,
         sleeve' \in [Names -> Founding!Configurations \cup {"none"}],
         manifest' = << >> \/ manifest' \in Plans \X (1..MaxCalls),
         mishaps' \in Seq(MishapKinds), Vouched',
         manifest' # << >> => "lost-manifest" \in Mishaps',
         Faultless' => \A m \in Names : sleeve'[m] # "none" => m \in Founding!Range(creation[p].made)
  PROVE  FoundingInv'
<1>1. /\ AtWork(p) /\ Works(creation[p]) /\ creation[p] \in Creations /\ creation \in [Creators -> Creations]
  BY WorkerIs
<1>2. PICK c : c = [creation[p] EXCEPT !.at = "undo"]
  OBVIOUS
<1>3. creation' = [creation EXCEPT ![p] = c]
  BY <1>1, <1>2 DEF Founding!Failed
<1>4. /\ c \in Creations /\ c.at = "undo" /\ c.made = creation[p].made
      /\ c.plan = creation[p].plan /\ c.call = creation[p].call
  BY <1>1, <1>2 DEF Creations, Founding!Steps
<1>5. calls' \in 0..MaxCalls
  BY DEF FoundingInv, Founding!TypeOK
<1>6. Works(c)'
  BY <1>1, <1>4 DEF Works
<1> QED BY <1>1, <1>3, <1>4, <1>5, <1>6, TurnInv

\* What a step of a creation leaves alone keeps its type.
LEMMA FoundingTypes ==
  ASSUME FoundingInv
  PROVE  /\ calls \in 0..MaxCalls /\ sleeve \in [Names -> Founding!Configurations \cup {"none"}]
         /\ manifest = << >> \/ manifest \in Plans \X (1..MaxCalls)
         /\ mishaps \in Seq(MishapKinds) /\ Founding!TypeOK
BY DEF FoundingInv, Founding!TypeOK, MishapKinds, Founding!None

LEMMA CreateSleeveInv ==
  ASSUME FoundingInv, NEW p \in Creators, Founding!CreateSleeve(p) PROVE FoundingInv'
<1>1. /\ creation[p].at = "create" /\ creation[p].missing # {}
      /\ UNCHANGED << backend, manifest, calls >>
  BY DEF Founding!CreateSleeve
<1>2. /\ AtWork(p) /\ Works(creation[p]) /\ creation[p] \in Creations /\ creation \in [Creators -> Creations]
      /\ DOMAIN creation[p].plan \in SUBSET Names
  BY <1>1, WorkerIs
<1>3. /\ manifest = << >> /\ Built(creation[p]) /\ creation[p].missing \subseteq DOMAIN creation[p].plan
      /\ DOMAIN creation[p].plan \ creation[p].missing \subseteq Founding!Range(creation[p].made)
      /\ ~creation[p].stored /\ creation[p].plan \in Plans /\ creation[p].call \in 1..MaxCalls
  BY <1>1, <1>2 DEF Works
<1>4. PICK m : m = Founding!First(creation[p].missing)
  OBVIOUS
<1>5. m \in creation[p].missing /\ m \in Names
  BY <1>1, <1>2, <1>4, FirstIsThere DEF Creations
<1>6. sleeve[m] = "none" /\ ~Founding!Taken(m)
  BY <1>3, <1>5 DEF Built, Founding!Taken, Founding!None
<1>7. creation[p].plan[m] \in Founding!Configurations
  <2>1. creation[p].plan[m] \in Founding!Range(creation[p].plan)
    BY <1>3, <1>5, Zenon DEF Founding!Range
  <2> QED BY <1>3, <2>1 DEF Founding!Configurations
<1>8. CASE /\ sleeve' = [sleeve EXCEPT ![m] = creation[p].plan[m]]
           /\ Founding!Noted(p, m) /\ UNCHANGED mishaps
  <2>0. PICK made \in Seq(Names) : made = creation[p].made
    BY <1>2 DEF Creations
  <2>4. PICK more \in Seq(Names) : more = Append(made, m) /\ Founding!Range(more) = Founding!Range(made) \cup {m}
    <3>1. Append(made, m) \in Seq(Names)
      BY <1>5
    <3>2. Founding!Range(Append(made, m)) = Founding!Range(made) \cup {m}
      BY RangeIs
    <3> QED BY <3>1, <3>2
  <2>1. PICK c : c = [creation[p] EXCEPT !.missing = creation[p].missing \ {m}, !.made = more]
    OBVIOUS
  <2>2. creation' = [creation EXCEPT ![p] = c]
    BY <1>2, <1>8, <2>0, <2>1, <2>4 DEF Founding!Noted
  <2>3. /\ c \in Creations /\ c.at = "create" /\ c.plan = creation[p].plan /\ c.call = creation[p].call
        /\ c.stored = creation[p].stored /\ c.missing = creation[p].missing \ {m} /\ c.made = more
    BY <1>1, <1>2, <1>5, <2>1, <2>4 DEF Creations
  <2>5. Founding!Range(c.made) = Founding!Range(creation[p].made) \cup {m}
    BY <2>0, <2>3, <2>4
  <2>6. Built(c)'
    BY <1>3, <1>5, <1>8, <2>3, FoundingTypes DEF Built
  <2>7. Works(c)'
    BY <1>1, <1>3, <2>3, <2>5, <2>6 DEF Works
  <2>8. sleeve' \in [Names -> Founding!Configurations \cup {"none"}]
    BY <1>5, <1>7, <1>8, FoundingTypes
  <2>9. Vouched'
    BY <1>1, <1>3 DEF Vouched
  <2> QED BY <1>1, <1>2, <1>3, <1>8, <2>2, <2>3, <2>7, <2>8, <2>9, FoundingTypes, TurnInv
<1>9. CASE /\ sleeve' = [sleeve EXCEPT ![m] = creation[p].plan[m]]
           /\ Founding!Failed(p) /\ Founding!Mishap("lost-sleeve")
  <2>1. Mishaps' = Mishaps \cup {"lost-sleeve"} /\ mishaps' \in Seq(MishapKinds)
    BY <1>9, FoundingTypes, MishapIs DEF MishapKinds
  <2>2. sleeve' \in [Names -> Founding!Configurations \cup {"none"}]
    BY <1>5, <1>7, <1>9, FoundingTypes
  <2>3. Vouched' /\ ~Faultless' /\ manifest' = << >>
    BY <1>1, <1>3, <2>1 DEF Vouched, Faultless
  <2> QED BY <1>1, <1>9, <2>1, <2>2, <2>3, FailInv
<1>10. CASE Founding!Failed(p) /\ Founding!Mishap("error") /\ UNCHANGED sleeve
  <2>1. Mishaps' = Mishaps \cup {"error"} /\ mishaps' \in Seq(MishapKinds)
    BY <1>10, FoundingTypes, MishapIs DEF MishapKinds
  <2>2. \A n \in Names : sleeve'[n] # "none" => n \in Founding!Range(creation[p].made)
    BY <1>3, <1>10 DEF Built
  <2>3. Vouched' /\ manifest' = << >>
    BY <1>1, <1>3 DEF Vouched
  <2>4. sleeve' \in [Names -> Founding!Configurations \cup {"none"}]
    BY <1>10, FoundingTypes
  <2> QED BY <1>1, <1>10, <2>1, <2>2, <2>3, <2>4, FailInv
<1> QED
  BY <1>4, <1>6, <1>8, <1>9, <1>10 DEF Founding!CreateSleeve, Founding!NoMishap

LEMMA WriteManifestInv ==
  ASSUME FoundingInv, NEW p \in Creators, Founding!WriteManifest(p) PROVE FoundingInv'
<1>1. /\ creation[p].at = "create" /\ creation[p].missing = {}
      /\ UNCHANGED << backend, sleeve, calls >>
  BY DEF Founding!WriteManifest
<1>2. /\ AtWork(p) /\ Works(creation[p]) /\ creation[p] \in Creations /\ creation \in [Creators -> Creations]
  BY <1>1, WorkerIs
<1>3. sleeve' = sleeve /\ sleeve' \in [Names -> Founding!Configurations \cup {"none"}] /\ calls' \in 0..MaxCalls
  BY <1>1, FoundingTypes
<1>4. creation[p].stored <=> manifest # << >>
  BY <1>1, <1>2 DEF Works
<1>5. CASE creation[p].stored
  <2>1. creation' = [creation EXCEPT ![p] = Founding!Resting] /\ UNCHANGED << manifest, mishaps >>
    BY <1>5 DEF Founding!WriteManifest, Founding!NoMishap
  <2>2. Still
    BY <1>1, <2>1 DEF Still
  <2>3. Works(Founding!Resting)'
    BY <1>4, <1>5, <2>1, FoundingFacts DEF Works
  <2> QED BY <1>2, <2>1, <2>2, <2>3, FoundingFacts, StillIs, TurnInv
<1>6. CASE ~creation[p].stored
  <2>1. /\ manifest = << >> /\ Built(creation[p]) /\ creation[p].plan \in Plans /\ creation[p].call \in 1..MaxCalls
        /\ DOMAIN creation[p].plan \subseteq Founding!Range(creation[p].made)
    BY <1>1, <1>2, <1>4, <1>6 DEF Works
  <2>2. PICK plan \in Plans, call \in 1..MaxCalls : plan = creation[p].plan /\ call = creation[p].call
    BY <2>1
  <2>3. sleeve = [m \in Names |-> IF m \in DOMAIN plan THEN plan[m] ELSE "none"]
    BY <1>1, <2>1, <2>2, FoundingTypes DEF Built
  <2>4. ASSUME manifest' = << plan, call >> PROVE (manifest' \in Plans \X (1..MaxCalls)) /\ manifest' # << >> /\ Vouched'
    <3>1. (manifest' \in Plans \X (1..MaxCalls)) /\ manifest'[1] = plan /\ manifest' # << >>
      BY <2>2, <2>4
    <3>2. Founding!Whole(manifest[1])'
      BY <1>3, <2>3, <3>1 DEF Founding!Whole, Founding!None
    <3> QED BY <3>1, <3>2 DEF Vouched
  <2>5. CASE /\ manifest' = << plan, call >>
             /\ creation' = [creation EXCEPT ![p] = Founding!Resting] /\ UNCHANGED mishaps
    <3>1. Works(Founding!Resting)'
      BY <2>4, <2>5, FoundingFacts DEF Works
    <3>2. mishaps' \in Seq(MishapKinds)
      BY <2>5, FoundingTypes
    <3> QED BY <1>1, <1>2, <1>3, <2>4, <2>5, <3>1, <3>2, FoundingFacts, TurnInv
  <2>6. CASE manifest' = << plan, call >> /\ Founding!Failed(p) /\ Founding!Mishap("lost-manifest")
    <3>1. Mishaps' = Mishaps \cup {"lost-manifest"} /\ mishaps' \in Seq(MishapKinds)
      BY <2>6, FoundingTypes, MishapIs DEF MishapKinds
    <3>2. "lost-manifest" \in Mishaps' /\ ~Faultless'
      BY <3>1 DEF Faultless
    <3> QED BY <1>1, <1>3, <2>4, <2>6, <3>1, <3>2, FailInv
  <2>7. CASE Founding!Failed(p) /\ Founding!Mishap("error") /\ UNCHANGED manifest
    <3>1. Mishaps' = Mishaps \cup {"error"} /\ mishaps' \in Seq(MishapKinds)
      BY <2>7, FoundingTypes, MishapIs DEF MishapKinds
    <3>2. Vouched' /\ manifest' = << >>
      BY <2>1, <2>7 DEF Vouched
    <3>3. \A m \in Names : sleeve'[m] # "none" => m \in Founding!Range(creation[p].made)
      BY <1>3, <2>1 DEF Built
    <3> QED BY <1>1, <1>3, <2>7, <3>1, <3>2, <3>3, FailInv
  <2>8. Founding!Writable
    BY <2>1 DEF Founding!Writable
  <2> QED BY <1>6, <2>2, <2>5, <2>6, <2>7, <2>8 DEF Founding!WriteManifest, Founding!NoMishap
<1> QED BY <1>5, <1>6

LEMMA UndoInv == ASSUME FoundingInv, NEW p \in Creators, Founding!Undo(p) PROVE FoundingInv'
<1>1. creation[p].at = "undo" /\ UNCHANGED << backend, manifest, calls >>
  BY DEF Founding!Undo
<1>2. /\ AtWork(p) /\ Works(creation[p]) /\ creation[p] \in Creations /\ creation \in [Creators -> Creations]
  BY <1>1, WorkerIs
<1>3. /\ manifest # << >> => "lost-manifest" \in Mishaps
      /\ Faultless => \A m \in Names : sleeve[m] # "none" => m \in Founding!Range(creation[p].made)
      /\ creation[p].plan \in Plans /\ creation[p].call \in 1..MaxCalls
  BY <1>1, <1>2 DEF Works
<1>4. CASE creation[p].made = << >> /\ creation' = [creation EXCEPT ![p] = Founding!Resting] /\ UNCHANGED << sleeve, mishaps >>
  <2>1. Still
    BY <1>1, <1>4 DEF Still
  <2>2. Faultless => Empty
    BY <1>3, <1>4, RangeIs DEF Empty
  <2>3. Works(Founding!Resting)'
    BY <1>4, <2>2, FoundingFacts DEF Works, Faultless, Mishaps, Empty
  <2> QED BY <1>2, <1>4, <2>1, <2>3, FoundingFacts, StillIs, TurnInv
<1>5. CASE /\ creation[p].made # << >> /\ Founding!Removal(Founding!Last(creation[p].made)) /\ UNCHANGED mishaps
           /\ creation' = [creation EXCEPT ![p].made = Founding!Front(@)]
  <2>1. PICK made \in Seq(Names) : made = creation[p].made
    BY <1>2 DEF Creations
  <2>2. PICK front, last : front = Founding!Front(made) /\ last = Founding!Last(made)
    OBVIOUS
  <2>3. /\ front \in Seq(Names) /\ last \in Names
        /\ Founding!Range(made) \subseteq Founding!Range(front) \cup {last}
    BY <1>5, <2>1, <2>2, RangeIs
  <2>4. PICK c : c = [creation[p] EXCEPT !.made = front]
    OBVIOUS
  <2>5. creation' = [creation EXCEPT ![p] = c]
    BY <1>2, <1>5, <2>1, <2>2, <2>4
  <2>6. /\ c \in Creations /\ c.at = "undo" /\ c.plan = creation[p].plan /\ c.call = creation[p].call /\ c.made = front
    BY <1>1, <1>2, <2>3, <2>4 DEF Creations
  <2>7. sleeve' = [sleeve EXCEPT ![last] = "none"]
    BY <1>5, <2>1, <2>2 DEF Founding!Removal, Founding!None
  <2>8. sleeve' \in [Names -> Founding!Configurations \cup {"none"}]
    BY <2>3, <2>7, FoundingTypes
  <2>9. Mishaps' = Mishaps /\ mishaps' \in Seq(MishapKinds)
    BY <1>5, FoundingTypes DEF Mishaps
  <2>10. Faultless' => \A m \in Names : sleeve'[m] # "none" => m \in Founding!Range(front)
    BY <1>3, <2>1, <2>3, <2>7, <2>9, FoundingTypes DEF Faultless
  <2>11. Works(c)' /\ Vouched'
    BY <1>1, <1>3, <2>6, <2>9, <2>10 DEF Works, Vouched
  <2> QED BY <1>1, <1>2, <2>5, <2>6, <2>8, <2>9, <2>11, FoundingTypes, TurnInv
<1>6. CASE creation' = [creation EXCEPT ![p] = Founding!Resting] /\ Founding!Mishap("kept") /\ UNCHANGED sleeve
  <2>1. Mishaps' = Mishaps \cup {"kept"} /\ mishaps' \in Seq(MishapKinds)
    BY <1>6, FoundingTypes, MishapIs DEF MishapKinds
  <2>2. Works(Founding!Resting)' /\ Vouched'
    BY <1>1, <1>3, <2>1, FoundingFacts DEF Works, Vouched, Faultless
  <2>3. sleeve' \in [Names -> Founding!Configurations \cup {"none"}]
    BY <1>6, FoundingTypes
  <2> QED BY <1>1, <1>2, <1>6, <2>1, <2>2, <2>3, FoundingFacts, FoundingTypes, TurnInv
<1> QED BY <1>4, <1>5, <1>6 DEF Founding!Undo, Founding!NoMishap

LEMMA CreatorDiesInv == ASSUME FoundingInv, NEW p \in Creators, Founding!Crash(p) PROVE FoundingInv'
<1>1. /\ creation[p].at # "rest" /\ Founding!Mishap("crash")
      /\ creation' = [creation EXCEPT ![p] = Founding!Resting]
      /\ UNCHANGED << backend, sleeve, manifest, calls >>
  BY DEF Founding!Crash
<1>2. AtWork(p)
  BY <1>1, WorkerIs
<1>3. Mishaps' = Mishaps \cup {"crash"} /\ mishaps' \in Seq(MishapKinds)
  BY <1>1, FoundingTypes, MishapIs DEF MishapKinds
<1>4. Works(Founding!Resting)'
  BY <1>3, FoundingFacts DEF Works, Faultless
<1>5. Vouched'
  BY <1>1, <1>3 DEF FoundingInv, Vouched, Founding!Whole
<1>6. sleeve' \in [Names -> Founding!Configurations \cup {"none"}]
  BY <1>1, FoundingTypes
<1> QED BY <1>1, <1>2, <1>3, <1>4, <1>5, <1>6, FoundingFacts, FoundingTypes, TurnInv

LEMMA FoundingInitInv == Founding!Init => FoundingInv
<1> SUFFICES ASSUME Founding!Init PROVE FoundingInv
  OBVIOUS
<1>1. /\ creation = [p \in Creators |-> Founding!Resting] /\ manifest = << >> /\ mishaps = << >> /\ calls = 0
      /\ sleeve = [m \in Names |-> "none"] /\ backend \in {"shared", "local"}
  BY DEF Founding!Init, Founding!None
<1>2. Founding!TypeOK
  <2>1. creation \in [Creators -> Creations]
    BY <1>1, FoundingFacts
  <2>2. mishaps \in Seq(MishapKinds) /\ 0 \in 0..MaxCalls
    BY <1>1, FoundingFacts
  <2> QED BY <1>1, <2>1, <2>2 DEF Founding!TypeOK, Creations, MishapKinds, Founding!None
<1>3. Alone
  BY <1>1, FoundingFacts DEF Alone
<1>4. Empty
  BY <1>1 DEF Empty
<1>5. Working
  BY <1>1, <1>4, FoundingFacts DEF Working, Works
<1> QED BY <1>1, <1>2, <1>3, <1>5 DEF FoundingInv, Vouched

LEMMA FoundingStepInv == FoundingInv /\ [Founding!Next]_(Founding!vars) => FoundingInv'
<1> SUFFICES ASSUME FoundingInv, [Founding!Next]_(Founding!vars) PROVE FoundingInv'
  OBVIOUS
<1>1. CASE UNCHANGED Founding!vars
  <2>1. Still /\ creation' = creation
    BY <1>1 DEF Founding!vars, Still
  <2>2. Founding!TypeOK' /\ Vouched'
    BY <2>1, StillIs, FoundingTypes DEF Founding!TypeOK, MishapKinds, Still
  <2>3. Alone'
    BY <2>1 DEF FoundingInv, Alone
  <2>4. ASSUME NEW p \in Creators, AtWork(p)' PROVE Works(creation[p])'
    <3>1. AtWork(p) /\ Works(creation[p])
      BY <2>1, <2>4 DEF FoundingInv, Working, AtWork
    <3> QED BY <2>1, <3>1 DEF Works, Still, Faultless, Mishaps, Empty, Built
  <2> QED BY <2>2, <2>3, <2>4 DEF FoundingInv, Working
<1>2. ASSUME NEW p \in Creators,
             \/ Founding!Begin(p) \/ Founding!List(p) \/ Founding!Resolve(p) \/ Founding!Decide(p)
             \/ Founding!CreateSleeve(p) \/ Founding!WriteManifest(p) \/ Founding!Undo(p) \/ Founding!Crash(p)
      PROVE  FoundingInv'
  BY <1>2, BeginInv, ListInv, LookupInv, DecideCreationInv, CreateSleeveInv, WriteManifestInv,
     UndoInv, CreatorDiesInv
<1> QED BY <1>1, <1>2 DEF Founding!Next

LEMMA FoundingRuns == MCSpec => Founding!Init /\ [][Founding!Next]_(Founding!vars)
<1>1. MCInit => Founding!Init
  BY DEF MCInit, FoundingAtRest
<1>2. [AlertStep \/ DataStep \/ FoundingStep]_<< world, alertVars, dataVars, foundingVars >>
        => [Founding!Next]_(Founding!vars)
  BY DEF AlertStep, DataStep, FoundingStep, foundingVars, Founding!vars
<1> QED BY <1>1, <1>2, PTL DEF MCSpec

LEMMA FoundingInvariance == MCSpec => []FoundingInv
BY FoundingRuns, FoundingInitInv, FoundingStepInv, PTL

\* Whatever goes wrong on the way, a manifest that was stored has every member it
\* names, as it states them, and no other, while creations take turns
\* (challenger_cohort.py create, storage/sleeves.py).
THEOREM AManifestVouches == MCSpec => []ManifestVouches
<1>1. FoundingInv => ManifestVouches
  BY DEF FoundingInv, Vouched, Mishaps, ManifestVouches, Founding!ManifestVouches
<1> QED BY <1>1, FoundingInvariance, PTL

\* A creation whose failures can all be undone leaves a whole cohort behind, or
\* nothing (challenger_cohort.py, "a half-built cohort is never left behind").
THEOREM AWholeCohortOrNone == MCSpec => []AllOrNothing
<1>1. FoundingInv => AllOrNothing
  <2> SUFFICES ASSUME FoundingInv, \A p \in Creators : creation[p].at = "rest", Faultless
               PROVE  IF manifest = << >> THEN Founding!Present = {} ELSE Founding!Whole(manifest[1])
    BY DEF AllOrNothing, Founding!AllOrNothing, Faultless, Mishaps
  <2>1. CASE manifest # << >>
    <3>1. "lost-manifest" \notin Mishaps
      BY DEF Faultless
    <3> QED BY <2>1, <3>1 DEF FoundingInv, Vouched
  <2>2. CASE manifest = << >>
    <3>1. Empty
      <4>1. PICK p \in Creators : creation[p].at = "rest"
        BY FoundingAssumption DEF Founding!FoundingAssumption
      <4> QED BY <2>2, <4>1 DEF FoundingInv, Working, AtWork, Works
    <3> QED BY <2>2, <3>1 DEF Empty, Founding!Present, Founding!None
  <2> QED BY <2>1, <2>2
<1> QED BY <1>1, FoundingInvariance, PTL

=============================================================================
