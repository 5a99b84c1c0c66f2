---------------------------- MODULE CohortAlerts ----------------------------
(***************************************************************************)
(* One operator alert: the row of cohort_alerts for one (cohort, session,  *)
(* kind), and the processes whose CohortAlertService.emit races to deliver *)
(* it (cohort_alerts.py, storage/alerts.py, notify.py).  A claim, a send   *)
(* and a mark are separate steps: a process may die between two of them,   *)
(* and the mail server may accept a message and then break the connection. *)
(*                                                                         *)
(* Time is abstracted to whether ambiguous_after has passed since the row  *)
(* was written.                                                            *)
(***************************************************************************)
EXTENDS Naturals, FiniteSets

CONSTANTS
  Senders,      \* processes that may emit the alert
  MaxAttempts   \* DEFAULT_MAX_ATTEMPTS

ASSUME AlertsAssumption == MaxAttempts \in Nat \ {0} /\ IsFiniteSet(Senders)

VARIABLES
  channelLive,  \* SMTP is configured; never changes
  slow,         \* a live send may outlast ambiguous_after; never changes
  delivery,  \* cohort_alerts.delivery, or "absent"
  attempts,  \* cohort_alerts.attempts
  stale,     \* ambiguous_after has passed since updated_at
  at,        \* per sender: where it is in emit
  marked,    \* per sender: its message is marked as a possible duplicate
  plain,     \* messages the operator has received without that mark
  repeats    \* messages received with it

config == << channelLive, slow >>
row  == << delivery, attempts, stale >>
heard == << plain, repeats >>
vars == << channelLive, slow, delivery, attempts, stale, at, marked, plain, repeats >>

At == {"idle", "send", "markSent", "markFailed"}

Received == plain + repeats

TypeOK ==
  /\ channelLive \in BOOLEAN
  /\ slow \in BOOLEAN
  /\ delivery \in {"absent", "pending", "sent", "failed"}
  /\ attempts \in 0..MaxAttempts
  /\ stale \in BOOLEAN
  /\ at     \in [Senders -> At]
  /\ marked \in [Senders -> BOOLEAN]
  /\ plain   \in 0..MaxAttempts
  /\ repeats \in 0..MaxAttempts

Init ==
  /\ channelLive \in BOOLEAN
  /\ slow \in BOOLEAN
  /\ delivery = "absent"
  /\ attempts = 0
  /\ stale = FALSE
  /\ at     = [p \in Senders |-> "idle"]
  /\ marked = [p \in Senders |-> FALSE]
  /\ plain = 0
  /\ repeats = 0

Move(p, label) == at' = [at EXCEPT ![p] = label]

Write(status) == delivery' = status /\ stale' = FALSE

-----------------------------------------------------------------------------
(* claim *)

\* A new transition, or one whose last attempt is recorded as failed.
FreshClaim ==
  \/ delivery = "absent"
  \/ delivery = "failed" /\ attempts < MaxAttempts

\* Mutation of UncertainClaim: a pending record is always left alone.
UncertainClaimNever == FALSE

\* An abandoned attempt: whether its message went out is unknown.
UncertainClaim == delivery = "pending" /\ stale /\ attempts < MaxAttempts

Granted == FreshClaim \/ UncertainClaim

\* Mutation of Claim: the takeover of an abandoned attempt is not counted.
ClaimUncounted(p) ==
  /\ at[p] = "idle"
  /\ Granted
  /\ Write("pending")
  /\ attempts' = IF UncertainClaim THEN attempts ELSE attempts + 1
  /\ marked' = [marked EXCEPT ![p] = UncertainClaim]
  /\ Move(p, IF channelLive THEN "send" ELSE "markSent")
  /\ UNCHANGED << config, heard >>

Claim(p) ==
  /\ at[p] = "idle"
  /\ Granted
  /\ Write("pending")
  /\ attempts' = attempts + 1
  /\ marked' = [marked EXCEPT ![p] = UncertainClaim]
  /\ Move(p, IF channelLive THEN "send" ELSE "markSent")
  /\ UNCHANGED << config, heard >>

\* The transition was notified, is in flight elsewhere, or is out of attempts.
Denied(p) ==
  /\ at[p] = "idle"
  /\ ~Granted
  /\ UNCHANGED vars

\* ambiguous_after passes; an attempt that is still alive is normally done by then.
Age ==
  /\ delivery = "pending"
  /\ ~stale
  /\ slow \/ \A p \in Senders : at[p] = "idle"
  /\ stale' = TRUE
  /\ UNCHANGED << config, delivery, attempts, at, marked, heard >>

-----------------------------------------------------------------------------
(* send *)

Deliver(p) ==
  IF marked[p] THEN repeats' = repeats + 1 /\ UNCHANGED plain
               ELSE plain' = plain + 1 /\ UNCHANGED repeats

Send(p) ==
  /\ at[p] = "send"
  /\ Deliver(p)
  /\ Move(p, "markSent")
  /\ UNCHANGED << config, row, marked >>

\* Mutation of SendRaises: the failure is swallowed and the send recorded.
SendSwallowed(p) ==
  /\ at[p] = "send"
  /\ Move(p, "markSent")
  /\ UNCHANGED << config, row, marked, heard >>

\* The channel rejects the message, or breaks after it has accepted it.
SendRaises(p) ==
  /\ at[p] = "send"
  /\ UNCHANGED heard \/ Deliver(p)
  /\ Move(p, "markFailed")
  /\ UNCHANGED << config, row, marked >>

-----------------------------------------------------------------------------
(* mark_sent, mark_failed: unconditional updates of the row *)

MarkSent(p) ==
  /\ at[p] = "markSent"
  /\ Write("sent")
  /\ Move(p, "idle")
  /\ UNCHANGED << config, attempts, marked, heard >>

MarkFailed(p) ==
  /\ at[p] = "markFailed"
  /\ Write("failed")
  /\ Move(p, "idle")
  /\ UNCHANGED << config, attempts, marked, heard >>

\* The store fails while the outcome is recorded: reported, never raised.
MarkLost(p) ==
  /\ at[p] \in {"markSent", "markFailed"}
  /\ Move(p, "idle")
  /\ UNCHANGED << config, row, marked, heard >>

Crash(p) ==
  /\ at[p] # "idle"
  /\ Move(p, "idle")
  /\ UNCHANGED << config, row, marked, heard >>

-----------------------------------------------------------------------------
(* The system *)

Emit(p) == Claim(p) \/ Send(p) \/ MarkSent(p)

Next ==
  \/ Age
  \/ \E p \in Senders : \/ Emit(p) \/ Denied(p) \/ SendRaises(p) \/ MarkFailed(p)
                        \/ MarkLost(p) \/ Crash(p)

Spec == Init /\ [][Next]_vars

-----------------------------------------------------------------------------
(* What must hold *)

\* What "cohort alerts" lists as unresolved with no attempt left.
Exhausted == delivery \in {"pending", "failed"} /\ attempts = MaxAttempts

\* The record does not lie.  Sent means that the operator has received the message,
\* whichever of several racing attempts wrote the record last; and each message,
\* received or about to be sent, has used up an attempt of its own, so a process that
\* dies in every attempt cannot mail the operator for ever (DEFAULT_MAX_ATTEMPTS).
RecordIsHonest ==
  /\ channelLive /\ delivery = "sent" => Received > 0
  /\ Received + Cardinality({ p \in Senders : at[p] = "send" }) <= attempts
  /\ attempts <= MaxAttempts

-----------------------------------------------------------------------------
(* Liveness *)

\* Invocations keep coming, time passes, and a process that is in emit goes on
\* unless it dies.
Fairness ==
  /\ WF_vars(Age)
  /\ \A p \in Senders :
       WF_vars(Emit(p) \/ SendRaises(p) \/ MarkFailed(p) \/ MarkLost(p) \/ Crash(p))

FairSpec == Spec /\ Fairness

\* No alert is silently dropped: it ends up recorded as sent, or exhausted where
\* the health command shows it.
SentOrVisible == <>[](delivery = "sent" \/ Exhausted)

=============================================================================
