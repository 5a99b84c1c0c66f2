---------------------------- MODULE CohortFounding ----------------------------
(***************************************************************************)
(* How a cohort comes into being (challenger_cohort.py create,             *)
(* scripts/bootstrap_paper_cohort.py apply_bootstrap) on the shared        *)
(* registry (storage/sleeves.py) or the local one (sleeves.py).            *)
(*                                                                         *)
(* A creation reads the manifest, the list of sleeves and every planned    *)
(* member in transactions of their own, creates the missing members one    *)
(* transaction at a time in the order of the plan, and writes the manifest *)
(* last.  When a step of it raises, it removes what it has created, newest *)
(* first.  A sleeve's identity is derived from the cohort and its name, so *)
(* a removal takes whatever sleeve bears that identity by then.            *)
(***************************************************************************)
EXTENDS Integers, FiniteSets, Sequences, SequencesExt

CONSTANTS
  Creators,   \* processes of the operators
  Members,    \* the names of the sleeves, in the order of the plan: 1..n
  Plans,      \* functions from a subset of Members to their configurations
  MaxCalls,   \* creations begun
  MaxFaults,  \* errors, lost answers and crashes
  Overlap     \* may a creation begin while another one is working?

FoundingAssumption ==
  /\ Members \in SUBSET (Nat \ {0}) /\ IsFiniteSet(Members) /\ Members # {}
  /\ \A plan \in Plans : DOMAIN plan \in (SUBSET Members) \ {{}}
  /\ Creators # {} /\ MaxCalls \in Nat /\ MaxFaults \in Nat /\ Overlap \in BOOLEAN

None == "none"

VARIABLES
  backend,  \* "shared" or "local"; never changes
  sleeve,   \* per name: the configuration of the cohort's sleeve, or None
  manifest, \* << >>, or the plan it states and the creation that stamped it
  creation, \* per process: the creation it works on
  calls,
  mishaps   \* what went wrong so far, a sequence

vars == << backend, sleeve, manifest, creation, calls, mishaps >>

Steps == {"rest", "list", "resolve", "create", "write", "undo"}

\* What a process holds while it works: the place, its plan and the number of the
\* call, whether it read a manifest, the members it still has to look up, those
\* it found missing or in conflict, and what it has created so far.
Resting == [at |-> "rest", plan |-> << >>, call |-> 0, stored |-> FALSE,
            ahead |-> {}, missing |-> {}, conflict |-> FALSE, made |-> << >>]

Init ==
  /\ backend \in {"shared", "local"}
  /\ sleeve = [m \in Members |-> None]
  /\ manifest = << >>
  /\ creation = [p \in Creators |-> Resting]
  /\ calls = 0
  /\ mishaps = << >>

Configurations == UNION { Range(plan) : plan \in Plans }

TypeOK ==
  /\ backend \in {"shared", "local"}
  /\ sleeve \in [Members -> Configurations \cup {None}]
  /\ manifest = << >> \/ manifest \in Plans \X (1..MaxCalls)
  /\ creation \in [Creators ->
       [at : Steps, plan : Plans \cup {<< >>}, call : 0..MaxCalls, stored : BOOLEAN,
        ahead : SUBSET Members, missing : SUBSET Members, conflict : BOOLEAN, made : Seq(Members)]]
  /\ calls \in 0..MaxCalls
  /\ mishaps \in Seq({"error", "lost-sleeve", "lost-manifest", "kept", "crash"})

First(names) == CHOOSE m \in names : \A n \in names : m <= n

Mishap(kind) == Len(mishaps) < MaxFaults /\ mishaps' = Append(mishaps, kind)

NoMishap == UNCHANGED mishaps

-----------------------------------------------------------------------------
(* Reading: a refusal leaves everything as it was                          *)

\* _read_manifest: a manifest of another plan is a conflict.
Begin(p) ==
  /\ creation[p].at = "rest"
  /\ calls < MaxCalls
  /\ Overlap \/ \A q \in Creators : creation[q].at = "rest"
  /\ calls' = calls + 1
  /\ \E plan \in Plans :
       creation' = [creation EXCEPT ![p] =
         IF manifest # << >> /\ manifest[1] # plan THEN Resting
         ELSE [Resting EXCEPT !.at = "list", !.plan = plan, !.call = calls + 1,
                              !.stored = manifest # << >>, !.ahead = DOMAIN plan]]
  /\ UNCHANGED << backend, sleeve, manifest, mishaps >>

Present == { m \in Members : sleeve[m] # None }

\* Mutation of Adoptable: the sleeves that are there already are not looked at.
AdoptableAnyway(c) == TRUE

\* Sleeves without a manifest are not adopted, nor members outside the plan.
Adoptable(c) == /\ ~ c.stored => Present = {}
                /\ Present \subseteq DOMAIN c.plan

List(p) ==
  /\ creation[p].at = "list"
  /\ creation' = [creation EXCEPT
       ![p] = IF Adoptable(creation[p]) THEN [@ EXCEPT !.at = "resolve"] ELSE Resting]
  /\ UNCHANGED << backend, sleeve, manifest, calls, mishaps >>

\* One planned member is looked up; the conflicts are collected.
Resolve(p) ==
  LET c == creation[p]
      m == First(c.ahead)
  IN /\ c.at = "resolve" /\ c.ahead # {}
     /\ creation' = [creation EXCEPT
          ![p].ahead = @ \ {m},
          ![p].missing = IF sleeve[m] = None THEN @ \cup {m} ELSE @,
          ![p].conflict = @ \/ sleeve[m] \notin {None, c.plan[m]}]
     /\ UNCHANGED << backend, sleeve, manifest, calls, mishaps >>

\* A manifest with members missing is never repaired.
Decide(p) ==
  LET c == creation[p]
  IN /\ c.at = "resolve" /\ c.ahead = {}
     /\ creation' = [creation EXCEPT ![p] =
          IF c.conflict \/ (c.stored /\ c.missing # {}) THEN Resting
          ELSE [@ EXCEPT !.at = "create"]]
     /\ UNCHANGED << backend, sleeve, manifest, calls, mishaps >>

-----------------------------------------------------------------------------
(* Writing                                                                 *)

Failed(p) == creation' = [creation EXCEPT ![p].at = "undo"]

\* Mutation of Noted: a sleeve is noted for removal only with the one after it.
NotedLate(p, m) ==
  creation' = [creation EXCEPT
    ![p].missing = @ \ {m},
    ![p].made = IF creation[p].missing = {m} THEN @ ELSE Append(@, m)]

\* The call remembers what it would have to remove.
Noted(p, m) ==
  creation' = [creation EXCEPT ![p].missing = @ \ {m}, ![p].made = Append(@, m)]

Taken(m) == sleeve[m] # None

\* store.create: refused when the name is taken; the row, its account and its
\* membership are one transaction on the shared registry.  A sleeve whose answer is
\* lost, or whose paper account cannot be set up afterwards, has been registered all
\* the same, and the call does not know it for its own.
CreateSleeve(p) ==
  LET c == creation[p]
      m == First(c.missing)
  IN /\ c.at = "create" /\ c.missing # {}
     /\ \/ /\ Taken(m)
           /\ Failed(p) /\ NoMishap /\ UNCHANGED sleeve
        \/ /\ ~ Taken(m)
           /\ sleeve' = [sleeve EXCEPT ![m] = c.plan[m]]
           /\ \/ Noted(p, m) /\ NoMishap
              \/ Failed(p) /\ Mishap("lost-sleeve")
        \/ Failed(p) /\ Mishap("error") /\ UNCHANGED sleeve
     /\ UNCHANGED << backend, manifest, calls >>

\* The manifest of another creation is stamped at another time: the shared registry
\* refuses to replace it, the local file is replaced.
Writable == manifest = << >> \/ backend = "local"

\* The manifest is written unless it was there when the call began.
WriteManifest(p) ==
  LET c == creation[p]
  IN /\ c.at = "create" /\ c.missing = {}
     /\ IF c.stored
        THEN /\ creation' = [creation EXCEPT ![p] = Resting]
             /\ NoMishap /\ UNCHANGED manifest
        ELSE \/ /\ Writable
                /\ manifest' = << c.plan, c.call >>
                /\ \/ creation' = [creation EXCEPT ![p] = Resting] /\ NoMishap
                   \/ backend = "shared" /\ Failed(p) /\ Mishap("lost-manifest")
             \/ ~ Writable /\ Failed(p) /\ NoMishap /\ UNCHANGED manifest
             \/ Failed(p) /\ Mishap("error") /\ UNCHANGED manifest
     /\ UNCHANGED << backend, sleeve, calls >>

\* The sleeve goes, with its membership and its paper account, whoever made it.
Removal(m) == sleeve' = [sleeve EXCEPT ![m] = None]

\* What the call created is removed, newest first; a removal that raises ends it.
Undo(p) ==
  LET c == creation[p]
  IN /\ c.at = "undo"
     /\ \/ /\ c.made = << >>
           /\ creation' = [creation EXCEPT ![p] = Resting]
           /\ NoMishap /\ UNCHANGED sleeve
        \/ /\ c.made # << >>
           /\ Removal(Last(c.made))
           /\ creation' = [creation EXCEPT ![p].made = Front(@)]
           /\ NoMishap
        \/ /\ c.made # << >>
           /\ creation' = [creation EXCEPT ![p] = Resting]
           /\ Mishap("kept") /\ UNCHANGED sleeve
     /\ UNCHANGED << backend, manifest, calls >>

Crash(p) ==
  /\ creation[p].at # "rest"
  /\ Mishap("crash")
  /\ creation' = [creation EXCEPT ![p] = Resting]
  /\ UNCHANGED << backend, sleeve, manifest, calls >>

Next ==
  \E p \in Creators :
    \/ Begin(p) \/ List(p) \/ Resolve(p) \/ Decide(p)
    \/ CreateSleeve(p) \/ WriteManifest(p) \/ Undo(p) \/ Crash(p)

Spec == Init /\ [][Next]_vars

-----------------------------------------------------------------------------
(* What must hold *)

Whole(plan) == sleeve = [m \in Members |-> IF m \in DOMAIN plan THEN plan[m] ELSE None]

\* "A half-built cohort is never left behind" (challenger_cohort.py:720): when nobody
\* is working and every failure was one the call could undo, the cohort is not there
\* at all, or its manifest is and every member is as it says.
AllOrNothing ==
  ((\A p \in Creators : creation[p].at = "rest") /\ Range(mishaps) \subseteq {"error"}) =>
     IF manifest = << >> THEN Present = {} ELSE Whole(manifest[1])

\* A manifest vouches for its members: from the moment it is stored every sleeve it
\* names exists with the configuration it states, and so it stays whatever is tried,
\* refused, undone or interrupted later on - unless the answer to the very
\* transaction that stored it was lost.
ManifestVouches ==
  (manifest # << >> /\ "lost-manifest" \notin Range(mishaps)) => Whole(manifest[1])

=============================================================================
