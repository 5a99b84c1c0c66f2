----------------------------- MODULE TokenDesk -----------------------------
(***************************************************************************)
(* The broker's credentials (token_store.py, auth.py) and the requests     *)
(* made with them (client.py): one token file, logins, and processes whose *)
(* threads share a cached token set that they never read again.            *)
(*                                                                         *)
(* The token endpoint is external.  It may or may not hand out a new       *)
(* refresh token with every refresh and end the old one (`rotates').  The  *)
(* leeway before an access token ends is less than a tick, and the rate    *)
(* limiter, which only delays a request, is left out.                      *)
(***************************************************************************)
EXTENDS Naturals, Sequences, FiniteSets

CONSTANTS
  Desks,        \* processes, each with two threads
  Access,       \* ticks an access token lives
  Window,       \* ticks from a login to the end of its refresh window
  MaxClock,     \* bounds the clock
  MaxLogins,    \* bounds the logins
  MaxRequests   \* bounds the requests of all threads

TokenAssumption ==
  /\ IsFiniteSet(Desks)
  /\ { Access, Window, MaxClock, MaxLogins, MaxRequests } \subseteq Nat \ {0}

Callers == Desks \X {1, 2}

VARIABLES
  clock,
  rotates,    \* does a refresh end the refresh token it was made with?
  grants,     \* the endpoint: of each login, its times and its live refresh token
  file,       \* the token file: no token set, or one
  cache,      \* of each process, the token set it holds; none while it is not running
  caller,     \* of each thread, its request
  requests,   \* requests made so far
  scattered   \* have two holders of token sets, or a lost answer, crossed each other?

vars == << clock, rotates, grants, file, cache, caller, requests, scattered >>

\* A TokenSet: which login it stems from, its refresh token, and its two ends.
TokenSets ==
  [of : 1..MaxLogins, refresh : Nat, expires : Nat, windowEnd : Nat]

Places == {"rest", "token", "refresh", "save", "send"}
\* What a caller was told, as far as a property asks: that its write is done, or that
\* its refresh token was used up; a failure and a window that is over are neither.
Told == {"nothing", "done", "used up"}

\* `done' counts how often the broker has acted on the write.
Idle == [at |-> "rest", done |-> 0, fresh |-> << >>, told |-> "nothing"]

TypeOK ==
  /\ clock \in 0..MaxClock /\ requests \in 0..MaxRequests
  /\ rotates \in BOOLEAN /\ scattered \in BOOLEAN
  /\ Len(grants) <= MaxLogins
  /\ \A one \in {file} \union { cache[p] : p \in Desks } \union { caller[c].fresh : c \in Callers } :
       Len(one) <= 1 /\ \A i \in DOMAIN one : one[i] \in TokenSets
  /\ \A c \in Callers :
       caller[c].at \in Places /\ caller[c].told \in Told /\ caller[c].done \in Nat

Init ==
  /\ clock = 0 /\ rotates \in BOOLEAN /\ grants = << >> /\ file = << >>
  /\ cache = [p \in Desks |-> << >>]
  /\ caller = [c \in Callers |-> Idle]
  /\ requests = 0 /\ scattered = FALSE

Tick ==
  /\ clock < MaxClock /\ clock' = clock + 1
  /\ UNCHANGED << rotates, grants, file, cache, caller, requests, scattered >>

-----------------------------------------------------------------------------
(* Token sets *)

\* from_token_response of a login: the window starts when the answer is here
Granted(g) == [of |-> g, refresh |-> 0, expires |-> clock + Access, windowEnd |-> clock + Window]

\* A refresh that starts the window anew.
RefreshedAnew(tokens, refresh) ==
  [tokens EXCEPT !.refresh = refresh, !.expires = clock + Access, !.windowEnd = clock + Window]

\* from_token_response of a refresh: a new access token in the window of the login
Refreshed(tokens, refresh) ==
  [tokens EXCEPT !.refresh = refresh, !.expires = clock + Access]

AccessExpired(tokens)  == clock >= tokens.expires
RefreshExpired(tokens) == clock >= tokens.windowEnd

-----------------------------------------------------------------------------
(* auth login *)

\* auth_login: the code is exchanged, with an answer that may be a tick on its way,
\* and the tokens are stored - or the command dies before that.
Login ==
  /\ Len(grants) < MaxLogins
  /\ \E late \in {0, 1} :
       /\ late <= clock
       /\ grants' = Append(grants, [granted |-> clock - late, obtained |-> clock, refresh |-> 0])
  /\ \/ /\ file' = << Granted(Len(grants) + 1) >>
        /\ scattered' = (scattered \/ \E p \in Desks : cache[p] # << >>)
     \/ UNCHANGED << file, scattered >>
  /\ UNCHANGED << clock, rotates, cache, caller, requests >>

-----------------------------------------------------------------------------
(* A process *)

At(c, place) == caller[c].at = place
Goes(c, fields) == caller' = [caller EXCEPT ![c] = fields]
Tells(c, told) == Goes(c, [Idle EXCEPT !.done = caller[c].done, !.told = told])

\* _build_client: the file is read once; without a login the process exits.
Open(p) ==
  /\ cache[p] = << >>
  /\ cache' = [cache EXCEPT ![p] = file]
  /\ scattered' = (scattered \/ \E c \in Callers : At(c, "save"))
  /\ UNCHANGED << clock, rotates, grants, file, caller, requests >>

\* It ends, at rest or in the middle of anything.
End(p) ==
  /\ cache[p] # << >>
  /\ cache' = [cache EXCEPT ![p] = << >>]
  /\ scattered' = (scattered \/ \E t \in {1, 2} : At(<< p, t >>, "save"))
  /\ caller' = [c \in Callers |-> IF c[1] = p THEN Idle ELSE caller[c]]
  /\ UNCHANGED << clock, rotates, grants, file, requests >>

Ask(c) ==
  /\ At(c, "rest") /\ cache[c[1]] # << >> /\ requests < MaxRequests
  /\ requests' = requests + 1
  /\ Goes(c, [Idle EXCEPT !.at = "token"])
  /\ UNCHANGED << clock, rotates, grants, file, cache, scattered >>

\* Without the lock two threads refresh at once.
NeverLocked(p) == FALSE

\* The lock of the token manager, which a thread holds until its refresh is saved.
Locked(p) == \E t \in {1, 2} : caller[<< p, t >>].at \in {"refresh", "save"}

\* get_access_token, up to the refresh
GetAccessToken(c) ==
  LET tokens == cache[c[1]][1] IN
  /\ At(c, "token") /\ ~Locked(c[1])
  /\ \/ ~AccessExpired(tokens) /\ Goes(c, [caller[c] EXCEPT !.at = "send"])
     \/ AccessExpired(tokens) /\ RefreshExpired(tokens) /\ Tells(c, "nothing")
     \/ AccessExpired(tokens) /\ ~RefreshExpired(tokens) /\ Goes(c, [caller[c] EXCEPT !.at = "refresh"])
  /\ UNCHANGED << clock, rotates, grants, file, cache, requests, scattered >>

\* The endpoint rejects a refresh token whose window is over, or that is used up.
WindowOver(tokens) == clock >= grants[tokens.of].granted + Window
UsedUp(tokens)     == tokens.refresh # grants[tokens.of].refresh

\* refresh_tokens: the endpoint honours the token or rejects it (as it may any token
\* of an older login), it is not reached, or its answer is lost.
Refresh(c) ==
  LET tokens  == cache[c[1]][1]
      refresh == IF rotates THEN tokens.refresh + 1 ELSE tokens.refresh
  IN
  /\ At(c, "refresh")
  /\ \/ /\ ~WindowOver(tokens) /\ ~UsedUp(tokens)
        /\ grants' = [grants EXCEPT ![tokens.of].refresh = refresh]
        /\ \/ /\ Goes(c, [caller[c] EXCEPT !.at = "save", !.fresh = << Refreshed(tokens, refresh) >>])
              /\ scattered' = (scattered \/ \E p \in Desks \ {c[1]} : cache[p] # << >>)
           \/ Tells(c, "nothing") /\ scattered' = (scattered \/ rotates)
     \/ UsedUp(tokens) /\ Tells(c, "used up") /\ UNCHANGED << grants, scattered >>
     \/ Tells(c, "nothing") /\ UNCHANGED << grants, scattered >>
  /\ UNCHANGED << clock, rotates, file, cache, requests >>

\* TokenStore.save replaces the file at once, then the process caches the tokens.
Save(c) ==
  /\ At(c, "save")
  /\ file' = caller[c].fresh
  /\ cache' = [cache EXCEPT ![c[1]] = caller[c].fresh]
  /\ Goes(c, [caller[c] EXCEPT !.at = "send", !.fresh = << >>])
  /\ UNCHANGED << clock, rotates, grants, requests, scattered >>

\* Writes are sent again, too.
RepeatsAll(kind) == TRUE

\* A request is sent again, up to a number of attempts, only if it is a read.
Repeats(kind) == kind = "get"

\* _request and request_once: the broker acts on the request and answers, refuses
\* it, gives none it can use (429, 5xx, a broken connection), whether or not it acted.  What
\* kind of request it is makes no difference before.
Send(c, kind) ==
  /\ At(c, "send")
  /\ \E acted \in BOOLEAN, answer \in {"ok", "refused", "none"} :
       /\ (answer = "ok") => acted
       /\ (answer = "refused") => ~acted
       /\ LET done == caller[c].done + (IF acted /\ kind = "post" THEN 1 ELSE 0)
              told == IF answer = "ok" /\ kind = "post" THEN "done" ELSE "nothing"
          IN \/ /\ answer = "none" /\ Repeats(kind)
                /\ Goes(c, [caller[c] EXCEPT !.at = "token", !.done = done])
             \/ Goes(c, [Idle EXCEPT !.done = done, !.told = told])
  /\ UNCHANGED << clock, rotates, grants, file, cache, requests, scattered >>

Next ==
  \/ Tick \/ Login
  \/ \E p \in Desks : Open(p) \/ End(p)
  \/ \E c \in Callers :
       Ask(c) \/ GetAccessToken(c) \/ Refresh(c) \/ Save(c) \/ Send(c, "get") \/ Send(c, "post")

Spec == Init /\ [][Next]_vars

-----------------------------------------------------------------------------
(* Properties *)

\* Every token set the system holds knows its own window: "refreshing preserves the
\* original window rather than resetting it" (token_store.py), so however often it is
\* refreshed and by whom, it ends a window after the login it stems from.
WindowsAreHonest ==
  \A one \in {file} \union { cache[p] : p \in Desks } \union { caller[c].fresh : c \in Callers } :
    \A i \in DOMAIN one : one[i].windowEnd = grants[one[i].of].obtained + Window

\* While processes and logins take turns and no answer is lost, a process holds what
\* the file holds but for a refresh it is saving, and no thread is told to log in
\* again over a refresh token that is used up, however the endpoint treats old ones.
TurnsKeepTheLogin ==
  ~scattered =>
    /\ \A p \in Desks : cache[p] # << >> => cache[p] = file
    /\ \A c \in Callers : caller[c].told # "used up"

\* The broker acts on a write at most once, and it has acted on what was reported done.
WritesHappenOnce ==
  \A c \in Callers :
    /\ caller[c].done <= 1
    /\ caller[c].told = "done" => caller[c].done = 1

\* What the credentials promise.
CredentialsHold == WindowsAreHonest /\ TurnsKeepTheLogin /\ WritesHappenOnce

=============================================================================
