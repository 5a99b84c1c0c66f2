------------------------------ MODULE MCBooks ------------------------------
(***************************************************************************)
(* Accounts with the broker that share nothing, in one state space: the    *)
(* fills of live orders, the paper account of a sleeve, and the broker's   *)
(* credentials.  The initial state picks the one that is worked on; the    *)
(* others rest.                                                            *)
(***************************************************************************)
EXTENDS FillBook, TLC

CONSTANTS
  buying, selling,
  Symbols, Prices, Quantities, Start, Leverage, Settle, MaintenanceDen, RateDen,
  Weekend, MaxDay, MaxOrders, NoOrder,
  Access, Window, MaxClock, MaxLogins, MaxRequests

MCSize == (buying :> 2) @@ (selling :> 1)

VARIABLES
  ledger,  \* what is worked on
  book, today, desk, orders, history,
  clock, rotates, grants, file, cache, caller, requests, scattered

paperVars == << book, today, desk, orders, history >>
tokenVars == << clock, rotates, grants, file, cache, caller, requests, scattered >>

Paper == INSTANCE PaperDesk WITH Desks <- Observers

ASSUME PaperAssumption == Paper!PaperAssumption

Tokens == INSTANCE TokenDesk WITH Desks <- Observers

ASSUME TokenAssumption == Tokens!TokenAssumption

PaperAtRest == book = 0 /\ today = 0 /\ desk = 0 /\ orders = 0 /\ history = 0

TokensAtRest ==
  /\ clock = 0 /\ rotates = 0 /\ grants = 0 /\ file = 0 /\ cache = 0 /\ caller = 0
  /\ requests = 0 /\ scattered = 0

MCInit ==
  /\ Init
  /\ \/ ledger = "fills" /\ PaperAtRest /\ TokensAtRest
     \/ ledger = "paper" /\ Paper!Init /\ TokensAtRest
     \/ ledger = "tokens" /\ PaperAtRest /\ Tokens!Init

FillStep == ledger = "fills" /\ Next /\ UNCHANGED << ledger, paperVars, tokenVars >>
PaperStep == ledger = "paper" /\ Paper!Next /\ UNCHANGED << ledger, vars, tokenVars >>
TokenStep == ledger = "tokens" /\ Tokens!Next /\ UNCHANGED << ledger, vars, paperVars >>

MCSpec ==
  MCInit /\ [][FillStep \/ PaperStep \/ TokenStep]_<< ledger, vars, paperVars, tokenVars >>

\* PaperDesk: cash, shares and gains are what the orders and the interest add up to.
BooksAgree == ledger = "paper" => Paper!BooksAgree

\* PaperDesk: no purchase leaves the books beyond their buying power.
BuysWithinPower == [][ledger = "paper" => Paper!WithinPower]_paperVars

\* TokenDesk: windows, the shared login and writes are as promised.
CredentialsHold == ledger = "tokens" => Tokens!CredentialsHold

\* The same two processes observe fills, run cycles or call the broker.
Symmetry == Permutations(Observers)

=============================================================================
