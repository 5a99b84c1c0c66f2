\* Fills: a purchase of two shares and a sale of one, two observers that may die.
\* Paper: two cycles on a margin account with delayed settlement over a weekend.
\* Tokens: two logins and two requests by two processes of two threads, over three ticks.
CONSTANTS
  buying = buying
  selling = selling
  Buys = {buying}
  Sells = {selling}
  Size <- MCSize
  Observers = {w1, w2}
  MayCrash = TRUE
  Incomplete = TRUE
  Symbols = {x, y}
  Prices = {1, 3}
  Quantities = {1, 2}
  Start = 2
  Leverage = 2
  Settle = TRUE
  MaintenanceDen = 4
  RateDen = 2
  Weekend = {1}
  MaxDay = 2
  MaxOrders = 3
  NoOrder = NoOrder
  Access = 1
  Window = 2
  MaxClock = 2
  MaxLogins = 2
  MaxRequests = 2
SPECIFICATION MCSpec
SYMMETRY Symmetry
INVARIANTS
  EachFillOnce
  LotsAddUp
  BooksAgree
  CredentialsHold
PROPERTIES
  BuysWithinPower
