----------------------------- MODULE MCFillBook -----------------------------
EXTENDS FillBook, TLC

CONSTANTS b, s

MCSize == (b :> 2) @@ (s :> 1)

=============================================================================
