--------------------------- MODULE MCPaperLedger ---------------------------
(* Instances of PaperLedger for TLC.  Money is in twelfths of a dollar, so *)
(* that the averages of up to four shares are whole numbers.               *)
EXTENDS PaperLedger

CONSTANTS A, B, c1, bg

\* A holds two shares from before the lots, B nothing.
MCLegacy == [t \in Tickers |-> IF t = A THEN [qty |-> 2, basis |-> 24] ELSE [qty |-> 0, basis |-> 0]]
MCNoLegacy == [t \in Tickers |-> [qty |-> 0, basis |-> 0]]
=============================================================================
