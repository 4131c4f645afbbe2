--------------------------- MODULE MCPaperTrading ---------------------------
(* Instances of PaperTrading for TLC.                                      *)
EXTENDS PaperTrading, TLC

CONSTANTS i1, buy, sell, limit, stop

Ask(side, kind, instrument, quantity, level) ==
    [trade_type |-> side, order_type |-> kind, instrument |-> instrument,
     quantity |-> quantity, level |-> level]

\* two orders of the book and a market call on one instrument, so that the
\* SELLs of both kinds meet on the holding the BUY makes
Contended ==
    (limit :> Ask("BUY", "LIMIT", i1, 2, 5)) @@
    (sell  :> Ask("SELL", "MARKET", i1, 1, 0)) @@
    (stop  :> Ask("SELL", "STOP_LOSS", i1, 2, 3))

\* a market call and two orders, a batch of two, executed one at a time
Unhurried ==
    (buy   :> Ask("BUY", "MARKET", i1, 2, 0)) @@
    (limit :> Ask("BUY", "LIMIT", i1, 1, 3)) @@
    (stop  :> Ask("SELL", "STOP_LOSS", i1, 2, 3))

=============================================================================
