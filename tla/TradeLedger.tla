----------------------------- MODULE TradeLedger -----------------------------
(* What a reader of quant_trades relies on: a row is written open, is      *)
(* closed at most once, and what a closed row says is final; a day never   *)
(* has more open rows than the portfolio may hold at once.                 *)
EXTENDS Naturals, Sequences, FiniteSets

CONSTANTS
    Entry,         \* what a row says from its opening on
    Exit,          \* what its closing adds
    MaxConcurrent, \* open rows of one day, at most
    Day(_)         \* the day of an entry

VARIABLE trades

OpenOn(d, ledger) ==
    {t \in DOMAIN ledger : ledger[t].status = "open" /\ Day(ledger[t].entry) = d}

Init == trades = <<>>

Open(e) ==
    /\ trades' = Append(trades, [status |-> "open", entry |-> e])
    /\ Cardinality(OpenOn(Day(e), trades')) <= MaxConcurrent

Close(t, x) ==
    /\ trades[t].status = "open"
    /\ trades' = [trades EXCEPT ![t] =
                    [status |-> "closed", entry |-> @.entry, exit |-> x]]

Next ==
    \/ \E e \in Entry : Open(e)
    \/ \E t \in DOMAIN trades, x \in Exit : Close(t, x)

Spec == Init /\ [][Next]_trades

=============================================================================
