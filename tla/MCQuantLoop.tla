----------------------------- MODULE MCQuantLoop -----------------------------
(* Instances of QuantLoop for TLC.                                         *)
EXTENDS QuantLoop

CONSTANTS s1, s2

\* the morning selection is one of the two symbols
OneSymbol == {{s1}, {s2}}

=============================================================================
