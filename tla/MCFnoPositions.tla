---------------------------- MODULE MCFnoPositions ----------------------------
(* Instances of FnoPositions for TLC.                                      *)
EXTENDS FnoPositions, TLC

CONSTANTS a1, a2

\* two candidates on the first day, none on the second
FirstDay == <<{a1, a2}, {}>>

\* a bought option, and what its wings add to a sold one: an iron condor
Long   == [side |-> "BUY", rest |-> 0]
Condor == [side |-> "SELL", rest |-> 1]

\* the second symbol may be proposed either
LongAndCondor == (a1 :> {Long} @@ a2 :> {Long, Condor})
LongOnly      == (a1 :> {Long})

\* one candidate on one day
OneCandidate == <<{a1}>>

=============================================================================
