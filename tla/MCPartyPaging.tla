--------------------------- MODULE MCPartyPaging ---------------------------
(* Instances of PartyPaging for TLC. *)
EXTENDS PartyPaging

\* Limits below, within and above the range.
SomeLimits == {0, 1, 4}

\* Of ids below 100.
TwoDigits == [a \in Ids |-> IF a < 10 THEN 1 ELSE 2]

\* "1", "10", "11", ..., "2", "20", ...
TwoDigitStrings ==
  [a \in Ids |-> IF a < 10 THEN 11 * a ELSE 11 * (a \div 10) + 1 + (a % 10)]
=============================================================================
