---------------------------- MODULE SharedCounters ----------------------------
(* The counters that the workers of the boost mode share: the rates and    *)
(* the hits, in two parts of the table that never meet.                    *)
EXTENDS SharedRates, SharedHits

\* The rates and the hits that the workers count together are those each of them would count alone,
\* whatever the other keys do, except for a key whose slot was taken while it was in use.
SharedCountersAreExact == SharedRateIsExact /\ SharedHitsAreExact
=============================================================================
