---------------------------- MODULE MCFreshness ----------------------------
(* Freshness on a small instance. *)
EXTENDS Freshness

\* freshnessSlope in thousandths, for registrations that change once in thirty
\* days, once in four and twice a day, at 0, 1/3, 2/3 and 1 checks a day.
SlopeTable ==
    LET Row(limit, table) == [k \in 0..3 |-> IF k = 0 THEN limit ELSE table[k]] IN
    << Row(30000, <<140, 36, 16>>),
       Row(4000, <<693, 220, 106>>),
       Row(500, <<491, 400, 297>>) >>
=============================================================================
