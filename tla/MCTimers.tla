------------------------------ MODULE MCTimers ------------------------------
\* Model of Timers for TLC: small programs of sockets, Timeouts and an interval.
EXTENDS Timers

CONSTANTS s1, s2, t1, t2, v1

P(uses, delays, until) == [uses |-> uses, delays |-> delays, until |-> until]
SmallPrograms ==
  {P({s1, t1}, {3}, 4),   \* share a list
   P({s1, t1}, {0}, 2),   \* have two
   P({t1, t2}, {2}, 2), P({t1, v1}, {2}, 2), P({s1, s2}, {}, 5),
   P({v1}, {0}, 4)}       \* an interval fires again and again
=============================================================================
