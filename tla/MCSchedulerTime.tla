---------------------------- MODULE MCSchedulerTime ----------------------------
(* Calendars around the edges: the ends of the finite range, the year 0, the *)
(* ends of centuries and eras, and the first year of five digits.            *)
EXTENDS SchedulerTime

Edges == {-4713, -401, -2, 99, 399, 1899, 1969, 1999, 2099, 9998, 294275}

===============================================================================
