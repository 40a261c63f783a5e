--------------------------- MODULE MCIntegration ---------------------------
(***************************************************************************)
(* Instances of Integration for TLC: a slot within the day, one that       *)
(* begins with it, one from its first instant to its last, one that wraps  *)
(* around midnight, an undefined one and none.                             *)
(***************************************************************************)
EXTENDS Integration

Interval(from, to) == [start |-> from, end |-> to]

MCSlots ==
    {NoSlot, Interval(0, 0), Interval(1, 2), Interval(0, 2), Interval(0, 3), Interval(3, 1)}

=============================================================================
