------------------------------ MODULE MCCalendar ------------------------------
(* A day of eight ticks.  The clocks go forward or back by one or by two,  *)
(* at every tick from shortly before one midnight to the next one.         *)
EXTENDS Calendar

Steps(from, to, t) == [i \in Instant |-> IF i < t THEN from ELSE to]
MCZones ==
  {Steps(0, n, t) : n \in 0..2, t \in 2*Day-2..3*Day} \cup
  {Steps(n, 0, t) : n \in 1..2, t \in 2*Day-2..3*Day}
MCWindows == {<<6, 2>>, <<2, 6>>, <<3, 3>>}
=============================================================================
