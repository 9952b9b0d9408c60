--------------------------- MODULE MCSupervision ---------------------------
(* Instances of Supervision for TLC.                                       *)
EXTENDS Supervision

\* Younger is the list comprehension of restart() and record_crash() on every
\* short list of times that have come in order.
InOrder == {times \in UNION {[1 .. n -> 0 .. 3] : n \in 0 .. 4} :
              \A i \in DOMAIN times : i = 1 \/ times[i] <= times[i - 1]}

ASSUME YoungerFilters ==
  \A times \in InOrder, limit \in 0 .. 4 :
    Younger(times, limit) = SelectSeq(times, LAMBDA age : age < limit)
=============================================================================
