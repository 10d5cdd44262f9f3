------------------------------ MODULE MCSessions ------------------------------
(* Instances of Sessions for TLC. *)
EXTENDS Sessions, TLC

CONSTANTS s1, s2, a, b

\* One session with two seats: lists of every length, in either order.
TwoSeats == [s \in {s1} |-> {a, b}]

\* Two sessions, more than the channel takes, one of which never gets a seat.
TwoSessions == [s \in {s1, s2} |-> IF s = s1 THEN {a} ELSE {}]

\* Connections are interchangeable, and so are the seats of TwoSeats.
Symmetry == Permutations(Resources) \cup Permutations({a, b})
=============================================================================
