------------------------------ MODULE MCBooking ------------------------------
(* Instances of Booking for TLC. *)
EXTENDS Booking, TLC

\* Requests, loaders and seats are interchangeable; for safety runs only.
Symmetry ==
  Permutations(Requests) \cup Permutations(Loaders) \cup Permutations(Seats)
=============================================================================
