------------------------------- MODULE MCRedis -------------------------------
(* Instances of RedisHelper for TLC. *)
EXTENDS RedisHelper, TLC

\* Requests, connections and seats are interchangeable.
Symmetry ==
  Permutations(Clients) \cup Permutations(Resources) \cup Permutations(Keys)
=============================================================================
