------------------------------ MODULE SeatCache ------------------------------
(***************************************************************************)
(* What the seat statuses in Redis promise, whatever goes on below: a seat *)
(* is blocked only when it is free, in one atomic step and by one request; *)
(* it is confirmed only when it is blocked; and only a (re)load from the   *)
(* database undoes either.  RedisHelper, with its pooled connections and   *)
(* WATCH/MULTI/EXEC, implements this specification.                        *)
(***************************************************************************)
CONSTANTS Requests, Keys, Nobody

VARIABLES
  status,  \* the status of each seat key, "missing" when it has none
  winner   \* the request whose block of the seat stands

vars == <<status, winner>>

Loadable == {"free", "confirmed"}

Init ==
  /\ status \in [Keys -> Loadable \cup {"missing"}]
  /\ winner = [k \in Keys |-> Nobody]

Block(p, k) ==
  /\ status[k] = "free"
  /\ status' = [status EXCEPT ![k] = "blocked"]
  /\ winner' = [winner EXCEPT ![k] = p]

Confirm(k) ==
  /\ status[k] = "blocked"
  /\ status' = [status EXCEPT ![k] = "confirmed"]
  /\ UNCHANGED winner

Load(k, s) ==
  /\ status' = [status EXCEPT ![k] = s]
  /\ winner' = [winner EXCEPT ![k] = Nobody]

Next ==
  \E k \in Keys :
    \/ \E p \in Requests : Block(p, k)
    \/ Confirm(k)
    \/ \E s \in Loadable : Load(k, s)

Spec == Init /\ [][Next]_vars
=============================================================================
