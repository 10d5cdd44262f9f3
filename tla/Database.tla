------------------------------ MODULE Database ------------------------------
(***************************************************************************)
(* booking-engine/app/helpers/db_helper.go: the database handle that every *)
(* request gets from GetDbMap and that the first one opens, without a      *)
(* lock.                                                                   *)
(*                                                                         *)
(* The handle a caller opens carries the caller's name.  sql.Open only     *)
(* looks up the driver and never fails here, so err stays nil; a missing   *)
(* configuration entry ends the process and is left out.                   *)
(***************************************************************************)
CONSTANTS
  Callers,  \* goroutines that call GetDbMap
  Nil       \* no handle

ASSUME DatabaseAssumption == Nil \notin Callers

VARIABLES
  dbcon,   \* the global handle
  limits,  \* by handle: which of its two limits have been set
  dbpc,    \* where a caller is in GetDbMap
  dbmap    \* the handle in the DbMap a caller got

dbVars == <<dbcon, limits, dbpc, dbmap>>

Limit == {"open", "idle"}

DbInit ==
  /\ dbcon = Nil
  /\ limits = [c \in Callers |-> {}]
  /\ dbpc = [c \in Callers |-> "out"]
  /\ dbmap = [c \in Callers |-> Nil]

DbGoto(c, s) == dbpc' = [dbpc EXCEPT ![c] = s]

\* GetDbMap: the test of dbcon.
GetDbMap(c) ==
  /\ dbpc[c] = "out"
  /\ DbGoto(c, IF dbcon = Nil THEN "init" ELSE "map")
  /\ UNCHANGED <<dbcon, limits, dbmap>>

\* initDb: the new handle replaces whatever another caller has put there.
Open(c) ==
  /\ dbpc[c] = "init"
  /\ dbcon' = c
  /\ limits' = [limits EXCEPT ![c] = {}]
  /\ DbGoto(c, "open")
  /\ UNCHANGED dbmap

SetLimitSkipped(c) ==  \* mutant of SetLimit: the second setting is missing
  /\ dbpc[c] = "open"
  /\ limits' = [limits EXCEPT ![dbcon] = @ \cup {"open"}]
  /\ DbGoto(c, "map")
  /\ UNCHANGED <<dbcon, dbmap>>

\* SetMaxOpenConns and SetMaxIdleConns, each on what dbcon is by then.
SetLimit(c) ==
  /\ dbpc[c] \in Limit
  /\ limits' = [limits EXCEPT ![dbcon] = @ \cup {dbpc[c]}]
  /\ DbGoto(c, IF dbpc[c] = "open" THEN "idle" ELSE "map")
  /\ UNCHANGED <<dbcon, dbmap>>

\* The DbMap is made of what dbcon is by then.
NewDbMap(c) ==
  /\ dbpc[c] = "map"
  /\ dbmap' = [dbmap EXCEPT ![c] = dbcon]
  /\ DbGoto(c, "has")
  /\ UNCHANGED <<dbcon, limits>>

DbStep(c) == Open(c) \/ SetLimit(c) \/ NewDbMap(c)
-----------------------------------------------------------------------------
DbTypeOK ==
  /\ dbcon \in Callers \cup {Nil}
  /\ limits \in [Callers -> SUBSET Limit]
  /\ dbpc \in [Callers -> {"out", "init", "open", "idle", "map", "has"}]
  /\ dbmap \in [Callers -> Callers \cup {Nil}]

(***************************************************************************)
(* QuietMeansLimited: a caller may set its limits on somebody else's       *)
(* handle and leave its own without, but once nobody is in initDb the      *)
(* handle that stays has both of them, and whoever has a DbMap has one     *)
(* with a handle.                                                          *)
(***************************************************************************)
QuietMeansLimited ==
  /\ dbcon # Nil /\ (\A c \in Callers : dbpc[c] \notin Limit)
       => limits[dbcon] = Limit
  /\ \A c \in Callers : dbpc[c] = "has" => dbmap[c] # Nil
=============================================================================
