-------------------------------- MODULE Seed --------------------------------
(***************************************************************************)
(* Filling the tables: SeedController.Seed, which inserts theatres,        *)
(* screens and sessions one after the other and starts a goroutine         *)
(* DumpSeats for every session (controllers/seed_controller.go), over      *)
(* gorp's Insert and lib/pq.                                               *)
(*                                                                         *)
(* An insert may fail; the error is printed, the id of the new object      *)
(* stays 0 and the loops go on with it.  An insert may also take effect    *)
(* and lose its reply: pq then reports a bad connection, for which the     *)
(* standard library's database/sql sends the statement once more.          *)
(*                                                                         *)
(* The DumpSeats goroutines of a Seed share its DbMap, and with it the     *)
(* insert statement that gorp builds at the first insert into a table and  *)
(* keeps there without a lock.  A builder that starts from a half written  *)
(* plan lists every argument twice and leaves a plan the server refuses.   *)
(*                                                                         *)
(* Every Seeder is one request.  Users are requests that only ask for a    *)
(* DbMap.  A row of seats is <<session, name, copy>>, with the index of    *)
(* its name and a number that tells rows of one seat apart instead of the  *)
(* serial id; in the other tables a row is its parent's id and its place   *)
(* is its own.                                                             *)
(***************************************************************************)
EXTENDS Database, Naturals, Sequences, FiniteSets

CONSTANTS
  Seeders,   \* Seed requests
  Users,     \* other requests
  THEATRES, SCREENS, SHOWS, SEATS,
  MaxFaults  \* bound: how many inserts fail or lose their reply

ASSUME SeedAssumption ==
  /\ Callers = Seeders \cup Users
  /\ THEATRES \in Nat /\ SCREENS \in Nat /\ SHOWS \in Nat
  /\ SEATS \in Nat \ {0}
  /\ MaxFaults \in Nat

Names == 0..(SEATS - 1)

GoStatements == 1..(THEATRES * SCREENS * SHOWS)

Dumpers == Seeders \X GoStatements

Tables == {"theatres", "screens", "sessions"}

VARIABLES
  table,     \* theatres, screens and sessions: the parents' ids
  seats,     \* the table seats
  pc,        \* the loop a Seed is in
  turns,     \* the turns its loops have taken, and its go statements
  id,        \* the ids of its current theatre and screen
  dump,      \* its goroutines: place, session id, index of the seat
  plan,      \* the insert statement of seats that its DbMap keeps
  faults,    \* how many inserts have failed or lost their reply
  failed,    \* history: the tables in which an insert failed
  repeated,  \* history: the seats whose insert was sent twice
  missed,    \* history: the seats whose insert failed
  crashed    \* history: the process has ended in a panic

rowVars == <<table, seats>>
loopVars == <<pc, turns, id>>
histVars == <<faults, failed, repeated, missed, crashed>>
vars == <<dbVars, rowVars, loopVars, dump, plan, histVars>>

NoTurns == [theatres |-> 0, screens |-> 0, shows |-> 0, dumps |-> 0]
NoId == [theatre |-> 0, screen |-> 0]
NoDump == [at |-> "none", session |-> 0, seat |-> 0]

Init ==
  /\ DbInit
  /\ table = [t \in Tables |-> <<>>]
  /\ seats = {}
  /\ pc = [r \in Seeders |-> "idle"]
  /\ turns = [r \in Seeders |-> NoTurns]
  /\ id = [r \in Seeders |-> NoId]
  /\ dump = [g \in Dumpers |-> NoDump]
  /\ plan = [r \in Seeders |-> "none"]
  /\ faults = 0
  /\ failed = {}
  /\ repeated = {}
  /\ missed = {}
  /\ crashed = FALSE

Fault == faults < MaxFaults /\ faults' = faults + 1

Enter(r, loop) == pc' = [pc EXCEPT ![r] = loop]
-----------------------------------------------------------------------------
(***************************************************************************)
(* dbmap.Insert into table t, and the id it leaves in the new object: the  *)
(* row's serial number, or 0 when the insert failed.                       *)
(***************************************************************************)
Insert(t, parent, newId) ==
  \/ /\ newId = Len(table[t]) + 1
     /\ table' = [table EXCEPT ![t] = Append(@, parent)]
     /\ UNCHANGED <<faults, failed>>
  \/ /\ Fault
     /\ newId = 0
     /\ failed' = failed \cup {t}
     /\ UNCHANGED table

NewIds(t) == {0, Len(table[t]) + 1}

aside == <<dbVars, seats, plan, repeated, missed, crashed>>

\* The insert takes effect, its reply is lost, and it is sent again.
InsertLost(t, parent) ==
  /\ Fault
  /\ table' = [table EXCEPT ![t] = Append(@, parent)]
  /\ UNCHANGED <<aside, loopVars, dump, failed>>

\* Seed has its DbMap and comes to its loop.
StartSeed(r) ==
  /\ pc[r] = "idle"
  /\ dbpc[r] = "has"
  /\ Enter(r, "theatres")
  /\ UNCHANGED <<aside, table, faults, failed, turns, id, dump>>

NextTheatre(r) ==
  /\ pc[r] = "theatres"
  /\ turns[r].theatres < THEATRES
  /\ \/ /\ \E i \in NewIds("theatres") : /\ Insert("theatres", 0, i)
                                         /\ id' = [id EXCEPT ![r].theatre = i]
        /\ turns' = [turns EXCEPT ![r].theatres = @ + 1, ![r].screens = 0]
        /\ Enter(r, "screens")
        /\ UNCHANGED <<aside, dump>>
     \/ InsertLost("theatres", 0)

\* DumpScreens.
NextScreen(r) ==
  /\ pc[r] = "screens"
  /\ turns[r].screens < SCREENS
  /\ \/ /\ \E i \in NewIds("screens") :
             /\ Insert("screens", id[r].theatre, i)
             /\ id' = [id EXCEPT ![r].screen = i]
        /\ turns' = [turns EXCEPT ![r].screens = @ + 1, ![r].shows = 0]
        /\ Enter(r, "shows")
        /\ UNCHANGED <<aside, dump>>
     \/ InsertLost("screens", id[r].theatre)

\* go DumpSeats(dbmap, session).
Go(r, session) ==
  /\ dump' = [dump EXCEPT ![<<r, turns[r].dumps + 1>>] =
                            [at |-> "bind", session |-> session, seat |-> 0]]
  /\ turns' = [turns EXCEPT ![r].shows = @ + 1, ![r].dumps = @ + 1]

NextShowUnset(r) ==  \* mutant of NextShow: the goroutine gets the object too early
  /\ pc[r] = "shows"
  /\ turns[r].shows < SHOWS
  /\ \E i \in NewIds("sessions") : Insert("sessions", id[r].screen, i)
  /\ Go(r, 0)
  /\ UNCHANGED <<aside, pc, id>>

NextShowShared(r) ==  \* mutant of NextShow: one session object for all turns
  /\ pc[r] = "shows"
  /\ turns[r].shows < SHOWS
  /\ \E i \in NewIds("sessions") :
       /\ Insert("sessions", id[r].screen, i)
       /\ Go(r, IF i = 0 THEN Len(table["sessions"]) ELSE i)
  /\ UNCHANGED <<aside, pc, id>>

\* DumpSessions.
NextShow(r) ==
  /\ pc[r] = "shows"
  /\ turns[r].shows < SHOWS
  /\ \/ /\ \E i \in NewIds("sessions") :
             Insert("sessions", id[r].screen, i) /\ Go(r, i)
        /\ UNCHANGED <<aside, pc, id>>
     \/ InsertLost("sessions", id[r].screen)

\* A loop is over: DumpSessions and DumpScreens return, Seed answers "ok".
LoopEnds(r) ==
  /\ \/ pc[r] = "shows" /\ turns[r].shows = SHOWS /\ Enter(r, "screens")
     \/ pc[r] = "screens" /\ turns[r].screens = SCREENS /\ Enter(r, "theatres")
     \/ pc[r] = "theatres" /\ turns[r].theatres = THEATRES /\ Enter(r, "over")
  /\ UNCHANGED <<aside, table, faults, failed, turns, id, dump>>

SeedStep(r) == NextTheatre(r) \/ NextScreen(r) \/ NextShow(r) \/ LoopEnds(r)
-----------------------------------------------------------------------------
(***************************************************************************)
(* DumpSeats, goroutine g.                                                 *)
(***************************************************************************)
Place(g, at) == dump' = [dump EXCEPT ![g].at = at]

NextSeatShort(g) ==  \* mutant of NextSeat: the loop ends one seat early
  LET n == dump[g].seat + 1 IN
  dump' = [dump EXCEPT ![g].seat = n,
                       ![g].at = IF n < SEATS - 1 THEN "bind" ELSE "done"]

NextSeatLong(g) ==  \* mutant of NextSeat: the loop goes on to the name A<SEATS>
  LET n == dump[g].seat + 1 IN
  dump' = [dump EXCEPT ![g].seat = n,
                       ![g].at = IF n <= SEATS THEN "bind" ELSE "done"]

NextSeat(g) ==
  LET n == dump[g].seat + 1 IN
  dump' = [dump EXCEPT ![g].seat = n,
                       ![g].at = IF n < SEATS THEN "bind" ELSE "done"]

Seat(g) == <<dump[g].session, dump[g].seat>>

(***************************************************************************)
(* gorp's bindInsert: copy the table's insertPlan; if it is empty, build   *)
(* the plan and assign it.  With a doubled plan the statement gets twice   *)
(* the arguments it has places for, and the insert fails.                  *)
(***************************************************************************)
Built == [none |-> "assign", built |-> "insert"]

CopyPlan(g) ==
  /\ dump[g].at = "bind"
  /\ plan[g[1]] # "doubled"
  /\ Place(g, Built[plan[g[1]]])
  /\ UNCHANGED <<dbVars, rowVars, loopVars, plan, histVars>>

AssignPlan(g) ==
  /\ dump[g].at = "assign"
  /\ Place(g, "insert")
  /\ plan' = [plan EXCEPT ![g[1]] = "built"]
  /\ UNCHANGED <<dbVars, rowVars, loopVars, histVars>>

\* The insert is refused, and the loop goes on.
Refused(g) ==
  /\ NextSeat(g)
  /\ missed' = missed \cup {Seat(g)}
  /\ UNCHANGED <<dbVars, rowVars, loopVars, faults, failed, repeated, crashed>>

CopyDoubled(g) ==
  /\ dump[g].at = "bind"
  /\ plan[g[1]] = "doubled"
  /\ Refused(g)
  /\ UNCHANGED plan

\* A builder whose copy already had arguments appends them once more.
AssignDoubled(g) ==
  /\ dump[g].at = "double"
  /\ Refused(g)
  /\ plan' = [plan EXCEPT ![g[1]] = "doubled"]

(***************************************************************************)
(* The process ends in a panic and is started again.  The rows stay.       *)
(***************************************************************************)
Restart ==
  /\ dbcon' = Nil
  /\ limits' = [c \in Callers |-> {}]
  /\ dbpc' = [c \in Callers |-> "out"]
  /\ dbmap' = [c \in Callers |-> Nil]
  /\ pc' = [r \in Seeders |-> IF pc[r] = "idle" THEN "idle" ELSE "over"]
  /\ turns' = [r \in Seeders |-> NoTurns]
  /\ id' = [r \in Seeders |-> NoId]
  /\ dump' = [g \in Dumpers |-> NoDump]
  /\ plan' = [r \in Seeders |-> "none"]
  /\ crashed' = TRUE
  /\ UNCHANGED <<rowVars, faults, failed, repeated, missed>>

(***************************************************************************)
(* The plan is several words: while one goroutine assigns it another may   *)
(* copy a part of it.  The part is all that matters after all; or the      *)
(* statement with the wrong arguments, which the server refuses; or the    *)
(* arguments without the statement, which makes g a builder; or it is      *)
(* without the name of the id field, or half of a string or a slice, which *)
(* panics.  Two assignments of the same plan cannot be told apart.         *)
(***************************************************************************)
Assigning(r, at) == \E h \in Dumpers : h[1] = r /\ dump[h].at = at

CopyTornPlan(g) ==
  /\ dump[g].at = "bind"
  /\ \/ Assigning(g[1], "double")
     \/ Assigning(g[1], "assign") /\ plan[g[1]] # "built"
  /\ \/ /\ Place(g, "insert")
        /\ UNCHANGED <<dbVars, rowVars, loopVars, plan, histVars>>
     \/ Refused(g) /\ UNCHANGED plan
     \/ /\ plan[g[1]] = "none"
        /\ Place(g, "double")
        /\ UNCHANGED <<dbVars, rowVars, loopVars, plan, histVars>>
     \/ Restart

Copies(seat) == { row \in seats : <<row[1], row[2]>> = seat }

InsertRow(seat) ==
  seats' = seats \cup { <<seat[1], seat[2], Cardinality(Copies(seat)) + 1>> }

InsertSeat(g) ==
  /\ dump[g].at = "insert"
  /\ InsertRow(Seat(g))
  /\ NextSeat(g)
  /\ UNCHANGED <<dbVars, table, loopVars, plan, histVars>>

InsertSeatFails(g) ==
  /\ Fault
  /\ dump[g].at = "insert"
  /\ missed' = missed \cup {Seat(g)}
  /\ NextSeat(g)
  /\ UNCHANGED <<dbVars, rowVars, loopVars, plan, failed, repeated, crashed>>

\* The row is there, the reply is lost, the insert is sent again.
InsertSeatLost(g) ==
  /\ Fault
  /\ dump[g].at = "insert"
  /\ InsertRow(Seat(g))
  /\ repeated' = repeated \cup {Seat(g)}
  /\ UNCHANGED <<dbVars, table, loopVars, dump, plan, failed, missed, crashed>>

DumpSeats(g) ==
  \/ CopyPlan(g) \/ CopyDoubled(g) \/ CopyTornPlan(g)
  \/ AssignPlan(g) \/ AssignDoubled(g)
  \/ InsertSeat(g) \/ InsertSeatFails(g) \/ InsertSeatLost(g)
-----------------------------------------------------------------------------
UseDatabase(c) ==
  /\ GetDbMap(c) \/ DbStep(c)
  /\ UNCHANGED <<rowVars, loopVars, dump, plan, histVars>>

Next ==
  \/ \E c \in Callers : UseDatabase(c)
  \/ \E r \in Seeders : StartSeed(r) \/ SeedStep(r)
  \/ \E g \in Dumpers : DumpSeats(g)

Spec == Init /\ [][Next]_vars

(***************************************************************************)
(* The goroutines of a Seed keep running; nothing makes requests start or  *)
(* inserts fail.                                                           *)
(***************************************************************************)
FairSpec ==
  /\ Spec
  /\ \A r \in Seeders : WF_vars(SeedStep(r))
  /\ \A g \in Dumpers : WF_vars(DumpSeats(g))
-----------------------------------------------------------------------------
TypeOK ==
  /\ DbTypeOK
  /\ table \in [Tables -> Seq(Nat)]
  /\ seats \in SUBSET (Nat \X Names \X Nat)
  /\ pc \in [Seeders -> {"idle", "theatres", "screens", "shows", "over"}]
  /\ turns \in [Seeders -> [theatres : 0..THEATRES, screens : 0..SCREENS,
                            shows : 0..SHOWS, dumps : Nat]]
  /\ id \in [Seeders -> [theatre : Nat, screen : Nat]]
  /\ dump \in [Dumpers -> [at : {"none", "bind", "assign", "double", "insert",
                                 "done"},
                           session : Nat, seat : 0..SEATS]]
  /\ plan \in [Seeders -> {"none", "built", "doubled"}]
  /\ faults \in Nat
  /\ failed \in SUBSET Tables
  /\ repeated \in SUBSET (Nat \X Names)
  /\ missed \in SUBSET (Nat \X Names)
  /\ crashed \in BOOLEAN

(***************************************************************************)
(* OneRowPerSeat: a seat of a session has a single row, as Confirm's       *)
(* SelectOne requires, unless the reply of its insert was lost.  The seats *)
(* of session 0, the one of every failed session insert, are not seats of  *)
(* a session.                                                              *)
(***************************************************************************)
OneRowPerSeat ==
  \A x, y \in seats :
    x[1] # 0 /\ x[1] = y[1] /\ x[2] = y[2] /\ x # y => <<x[1], x[2]>> \in repeated

(***************************************************************************)
(* ParentsExist: every row refers to a row of the table above it or, if an *)
(* insert into that table has failed, to the id 0 that was left.           *)
(***************************************************************************)
Refers(parent, t) ==
  \/ parent \in 1..Len(table[t])
  \/ parent = 0 /\ t \in failed

ParentsExist ==
  /\ \A i \in 1..Len(table["screens"]) : Refers(table["screens"][i], "theatres")
  /\ \A i \in 1..Len(table["sessions"]) : Refers(table["sessions"][i], "screens")
  /\ \A row \in seats : Refers(row[1], "sessions")

(***************************************************************************)
(* SeedingCompletes: a Seed starts DumpSeats for every show of every       *)
(* screen of every theatre, and long after it has answered every seat of   *)
(* every one of them has its row or a failed insert behind it, unless the  *)
(* process ended.                                                          *)
(***************************************************************************)
Complete(g) ==
  /\ dump[g].at = "done"
  /\ \A n \in Names : \/ Copies(<<dump[g].session, n>>) # {}
                      \/ <<dump[g].session, n>> \in missed

SeedingCompletes ==
  \A r \in Seeders :
    pc[r] # "idle" ~>
      crashed \/ (pc[r] = "over" /\ \A k \in GoStatements : Complete(<<r, k>>))
=============================================================================
