----------------------------- MODULE SeedProofs -----------------------------
(***************************************************************************)
(* Safety of Database and Seed for any number of requests, theatres,       *)
(* screens, shows and seats, and any number of faults.                     *)
(*                                                                         *)
(* The argument: tables only grow and a failed insert stays failed, so an  *)
(* id that refers to a row goes on doing so (RefersStays).  A goroutine    *)
(* gets an id that no row of seats has yet or 0, so that goroutines work   *)
(* on different sessions, and each finds rows of its session only behind   *)
(* it.                                                                     *)
(***************************************************************************)
EXTENDS Seed, FiniteSetTheorems, TLAPS

(***************************************************************************)
(* The handle in dbcon has its limits, or the caller that opened it is     *)
(* still setting them.                                                     *)
(***************************************************************************)
Limited ==
  dbcon # Nil => \/ dbpc[dbcon] = "open"
                 \/ dbpc[dbcon] = "idle" /\ "open" \in limits[dbcon]
                 \/ limits[dbcon] = Limit

Opened ==
  \A c \in Callers : /\ dbpc[c] \in {"open", "idle", "map", "has"} => dbcon # Nil
                     /\ dbpc[c] = "has" => dbmap[c] # Nil

DbInv == DbTypeOK /\ Limited /\ Opened

(***************************************************************************)
(* The ids a Seed has in hand, and those it gave its goroutines.           *)
(***************************************************************************)
IdRefers(r) ==
  /\ pc[r] \in {"screens", "shows"} => Refers(id[r].theatre, "theatres")
  /\ pc[r] = "shows" => Refers(id[r].screen, "screens")

DumpRefers(g) ==
  /\ dump[g].at # "none" => Refers(dump[g].session, "sessions")
  /\ dump[g].at \in {"bind", "assign", "double", "insert"} => dump[g].seat < SEATS

\* Goroutines work on different sessions, unless these were not inserted.
Apart ==
  \A g, h \in Dumpers :
    g # h /\ dump[g].at # "none" /\ dump[h].at # "none"
          /\ dump[g].session = dump[h].session => dump[g].session = 0

\* The rows of a goroutine's session are behind it, or inserted twice.
Behind(g) ==
  dump[g].at # "none" /\ dump[g].session # 0 =>
    \A x \in seats : x[1] = dump[g].session =>
      x[2] < dump[g].seat \/ <<x[1], x[2]>> \in repeated

Inv ==
  /\ DbInv
  /\ TypeOK
  /\ IsFiniteSet(seats)
  /\ ParentsExist
  /\ \A r \in Seeders : IdRefers(r)
  /\ \A g \in Dumpers : DumpRefers(g)
  /\ Apart
  /\ \A g \in Dumpers : Behind(g)
  /\ OneRowPerSeat
-----------------------------------------------------------------------------
\* DbStepInv: the steps of GetDbMap and initDb (db_helper.go lines 14 to 42)
\* keep the handle limited or being limited.
LEMMA DbStepInv ==
  ASSUME DbInv, NEW c \in Callers, GetDbMap(c) \/ DbStep(c)
  PROVE  DbInv'
<1> USE DatabaseAssumption DEF DbInv, DbTypeOK, Limited, Opened, DbGoto, Limit
<1>1. CASE GetDbMap(c)
  BY <1>1 DEF GetDbMap
<1>2. CASE Open(c)
  BY <1>2 DEF Open
<1>3. CASE SetLimit(c)
  <2>1. dbcon \in Callers
    BY <1>3 DEF SetLimit
  <2>2. DbTypeOK'
    BY <1>3, <2>1 DEF SetLimit
  <2>3. Opened'
    BY <1>3, <2>1 DEF SetLimit
  <2>4. CASE c = dbcon
    BY <1>3, <2>1, <2>2, <2>3, <2>4 DEF SetLimit
  <2>5. CASE c # dbcon
    BY <1>3, <2>1, <2>2, <2>3, <2>5 DEF SetLimit
  <2> QED  BY <2>4, <2>5
<1>4. CASE NewDbMap(c)
  BY <1>4 DEF NewDbMap
<1> QED  BY <1>1, <1>2, <1>3, <1>4 DEF DbStep

\* DbInvLimited: what the handle's invariant means once initDb is quiet.
LEMMA DbInvLimited == DbInv => QuietMeansLimited
BY DEF DbInv, DbTypeOK, Limited, Opened, QuietMeansLimited, Limit

\* DbFrame: DbInv speaks of the handle only.
LEMMA DbFrame == DbInv /\ UNCHANGED dbVars => DbInv'
BY DEF DbInv, DbTypeOK, Limited, Opened, dbVars
-----------------------------------------------------------------------------
(***************************************************************************)
(* What an insert into t below parent does to the tables.                  *)
(***************************************************************************)
TableStep(t, parent) ==
  /\ table' \in [Tables -> Seq(Nat)]
  /\ \A u \in Tables \ {t} : table'[u] = table[u]
  /\ \/ table'[t] = table[t]
     \/ table'[t] = Append(table[t], parent)
  /\ failed \subseteq failed'
  /\ failed' \subseteq Tables
  /\ faults' \in Nat

\* TablesGrow: no table gets shorter.
LEMMA TablesGrow ==
  ASSUME TypeOK, NEW t \in Tables, NEW parent \in Nat, TableStep(t, parent),
         NEW u \in Tables
  PROVE  /\ Len(table[u]) \in Nat
         /\ Len(table'[u]) \in Nat
         /\ Len(table[u]) <= Len(table'[u])
<1>1. table[u] \in Seq(Nat) /\ table'[u] \in Seq(Nat)
  BY DEF TypeOK, TableStep
<1>2. table'[u] = table[u] \/ table'[u] = Append(table[u], parent)
  BY DEF TableStep
<1> QED  BY <1>1, <1>2

\* RefersStays: an id that refers to a row, or is excused by a failure, goes on
\* doing so.
LEMMA RefersStays ==
  ASSUME TypeOK, NEW t \in Tables, NEW parent \in Nat, TableStep(t, parent),
         NEW u \in Tables, NEW i, Refers(i, u)
  PROVE  Refers(i, u)'
<1>1. /\ Len(table[u]) \in Nat
      /\ Len(table'[u]) \in Nat
      /\ Len(table[u]) <= Len(table'[u])
  BY TablesGrow
<1> QED  BY <1>1 DEF Refers, TableStep

\* InsertSteps: gorp's insert with its outcomes is such a step, and the id it
\* leaves refers to the new row or is 0 after a failure.
LEMMA InsertSteps ==
  ASSUME TypeOK, NEW t \in Tables, NEW parent \in Nat, NEW i \in NewIds(t),
         Insert(t, parent, i)
  PROVE  TableStep(t, parent) /\ i \in Nat /\ Refers(i, t)'
<1>1. table[t] \in Seq(Nat) /\ Len(table[t]) \in Nat
  BY DEF TypeOK
<1>2. CASE i = Len(table[t]) + 1 /\ table' = [table EXCEPT ![t] = Append(@, parent)]
           /\ UNCHANGED <<faults, failed>>
  <2>1. table'[t] = Append(table[t], parent)
    BY <1>2 DEF TypeOK
  <2>2. Len(table'[t]) = Len(table[t]) + 1
    BY <1>1, <2>1
  <2> QED  BY <1>1, <1>2, <2>1, <2>2 DEF TypeOK, TableStep, Refers
<1>3. CASE Fault /\ i = 0 /\ failed' = failed \cup {t} /\ UNCHANGED table
  BY <1>3 DEF TypeOK, TableStep, Refers, Fault
<1> QED  BY <1>2, <1>3 DEF Insert

\* ParentsKept: inserts below a parent that exists keep every parent existing.
LEMMA ParentsKept ==
  ASSUME TypeOK, ParentsExist, NEW t \in Tables, NEW parent \in Nat,
         TableStep(t, parent), seats' = seats,
         t = "screens" => Refers(parent, "theatres"),
         t = "sessions" => Refers(parent, "screens")
  PROVE  ParentsExist'
<1>1. ASSUME NEW u \in Tables, NEW v \in Tables,
             t = u => Refers(parent, v),
             \A i \in 1..Len(table[u]) : Refers(table[u][i], v)
      PROVE  (\A i \in 1..Len(table[u]) : Refers(table[u][i], v))'
  <2> SUFFICES ASSUME NEW i \in 1..Len(table'[u]) PROVE Refers(table[u][i], v)'
    OBVIOUS
  <2>1. table[u] \in Seq(Nat) /\ Len(table[u]) \in Nat
    BY DEF TypeOK
  <2>2. CASE table'[u] = table[u]
    <3>1. Refers(table[u][i], v)
      BY <1>1, <2>2
    <3>2. \A j : Refers(j, v) => Refers(j, v)'
      BY RefersStays DEF Refers
    <3> QED  BY <2>2, <3>1, <3>2 DEF Refers
  <2>3. CASE t = u /\ table'[u] = Append(table[u], parent)
    <3>1. \A j : Refers(j, v) => Refers(j, v)'
      BY RefersStays DEF Refers
    <3>2. table'[u][i] = parent \/ (i \in 1..Len(table[u]) /\ table'[u][i] = table[u][i])
      BY <2>1, <2>3
    <3>3. Refers(table'[u][i], v)
      BY <1>1, <2>3, <3>2
    <3> QED  BY <3>1, <3>3 DEF Refers
  <2> QED  BY <2>2, <2>3 DEF TableStep
<1>2. (\A i \in 1..Len(table["screens"]) : Refers(table["screens"][i], "theatres"))'
  BY <1>1 DEF ParentsExist, Tables
<1>3. (\A i \in 1..Len(table["sessions"]) : Refers(table["sessions"][i], "screens"))'
  BY <1>1 DEF ParentsExist, Tables
<1>4. (\A row \in seats : Refers(row[1], "sessions"))'
  BY RefersStays DEF ParentsExist, Tables, Refers
<1> QED  BY <1>2, <1>3, <1>4 DEF ParentsExist
-----------------------------------------------------------------------------
(***************************************************************************)
(* A step of the loops: it inserts below parent into t and leaves the      *)
(* seats alone.                                                            *)
(***************************************************************************)
LoopStep(t, parent) ==
  /\ t \in Tables
  /\ parent \in Nat
  /\ t = "screens" => Refers(parent, "theatres")
  /\ t = "sessions" => Refers(parent, "screens")
  /\ TableStep(t, parent)
  /\ UNCHANGED aside

\* IdStays: the ids of a Seed that does not move go on referring.
LEMMA IdStays ==
  ASSUME TypeOK, NEW t, NEW parent, LoopStep(t, parent), NEW r \in Seeders,
         IdRefers(r), id'[r] = id[r],
         pc'[r] = pc[r] \/ (pc[r] = "shows" /\ pc'[r] = "screens")
                        \/ pc'[r] \notin {"screens", "shows"}
  PROVE  IdRefers(r)'
<1>1. \A i : /\ Refers(i, "theatres") => Refers(i, "theatres")'
             /\ Refers(i, "screens") => Refers(i, "screens")'
  BY RefersStays DEF LoopStep, Tables, Refers
<1>2. pc'[r] \in {"screens", "shows"} => Refers(id[r].theatre, "theatres")
  BY DEF IdRefers
<1>3. pc'[r] = "shows" => Refers(id[r].screen, "screens")
  BY DEF IdRefers
<1> QED  BY <1>1, <1>2, <1>3 DEF IdRefers, Refers

\* DumpsStay: the loops' inserts do not disturb the goroutines.
LEMMA DumpsStay ==
  ASSUME Inv, NEW t, NEW parent, LoopStep(t, parent), dump' = dump
  PROVE  /\ \A g \in Dumpers : DumpRefers(g)' /\ Behind(g)'
         /\ Apart'
<1>1. \A i : Refers(i, "sessions") => Refers(i, "sessions")'
  BY RefersStays DEF Inv, LoopStep, Tables, Refers
<1>2. ASSUME NEW g \in Dumpers PROVE DumpRefers(g)'
  <2>1. DumpRefers(g)
    BY DEF Inv
  <2> QED  BY <1>1, <2>1 DEF DumpRefers, Refers
<1>3. ASSUME NEW g \in Dumpers PROVE Behind(g)'
  BY DEF Inv, Behind, LoopStep, aside
<1>4. Apart'
  BY DEF Inv, Apart
<1> QED  BY <1>2, <1>3, <1>4

\* GoKeeps: go DumpSeats (seed_controller.go line 68) starts on a session that
\* nobody else has and that has no seats, or on session 0.
LEMMA GoKeeps ==
  ASSUME Inv, NEW parent, LoopStep("sessions", parent),
         NEW i \in NewIds("sessions"), Refers(i, "sessions")',
         NEW r \in Seeders, Go(r, i)
  PROVE  /\ dump' \in [Dumpers -> [at : {"none", "bind", "assign", "double", "insert", "done"},
                                   session : Nat, seat : 0..SEATS]]
         /\ \A g \in Dumpers : DumpRefers(g)' /\ Behind(g)'
         /\ Apart'
<1> DEFINE n == <<r, turns[r].dumps + 1>>
           new == [at |-> "bind", session |-> i, seat |-> 0]
<1>1. Len(table["sessions"]) \in Nat
  BY DEF Inv, TypeOK, Tables
<1>2. i \in Nat /\ (i = 0 \/ i = Len(table["sessions"]) + 1)
  BY <1>1 DEF NewIds
<1>3. \A g \in Dumpers : dump'[g] = IF g = n THEN new ELSE dump[g]
  BY DEF Go, Inv, TypeOK
<1>4. \A g \in Dumpers : dump[g].at # "none" => Refers(dump[g].session, "sessions")
  BY DEF Inv, DumpRefers
<1>5. \A g \in Dumpers : dump[g].at # "none" => dump[g].session # i \/ i = 0
  BY <1>1, <1>2, <1>4 DEF Refers
<1>6. \A x \in seats : x[1] # i \/ i = 0
  BY <1>1, <1>2 DEF Inv, ParentsExist, Refers
<1>7. \A j : Refers(j, "sessions") => Refers(j, "sessions")'
  BY RefersStays DEF Inv, LoopStep, Tables, Refers
<1>8. seats' = seats /\ repeated' = repeated
  BY DEF LoopStep, aside
<1>9. dump' \in [Dumpers -> [at : {"none", "bind", "assign", "double", "insert", "done"},
                             session : Nat, seat : 0..SEATS]]
  <2> DEFINE R == [at : {"none", "bind", "assign", "double", "insert", "done"},
                   session : Nat, seat : 0..SEATS]
  <2>1. new \in R
    BY <1>2, SeedAssumption
  <2>2. dump \in [Dumpers -> R] /\ dump' = [dump EXCEPT ![n] = new]
    BY DEF Go, Inv, TypeOK
  <2> HIDE DEF R, new, n
  <2>3. dump' \in [Dumpers -> R]
    BY <2>1, <2>2
  <2> QED  BY <2>3 DEF R
<1>10. ASSUME NEW g \in Dumpers PROVE DumpRefers(g)'
  <2>1. CASE g = n
    BY <1>3, <2>1, SeedAssumption DEF DumpRefers, Refers
  <2>2. CASE g # n
    BY <1>3, <1>7, <2>2 DEF DumpRefers, Refers, Inv
  <2> QED  BY <2>1, <2>2
<1>11. ASSUME NEW g \in Dumpers PROVE Behind(g)'
  <2>1. CASE g = n
    BY <1>3, <1>6, <1>8, <2>1 DEF Behind
  <2>2. CASE g # n
    BY <1>3, <1>8, <2>2 DEF Behind, Inv
  <2> QED  BY <2>1, <2>2
<1>12. Apart'
  <2> SUFFICES ASSUME NEW g \in Dumpers, NEW h \in Dumpers, g # h,
                      dump'[g].at # "none", dump'[h].at # "none",
                      dump'[g].session = dump'[h].session
               PROVE  dump'[g].session = 0
    BY DEF Apart
  <2>1. CASE g = n
    BY <1>3, <1>5, <2>1
  <2>2. CASE h = n
    BY <1>3, <1>5, <2>2
  <2>3. CASE g # n /\ h # n
    BY <1>3, <2>3 DEF Inv, Apart
  <2> QED  BY <2>1, <2>2, <2>3
<1> QED  BY <1>9, <1>10, <1>11, <1>12

\* LoopFrame: what a step of the loops leaves as it is.
LEMMA LoopFrame ==
  ASSUME Inv, NEW t, NEW parent, LoopStep(t, parent)
  PROVE  /\ DbInv' /\ IsFiniteSet(seats') /\ ParentsExist' /\ OneRowPerSeat'
         /\ pc' \in [Seeders -> {"idle", "theatres", "screens", "shows", "over"}]
            /\ turns' \in [Seeders -> [theatres : 0..THEATRES, screens : 0..SCREENS,
                                       shows : 0..SHOWS, dumps : Nat]]
            /\ id' \in [Seeders -> [theatre : Nat, screen : Nat]]
            /\ dump' \in [Dumpers -> [at : {"none", "bind", "assign", "double", "insert", "done"},
                                      session : Nat, seat : 0..SEATS]]
            => TypeOK'
<1>1. DbInv'
  BY DbFrame DEF Inv, LoopStep, aside
<1>2. IsFiniteSet(seats') /\ OneRowPerSeat'
  BY DEF Inv, LoopStep, aside, OneRowPerSeat
<1>3. ParentsExist'
  BY ParentsKept DEF Inv, LoopStep, aside
<1>4. DbTypeOK'
  BY <1>1 DEF DbInv
<1>5. /\ table' \in [Tables -> Seq(Nat)]
      /\ seats' \in SUBSET (Nat \X Names \X Nat)
      /\ plan' \in [Seeders -> {"none", "built", "doubled"}]
      /\ faults' \in Nat
      /\ failed' \in SUBSET Tables
      /\ repeated' \in SUBSET (Nat \X Names)
      /\ missed' \in SUBSET (Nat \X Names)
      /\ crashed' \in BOOLEAN
  BY DEF Inv, TypeOK, LoopStep, TableStep, aside
<1> QED  BY <1>1, <1>2, <1>3, <1>4, <1>5 DEF TypeOK

\* LoopInv: the invariant after a step of the loops that starts no goroutine
\* and moves Seed r only.
LEMMA LoopInv ==
  ASSUME Inv, NEW t, NEW parent, LoopStep(t, parent), NEW r \in Seeders,
         pc' \in [Seeders -> {"idle", "theatres", "screens", "shows", "over"}],
         turns' \in [Seeders -> [theatres : 0..THEATRES, screens : 0..SCREENS,
                                 shows : 0..SHOWS, dumps : Nat]],
         id' \in [Seeders -> [theatre : Nat, screen : Nat]],
         \A s \in Seeders \ {r} : pc'[s] = pc[s] /\ id'[s] = id[s],
         IdRefers(r)',
         dump' = dump
  PROVE  Inv'
<1>1. DbInv' /\ IsFiniteSet(seats') /\ ParentsExist' /\ OneRowPerSeat' /\ TypeOK'
  BY LoopFrame DEF Inv, TypeOK
<1>2. (\A g \in Dumpers : DumpRefers(g)' /\ Behind(g)') /\ Apart'
  BY DumpsStay
<1>3. ASSUME NEW s \in Seeders PROVE IdRefers(s)'
  <2>1. CASE s = r
    BY <2>1
  <2>2. CASE s # r
    BY <2>2, IdStays DEF Inv
  <2> QED  BY <2>1, <2>2
<1> QED  BY <1>1, <1>2, <1>3 DEF Inv

\* LostSteps: an insert whose reply was lost is a step of the loops too.
LEMMA LostSteps ==
  ASSUME Inv, NEW t \in Tables, NEW parent \in Nat, InsertLost(t, parent),
         t = "screens" => Refers(parent, "theatres"),
         t = "sessions" => Refers(parent, "screens")
  PROVE  Inv'
<1>1. table[t] \in Seq(Nat)
  BY DEF Inv, TypeOK
<1>2. LoopStep(t, parent)
  BY <1>1 DEF InsertLost, Fault, LoopStep, TableStep, Inv, TypeOK
<1>3. ASSUME NEW r \in Seeders PROVE IdRefers(r)'
  BY <1>2, IdStays DEF Inv, InsertLost, loopVars
<1>4. DbInv' /\ IsFiniteSet(seats') /\ ParentsExist' /\ OneRowPerSeat' /\ TypeOK'
  BY <1>2, LoopFrame DEF Inv, TypeOK, InsertLost, loopVars
<1>5. (\A g \in Dumpers : DumpRefers(g)' /\ Behind(g)') /\ Apart'
  BY <1>2, DumpsStay DEF InsertLost
<1> QED  BY <1>3, <1>4, <1>5 DEF Inv

\* QuietSteps: the steps of Seed's loops that insert nothing.
LEMMA QuietSteps ==
  ASSUME Inv, NEW r \in Seeders, StartSeed(r) \/ LoopEnds(r)
  PROVE  Inv'
<1>1. LoopStep("theatres", 0)
  BY DEF StartSeed, LoopEnds, LoopStep, TableStep, Tables, Inv, TypeOK
<1>2. /\ turns' = turns /\ id' = id /\ dump' = dump
      /\ \E l \in {"theatres", "screens", "over"} : Enter(r, l)
      /\ pc'[r] = "screens" => pc[r] = "shows"
      /\ pc'[r] # "shows"
  BY DEF StartSeed, LoopEnds, Enter, Inv, TypeOK
<1>3. /\ pc' \in [Seeders -> {"idle", "theatres", "screens", "shows", "over"}]
      /\ \A s \in Seeders \ {r} : pc'[s] = pc[s] /\ id'[s] = id[s]
  BY <1>2 DEF Enter, Inv, TypeOK
<1>4. IdRefers(r)'
  <2>1. pc'[r] = pc[r] \/ (pc[r] = "shows" /\ pc'[r] = "screens")
                       \/ pc'[r] \notin {"screens", "shows"}
    BY <1>2
  <2>2. TypeOK /\ IdRefers(r) /\ id'[r] = id[r]
    BY <1>2 DEF Inv
  <2> QED  BY <1>1, <2>1, <2>2, IdStays
<1> QED  BY <1>1, <1>2, <1>3, <1>4, LoopInv DEF Inv, TypeOK

\* NextTheatreInv: Seed's loop (seed_controller.go lines 34 to 42).
LEMMA NextTheatreInv ==
  ASSUME Inv, NEW r \in Seeders, NextTheatre(r)
  PROVE  Inv'
<1>1. CASE InsertLost("theatres", 0)
  BY <1>1, LostSteps DEF Tables
<1>2. ASSUME NEW i \in NewIds("theatres"), Insert("theatres", 0, i),
             id' = [id EXCEPT ![r].theatre = i],
             turns' = [turns EXCEPT ![r].theatres = @ + 1, ![r].screens = 0],
             Enter(r, "screens"), UNCHANGED <<aside, dump>>,
             turns[r].theatres < THEATRES
      PROVE  Inv'
  <2>1. TableStep("theatres", 0) /\ i \in Nat /\ Refers(i, "theatres")'
    BY <1>2, InsertSteps DEF Inv, Tables
  <2>2. LoopStep("theatres", 0)
    BY <1>2, <2>1 DEF LoopStep, Tables
  <2>3. /\ pc' \in [Seeders -> {"idle", "theatres", "screens", "shows", "over"}]
        /\ id' \in [Seeders -> [theatre : Nat, screen : Nat]]
        /\ \A s \in Seeders \ {r} : pc'[s] = pc[s] /\ id'[s] = id[s]
    BY <1>2, <2>1 DEF Enter, Inv, TypeOK
  <2>4. turns' \in [Seeders -> [theatres : 0..THEATRES, screens : 0..SCREENS,
                                shows : 0..SHOWS, dumps : Nat]]
    <3> DEFINE T == [theatres : 0..THEATRES, screens : 0..SCREENS,
                     shows : 0..SHOWS, dumps : Nat]
               new == [turns[r] EXCEPT !.theatres = @ + 1, !.screens = 0]
    <3>1. turns[r] \in T /\ turns \in [Seeders -> T]
      BY DEF Inv, TypeOK
    <3>2. new \in T
      <4>1. turns[r].theatres + 1 \in 0..THEATRES /\ 0 \in 0..SCREENS
        BY <1>2, <3>1, SeedAssumption
      <4> QED  BY <3>1, <4>1
    <3>3. turns' = [turns EXCEPT ![r] = new]
      BY <1>2, <3>1
    <3> HIDE DEF T, new
    <3>4. turns' \in [Seeders -> T]
      BY <3>1, <3>2, <3>3
    <3> QED  BY <3>4 DEF T
  <2>5. pc'[r] = "screens" /\ id'[r].theatre = i
    BY <1>2 DEF Enter, Inv, TypeOK
  <2>6. IdRefers(r)'
    BY <2>1, <2>5 DEF IdRefers, Refers
  <2> QED  BY <1>2, <2>2, <2>3, <2>4, <2>6, LoopInv
<1> QED  BY <1>1, <1>2 DEF NextTheatre

\* NextScreenInv: DumpScreens (seed_controller.go lines 47 to 57).
LEMMA NextScreenInv ==
  ASSUME Inv, NEW r \in Seeders, NextScreen(r)
  PROVE  Inv'
<1> DEFINE parent == id[r].theatre
<1>1. parent \in Nat /\ Refers(parent, "theatres")
  BY DEF Inv, TypeOK, IdRefers, NextScreen
<1>2. CASE InsertLost("screens", parent)
  BY <1>1, <1>2, LostSteps DEF Tables
<1>3. ASSUME NEW i \in NewIds("screens"), Insert("screens", parent, i),
             id' = [id EXCEPT ![r].screen = i],
             turns' = [turns EXCEPT ![r].screens = @ + 1, ![r].shows = 0],
             Enter(r, "shows"), UNCHANGED <<aside, dump>>,
             turns[r].screens < SCREENS
      PROVE  Inv'
  <2>1. TableStep("screens", parent) /\ i \in Nat /\ Refers(i, "screens")'
    BY <1>1, <1>3, InsertSteps DEF Inv, Tables
  <2>2. LoopStep("screens", parent)
    BY <1>1, <1>3, <2>1 DEF LoopStep, Tables
  <2>3. /\ pc' \in [Seeders -> {"idle", "theatres", "screens", "shows", "over"}]
        /\ id' \in [Seeders -> [theatre : Nat, screen : Nat]]
        /\ \A s \in Seeders \ {r} : pc'[s] = pc[s] /\ id'[s] = id[s]
    BY <1>3, <2>1 DEF Enter, Inv, TypeOK
  <2>4. turns' \in [Seeders -> [theatres : 0..THEATRES, screens : 0..SCREENS,
                                shows : 0..SHOWS, dumps : Nat]]
    <3> DEFINE T == [theatres : 0..THEATRES, screens : 0..SCREENS,
                     shows : 0..SHOWS, dumps : Nat]
               new == [turns[r] EXCEPT !.screens = @ + 1, !.shows = 0]
    <3>1. turns[r] \in T /\ turns \in [Seeders -> T]
      BY DEF Inv, TypeOK
    <3>2. new \in T
      <4>1. turns[r].screens + 1 \in 0..SCREENS /\ 0 \in 0..SHOWS
        BY <1>3, <3>1, SeedAssumption
      <4> QED  BY <3>1, <4>1
    <3>3. turns' = [turns EXCEPT ![r] = new]
      BY <1>3, <3>1
    <3> HIDE DEF T, new
    <3>4. turns' \in [Seeders -> T]
      BY <3>1, <3>2, <3>3
    <3> QED  BY <3>4 DEF T
  <2>5. id'[r].screen = i /\ id'[r].theatre = parent
    BY <1>3 DEF Inv, TypeOK
  <2>6. \A j : Refers(j, "theatres") => Refers(j, "theatres")'
    BY <1>1, <2>1, RefersStays DEF Inv, Tables, Refers
  <2>7. IdRefers(r)'
    BY <1>1, <2>1, <2>5, <2>6 DEF IdRefers, Refers
  <2> QED  BY <1>3, <2>2, <2>3, <2>4, <2>7, LoopInv
<1> QED  BY <1>2, <1>3 DEF NextScreen

\* NextShowInv: DumpSessions (seed_controller.go lines 59 to 70).
LEMMA NextShowInv ==
  ASSUME Inv, NEW r \in Seeders, NextShow(r)
  PROVE  Inv'
<1> DEFINE parent == id[r].screen
<1>1. parent \in Nat /\ Refers(parent, "screens")
  BY DEF Inv, TypeOK, IdRefers, NextShow
<1>2. CASE InsertLost("sessions", parent)
  BY <1>1, <1>2, LostSteps DEF Tables
<1>3. ASSUME NEW i \in NewIds("sessions"), Insert("sessions", parent, i), Go(r, i),
             UNCHANGED <<aside, pc, id>>, turns[r].shows < SHOWS
      PROVE  Inv'
  <2>1. TableStep("sessions", parent) /\ i \in Nat /\ Refers(i, "sessions")'
    BY <1>1, <1>3, InsertSteps DEF Inv, Tables
  <2>2. LoopStep("sessions", parent)
    BY <1>1, <1>3, <2>1 DEF LoopStep, Tables
  <2>3. turns' \in [Seeders -> [theatres : 0..THEATRES, screens : 0..SCREENS,
                                shows : 0..SHOWS, dumps : Nat]]
    <3> DEFINE T == [theatres : 0..THEATRES, screens : 0..SCREENS,
                     shows : 0..SHOWS, dumps : Nat]
               new == [turns[r] EXCEPT !.shows = @ + 1, !.dumps = @ + 1]
    <3>1. turns[r] \in T /\ turns \in [Seeders -> T]
      BY DEF Inv, TypeOK
    <3>2. new \in T
      <4>1. turns[r].shows + 1 \in 0..SHOWS /\ turns[r].dumps + 1 \in Nat
        BY <1>3, <3>1, SeedAssumption
      <4> QED  BY <3>1, <4>1
    <3>3. turns' = [turns EXCEPT ![r] = new]
      BY <1>3, <3>1 DEF Go
    <3> HIDE DEF T, new
    <3>4. turns' \in [Seeders -> T]
      BY <3>1, <3>2, <3>3
    <3> QED  BY <3>4 DEF T
  <2>4. /\ dump' \in [Dumpers -> [at : {"none", "bind", "assign", "double", "insert", "done"},
                                   session : Nat, seat : 0..SEATS]]
        /\ \A g \in Dumpers : DumpRefers(g)' /\ Behind(g)'
        /\ Apart'
    BY <1>3, <2>1, <2>2, GoKeeps
  <2>5. ASSUME NEW s \in Seeders PROVE IdRefers(s)'
    BY <1>3, <2>2, IdStays DEF Inv
  <2>6. DbInv' /\ IsFiniteSet(seats') /\ ParentsExist' /\ OneRowPerSeat' /\ TypeOK'
    BY <1>3, <2>2, <2>3, <2>4, LoopFrame DEF Inv, TypeOK
  <2> QED  BY <2>4, <2>5, <2>6 DEF Inv
<1> QED  BY <1>2, <1>3 DEF NextShow
-----------------------------------------------------------------------------
(***************************************************************************)
(* A step of goroutine g: it goes on, one seat further or not, and inserts *)
(* at most a row of the seat it is at; if it then stays there, the insert  *)
(* is one that will be sent again.                                         *)
(***************************************************************************)
DumpPlace == [at : {"none", "bind", "assign", "double", "insert", "done"},
              session : Nat, seat : 0..SEATS]

DumpMove(g) ==
  /\ UNCHANGED <<dbVars, table, loopVars, failed, crashed>>
  /\ dump[g].at \in {"bind", "assign", "double", "insert"}
  /\ \E new \in DumpPlace :
       /\ dump' = [dump EXCEPT ![g] = new]
       /\ new.session = dump[g].session
       /\ new.at # "none"
       /\ new.at # "done" => new.seat < SEATS
       /\ \/ new.seat = dump[g].seat + 1 /\ repeated' = repeated
          \/ new.seat = dump[g].seat /\ repeated' = repeated /\ seats' = seats
          \/ new.seat = dump[g].seat /\ repeated' = repeated \cup {Seat(g)}
  /\ \/ seats' = seats
     \/ \E k \in Nat : seats' = seats \cup { <<dump[g].session, dump[g].seat, k>> }
  /\ missed' \in {missed, missed \cup {Seat(g)}}
  /\ plan' \in [Seeders -> {"none", "built", "doubled"}]
  /\ faults' \in Nat

\* DumpMoveInv: such a step keeps the invariant; a row it finds for its seat
\* is one whose insert was repeated.
LEMMA DumpMoveInv ==
  ASSUME Inv, NEW g \in Dumpers, DumpMove(g)
  PROVE  Inv'
<1> DEFINE s == dump[g].session
           n == dump[g].seat
<1>1. PICK new \in DumpPlace :
        /\ dump' = [dump EXCEPT ![g] = new]
        /\ new.session = s
        /\ new.at # "none"
        /\ new.at # "done" => new.seat < SEATS
        /\ \/ new.seat = n + 1 /\ repeated' = repeated
           \/ new.seat = n /\ repeated' = repeated /\ seats' = seats
           \/ new.seat = n /\ repeated' = repeated \cup {Seat(g)}
  BY DEF DumpMove
<1>2. dump \in [Dumpers -> DumpPlace]
  BY DEF Inv, TypeOK, DumpPlace
<1>3. /\ dump'[g] = new
      /\ \A h \in Dumpers \ {g} : dump'[h] = dump[h]
      /\ dump' \in [Dumpers -> DumpPlace]
  BY <1>1, <1>2
<1>4. s \in Nat /\ n \in 0..SEATS /\ n < SEATS /\ n \in Nat /\ n \in Names
  BY <1>2, SeedAssumption DEF DumpMove, DumpPlace, Inv, DumpRefers, Names
<1>5. Seat(g) = <<s, n>> /\ Seat(g) \in Nat \X Names
  BY <1>4 DEF Seat
<1>6. dump[g].at # "none" /\ Refers(s, "sessions")
  BY DEF DumpMove, Inv, DumpRefers
<1>7. /\ table' = table /\ failed' = failed /\ repeated \subseteq repeated'
      /\ pc' = pc /\ id' = id /\ turns' = turns /\ crashed' = crashed
  BY <1>1 DEF DumpMove, loopVars
<1>8. \A x \in seats' : x \in seats \/ (x[1] = s /\ x[2] = n)
  BY DEF DumpMove
<1>9. \A x \in seats : x[2] \in Nat
  BY SeedAssumption DEF Inv, TypeOK, Names
<1>10. DbInv'
  BY DbFrame DEF Inv, DumpMove
<1>11. TypeOK'
  <2>1. DbTypeOK'
    BY <1>10 DEF DbInv
  <2>2. seats' \in SUBSET (Nat \X Names \X Nat)
    BY <1>4 DEF DumpMove, Inv, TypeOK
  <2>3. repeated' \in SUBSET (Nat \X Names) /\ missed' \in SUBSET (Nat \X Names)
    BY <1>1, <1>5 DEF DumpMove, Inv, TypeOK
  <2>4. plan' \in [Seeders -> {"none", "built", "doubled"}] /\ faults' \in Nat
    BY DEF DumpMove
  <2>5. dump' \in [Dumpers -> [at : {"none", "bind", "assign", "double", "insert", "done"},
                               session : Nat, seat : 0..SEATS]]
    BY <1>3 DEF DumpPlace
  <2> QED  BY <1>7, <2>1, <2>2, <2>3, <2>4, <2>5 DEF TypeOK, Inv
<1>12. IsFiniteSet(seats')
  <2>1. IsFiniteSet(seats)
    BY DEF Inv
  <2>2. ASSUME NEW x PROVE IsFiniteSet(seats \cup {x})
    BY <2>1, FS_AddElement
  <2> QED  BY <2>1, <2>2 DEF DumpMove
<1>13. ParentsExist'
  BY <1>6, <1>7, <1>8 DEF Inv, ParentsExist, Refers
<1>14. \A r \in Seeders : IdRefers(r)'
  BY <1>7 DEF Inv, IdRefers, Refers
<1>15. ASSUME NEW h \in Dumpers PROVE DumpRefers(h)'
  <2>1. CASE h = g
    BY <1>1, <1>3, <1>6, <1>7, <2>1 DEF DumpRefers, Refers
  <2>2. CASE h # g
    BY <1>3, <1>7, <2>2 DEF DumpRefers, Refers, Inv
  <2> QED  BY <2>1, <2>2
<1>16. Apart'
  <2>1. \A h \in Dumpers : /\ dump'[h].session = dump[h].session
                           /\ dump'[h].at # "none" => dump[h].at # "none"
    BY <1>1, <1>3, <1>6
  <2> QED  BY <2>1 DEF Inv, Apart
<1>17. ASSUME NEW h \in Dumpers PROVE Behind(h)'
  <2> SUFFICES ASSUME dump'[h].at # "none", dump'[h].session # 0,
                      NEW x \in seats', x[1] = dump'[h].session
               PROVE  x[2] < dump'[h].seat \/ <<x[1], x[2]>> \in repeated'
    BY DEF Behind
  <2>1. CASE h = g
    <3>1. dump'[h].session = s /\ s # 0 /\ dump'[h].seat = new.seat
      BY <1>1, <1>3, <2>1
    <3>2. Behind(g)
      BY DEF Inv
    <3>3. CASE x \in seats
      <4>1. x[2] < n \/ <<x[1], x[2]>> \in repeated
        BY <1>6, <3>1, <3>2, <3>3 DEF Behind
      <4> QED  BY <1>1, <1>4, <1>7, <1>9, <3>1, <3>3, <4>1
    <3>4. CASE x \notin seats
      <4>1. x[1] = s /\ x[2] = n /\ seats' # seats
        BY <1>8, <3>4
      <4> QED  BY <1>1, <1>4, <1>5, <3>1, <4>1
    <3> QED  BY <3>3, <3>4
  <2>2. CASE h # g
    <3>1. dump'[h] = dump[h]
      BY <1>3, <2>2
    <3>2. dump[h].session # s
      BY <1>6, <2>2, <3>1 DEF Inv, Apart
    <3>3. x \in seats
      BY <1>8, <3>1, <3>2
    <3> QED  BY <1>7, <3>1, <3>3 DEF Inv, Behind
  <2> QED  BY <2>1, <2>2
<1>18. OneRowPerSeat'
  <2> SUFFICES ASSUME NEW x \in seats', NEW y \in seats',
                      x[1] # 0, x[1] = y[1], x[2] = y[2], x # y
               PROVE  <<x[1], x[2]>> \in repeated'
    BY DEF OneRowPerSeat
  <2>1. CASE x \in seats /\ y \in seats
    BY <1>7, <2>1 DEF Inv, OneRowPerSeat
  <2>2. ASSUME NEW z \in seats, z[1] = s, z[2] = n, s # 0
        PROVE  <<s, n>> \in repeated
    <3>1. Behind(g)
      BY DEF Inv
    <3> QED  BY <1>4, <1>6, <2>2, <3>1 DEF Behind
  <2>3. CASE x \notin seats /\ y \in seats
    BY <1>7, <1>8, <2>2, <2>3
  <2>4. CASE y \notin seats /\ x \in seats
    BY <1>7, <1>8, <2>2, <2>4
  <2>5. ~(x \notin seats /\ y \notin seats)
    BY DEF DumpMove
  <2> QED  BY <2>1, <2>3, <2>4, <2>5
<1> QED
  BY <1>10, <1>11, <1>12, <1>13, <1>14, <1>15, <1>16, <1>17, <1>18 DEF Inv

\* Forward: NextSeat, with or without its insert, is a step forward.
LEMMA Forward ==
  ASSUME Inv, NEW g \in Dumpers, dump[g].at \in {"bind", "double", "insert"}, NextSeat(g)
  PROVE  \E new \in DumpPlace :
           /\ dump' = [dump EXCEPT ![g] = new]
           /\ new.session = dump[g].session
           /\ new.at # "none"
           /\ new.at # "done" => new.seat < SEATS
           /\ new.seat = dump[g].seat + 1
<1> DEFINE n == dump[g].seat + 1
           new == [dump[g] EXCEPT !.seat = n,
                                  !.at = IF n < SEATS THEN "bind" ELSE "done"]
<1>1. dump \in [Dumpers -> DumpPlace]
  BY DEF Inv, TypeOK, DumpPlace
<1>2. dump[g].seat < SEATS
  BY DEF Inv, DumpRefers
<1>3. n \in 0..SEATS
  BY <1>1, <1>2, SeedAssumption DEF DumpPlace
<1>4. new \in DumpPlace
  BY <1>1, <1>3 DEF DumpPlace
<1>5. dump' = [dump EXCEPT ![g] = new]
  BY <1>1 DEF NextSeat, DumpPlace
<1>6. /\ new.session = dump[g].session
      /\ new.at # "none"
      /\ new.at # "done" => new.seat < SEATS
      /\ new.seat = dump[g].seat + 1
  BY <1>1 DEF DumpPlace
<1> QED  BY <1>4, <1>5, <1>6

\* Sideways: Place moves a goroutine without moving its seat.
LEMMA Sideways ==
  ASSUME Inv, NEW g \in Dumpers, dump[g].at \in {"bind", "assign", "double", "insert"},
         NEW a \in {"bind", "assign", "double", "insert"}, Place(g, a)
  PROVE  \E new \in DumpPlace :
           /\ dump' = [dump EXCEPT ![g] = new]
           /\ new.session = dump[g].session
           /\ new.at # "none"
           /\ new.at # "done" => new.seat < SEATS
           /\ new.seat = dump[g].seat
<1> DEFINE new == [dump[g] EXCEPT !.at = a]
<1>1. dump \in [Dumpers -> DumpPlace]
  BY DEF Inv, TypeOK, DumpPlace
<1>2. dump[g].seat < SEATS
  BY DEF Inv, DumpRefers
<1>3. new \in DumpPlace
  BY <1>1 DEF DumpPlace
<1>4. dump' = [dump EXCEPT ![g] = new]
  BY <1>1 DEF Place, DumpPlace
<1> QED  BY <1>1, <1>2, <1>3, <1>4 DEF DumpPlace

\* RowNumber: InsertRow adds a single row of its seat.
LEMMA RowNumber ==
  ASSUME Inv, NEW g \in Dumpers, InsertRow(Seat(g))
  PROVE  \E k \in Nat : seats' = seats \cup { <<dump[g].session, dump[g].seat, k>> }
<1> DEFINE k == Cardinality(Copies(Seat(g))) + 1
<1>1. IsFiniteSet(Copies(Seat(g)))
  BY FS_Subset DEF Inv, Copies
<1>2. k \in Nat
  BY <1>1, FS_CardinalityType
<1>3. seats' = seats \cup { <<dump[g].session, dump[g].seat, k>> }
  BY DEF InsertRow, Seat
<1> QED  BY <1>2, <1>3

\* RestartInv: the process ends and starts again with the rows there are.
LEMMA RestartInv == Inv /\ Restart => Inv'
<1> SUFFICES ASSUME Inv, Restart PROVE Inv'
  OBVIOUS
<1>1. DbInv'
  BY DEF Restart, DbInv, DbTypeOK, Limited, Opened
<1>2. TypeOK'
  BY <1>1, SeedAssumption
     DEF Restart, Inv, TypeOK, DbInv, NoTurns, NoId, NoDump, rowVars
<1>3. \A g \in Dumpers : dump'[g].at = "none"
  BY DEF Restart, NoDump
<1>4. (\A g \in Dumpers : DumpRefers(g)' /\ Behind(g)') /\ Apart'
  BY <1>3 DEF DumpRefers, Behind, Apart
<1>5. \A r \in Seeders : IdRefers(r)'
  BY DEF Restart, IdRefers
<1>6. IsFiniteSet(seats') /\ ParentsExist' /\ OneRowPerSeat'
  BY DEF Restart, Inv, rowVars, ParentsExist, Refers, OneRowPerSeat
<1> QED  BY <1>1, <1>2, <1>4, <1>5, <1>6 DEF Inv

\* DumpSeatsInv: DumpSeats over gorp and pq, torn and doubled plans, lost
\* replies and panics included (seed_controller.go lines 72 to 82).
LEMMA DumpSeatsInv ==
  ASSUME Inv, NEW g \in Dumpers, DumpSeats(g)
  PROVE  Inv'
<1>1. g[1] \in Seeders
  BY DEF Dumpers
<1>2. plan \in [Seeders -> {"none", "built", "doubled"}] /\ faults \in Nat
  BY DEF Inv, TypeOK
<1>3. ASSUME dump[g].at = "bind", NEW a \in {"assign", "double", "insert"}, Place(g, a),
             UNCHANGED <<dbVars, rowVars, loopVars, plan, histVars>>
      PROVE  Inv'
  <2>1. DumpMove(g)
    BY <1>2, <1>3, Sideways DEF DumpMove, rowVars, histVars
  <2> QED  BY <2>1, DumpMoveInv
<1>4. ASSUME dump[g].at \in {"bind", "double"}, Refused(g),
              plan' \in [Seeders -> {"none", "built", "doubled"}]
       PROVE  Inv'
  <2>1. DumpMove(g)
    BY <1>2, <1>4, Forward DEF Refused, DumpMove, rowVars
  <2> QED  BY <2>1, DumpMoveInv
<1>5. CASE CopyPlan(g)
  <2>1. \E a \in {"assign", "double", "insert"} : Place(g, a)
    BY <1>1, <1>2, <1>5 DEF CopyPlan, Built
  <2> QED  BY <1>3, <1>5, <2>1 DEF CopyPlan
<1>6. CASE AssignPlan(g)
  <2>1. plan' \in [Seeders -> {"none", "built", "doubled"}]
    BY <1>1, <1>2, <1>6 DEF AssignPlan
  <2>2. DumpMove(g)
    BY <1>2, <1>6, <2>1, Sideways DEF AssignPlan, DumpMove, rowVars, histVars
  <2> QED  BY <2>2, DumpMoveInv
<1>7. CASE CopyDoubled(g)
  BY <1>2, <1>4, <1>7 DEF CopyDoubled
<1>8. CASE AssignDoubled(g)
  <2>1. plan' \in [Seeders -> {"none", "built", "doubled"}]
    BY <1>1, <1>2, <1>8 DEF AssignDoubled
  <2> QED  BY <1>4, <1>8, <2>1 DEF AssignDoubled
<1>9. CASE CopyTornPlan(g)
  <2>1. CASE Restart
    BY <2>1, RestartInv
  <2>2. CASE Refused(g) /\ UNCHANGED plan
    BY <1>2, <1>4, <1>9, <2>2 DEF CopyTornPlan
  <2> QED  BY <1>3, <1>9, <2>1, <2>2 DEF CopyTornPlan
<1>10. CASE InsertSeat(g)
  <2>1. DumpMove(g)
    BY <1>2, <1>10, Forward, RowNumber DEF InsertSeat, DumpMove, histVars
  <2> QED  BY <2>1, DumpMoveInv
<1>11. CASE InsertSeatFails(g)
  <2>1. DumpMove(g)
    BY <1>2, <1>11, Forward DEF InsertSeatFails, DumpMove, Fault, rowVars
  <2> QED  BY <2>1, DumpMoveInv
<1>12. CASE InsertSeatLost(g)
  <2>1. dump \in [Dumpers -> DumpPlace] /\ dump' = dump /\ dump[g].at = "insert"
    BY <1>12 DEF InsertSeatLost, Inv, TypeOK, DumpPlace
  <2>2. dump[g] \in DumpPlace /\ dump' = [dump EXCEPT ![g] = dump[g]]
        /\ dump[g].seat < SEATS
    BY <2>1 DEF Inv, DumpRefers
  <2>3. DumpMove(g)
    BY <1>2, <1>12, <2>1, <2>2, RowNumber DEF InsertSeatLost, DumpMove, Fault
  <2> QED  BY <2>3, DumpMoveInv
<1> QED  BY <1>5, <1>6, <1>7, <1>8, <1>9, <1>10, <1>11, <1>12 DEF DumpSeats
-----------------------------------------------------------------------------
\* InvInit: a process that has just started, over empty tables.
LEMMA InvInit == Init => Inv
<1> SUFFICES ASSUME Init PROVE Inv
  OBVIOUS
<1>1. DbInv
  BY DEF Init, DbInit, DbInv, DbTypeOK, Limited, Opened
<1>2. TypeOK
  <2>1. NoTurns \in [theatres : 0..THEATRES, screens : 0..SCREENS,
                     shows : 0..SHOWS, dumps : Nat]
    BY SeedAssumption DEF NoTurns
  <2>2. NoDump \in [at : {"none", "bind", "assign", "double", "insert", "done"},
                    session : Nat, seat : 0..SEATS]
    BY SeedAssumption DEF NoDump
  <2>3. NoId \in [theatre : Nat, screen : Nat]
    BY DEF NoId
  <2>4. table \in [Tables -> Seq(Nat)]
    BY DEF Init
  <2>5. crashed \in BOOLEAN /\ plan \in [Seeders -> {"none", "built", "doubled"}]
    BY DEF Init
  <2> QED  BY <1>1, <2>1, <2>2, <2>3, <2>4, <2>5 DEF Init, TypeOK, DbInv
<1>3. \A t \in Tables : Len(table[t]) = 0
  BY DEF Init
<1>4. ParentsExist /\ OneRowPerSeat
  BY <1>3 DEF Init, ParentsExist, OneRowPerSeat, Tables
<1>5. \A g \in Dumpers : dump[g].at = "none"
  BY DEF Init, NoDump
<1>6. (\A g \in Dumpers : DumpRefers(g) /\ Behind(g)) /\ Apart
  BY <1>5 DEF DumpRefers, Behind, Apart
<1>7. \A r \in Seeders : IdRefers(r)
  BY DEF Init, IdRefers
<1>8. IsFiniteSet(seats)
  BY FS_EmptySet DEF Init
<1> QED  BY <1>1, <1>2, <1>4, <1>6, <1>7, <1>8 DEF Inv

\* InvNext: every step of the seed, its goroutines and GetDbMap keeps Inv.
LEMMA InvNext == Inv /\ [Next]_vars => Inv'
<1> SUFFICES ASSUME Inv, [Next]_vars PROVE Inv'
  OBVIOUS
<1>1. ASSUME UNCHANGED <<rowVars, loopVars, dump, plan, histVars>>, DbInv'
      PROVE  Inv'
  <2>1. TypeOK'
    BY <1>1 DEF Inv, TypeOK, DbInv, rowVars, loopVars, histVars
  <2>2. IsFiniteSet(seats') /\ ParentsExist' /\ OneRowPerSeat'
    BY <1>1 DEF Inv, rowVars, histVars, ParentsExist, Refers, OneRowPerSeat
  <2>3. \A r \in Seeders : IdRefers(r)'
    BY <1>1 DEF Inv, rowVars, loopVars, histVars, IdRefers, Refers
  <2>4. (\A g \in Dumpers : DumpRefers(g)' /\ Behind(g)') /\ Apart'
    BY <1>1 DEF Inv, rowVars, histVars, DumpRefers, Refers, Behind, Apart
  <2> QED  BY <1>1, <2>1, <2>2, <2>3, <2>4 DEF Inv
<1>2. ASSUME NEW c \in Callers, UseDatabase(c) PROVE Inv'
  BY <1>1, <1>2, DbStepInv DEF UseDatabase, Inv
<1>3. ASSUME NEW r \in Seeders, StartSeed(r) \/ SeedStep(r) PROVE Inv'
  BY <1>3, QuietSteps, NextTheatreInv, NextScreenInv, NextShowInv DEF SeedStep
<1>4. ASSUME NEW g \in Dumpers, DumpSeats(g) PROVE Inv'
  BY <1>4, DumpSeatsInv
<1>5. CASE UNCHANGED vars
  BY <1>1, <1>5, DbFrame DEF vars, Inv
<1> QED  BY <1>2, <1>3, <1>4, <1>5 DEF Next

\* SeedAlways: the inductive invariant.
LEMMA SeedAlways == Spec => []Inv
BY InvInit, InvNext, PTL DEF Spec

(***************************************************************************)
(* SeedTyped: the tables, the plans and the handle of the database keep    *)
(* their types.                                                            *)
(***************************************************************************)
THEOREM SeedTyped == Spec => []TypeOK
<1>1. Inv => TypeOK
  BY DEF Inv
<1> QED
  BY <1>1, SeedAlways, PTL

(***************************************************************************)
(* SeedSafety: however many Seeds run at once, whatever inserts fail, are  *)
(* repeated or meet a torn plan, and whenever the process ends, a seat of  *)
(* an inserted session has one row unless its insert was sent again        *)
(* (seed_controller.go).                                                   *)
(***************************************************************************)
THEOREM SeedSafety == Spec => []OneRowPerSeat
<1>1. Inv => OneRowPerSeat
  BY DEF Inv
<1> QED
  BY <1>1, SeedAlways, PTL

(***************************************************************************)
(* NoOrphans: every row refers to an existing parent or to the 0 of a      *)
(* failed insert, through failures and restarts (seed_controller.go).      *)
(***************************************************************************)
THEOREM NoOrphans == Spec => []ParentsExist
<1>1. Inv => ParentsExist
  BY DEF Inv
<1> QED
  BY <1>1, SeedAlways, PTL

(***************************************************************************)
(* HandleLimited: however the callers of GetDbMap race, the handle they    *)
(* end up with has both limits once nobody is in initDb (db_helper.go).    *)
(***************************************************************************)
THEOREM HandleLimited == Spec => []QuietMeansLimited
<1>1. Inv => QuietMeansLimited
  BY DbInvLimited DEF Inv
<1> QED
  BY <1>1, SeedAlways, PTL
=============================================================================
