------------------------------- MODULE Booking -------------------------------
(***************************************************************************)
(* The life of a seat across its two stores: the row in Postgres and the   *)
(* status cached in Redis (models/seat.go, the seat and seed controllers,  *)
(* the loading half of helpers/redis_helper.go).                           *)
(*                                                                         *)
(* Requests block and confirm seats, loaders copy the table into the cache *)
(* over the one global connection c, the seeding goroutines insert rows;   *)
(* all of them run concurrently.  Every database statement and every step  *)
(* on shared Go variables is an action.  The cache is module SeatCache,    *)
(* which RedisHelper implements: a BlockSeat or ConfirmSeat is one step of *)
(* it with one of the answers RedisHelper can give.                        *)
(*                                                                         *)
(* A malformed seatInfo panics in SeatController.Confirm before anything   *)
(* happens and is left out, as is the log.Fatalln for a configuration      *)
(* without a Redis address.  Loads and requests reach the same Redis, as   *)
(* in the development configuration.                                       *)
(***************************************************************************)
EXTENDS Naturals, FiniteSets

CONSTANTS
  Seats,     \* (session, name) pairs
  Requests,  \* HTTP goroutines that block and confirm
  Loaders,   \* HTTP goroutines that load the cache
  ConfirmMayFail,  \* can ConfirmSeat fail on a blocked seat (RedisHelper)?
  Nobody     \* no request, no seat

ASSUME BookingAssumption ==
  /\ Requests \cap Loaders = {}
  /\ ConfirmMayFail \in BOOLEAN
  /\ Nobody \notin Seats \cup Requests

(***************************************************************************)
(* The two keys the code makes of a seat: LoadSeatsIntoRedis joins session *)
(* and name with a dash, Confirm joins them without one.                   *)
(***************************************************************************)
CacheKey(s) == <<s, "dash">>
ConfirmKey(s) == <<s, "joined">>

Keys == { CacheKey(s) : s \in Seats } \cup { ConfirmKey(s) : s \in Seats }

(***************************************************************************)
(* What a SET that came out of a race may leave: a status, whole by        *)
(* chance, or one cut, extended or mixed that is no status.                *)
(***************************************************************************)
Torn == {"free", "confirmed", "garbled"}

Row == {"none", "free", "confirmed"}  \* "none": there is no such row

VARIABLES
  db,        \* the table seats: the status column, by seat
  cache,     \* Redis: status by key
  winner,    \* history: whose block of a key stands (module SeatCache)
  pc,        \* where a request or a loader is
  seat,      \* the seat a request is to confirm
  res,       \* a request's answer
  rows,      \* a loader's snapshot of the table, what is left to write
  current,   \* the seat a loader is writing
  dialled,   \* a loader's dial succeeded
  conn,      \* the global connection c: "nil", "up", "torn" (its bytes are
             \* out of step since two loads wrote them at once) or "broken"
  conerror,  \* the global conerror is not nil
  raced,     \* history: a load's SET came out of a race
  sold,      \* history: seats whose Confirm was answered ok
  late       \* history: the request started after that for its seat

reqVars == <<seat, res, late>>
loadVars == <<rows, current, dialled>>
connVars == <<conn, conerror, raced>>
vars == <<db, cache, winner, pc, reqVars, loadVars, connVars, sold>>

Cache == INSTANCE SeatCache WITH status <- cache

Init ==
  /\ db \in [Seats -> Row]
  /\ cache = [k \in Keys |-> "missing"]
  /\ winner = [k \in Keys |-> Nobody]
  /\ pc = [p \in Requests \cup Loaders |-> "idle"]
  /\ seat = [p \in Requests |-> Nobody]
  /\ res = [p \in Requests |-> "none"]
  /\ rows = [l \in Loaders |-> {}]
  /\ current = [l \in Loaders |-> Nobody]
  /\ dialled = [l \in Loaders |-> FALSE]
  /\ conn = "nil"
  /\ conerror = FALSE
  /\ raced = FALSE
  /\ sold = {}
  /\ late = [p \in Requests |-> FALSE]

Goto(p, s) == pc' = [pc EXCEPT ![p] = s]

Answer(p, r) ==
  /\ Goto(p, "answer")
  /\ res' = [res EXCEPT ![p] = r]
  /\ UNCHANGED <<seat, late>>

Step(p, s) == Goto(p, s) /\ UNCHANGED reqVars

cacheVars == <<cache, winner>>
-----------------------------------------------------------------------------
(***************************************************************************)
(* SeatController.Block and Seat.Block.  BlockSeat blocks the key and says *)
(* ok, or ko if the reply got lost; or it changes nothing and says ko, or  *)
(* ok if its EXEC was refused.  A key that does not exist gives ko.  The   *)
(* pool may make it panic, before or after (RedisHelper).                  *)
(***************************************************************************)
Block(p, k) ==
  /\ pc[p] = "idle"
  /\ \E r \in {"ok", "ko", "panic"} :
       /\ Answer(p, r)
       /\ \/ Cache!Block(p, k)
          \/ (r = "ok" => cache[k] # "missing") /\ UNCHANGED cacheVars
  /\ UNCHANGED <<db, loadVars, connVars, sold>>

(***************************************************************************)
(* SeatController.Confirm and Seat.Confirm.                                *)
(***************************************************************************)
StartConfirm(p, s) ==
  /\ pc[p] = "idle"
  /\ Goto(p, "select")
  /\ seat' = [seat EXCEPT ![p] = s]
  /\ late' = [late EXCEPT ![p] = s \in sold]
  /\ UNCHANGED <<db, cacheVars, res, loadVars, connVars, sold>>

SelectUnchecked(p) ==  \* mutant of Select: the status is not looked at
  /\ pc[p] = "select"
  /\ \/ db[seat[p]] # "none" /\ Step(p, "update")
     \/ Answer(p, "ko")
  /\ UNCHANGED <<db, cacheVars, loadVars, connVars, sold>>

\* SelectOne finds the row, and it is not confirmed; or there is no row, or
\* it is confirmed, or the query fails.
Select(p) ==
  /\ pc[p] = "select"
  /\ \/ db[seat[p]] \notin {"none", "confirmed"} /\ Step(p, "update")
     \/ Answer(p, "ko")
  /\ UNCHANGED <<db, cacheVars, loadVars, connVars, sold>>

UpdateUnchecked(p) ==  \* mutant of Update: the error is not looked at
  /\ pc[p] = "update"
  /\ \/ db' = [db EXCEPT ![seat[p]] = "confirmed"]
     \/ UNCHANGED db
  /\ Step(p, "cache")
  /\ UNCHANGED <<cacheVars, loadVars, connVars, sold>>

\* The UPDATE takes effect and succeeds; or it fails, with or without effect.
Update(p) ==
  /\ pc[p] = "update"
  /\ \/ db' = [db EXCEPT ![seat[p]] = "confirmed"] /\ Step(p, "cache")
     \/ db' = [db EXCEPT ![seat[p]] = "confirmed"] /\ Answer(p, "ko")
     \/ UNCHANGED db /\ Answer(p, "ko")
  /\ UNCHANGED <<cacheVars, loadVars, connVars, sold>>

\* ConfirmSeat on the key without its dash.  Its result is not looked at,
\* but it may panic (RedisHelper), which the client sees as an error 500.
ConfirmCache(p) ==
  /\ pc[p] = "cache"
  /\ \/ Cache!Confirm(ConfirmKey(seat[p]))
     \/ /\ ConfirmMayFail \/ cache[ConfirmKey(seat[p])] # "blocked"
        /\ UNCHANGED cacheVars
  /\ Answer(p, "ok") \/ (ConfirmMayFail /\ Answer(p, "panic"))
  /\ UNCHANGED <<db, loadVars, connVars, sold>>

Respond(p) ==
  /\ pc[p] = "answer"
  /\ Goto(p, "idle")
  /\ sold' = IF res[p] = "ok" /\ seat[p] # Nobody
               THEN sold \cup {seat[p]} ELSE sold
  /\ seat' = [seat EXCEPT ![p] = Nobody]
  /\ res' = [res EXCEPT ![p] = "none"]
  /\ late' = [late EXCEPT ![p] = FALSE]
  /\ UNCHANGED <<db, cacheVars, loadVars, connVars>>
-----------------------------------------------------------------------------
(***************************************************************************)
(* SeatController.Load and LoadIntoRedis: a snapshot of the table, whose   *)
(* rows are then written one by one, in the order the query gave them.  A  *)
(* failing query gives no rows.                                            *)
(***************************************************************************)
GetAllSeats(l) ==
  /\ pc[l] = "idle"
  /\ \/ rows' = [rows EXCEPT ![l] = { <<s, db[s]>> :
                                        s \in { x \in Seats : db[x] # "none" } }]
     \/ rows' = [rows EXCEPT ![l] = {}]
  /\ Goto(l, "next")
  /\ UNCHANGED <<db, cacheVars, reqVars, current, dialled, connVars, sold>>

NextSeatAgain(l, row) ==  \* mutant of NextSeat: the loop does not move on
  /\ pc[l] = "next"
  /\ row \in rows[l]
  /\ current' = [current EXCEPT ![l] = row]
  /\ Goto(l, IF conn = "nil" THEN "dial" ELSE "test")
  /\ UNCHANGED <<db, cacheVars, reqVars, rows, dialled, connVars, sold>>

\* The next seat of the loop, up to the test of c in LoadSeatsIntoRedis.
NextSeat(l, row) ==
  /\ pc[l] = "next"
  /\ row \in rows[l]
  /\ current' = [current EXCEPT ![l] = row]
  /\ rows' = [rows EXCEPT ![l] = @ \ {row}]
  /\ Goto(l, IF conn = "nil" THEN "dial" ELSE "test")
  /\ UNCHANGED <<db, cacheVars, reqVars, dialled, connVars, sold>>

\* initRedis: the dial, then the two assignments, which race with the reads
\* and writes of other loaders.
AssignConn(l) ==
  /\ pc[l] = "dial"
  /\ \E ok \in BOOLEAN : /\ dialled' = [dialled EXCEPT ![l] = ok]
                         /\ conn' = IF ok THEN "up" ELSE "nil"
  /\ Goto(l, "assign")
  /\ UNCHANGED <<db, cacheVars, reqVars, rows, current, conerror, raced, sold>>

AssignError(l) ==
  /\ pc[l] = "assign"
  /\ conerror' = ~dialled[l]
  /\ dialled' = [dialled EXCEPT ![l] = FALSE]
  /\ Goto(l, "test")
  /\ UNCHANGED <<db, cacheVars, reqVars, rows, current, conn, raced, sold>>

\* LoadSeatsIntoRedis returns; its result is not looked at.
Return(l) ==
  /\ Goto(l, "next")
  /\ current' = [current EXCEPT ![l] = Nobody]

TestError(l) ==
  /\ pc[l] = "test"
  /\ \/ conerror /\ Return(l)
     \/ ~conerror /\ Goto(l, "do") /\ UNCHANGED current
  /\ UNCHANGED <<db, cacheVars, reqVars, rows, dialled, connVars, sold>>

LoadConfirmed(l) ==  \* mutant of LoadSeat: every loaded seat counts as confirmed
  /\ pc[l] = "do"
  /\ conn = "up"
  /\ Cache!Load(CacheKey(current[l][1]), "confirmed")
  /\ Return(l)
  /\ UNCHANGED <<db, reqVars, rows, dialled, connVars, sold>>

\* The SET: done, done but the connection breaks, or not done because the
\* connection is broken or breaks.
LoadSeat(l) ==
  /\ pc[l] = "do"
  /\ conn # "nil"
  /\ \/ /\ conn = "up"
        /\ Cache!Load(CacheKey(current[l][1]), current[l][2])
        /\ conn' \in {"up", "broken"}
     \/ UNCHANGED cacheVars /\ conn' = "broken"
  /\ Return(l)
  /\ UNCHANGED <<db, reqVars, rows, dialled, conerror, raced, sold>>

(***************************************************************************)
(* Two loads are in c.Do at once, which redigo does not allow: bw, its     *)
(* length and lenScratch are written without a lock, and so the bytes and  *)
(* the length prefixes of the two commands mix.  What the server makes of  *)
(* them is a SET of any key, of a seat with a row or not, to any value, or *)
(* nothing.  A prefix that is too long swallows a part of the next         *)
(* command, and replies are read by the wrong load: from then on the       *)
(* connection is out of step, also for a load that has it to itself.  A    *)
(* load whose reply another one took waits for the next reply.             *)
(***************************************************************************)
OutOfStep(l) ==
  conn = "torn" \/ (conn = "up" /\ \E m \in Loaders \ {l} : pc[m] = "do")

LoadTorn(l) ==
  /\ pc[l] = "do"
  /\ OutOfStep(l)
  /\ \/ \E k \in Keys, v \in Torn : Cache!Load(k, v)
     \/ UNCHANGED cacheVars
  /\ raced' = TRUE
  /\ conn' \in {"torn", "broken"}
  /\ \/ Return(l)
     \/ Goto(l, "hung") /\ UNCHANGED current
     \/ \E m \in Loaders \ {l} :
          /\ pc[m] = "hung"
          /\ pc' = [pc EXCEPT ![l] = "hung", ![m] = "next"]
          /\ current' = [current EXCEPT ![m] = Nobody]
  /\ UNCHANGED <<db, reqVars, rows, dialled, conerror, sold>>

LoadHung(l) ==
  /\ pc[l] = "hung"
  /\ conn = "broken"
  /\ Return(l)
  /\ UNCHANGED <<db, cacheVars, reqVars, rows, dialled, connVars, sold>>

\* c has become nil since it was tested, or it is torn because another load
\* is assigning it or using it: a panic, which the client sees as error 500.
LoadPanic(l) ==
  /\ pc[l] = "do"
  /\ conn = "nil" \/ \E m \in Loaders \ {l} : pc[m] \in {"dial", "do"}
  /\ Goto(l, "idle")
  /\ rows' = [rows EXCEPT ![l] = {}]
  /\ current' = [current EXCEPT ![l] = Nobody]
  /\ UNCHANGED <<db, cacheVars, reqVars, dialled, connVars, sold>>

\* The loop is done; the answer is ok whatever happened.
LoadDone(l) ==
  /\ pc[l] = "next"
  /\ rows[l] = {}
  /\ Goto(l, "idle")
  /\ UNCHANGED <<db, cacheVars, reqVars, loadVars, connVars, sold>>

DumpSeatsUpper(s) ==  \* mutant of DumpSeats: the seed's own literal is misspelt
  /\ db[s] = "none"
  /\ db' = [db EXCEPT ![s] = "Free"]
  /\ UNCHANGED <<cacheVars, pc, reqVars, loadVars, connVars, sold>>

(***************************************************************************)
(* DumpSeats, a goroutine of Seed: it inserts a free seat.                 *)
(***************************************************************************)
DumpSeats(s) ==
  /\ db[s] = "none"
  /\ db' = [db EXCEPT ![s] = "free"]
  /\ UNCHANGED <<cacheVars, pc, reqVars, loadVars, connVars, sold>>
-----------------------------------------------------------------------------
Confirm(p) == Select(p) \/ Update(p) \/ ConfirmCache(p)

LoadSeatsIntoRedis(l) ==
  \/ AssignConn(l) \/ AssignError(l) \/ TestError(l)
  \/ LoadSeat(l) \/ LoadTorn(l) \/ LoadHung(l) \/ LoadPanic(l)

LoadIntoRedis(l) ==
  (\E row \in rows[l] : NextSeat(l, row)) \/ LoadSeatsIntoRedis(l) \/ LoadDone(l)

RequestStep(p) == Confirm(p) \/ Respond(p)

Next ==
  \/ \E p \in Requests :
       \/ \E k \in Keys : Block(p, k)
       \/ \E s \in Seats : StartConfirm(p, s)
       \/ RequestStep(p)
  \/ \E l \in Loaders : GetAllSeats(l) \/ LoadIntoRedis(l)
  \/ \E s \in Seats : DumpSeats(s)

Spec == Init /\ [][Next]_vars

(***************************************************************************)
(* Goroutines keep running; nothing makes requests or loads start.         *)
(***************************************************************************)
FairSpec ==
  /\ Spec
  /\ \A p \in Requests : WF_vars(RequestStep(p))
  /\ \A l \in Loaders : WF_vars(LoadIntoRedis(l))
-----------------------------------------------------------------------------
TypeOK ==
  /\ db \in [Seats -> Row]
  /\ cache \in [Keys -> {"missing", "blocked"} \cup Torn]
  /\ winner \in [Keys -> Requests \cup {Nobody}]
  /\ pc \in [Requests \cup Loaders ->
               {"idle", "select", "update", "cache", "answer",
                "next", "dial", "assign", "test", "do", "hung"}]
  /\ seat \in [Requests -> Seats \cup {Nobody}]
  /\ res \in [Requests -> {"none", "ok", "ko", "panic"}]
  /\ rows \in [Loaders -> SUBSET (Seats \X {"free", "confirmed"})]
  /\ current \in [Loaders -> (Seats \X {"free", "confirmed"}) \cup {Nobody}]
  /\ dialled \in [Loaders -> BOOLEAN]
  /\ conn \in {"nil", "up", "torn", "broken"}
  /\ conerror \in BOOLEAN
  /\ raced \in BOOLEAN
  /\ sold \in SUBSET Seats
  /\ late \in [Requests -> BOOLEAN]

(***************************************************************************)
(* CacheFollowsTable: until a SET has come out of a race, the cache is     *)
(* never ahead of the table.  A seat is cached only if it has a row, and   *)
(* as confirmed only if its row is confirmed, whatever was inserted,       *)
(* blocked and confirmed while loads, also overlapping ones, were still    *)
(* writing their snapshots.                                                *)
(***************************************************************************)
CacheFollowsTable ==
  ~raced => \A s \in Seats :
    /\ cache[CacheKey(s)] # "missing" => db[s] # "none"
    /\ cache[CacheKey(s)] = "confirmed" => db[s] = "confirmed"

(***************************************************************************)
(* OkMeansConfirmed: a Confirm that answers ok has its seat confirmed in   *)
(* the table, and so has one that fails with a panic of ConfirmSeat.       *)
(***************************************************************************)
OkMeansConfirmed ==
  \A p \in Requests :
    pc[p] = "answer" /\ seat[p] # Nobody /\ res[p] \in {"ok", "panic"} =>
      db[seat[p]] = "confirmed"

(***************************************************************************)
(* LateConfirmRefused: a Confirm that starts after another Confirm of the  *)
(* same seat was answered ok is not answered ok.  Two that overlap may     *)
(* both be: the select and the update are no transaction.                  *)
(***************************************************************************)
LateConfirmRefused ==
  \A p \in Requests : pc[p] = "answer" /\ res[p] = "ok" => ~late[p]

(***************************************************************************)
(* OkReachesCache: a Confirm that is answered ok makes a seat that is      *)
(* blocked in the cache confirmed there.  The code passes ConfirmSeat a    *)
(* key that Load and Block do not use.                                     *)
(***************************************************************************)
OkReachesCache ==
  [][\A p \in Requests :
       pc[p] = "cache" /\ res'[p] = "ok" /\ cache[CacheKey(seat[p])] = "blocked" =>
         cache'[CacheKey(seat[p])] = "confirmed"]_vars

(***************************************************************************)
(* LoadsFinish: a load is answered, although dials fail, the connection    *)
(* breaks and loads dial, use and replace it at once, unless it waits for  *)
(* a reply that another load has read.                                     *)
(***************************************************************************)
LoadsFinish ==
  \A l \in Loaders : pc[l] # "idle" ~> pc[l] \in {"idle", "hung"}

(***************************************************************************)
(* DoAlone: no two goroutines are in Do on the global connection, as       *)
(* redigo's documentation demands.  The code does nothing to ensure it.    *)
(***************************************************************************)
DoAlone == \A l, m \in Loaders : pc[l] = "do" /\ pc[m] = "do" => l = m
=============================================================================
