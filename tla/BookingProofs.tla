---------------------------- MODULE BookingProofs ----------------------------
(***************************************************************************)
(* Safety of Booking for any sets of seats, requests and loaders.          *)
(*                                                                         *)
(* The argument: the status of a row only grows (none, free, confirmed),   *)
(* so what a snapshot, a request or a history variable once knew of a row  *)
(* stays true (RequestFrame, LoadFrame).  Given that, an action has to     *)
(* establish the invariant only for the goroutine it moves.  A SET that    *)
(* comes out of a race may leave anything in the cache; what is said of    *)
(* the cache is said of the time before the first one.                     *)
(***************************************************************************)
EXTENDS Booking, TLAPS

Writing == {"dial", "assign", "test", "do", "hung"}

(***************************************************************************)
(* What holds of a request, by the place it is at.                         *)
(***************************************************************************)
RequestOK(p) ==
  /\ pc[p] \in {"idle", "select", "update", "cache", "answer"}
  /\ pc[p] = "idle" => seat[p] = Nobody
  /\ pc[p] \in {"select", "update", "cache"} => seat[p] \in Seats
  /\ pc[p] = "update" => db[seat[p]] # "none"
  /\ pc[p] = "cache" => db[seat[p]] = "confirmed"
  /\ pc[p] = "answer" /\ seat[p] # Nobody /\ res[p] \in {"ok", "panic"} =>
       db[seat[p]] = "confirmed"
  /\ late[p] => /\ seat[p] \in Seats
                /\ db[seat[p]] = "confirmed"
                /\ pc[p] = "select" \/ (pc[p] = "answer" /\ res[p] = "ko")

(***************************************************************************)
(* What a loader's snapshot says of a row is true or out of date.          *)
(***************************************************************************)
KnownRow(r) ==
  /\ r \in Seats \X {"free", "confirmed"}
  /\ db[r[1]] # "none"
  /\ r[2] = "confirmed" => db[r[1]] = "confirmed"

LoadOK(l) ==
  /\ pc[l] \in {"idle", "next"} \cup Writing
  /\ \A r \in rows[l] : KnownRow(r)
  /\ pc[l] \in Writing => KnownRow(current[l])

SoldOK == \A s \in sold : db[s] = "confirmed"

Inv ==
  /\ TypeOK
  /\ \A p \in Requests : RequestOK(p)
  /\ \A l \in Loaders : LoadOK(l)
  /\ SoldOK
  /\ CacheFollowsTable

(***************************************************************************)
(* A row's status only goes from none to free to confirmed.                *)
(***************************************************************************)
Grows ==
  \A s \in Seats : \/ db'[s] = db[s]
                   \/ db[s] # "none" /\ db'[s] = "confirmed"
                   \/ db[s] = "none" /\ db'[s] = "free"
-----------------------------------------------------------------------------
(***************************************************************************)
(* KeysApart: the dashed and the joined keys of seats are all different    *)
(* (seat.go line 40 against redis_helper.go line 73).                      *)
(***************************************************************************)
LEMMA KeysApart ==
  \A s, t \in Seats : /\ CacheKey(s) \in Keys
                      /\ ConfirmKey(s) \in Keys
                      /\ CacheKey(s) # ConfirmKey(t)
                      /\ CacheKey(s) = CacheKey(t) => s = t
BY DEF Keys, CacheKey, ConfirmKey

(***************************************************************************)
(* RequestFrame: a request that does not move is not disturbed by what     *)
(* others do to the table.                                                 *)
(***************************************************************************)
LEMMA RequestFrame ==
  ASSUME TypeOK, Grows, NEW p \in Requests, RequestOK(p),
         pc'[p] = pc[p], seat'[p] = seat[p],
         res'[p] = res[p], late'[p] = late[p]
  PROVE  RequestOK(p)'
BY BookingAssumption DEF TypeOK, Grows, RequestOK, Row

(***************************************************************************)
(* RowFrame: what is known of a row stays known.                           *)
(***************************************************************************)
LEMMA RowFrame ==
  ASSUME Grows, NEW r, KnownRow(r)
  PROVE  KnownRow(r)'
BY DEF Grows, KnownRow

(***************************************************************************)
(* LoadFrame: nor is a loader that does not move.                          *)
(***************************************************************************)
LEMMA LoadFrame ==
  ASSUME Grows, NEW l \in Loaders, LoadOK(l),
         pc'[l] = pc[l], rows'[l] = rows[l], current'[l] = current[l]
  PROVE  LoadOK(l)'
BY RowFrame DEF LoadOK

(***************************************************************************)
(* RequestMoves: a step of request p has to be looked at for p only.       *)
(***************************************************************************)
LEMMA RequestMoves ==
  ASSUME Inv, Grows, NEW p \in Requests, RequestOK(p)',
         \A q \in (Requests \cup Loaders) \ {p} : pc'[q] = pc[q],
         \A q \in Requests \ {p} :
           seat'[q] = seat[q] /\ res'[q] = res[q] /\ late'[q] = late[q],
         UNCHANGED <<rows, current>>
  PROVE  /\ \A q \in Requests : RequestOK(q)'
         /\ \A l \in Loaders : LoadOK(l)'
<1>1. ASSUME NEW q \in Requests, q # p PROVE RequestOK(q)'
  <2>1. q \in (Requests \cup Loaders) \ {p} /\ q \in Requests \ {p}
    BY <1>1
  <2> QED  BY <2>1, RequestFrame DEF Inv
<1>2. ASSUME NEW l \in Loaders PROVE LoadOK(l)'
  <2>1. l \in (Requests \cup Loaders) \ {p}
    BY BookingAssumption
  <2> QED  BY <2>1, LoadFrame DEF Inv
<1> QED  BY <1>1, <1>2

(***************************************************************************)
(* LoadMoves: a step of loader l has to be looked at for l only.           *)
(***************************************************************************)
LEMMA LoadMoves ==
  ASSUME Inv, NEW l \in Loaders, LoadOK(l)',
         \A q \in (Requests \cup Loaders) \ {l} : pc'[q] = pc[q],
         \A m \in Loaders \ {l} : rows'[m] = rows[m] /\ current'[m] = current[m],
         UNCHANGED <<db, reqVars, sold>>
  PROVE  /\ \A p \in Requests : RequestOK(p)'
         /\ \A m \in Loaders : LoadOK(m)'
         /\ SoldOK'
<1>0. Grows
  BY DEF Grows
<1>1. ASSUME NEW p \in Requests PROVE RequestOK(p)'
  <2>1. p \in (Requests \cup Loaders) \ {l}
    BY BookingAssumption
  <2> QED  BY <1>0, <2>1, RequestFrame DEF Inv, reqVars
<1>2. ASSUME NEW m \in Loaders, m # l PROVE LoadOK(m)'
  <2>1. m \in (Requests \cup Loaders) \ {l} /\ m \in Loaders \ {l}
    BY <1>2
  <2> QED  BY <1>0, <2>1, LoadFrame DEF Inv
<1>3. SoldOK'
  BY DEF Inv, SoldOK
<1> QED  BY <1>1, <1>2, <1>3

(***************************************************************************)
(* CacheFrame: the cache needs a look only when a key of a seat is written.*)
(***************************************************************************)
LEMMA CacheFrame ==
  ASSUME Inv, Grows, raced' = raced,
         \A s \in Seats : cache'[CacheKey(s)] = cache[CacheKey(s)]
  PROVE  CacheFollowsTable'
BY DEF Inv, TypeOK, Row, Grows, CacheFollowsTable

(***************************************************************************)
(* SoldFrame: a seat that was sold stays confirmed.                        *)
(***************************************************************************)
LEMMA SoldFrame ==
  ASSUME Inv, Grows, UNCHANGED sold
  PROVE  SoldOK'
BY DEF Inv, TypeOK, Grows, SoldOK
-----------------------------------------------------------------------------
(***************************************************************************)
(* The steps of a request: Block and Confirm of the seat controller.       *)
(***************************************************************************)

\* Block: BlockSeat writes a key that is cached already, or none.
LEMMA BlockInv ==
  ASSUME Inv, NEW p \in Requests, NEW k \in Keys, Block(p, k)
  PROVE  Inv'
<1>0. seat[p] = Nobody /\ ~late[p]
  BY BookingAssumption DEF Inv, RequestOK, TypeOK, Block
<1>1. TypeOK' /\ Grows
  BY DEF Inv, TypeOK, Block, Answer, Goto, cacheVars, loadVars, connVars, Grows,
         Cache!Block
<1>2. RequestOK(p)'
  BY <1>0 DEF Inv, TypeOK, RequestOK, Block, Answer, Goto
<1>3. /\ \A q \in Requests : RequestOK(q)'
      /\ \A l \in Loaders : LoadOK(l)'
  BY <1>1, <1>2, RequestMoves DEF Inv, TypeOK, Block, Answer, Goto, loadVars
<1>4. SoldOK'
  BY <1>1, SoldFrame DEF Block
<1>5. CacheFollowsTable'
  <2>1. CASE UNCHANGED cache
    BY <1>1, <2>1, CacheFrame DEF Block, connVars
  <2>2. CASE Cache!Block(p, k)
    BY <2>2, KeysApart
    DEF Inv, TypeOK, CacheFollowsTable, Cache!Block, Block, connVars
  <2> QED  BY <2>1, <2>2 DEF Block, cacheVars
<1> QED  BY <1>1, <1>3, <1>4, <1>5 DEF Inv

\* StartConfirm: a seat that was sold is confirmed when the request starts.
LEMMA StartConfirmInv ==
  ASSUME Inv, NEW p \in Requests, NEW s \in Seats, StartConfirm(p, s)
  PROVE  Inv'
<1>1. TypeOK' /\ Grows
  BY DEF Inv, TypeOK, StartConfirm, Goto, cacheVars, loadVars, connVars, Grows
<1>2. RequestOK(p)'
  BY DEF Inv, TypeOK, RequestOK, SoldOK, StartConfirm, Goto
<1>3. /\ \A q \in Requests : RequestOK(q)'
      /\ \A l \in Loaders : LoadOK(l)'
  BY <1>1, <1>2, RequestMoves DEF Inv, TypeOK, StartConfirm, Goto, loadVars
<1>4. SoldOK' /\ CacheFollowsTable'
  BY <1>1, SoldFrame, CacheFrame DEF StartConfirm, cacheVars, connVars
<1> QED  BY <1>1, <1>3, <1>4 DEF Inv

\* Select: only a row that exists and is not confirmed gets any further.
LEMMA SelectInv ==
  ASSUME Inv, NEW p \in Requests, Select(p)
  PROVE  Inv'
<1>1. TypeOK' /\ Grows
  BY DEF Inv, TypeOK, Select, Step, Answer, Goto, cacheVars, reqVars, loadVars,
         connVars, Grows
<1>2. RequestOK(p)'
  BY DEF Inv, TypeOK, RequestOK, Select, Step, Answer, Goto, reqVars
<1>3. /\ \A q \in Requests : RequestOK(q)'
      /\ \A l \in Loaders : LoadOK(l)'
  BY <1>1, <1>2, RequestMoves
  DEF Inv, TypeOK, Select, Step, Answer, Goto, reqVars, loadVars
<1>4. SoldOK' /\ CacheFollowsTable'
  BY <1>1, SoldFrame, CacheFrame DEF Select, cacheVars, connVars
<1> QED  BY <1>1, <1>3, <1>4 DEF Inv

\* Update: a request that is late has not come this far.
LEMMA UpdateInv ==
  ASSUME Inv, NEW p \in Requests, Update(p)
  PROVE  Inv'
<1>0. seat[p] \in Seats /\ db[seat[p]] # "none" /\ ~late[p]
  BY DEF Inv, RequestOK, TypeOK, Update
<1>1. TypeOK' /\ Grows
  BY <1>0 DEF Inv, TypeOK, Row, Update, Step, Answer, Goto, cacheVars, reqVars,
              loadVars, connVars, Grows
<1>2. RequestOK(p)'
  BY <1>0 DEF Inv, TypeOK, RequestOK, Update, Step, Answer, Goto, reqVars
<1>3. /\ \A q \in Requests : RequestOK(q)'
      /\ \A l \in Loaders : LoadOK(l)'
  BY <1>1, <1>2, RequestMoves
  DEF Inv, TypeOK, Update, Step, Answer, Goto, reqVars, loadVars
<1>4. SoldOK' /\ CacheFollowsTable'
  BY <1>1, SoldFrame, CacheFrame DEF Update, cacheVars, connVars
<1> QED  BY <1>1, <1>3, <1>4 DEF Inv

\* ConfirmCache: its key is not one that seats are loaded under.
LEMMA ConfirmCacheInv ==
  ASSUME Inv, NEW p \in Requests, ConfirmCache(p)
  PROVE  Inv'
<1>0. seat[p] \in Seats /\ db[seat[p]] = "confirmed" /\ ~late[p]
  BY DEF Inv, RequestOK, TypeOK, ConfirmCache
<1>1. /\ cache' \in [Keys -> {"missing", "blocked"} \cup Torn]
      /\ winner' \in [Keys -> Requests \cup {Nobody}]
      /\ \A s \in Seats : cache'[CacheKey(s)] = cache[CacheKey(s)]
  BY <1>0, KeysApart DEF Inv, TypeOK, Torn, ConfirmCache, Cache!Confirm, cacheVars
<1>2. TypeOK' /\ Grows
  BY <1>1 DEF Inv, TypeOK, ConfirmCache, Answer, Goto, loadVars, connVars, Grows
<1>3. RequestOK(p)'
  BY <1>0 DEF Inv, TypeOK, RequestOK, ConfirmCache, Answer, Goto
<1>4. /\ \A q \in Requests : RequestOK(q)'
      /\ \A l \in Loaders : LoadOK(l)'
  BY <1>2, <1>3, RequestMoves DEF Inv, TypeOK, ConfirmCache, Answer, Goto, loadVars
<1>5. SoldOK' /\ CacheFollowsTable'
  BY <1>1, <1>2, SoldFrame, CacheFrame DEF ConfirmCache, connVars
<1> QED  BY <1>2, <1>4, <1>5 DEF Inv

\* Respond: what is answered ok has been confirmed in the table.
LEMMA RespondInv ==
  ASSUME Inv, NEW p \in Requests, Respond(p)
  PROVE  Inv'
<1>1. TypeOK' /\ Grows
  BY DEF Inv, TypeOK, Respond, Goto, cacheVars, loadVars, connVars, Grows
<1>2. RequestOK(p)'
  BY BookingAssumption DEF Inv, TypeOK, RequestOK, Respond, Goto
<1>3. /\ \A q \in Requests : RequestOK(q)'
      /\ \A l \in Loaders : LoadOK(l)'
  BY <1>1, <1>2, RequestMoves DEF Inv, TypeOK, Respond, Goto, loadVars
<1>4. SoldOK'
  BY DEF Inv, TypeOK, RequestOK, SoldOK, Respond
<1>5. CacheFollowsTable'
  BY <1>1, CacheFrame DEF Respond, cacheVars, connVars
<1> QED  BY <1>1, <1>3, <1>4, <1>5 DEF Inv
-----------------------------------------------------------------------------
(***************************************************************************)
(* The steps of a loader.                                                  *)
(***************************************************************************)

\* QuietLoad: a loader's step that leaves the cache alone needs a look at the
\* loader only.
LEMMA QuietLoad ==
  ASSUME Inv, NEW l \in Loaders, LoadOK(l)', TypeOK',
         \A q \in (Requests \cup Loaders) \ {l} : pc'[q] = pc[q],
         \A m \in Loaders \ {l} : rows'[m] = rows[m] /\ current'[m] = current[m],
         UNCHANGED <<db, reqVars, sold, cache, raced>>
  PROVE  Inv'
<1>1. Grows
  BY DEF Grows
<1>2. /\ \A p \in Requests : RequestOK(p)'
      /\ \A m \in Loaders : LoadOK(m)'
      /\ SoldOK'
  BY LoadMoves
<1> QED  BY <1>1, <1>2, CacheFrame DEF Inv

\* GetAllSeats: a snapshot is true when it is taken.
LEMMA GetAllSeatsInv ==
  ASSUME Inv, NEW l \in Loaders, GetAllSeats(l)
  PROVE  Inv'
<1>1. ASSUME NEW r \in rows'[l] PROVE KnownRow(r)'
  BY DEF Inv, TypeOK, Row, GetAllSeats, KnownRow
<1>2. LoadOK(l)'
  BY <1>1 DEF Inv, TypeOK, LoadOK, GetAllSeats, Goto, Writing
<1>3. rows'[l] \in SUBSET (Seats \X {"free", "confirmed"})
  BY <1>1 DEF KnownRow
<1>4. TypeOK'
  BY <1>3 DEF Inv, TypeOK, GetAllSeats, Goto, cacheVars, reqVars, connVars
<1> QED
  BY <1>2, <1>4, QuietLoad DEF Inv, TypeOK, GetAllSeats, Goto, cacheVars, connVars

\* NextSeat: the row that is written next is one of the snapshot.
LEMMA NextSeatInv ==
  ASSUME Inv, NEW l \in Loaders, NEW row, NextSeat(l, row)
  PROVE  Inv'
<1>1. KnownRow(row) /\ \A r \in rows'[l] : KnownRow(r)
  BY DEF Inv, TypeOK, LoadOK, NextSeat
<1>2. TypeOK'
  BY <1>1 DEF Inv, TypeOK, KnownRow, NextSeat, Goto, cacheVars, reqVars, connVars
<1>3. LoadOK(l)'
  BY <1>1 DEF Inv, TypeOK, LoadOK, KnownRow, NextSeat, Goto, Writing
<1> QED
  BY <1>2, <1>3, QuietLoad DEF Inv, TypeOK, NextSeat, Goto, cacheVars, connVars

\* AssignConn: the first assignment of initRedis.
LEMMA AssignConnInv ==
  ASSUME Inv, NEW l \in Loaders, AssignConn(l)
  PROVE  Inv'
<1>1. TypeOK'
  BY DEF Inv, TypeOK, AssignConn, Goto, cacheVars, reqVars
<1>2. LoadOK(l)'
  BY DEF Inv, TypeOK, LoadOK, KnownRow, AssignConn, Goto, Writing
<1> QED
  BY <1>1, <1>2, QuietLoad DEF Inv, TypeOK, AssignConn, Goto, cacheVars, connVars

\* AssignError: the second one.
LEMMA AssignErrorInv ==
  ASSUME Inv, NEW l \in Loaders, AssignError(l)
  PROVE  Inv'
<1>1. TypeOK'
  BY DEF Inv, TypeOK, AssignError, Goto, cacheVars, reqVars
<1>2. LoadOK(l)'
  BY DEF Inv, TypeOK, LoadOK, KnownRow, AssignError, Goto, Writing
<1> QED
  BY <1>1, <1>2, QuietLoad DEF Inv, TypeOK, AssignError, Goto, cacheVars, connVars

\* TestError: the seat is skipped, or its row goes on to the SET.
LEMMA TestErrorInv ==
  ASSUME Inv, NEW l \in Loaders, TestError(l)
  PROVE  Inv'
<1>1. TypeOK'
  BY DEF Inv, TypeOK, TestError, Return, Goto, cacheVars, reqVars, connVars
<1>2. LoadOK(l)'
  BY DEF Inv, TypeOK, LoadOK, KnownRow, TestError, Return, Goto, Writing
<1> QED
  BY <1>1, <1>2, QuietLoad DEF Inv, TypeOK, TestError, Return, Goto, cacheVars, connVars

\* LoadHung: an interrupted wait writes nothing.
LEMMA LoadHungInv ==
  ASSUME Inv, NEW l \in Loaders, LoadHung(l)
  PROVE  Inv'
<1>1. TypeOK'
  BY DEF Inv, TypeOK, LoadHung, Return, Goto, cacheVars, reqVars, connVars
<1>2. LoadOK(l)'
  BY DEF Inv, TypeOK, LoadOK, KnownRow, LoadHung, Return, Goto, Writing
<1> QED
  BY <1>1, <1>2, QuietLoad DEF Inv, TypeOK, LoadHung, Return, Goto, cacheVars, connVars

\* LoadPanic: nor does a panic.
LEMMA LoadPanicInv ==
  ASSUME Inv, NEW l \in Loaders, LoadPanic(l)
  PROVE  Inv'
<1>1. TypeOK'
  BY DEF Inv, TypeOK, LoadPanic, Goto, cacheVars, reqVars, connVars
<1>2. LoadOK(l)'
  BY DEF Inv, TypeOK, LoadOK, LoadPanic, Goto, Writing
<1> QED
  BY <1>1, <1>2, QuietLoad DEF Inv, TypeOK, LoadPanic, Goto, cacheVars, connVars

\* LoadDone: the loop is over.
LEMMA LoadDoneInv ==
  ASSUME Inv, NEW l \in Loaders, LoadDone(l)
  PROVE  Inv'
<1>1. TypeOK'
  BY DEF Inv, TypeOK, LoadDone, Goto, cacheVars, reqVars, loadVars, connVars
<1>2. LoadOK(l)'
  BY DEF Inv, TypeOK, LoadOK, KnownRow, LoadDone, Goto, Writing, loadVars
<1> QED
  BY <1>1, <1>2, QuietLoad DEF Inv, TypeOK, LoadDone, Goto, cacheVars, connVars, loadVars

\* LoadSeat: it writes the row at hand or nothing.
LEMMA LoadSeatInv ==
  ASSUME Inv, NEW l \in Loaders, LoadSeat(l)
  PROVE  Inv'
<1>0. KnownRow(current[l]) /\ current[l][1] \in Seats
      /\ current[l][2] \in {"free", "confirmed"}
  BY DEF Inv, LoadOK, KnownRow, LoadSeat, Writing
<1>1. /\ CacheFollowsTable'
      /\ cache' \in [Keys -> {"missing", "blocked"} \cup Torn]
      /\ winner' \in [Keys -> Requests \cup {Nobody}]
  <2>1. CASE UNCHANGED cacheVars
    BY <2>1 DEF Inv, TypeOK, CacheFollowsTable, cacheVars, LoadSeat
  <2>2. CASE Cache!Load(CacheKey(current[l][1]), current[l][2])
    BY <1>0, <2>2, KeysApart
    DEF Inv, TypeOK, Torn, CacheFollowsTable, KnownRow, Cache!Load, LoadSeat
  <2> QED  BY <2>1, <2>2 DEF LoadSeat
<1>2. TypeOK'
  BY <1>1 DEF Inv, TypeOK, LoadSeat, Return, Goto, reqVars
<1>3. LoadOK(l)'
  BY DEF Inv, TypeOK, LoadOK, KnownRow, LoadSeat, Return, Goto, Writing
<1>4. /\ \A p \in Requests : RequestOK(p)'
      /\ \A m \in Loaders : LoadOK(m)'
      /\ SoldOK'
  BY <1>3, LoadMoves DEF Inv, TypeOK, LoadSeat, Return, Goto
<1> QED  BY <1>1, <1>2, <1>4 DEF Inv

\* LoadTorn: the cache may hold anything from here on; table, requests and
\* snapshots are as they were, also that of a load that gets another's reply.
LEMMA LoadTornInv ==
  ASSUME Inv, NEW l \in Loaders, LoadTorn(l)
  PROVE  Inv'
<1>1. /\ cache' \in [Keys -> {"missing", "blocked"} \cup Torn]
      /\ winner' \in [Keys -> Requests \cup {Nobody}]
  BY DEF Inv, TypeOK, LoadTorn, Cache!Load, cacheVars
<1>2. /\ TypeOK'
      /\ CacheFollowsTable'
      /\ Grows
  BY <1>1 DEF Inv, TypeOK, LoadTorn, Return, Goto, reqVars, CacheFollowsTable, Grows
<1>3. ASSUME NEW p \in Requests PROVE RequestOK(p)'
  <2>1. pc'[p] = pc[p]
    BY BookingAssumption DEF Inv, TypeOK, LoadTorn, Return, Goto
  <2> QED  BY <1>2, <2>1, RequestFrame DEF Inv, LoadTorn, reqVars
<1>4. ASSUME NEW m \in Loaders PROVE LoadOK(m)'
  <2>1. \A r \in rows'[m] : KnownRow(r)'
    BY <1>2, RowFrame DEF Inv, LoadOK, LoadTorn
  <2>2. CASE pc'[m] = "next"
    BY <2>1, <2>2 DEF LoadOK, Writing
  <2>3. CASE pc'[m] # "next"
    <3>1. /\ current'[m] = current[m]
          /\ rows'[m] = rows[m]
          /\ pc'[m] = pc[m] \/ (pc[m] = "do" /\ pc'[m] = "hung")
      BY <2>3 DEF Inv, TypeOK, LoadTorn, Return, Goto
    <3> QED  BY <1>2, <2>1, <3>1, RowFrame DEF Inv, LoadOK, Writing
  <2> QED  BY <2>2, <2>3
<1>5. SoldOK'
  BY <1>2, SoldFrame DEF LoadTorn
<1> QED  BY <1>2, <1>3, <1>4, <1>5 DEF Inv
-----------------------------------------------------------------------------
\* DumpSeats: an insert only makes the table grow.
LEMMA DumpSeatsInv ==
  ASSUME Inv, NEW s \in Seats, DumpSeats(s)
  PROVE  Inv'
<1>1. TypeOK' /\ Grows
  BY DEF Inv, TypeOK, Row, DumpSeats, cacheVars, reqVars, loadVars, connVars, Grows
<1>2. ASSUME NEW p \in Requests PROVE RequestOK(p)'
  BY <1>1, RequestFrame DEF Inv, DumpSeats, reqVars
<1>3. ASSUME NEW l \in Loaders PROVE LoadOK(l)'
  BY <1>1, LoadFrame DEF Inv, DumpSeats, loadVars
<1>4. SoldOK' /\ CacheFollowsTable'
  BY <1>1, SoldFrame, CacheFrame DEF DumpSeats, cacheVars, connVars
<1> QED  BY <1>1, <1>2, <1>3, <1>4 DEF Inv

\* InitInv: the invariant holds before the first request.
LEMMA InitInv == Init => Inv
<1> SUFFICES ASSUME Init PROVE Inv
  OBVIOUS
<1>1. TypeOK
  BY DEF Init, TypeOK, Row
<1>2. \A p \in Requests : RequestOK(p)
  BY DEF Init, RequestOK
<1>3. \A l \in Loaders : LoadOK(l)
  BY DEF Init, LoadOK, Writing
<1>4. SoldOK /\ CacheFollowsTable
  BY KeysApart DEF Init, SoldOK, CacheFollowsTable
<1> QED  BY <1>1, <1>2, <1>3, <1>4 DEF Inv

\* StutterInv: and is kept by a step that changes nothing.
LEMMA StutterInv == Inv /\ UNCHANGED vars => Inv'
<1> SUFFICES ASSUME Inv, UNCHANGED vars PROVE Inv'
  OBVIOUS
<1>1. TypeOK' /\ Grows
  BY DEF Inv, TypeOK, Row, vars, reqVars, loadVars, connVars, Grows
<1>2. ASSUME NEW p \in Requests PROVE RequestOK(p)'
  BY <1>1, RequestFrame DEF Inv, vars, reqVars
<1>3. ASSUME NEW l \in Loaders PROVE LoadOK(l)'
  BY <1>1, LoadFrame DEF Inv, vars, loadVars
<1>4. SoldOK' /\ CacheFollowsTable'
  BY <1>1, SoldFrame, CacheFrame DEF vars, connVars
<1> QED  BY <1>1, <1>2, <1>3, <1>4 DEF Inv

\* NextInv: every step of the system keeps the invariant.
LEMMA NextInv == Inv /\ [Next]_vars => Inv'
<1> SUFFICES ASSUME Inv, [Next]_vars PROVE Inv'
  OBVIOUS
<1>1. ASSUME NEW p \in Requests, NEW k \in Keys, Block(p, k) PROVE Inv'
  BY <1>1, BlockInv
<1>2. ASSUME NEW p \in Requests, NEW s \in Seats, StartConfirm(p, s) PROVE Inv'
  BY <1>2, StartConfirmInv
<1>3. ASSUME NEW p \in Requests, RequestStep(p) PROVE Inv'
  BY <1>3, SelectInv, UpdateInv, ConfirmCacheInv, RespondInv
  DEF RequestStep, Confirm
<1>4. ASSUME NEW l \in Loaders, GetAllSeats(l) \/ LoadIntoRedis(l) PROVE Inv'
  BY <1>4, GetAllSeatsInv, NextSeatInv, AssignConnInv, AssignErrorInv,
     TestErrorInv, LoadSeatInv, LoadTornInv, LoadHungInv, LoadPanicInv, LoadDoneInv
  DEF LoadIntoRedis, LoadSeatsIntoRedis
<1>5. ASSUME NEW s \in Seats, DumpSeats(s) PROVE Inv'
  BY <1>5, DumpSeatsInv
<1>6. CASE UNCHANGED vars
  BY <1>6, StutterInv
<1> QED  BY <1>1, <1>2, <1>3, <1>4, <1>5, <1>6 DEF Next

\* InvAlways: the inductive invariant.
LEMMA InvAlways == Spec => []Inv
BY InitInv, NextInv, PTL DEF Spec

(***************************************************************************)
(* BookingTyped: the table, the requests and the snapshots of the seat     *)
(* controller keep their types through every race of loads; a cached       *)
(* status is one of the three or, after a race, garbled.                   *)
(***************************************************************************)
THEOREM BookingTyped == Spec => []TypeOK
<1>1. Inv => TypeOK
  BY DEF Inv, TypeOK, RequestOK
<1> QED
  BY <1>1, InvAlways, PTL

(***************************************************************************)
(* CacheNeverAhead: for any number of loads that overlap, as long as none  *)
(* of their SETs has come out of a race, only seats with a row are cached, *)
(* and as confirmed only those that are confirmed in the table.            *)
(***************************************************************************)
THEOREM CacheNeverAhead == Spec => []CacheFollowsTable
<1>1. Inv => CacheFollowsTable
  BY DEF Inv
<1> QED
  BY <1>1, InvAlways, PTL

(***************************************************************************)
(* OkIsConfirmed: however requests, loads and inserts interleave, a        *)
(* Confirm that is answered ok has confirmed the row of its seat.          *)
(***************************************************************************)
THEOREM OkIsConfirmed == Spec => []OkMeansConfirmed
<1>1. Inv => OkMeansConfirmed
  BY DEF Inv, RequestOK, OkMeansConfirmed
<1> QED
  BY <1>1, InvAlways, PTL

(***************************************************************************)
(* LateIsRefused: a Confirm that starts after another one of the same seat *)
(* was answered ok is refused.                                             *)
(***************************************************************************)
THEOREM LateIsRefused == Spec => []LateConfirmRefused
<1>1. Inv => LateConfirmRefused
  BY DEF Inv, RequestOK, LateConfirmRefused
<1> QED
  BY <1>1, InvAlways, PTL
=============================================================================
