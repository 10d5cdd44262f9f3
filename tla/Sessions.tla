------------------------------ MODULE Sessions ------------------------------
(***************************************************************************)
(* The seat lists of the sessions: LoadSets, which copies them from the    *)
(* database into Redis, and Availability, which reads them back with the   *)
(* status of every seat (models/seat.go, models/session.go, their          *)
(* controllers and LoadSessionIntoRedis).                                  *)
(*                                                                         *)
(* A LoadSets request l is two goroutines: the handler, pc[l], ranges over *)
(* a channel that populateFromDbToRedis, load[l].at, feeds and closes.     *)
(* The populating goroutine is not under revel's PanicFilter: a panic in   *)
(* it ends the process, which is then started again with everything in     *)
(* memory lost.  An Availability request is one goroutine.  Both kinds use *)
(* the connection pool, module ResourcePool.                               *)
(*                                                                         *)
(* Strings are sequences of tokens: a session id, a seat name and the      *)
(* punctuation are one token each, "" is <<>>.  The status of a seat is    *)
(* abstracted to the seat's key: a reader either sees the status that      *)
(* belongs to the seat or none.                                            *)
(***************************************************************************)
EXTENDS ResourcePool

CONSTANTS
  Loaders,   \* LoadSets requests
  Readers,   \* Availability requests
  Seeded,    \* by session: the names of the seats that get inserted
  ChanSize,  \* buffer size of the channel chen
  MayFail,   \* can queries fail and connections break?
  NoSession  \* no session

Sessions == DOMAIN Seeded

Blank == "blank"  \* the token for " "

(***************************************************************************)
(* The ids are decimal numbers (strconv.Itoa) and the names a letter with  *)
(* a number: neither holds a blank.                                        *)
(***************************************************************************)
ASSUME SessionsAssumption ==
  /\ Clients = Loaders \cup Readers
  /\ Loaders \cap Readers = {}
  /\ ChanSize \in Nat \ {0}
  /\ MayFail \in BOOLEAN
  /\ NoSession \notin Sessions
  /\ \A s \in Sessions : s # Blank /\ Blank \notin Seeded[s]
  /\ BadRes # NoRes

VARIABLES
  sessions,  \* the table sessions
  seats,     \* the table seats: the names, by session
  list,      \* Redis: the text under session-<id>, <<>> when there is none
  cached,    \* Redis: the seats that have a status, <<session, name>>
  alive,     \* is the connection usable?
  pc,        \* where a handler is
  load,      \* the state of a LoadSets request
  read,      \* the state of an Availability request
  stored     \* history: the names that were formatted into list

dbVars == <<sessions, seats>>
redisVars == <<list, cached, stored>>
reqVars == <<pc, load, read>>
vars == <<poolVars, dbVars, redisVars, alive, reqVars>>

NoLoad == [ snap   |-> <<>>,     \* GetAllSession's answer
            left   |-> <<>>,     \* the sessions still to be loaded and sent
            names  |-> <<>>,     \* GetSeats' answer for the first of them
            at     |-> "none",   \* where populateFromDbToRedis is
            chen   |-> <<>>,     \* the channel
            closed |-> FALSE,    \* the channel is closed
            got    |-> <<>>,     \* what the handler has received
            before |-> [s \in Sessions |-> {}],  \* history: seats at the start
            spoilt |-> FALSE ]   \* history: a failure or another LoadSets

NoRead == [ session |-> NoSession,
            text    |-> <<>>,    \* the reply of GET
            want    |-> <<>>,    \* history: the names stored at the GET
            answer  |-> <<>> ]   \* the seats to report

Init ==
  /\ PoolInit
  /\ sessions = {}
  /\ seats = [s \in Sessions |-> {}]
  /\ list = [s \in Sessions |-> <<>>]
  /\ cached = {}
  /\ alive = [c \in Resources |-> FALSE]
  /\ pc = [p \in Clients |-> "idle"]
  /\ load = [l \in Loaders |-> NoLoad]
  /\ read = [q \in Readers |-> NoRead]
  /\ stored = [s \in Sessions |-> <<>>]

Step(p, s) == pc' = [pc EXCEPT ![p] = s]

Elements(q) == { q[i] : i \in DOMAIN q }

\* A query without ORDER BY: the rows in any order.
Orders(S) == { q \in [1..Cardinality(S) -> S] : Elements(q) = S }
-----------------------------------------------------------------------------
(***************************************************************************)
(* The text of a list.  redigo writes a []string argument with fmt.Fprint, *)
(* as "[k1 k2]"; getSeats trims the brackets and splits at the blanks.     *)
(***************************************************************************)
SeatKey(s, n) == <<s, "-", n>>

Format(s, names) ==
  LET keys[i \in 0..Len(names)] ==
        IF i = 0 THEN <<>>
        ELSE keys[i - 1] \o (IF i = 1 THEN <<>> ELSE <<Blank>>)
                         \o SeatKey(s, names[i])
  IN  <<"[">> \o keys[Len(names)] \o <<"]">>

TrimPrefix(t, p) ==
  IF Len(p) <= Len(t) /\ SubSeq(t, 1, Len(p)) = p
    THEN SubSeq(t, Len(p) + 1, Len(t)) ELSE t

TrimSuffix(t, p) ==
  IF Len(p) <= Len(t) /\ SubSeq(t, Len(t) - Len(p) + 1, Len(t)) = p
    THEN SubSeq(t, 1, Len(t) - Len(p)) ELSE t

\* strings.Split(t, " "): the split of "" is one empty string.
Split(t) ==
  LET pieces[i \in 0..Len(t)] ==
        IF i = 0 THEN << <<>> >>
        ELSE LET done == pieces[i - 1] IN
             IF t[i] = Blank THEN Append(done, <<>>)
             ELSE [done EXCEPT ![Len(done)] = Append(@, t[i])]
  IN  pieces[Len(t)]

Parse(t) == Split(TrimSuffix(TrimPrefix(t, <<"[">>), <<"]">>))

\* What MGET has under a key, as ScanSlice delivers it: "" for a nil.
Value(key) ==
  IF key \in { SeatKey(k[1], k[2]) : k \in cached } THEN key ELSE <<>>

ReportCompact(s, t) ==  \* mutant of Report: ScanSlice drops the nils
  LET keys == Parse(t)
      values == SelectSeq([i \in DOMAIN keys |-> Value(keys[i])],
                          LAMBDA v : v # <<>>)
  IN  [i \in DOMAIN values |->
         [name |-> TrimPrefix(keys[i], <<s, "-">>), status |-> values[i]]]

Report(s, t) ==
  LET keys == Parse(t) IN
    [i \in DOMAIN keys |->
       [name |-> TrimPrefix(keys[i], <<s, "-">>), status |-> Value(keys[i])]]
-----------------------------------------------------------------------------
(***************************************************************************)
(* The seed's inserts and the loads of seat statuses, which go on all the  *)
(* time: modules Seed and Booking.                                         *)
(***************************************************************************)
InsertSession(s) ==
  /\ s \notin sessions
  /\ sessions' = sessions \cup {s}
  /\ UNCHANGED <<poolVars, seats, redisVars, alive, reqVars>>

InsertSeat(s, n) ==
  /\ s \in sessions
  /\ n \in Seeded[s] \ seats[s]
  /\ seats' = [seats EXCEPT ![s] = @ \cup {n}]
  /\ UNCHANGED <<poolVars, sessions, redisVars, alive, reqVars>>

LoadSeat(s, n) ==
  /\ n \in seats[s]
  /\ cached' = cached \cup {<<s, n>>}
  /\ UNCHANGED <<poolVars, dbVars, list, stored, alive, reqVars>>

Break(c) ==
  /\ MayFail
  /\ alive[c]
  /\ alive' = [alive EXCEPT ![c] = FALSE]
  /\ UNCHANGED <<poolVars, dbVars, redisVars, reqVars>>

(***************************************************************************)
(* The process ends in a panic and is started again: InitRedisPool makes a *)
(* new pool, all requests are gone.                                        *)
(***************************************************************************)
Restart ==
  /\ resources' = [i \in 1..Capacity |-> NoRes]
  /\ call' = [p \in Procs |-> "out"]
  /\ held' = [p \in Procs |-> NoRes]
  /\ alive' = [c \in Resources |-> FALSE]
  /\ pc' = [p \in Clients |-> "idle"]
  /\ load' = [l \in Loaders |-> NoLoad]
  /\ read' = [q \in Readers |-> NoRead]
  /\ UNCHANGED <<settings, dbVars, redisVars>>
-----------------------------------------------------------------------------
(***************************************************************************)
(* pool.Get by either kind of request.                                     *)
(***************************************************************************)
TakeWrapper(p) ==
  Receive(p) /\ UNCHANGED <<dbVars, redisVars, alive, reqVars>>

Dial(p, c) ==
  /\ FactoryOk(p, c)
  /\ alive' = [alive EXCEPT ![c] = TRUE]
  /\ UNCHANGED <<dbVars, redisVars, reqVars>>

CloseIdle(p) ==
  /\ Expire(p)
  /\ alive' = [alive EXCEPT ![held[p]] = FALSE]
  /\ UNCHANGED <<dbVars, redisVars, reqVars>>

\* An expired ResourceConn{nil} is closed: a panic inside get.
CloseNilConn(p) ==
  /\ call[p] = "unwrap"
  /\ idleTimeout
  /\ held[p] = BadRes
  /\ IF p \in Loaders THEN Restart
     ELSE /\ Hold(p, NoRes)
          /\ Goto(p, "panic")
          /\ UNCHANGED <<resources, settings, dbVars, redisVars, alive, reqVars>>

Unwrap(p) ==
  \/ /\ Reuse(p) \/ FactoryFail(p) \/ SendBack(p)
     /\ UNCHANGED <<dbVars, redisVars, alive, reqVars>>
  \/ CloseIdle(p)
  \/ \E c \in Resources : Dial(p, c)
  \/ CloseNilConn(p)

Back(p) == call[p] \in {"ok", "err"}
-----------------------------------------------------------------------------
(***************************************************************************)
(* LoadSetsIntoRedis: GetAllSession, then the handler starts the goroutine *)
(* and ranges over the channel.  A failing query gives no sessions.        *)
(***************************************************************************)
Alone(l) == \A m \in Loaders \ {l} : pc[m] = "idle"

LoadSetsCleared(l) ==  \* mutant of LoadSets: the old lists are deleted first
  /\ pc[l] = "idle"
  /\ \E snap \in Orders(sessions) :
       load' = [load EXCEPT ![l] = [NoLoad EXCEPT !.snap = snap, !.left = snap,
                                                 !.at = "query", !.before = seats]]
  /\ list' = [s \in Sessions |-> <<>>]
  /\ stored' = [s \in Sessions |-> <<>>]
  /\ Step(l, "range")
  /\ UNCHANGED <<poolVars, dbVars, cached, alive, read>>

LoadSets(l) ==
  /\ pc[l] = "idle"
  /\ \E ok \in {TRUE, ~MayFail} :
     \E snap \in IF ok THEN Orders(sessions) ELSE { <<>> } :
       load' = [m \in Loaders |->
                  IF m = l
                    THEN [NoLoad EXCEPT !.snap = snap, !.left = snap,
                                        !.at = "query", !.before = seats,
                                        !.spoilt = ~ok \/ ~Alone(l)]
                    ELSE [load[m] EXCEPT !.spoilt = @ \/ pc[m] # "idle"]]
  /\ Step(l, "range")
  /\ UNCHANGED <<poolVars, dbVars, redisVars, alive, read>>

GetAllSeatKeysStatic(l) ==  \* mutant of GetAllSeatKeys: the seed's plan, not the rows
  /\ load[l].at = "query"
  /\ load[l].left # <<>>
  /\ \E names \in Orders(Seeded[Head(load[l].left)]) :
       load' = [load EXCEPT ![l].names = names, ![l].at = "set"]
  /\ GetCall(l)
  /\ UNCHANGED <<dbVars, redisVars, alive, pc, read>>

(***************************************************************************)
(* populateFromDbToRedis: the next session's GetAllSeatKeys, up to the     *)
(* pool.Get of LoadSessionIntoRedis.  A failing query gives no seats.      *)
(***************************************************************************)
GetAllSeatKeys(l) ==
  /\ load[l].at = "query"
  /\ load[l].left # <<>>
  /\ \E ok \in {TRUE, ~MayFail} :
     \E names \in IF ok THEN Orders(seats[Head(load[l].left)]) ELSE { <<>> } :
       load' = [load EXCEPT ![l].names = names, ![l].at = "set",
                            ![l].spoilt = @ \/ ~ok]
  /\ GetCall(l)
  /\ UNCHANGED <<dbVars, redisVars, alive, pc, read>>

StoreOnce(s, names) ==  \* mutant of Store: SETNX for SET
  /\ list' = [list EXCEPT ![s] = IF @ = <<>> THEN Format(s, names) ELSE @]
  /\ stored' = [stored EXCEPT ![s] = IF list[s] = <<>> THEN names ELSE @]
  /\ UNCHANGED cached

\* The server runs SET session-<id>.
Store(s, names) ==
  /\ list' = [list EXCEPT ![s] = Format(s, names)]
  /\ stored' = [stored EXCEPT ![s] = names]
  /\ UNCHANGED cached

(***************************************************************************)
(* LoadSessionIntoRedis' SET: done, done with the reply lost, or not done. *)
(* The error is logged and nothing else.                                   *)
(***************************************************************************)
LoadSession(l) ==
  LET c == held[l] IN
  /\ load[l].at = "set" /\ Back(l) /\ c \in Resources
  /\ \/ /\ alive[c]
        /\ Store(Head(load[l].left), load[l].names)
        /\ \E b \in {TRUE, ~MayFail} : alive' = [alive EXCEPT ![c] = b]
        /\ load' = [load EXCEPT ![l].at = "put"]
     \/ /\ ~alive[c]
        /\ load' = [load EXCEPT ![l].at = "put", ![l].spoilt = TRUE]
        /\ UNCHANGED <<redisVars, alive>>
  /\ UNCHANGED <<poolVars, dbVars, pc, read>>

\* The SET on ResourceConn{nil}: a panic, in a goroutine nobody guards.
LoadSessionPanic(l) ==
  /\ load[l].at = "set" /\ Back(l) /\ held[l] = BadRes
  /\ Restart

\* The deferred pool.Put(r).
PutSession(l) ==
  /\ load[l].at = "put"
  /\ \/ /\ Put(l, held[l])
        /\ load' = [load EXCEPT ![l].at = "send", ![l].names = <<>>]
        /\ UNCHANGED <<alive, pc, read>>
     \/ (closed \/ Len(resources) = MaxCap) /\ Restart
  /\ UNCHANGED <<dbVars, redisVars>>

SendOrDrop(l) ==  \* mutant of Send: a select with an empty default
  /\ load[l].at = "send"
  /\ load' = [load EXCEPT ![l].at = "query", ![l].left = Tail(@),
                          ![l].chen = IF Len(@) < ChanSize
                                        THEN Append(@, Head(load[l].left))
                                        ELSE @]
  /\ UNCHANGED <<poolVars, dbVars, redisVars, alive, pc, read>>

SendUnbounded(l) ==  \* mutant of Send: the channel never fills up
  /\ load[l].at = "send"
  /\ load' = [load EXCEPT ![l].at = "query", ![l].left = Tail(@),
                          ![l].chen = Append(@, Head(load[l].left))]
  /\ UNCHANGED <<poolVars, dbVars, redisVars, alive, pc, read>>

\* chen <- id, which blocks while the channel is full.
Send(l) ==
  /\ load[l].at = "send"
  /\ Len(load[l].chen) < ChanSize
  /\ load' = [load EXCEPT ![l].at = "query", ![l].left = Tail(@),
                          ![l].chen = Append(@, Head(load[l].left))]
  /\ UNCHANGED <<poolVars, dbVars, redisVars, alive, pc, read>>

CloseForgotten(l) ==  \* mutant of CloseChen: the goroutine just ends
  /\ load[l].at = "query"
  /\ load[l].left = <<>>
  /\ load' = [load EXCEPT ![l].at = "none"]
  /\ UNCHANGED <<poolVars, dbVars, redisVars, alive, pc, read>>

CloseChen(l) ==
  /\ load[l].at = "query"
  /\ load[l].left = <<>>
  /\ load' = [load EXCEPT ![l].at = "none", ![l].closed = TRUE]
  /\ UNCHANGED <<poolVars, dbVars, redisVars, alive, pc, read>>

populateFromDbToRedis(l) ==
  \/ GetAllSeatKeys(l) \/ LoadSession(l) \/ LoadSessionPanic(l)
  \/ PutSession(l) \/ Send(l) \/ CloseChen(l)

\* The handler: for id := range chen.
RangeNext(l) ==
  /\ pc[l] = "range"
  /\ load[l].chen # <<>>
  /\ load' = [load EXCEPT ![l].got = Append(@, Head(load[l].chen)),
                          ![l].chen = Tail(@)]
  /\ UNCHANGED <<poolVars, dbVars, redisVars, alive, pc, read>>

RangeEnd(l) ==
  /\ pc[l] = "range"
  /\ load[l].chen = <<>>
  /\ load[l].closed
  /\ Step(l, "answer")
  /\ UNCHANGED <<poolVars, dbVars, redisVars, alive, load, read>>

\* The answer is "ok" whatever happened.
AnswerLoad(l) ==
  /\ pc[l] = "answer"
  /\ Step(l, "idle")
  /\ load' = [load EXCEPT ![l] = NoLoad]
  /\ UNCHANGED <<poolVars, dbVars, redisVars, alive, read>>
-----------------------------------------------------------------------------
(***************************************************************************)
(* ScreenAvailability and Availability.  On a broken connection GET reads  *)
(* as "" and MGET as no values at all.                                     *)
(***************************************************************************)
Availability(q, s) ==
  /\ pc[q] = "idle"
  /\ GetCall(q)
  /\ Step(q, "get")
  /\ read' = [read EXCEPT ![q].session = s]
  /\ UNCHANGED <<dbVars, redisVars, alive, load>>

NilConn(q) ==
  /\ pc[q] = "get" /\ Back(q) /\ held[q] = BadRes
  /\ Step(q, "put")
  /\ UNCHANGED <<poolVars, dbVars, redisVars, alive, load, read>>

GetSeatKeys(q) ==
  LET s == read[q].session IN
  /\ pc[q] = "get" /\ Back(q) /\ held[q] \in Resources
  /\ Step(q, "mget")
  /\ read' = [read EXCEPT ![q].text = IF alive[held[q]] THEN list[s] ELSE <<>>,
                          ![q].want = stored[s]]
  /\ UNCHANGED <<poolVars, dbVars, redisVars, alive, load>>

GetSeats(q) ==
  /\ pc[q] = "mget"
  /\ Step(q, "put")
  /\ read' = [read EXCEPT ![q].answer = IF alive[held[q]]
                                         THEN Report(read[q].session, read[q].text)
                                         ELSE <<>>]
  /\ UNCHANGED <<poolVars, dbVars, redisVars, alive, load>>

\* The deferred ReturnConnection, then the answer: the seats, or error 500.
Respond(q) == Step(q, "idle") /\ read' = [read EXCEPT ![q] = NoRead]

ReturnConnection(q) ==
  /\ pc[q] = "put" /\ Back(q)
  /\ \/ Put(q, held[q]) /\ Respond(q)
     \/ PutPanic(q) /\ UNCHANGED <<pc, read>>
  /\ UNCHANGED <<dbVars, redisVars, alive, load>>

Recover(q) ==
  /\ call[q] = "panic"
  /\ Goto(q, "out")
  /\ Respond(q)
  /\ UNCHANGED <<resources, held, settings, dbVars, redisVars, alive, load>>

ReadStep(q) ==
  \/ NilConn(q) \/ GetSeatKeys(q) \/ GetSeats(q)
  \/ ReturnConnection(q) \/ Recover(q)
-----------------------------------------------------------------------------
Next ==
  \/ \E l \in Loaders :
       \/ LoadSets(l) \/ populateFromDbToRedis(l)
       \/ RangeNext(l) \/ RangeEnd(l) \/ AnswerLoad(l)
  \/ \E q \in Readers : (\E s \in Sessions : Availability(q, s)) \/ ReadStep(q)
  \/ \E p \in Clients : TakeWrapper(p) \/ Unwrap(p)
  \/ \E s \in Sessions :
       \/ InsertSession(s)
       \/ \E n \in Seeded[s] : InsertSeat(s, n) \/ LoadSeat(s, n)
  \/ \E c \in Resources : Break(c)

Spec == Init /\ [][Next]_vars

(***************************************************************************)
(* Goroutines keep running, and a Get that waits is served in turn.        *)
(* Nothing makes requests, inserts or failures happen.                     *)
(***************************************************************************)
Fairness ==
  /\ \A p \in Clients : SF_vars(TakeWrapper(p)) /\ WF_vars(Unwrap(p))
  /\ \A l \in Loaders :
       /\ WF_vars(populateFromDbToRedis(l))
       /\ WF_vars(RangeNext(l) \/ RangeEnd(l) \/ AnswerLoad(l))
  /\ \A q \in Readers : WF_vars(ReadStep(q))

FairSpec == Spec /\ Fairness
-----------------------------------------------------------------------------
TypeOK ==
  /\ PoolTypeOK
  /\ sessions \in SUBSET Sessions
  /\ \A s \in Sessions : seats[s] \in SUBSET Seeded[s]
  /\ cached \in SUBSET { <<s, n>> : s \in Sessions, n \in UNION { Seeded[t] : t \in Sessions } }
  /\ alive \in [Resources -> BOOLEAN]
  /\ pc \in [Clients -> {"idle", "range", "answer", "get", "mget", "put"}]
  /\ \A l \in Loaders :
       /\ load[l].at \in {"none", "query", "set", "put", "send"}
       /\ Len(load[l].chen) <= ChanSize
       /\ load[l].spoilt \in BOOLEAN
  /\ \A q \in Readers : read[q].session \in Sessions \cup {NoSession}

(***************************************************************************)
(* EverySessionReported: what the handler has received, what is in the     *)
(* channel and what the goroutine still has to load are together the       *)
(* snapshot, in its order; so the handler that leaves the loop has seen    *)
(* every session once, although the channel is smaller than the snapshot.  *)
(***************************************************************************)
EverySessionReported ==
  \A l \in Loaders :
    /\ pc[l] = "range" =>
         load[l].got \o load[l].chen \o load[l].left = load[l].snap
    /\ pc[l] = "answer" => load[l].got = load[l].snap

(***************************************************************************)
(* ListedSeatsExist: a listed or reported seat has a row, whatever         *)
(* failed, overlapped or crashed in between.                               *)
(***************************************************************************)
ListedSeatsExist ==
  /\ \A s \in Sessions : Elements(stored[s]) \subseteq seats[s]
  /\ \A q \in Readers : \A i \in DOMAIN read[q].answer :
       LET seat == read[q].answer[i] IN
       seat.name = <<>> \/ Elements(seat.name) \subseteq seats[read[q].session]

(***************************************************************************)
(* OkMeansListed: when LoadSets answers, every session of the snapshot is  *)
(* listed with every seat it had when the request began, unless a query or *)
(* a SET failed or another LoadSets ran meanwhile.                         *)
(***************************************************************************)
OkMeansListed ==
  \A l \in Loaders :
    pc[l] = "answer" /\ ~load[l].spoilt =>
      \A s \in Elements(load[l].snap) :
        load[l].before[s] \subseteq Elements(stored[s])

(***************************************************************************)
(* OnlySpoiltLoadShrinks: a list loses a seat only through a LoadSets that *)
(* met a failing query or overlapped with another one.                     *)
(***************************************************************************)
OnlySpoiltLoadShrinks ==
  [][\A s \in Sessions :
       \/ Elements(stored[s]) \subseteq Elements(stored'[s])
       \/ \E l \in Loaders : load[l].spoilt]_vars

(***************************************************************************)
(* ReportsTheList: Availability reports exactly the seats that were listed *)
(* at its GET, in their order and each with its own status as of the MGET, *)
(* "" if it has none; a single seat without a name if no seat was listed;  *)
(* and nothing if its connection broke.                                    *)
(***************************************************************************)
Expected(q) ==
  LET s == read[q].session
      want == read[q].want
  IN  IF want = <<>> THEN << [name |-> <<>>, status |-> <<>>] >>
      ELSE [i \in DOMAIN want |->
              [name |-> <<want[i]>>,
               status |-> IF <<s, want[i]>> \in cached
                            THEN SeatKey(s, want[i]) ELSE <<>>]]

ReportsTheList ==
  [][\A q \in Readers :
       pc[q] = "mget" /\ pc'[q] = "put" =>
         read'[q].answer = IF alive[held[q]] THEN Expected(q) ELSE <<>>]_vars

(***************************************************************************)
(* LoadSetsEnds: every LoadSets is answered or ends with the process,      *)
(* although its goroutine waits for connections and for room in the        *)
(* channel, and dials fail.                                                *)
(***************************************************************************)
LoadSetsEnds == \A l \in Loaders : pc[l] # "idle" ~> pc[l] = "idle"
=============================================================================
