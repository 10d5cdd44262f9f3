--------------------------- MODULE SessionsProofs ---------------------------
(***************************************************************************)
(* The safety of LoadSets and Availability, for every number of requests,  *)
(* sessions, seats and connections, and every size of the channel.         *)
(*                                                                         *)
(* The inductive invariant has a part for each piece of state: the tables  *)
(* and Redis (TablesOK, StoredOK), a LoadSets request (LoadAt, LoadNames,  *)
(* Listing) and an Availability request (ReadOK).  A step that leaves the  *)
(* piece alone keeps its part (LoadKept, ReadKept), so that each action    *)
(* has to be looked at only where it writes.                               *)
(***************************************************************************)
EXTENDS SeatListProofs, ResourcePoolProofs

AllSeats == UNION { Seeded[t] : t \in Sessions }

Tokens == Sessions \cup AllSeats \cup {"-", Blank, "[", "]"}

Text == Seq(Tokens)

LoadRec == [ snap   : Seq(Sessions),
             left   : Seq(Sessions),
             names  : Seq(AllSeats),
             at     : {"none", "query", "set", "put", "send"},
             chen   : Seq(Sessions),
             closed : BOOLEAN,
             got    : Seq(Sessions),
             before : [Sessions -> SUBSET AllSeats],
             spoilt : BOOLEAN ]

ReadRec == [ session : Sessions \cup {NoSession},
             text    : Text,
             want    : Seq(AllSeats),
             answer  : Seq([name : Text, status : Text]) ]

PcState == {"idle", "range", "answer", "get", "mget", "put"}

TablesOK ==
  /\ sessions \in SUBSET Sessions /\ IsFiniteSet(sessions)
  /\ seats \in [Sessions -> SUBSET AllSeats]
  /\ \A s \in Sessions : seats[s] \subseteq Seeded[s] /\ IsFiniteSet(seats[s])
  /\ cached \in SUBSET (Sessions \X AllSeats)
  /\ alive \in [Resources -> BOOLEAN]
  /\ list \in [Sessions -> Text]
  /\ stored \in [Sessions -> Seq(AllSeats)]

RequestsOK ==
  /\ pc \in [Clients -> PcState]
  /\ load \in [Loaders -> LoadRec]
  /\ read \in [Readers -> ReadRec]

\* The text under session-<id> is that of the names that were stored.
StoredOK ==
  \A s \in Sessions :
    /\ stored[s] \in Seq(seats[s])
    /\ \/ list[s] = Format(s, stored[s])
       \/ list[s] = <<>> /\ stored[s] = <<>>

\* Where the handler and its goroutine are, and what went over the channel.
LoadAt(l) ==
  LET r == load[l] IN
  /\ r.at # "none" => pc[l] = "range" /\ ~r.closed
  /\ r.at \in {"set", "put", "send"} => r.left # <<>>
  /\ r.closed => r.left = <<>>
  /\ Len(r.chen) <= ChanSize
  /\ pc[l] = "range" => (r.got \o r.chen) \o r.left = r.snap
  /\ pc[l] = "answer" => r.got = r.snap

LoadNames(l) ==
  load[l].at = "set" => load[l].names \in Seq(seats[Head(load[l].left)])

Unspoilt(l) == pc[l] # "idle" /\ ~load[l].spoilt

\* What a LoadSets that met no trouble has achieved so far.
Listing(l) ==
  LET r == load[l] IN
  /\ \A s \in Sessions : r.before[s] \subseteq seats[s]
  /\ Unspoilt(l) =>
       /\ Alone(l)
       /\ \A s \in Elements(r.got) \cup Elements(r.chen) :
            r.before[s] \subseteq Elements(stored[s])
       /\ r.at \in {"put", "send"} =>
            r.before[Head(r.left)] \subseteq Elements(stored[Head(r.left)])
       /\ r.at = "set" =>
            /\ r.before[Head(r.left)] \subseteq Elements(r.names)
            /\ Elements(stored[Head(r.left)]) \subseteq Elements(r.names)

\* What an Availability request has read, and that it still has the same
\* connection, which nobody can have dialled again.
ReadOK(q) ==
  LET r == read[q] IN
  /\ pc[q] # "idle" => r.session \in Sessions
  /\ pc[q] \in {"idle", "get", "mget"} => r.answer = <<>>
  /\ pc[q] = "mget" =>
       /\ Back(q) /\ held[q] \in Resources
       /\ r.want \in Seq(seats[r.session])
       /\ \/ r.text = Format(r.session, r.want)
          \/ r.text = <<>> /\ (r.want = <<>> \/ ~alive[held[q]])
  /\ \A i \in DOMAIN r.answer :
       r.answer[i].name = <<>> \/ Elements(r.answer[i].name) \subseteq seats[r.session]

LoadsOK == \A l \in Loaders : LoadAt(l) /\ LoadNames(l) /\ Listing(l)

ReadsOK == \A q \in Readers : ReadOK(q)

SessionsInv ==
  /\ PoolTypeOK /\ Exclusive
  /\ TablesOK /\ RequestsOK
  /\ StoredOK /\ LoadsOK /\ ReadsOK
-----------------------------------------------------------------------------
(***************************************************************************)
(* SeatsGrow: no row of the table seats is ever deleted.                   *)
(***************************************************************************)
SeatsGrow == \A s \in Sessions : seats[s] \subseteq seats'[s]

\* HeadLeft: a goroutine past its query is at work on some session.
LEMMA HeadLeft ==
  ASSUME RequestsOK, LoadsOK, NEW l \in Loaders,
         load[l].at \in {"set", "put", "send"}
  PROVE  /\ load[l].left # <<>>
         /\ load[l].left \in Seq(Sessions)
         /\ Head(load[l].left) \in Sessions
<1>1. load[l] \in LoadRec /\ load[l].left # <<>>
  BY DEF RequestsOK, LoadsOK, LoadAt
<1>2. load[l].left \in Seq(Sessions)
  BY <1>1 DEF LoadRec
<1> QED
  BY <1>1, <1>2

(***************************************************************************)
(* LoadKept: a step that leaves the LoadSets requests and the lists alone  *)
(* keeps their part of the invariant.                                      *)
(***************************************************************************)
LEMMA LoadKept ==
  ASSUME RequestsOK, LoadsOK, StoredOK,
         UNCHANGED <<load, list, stored>>, SeatsGrow,
         \A l \in Loaders : pc'[l] = pc[l]
  PROVE  LoadsOK' /\ StoredOK'
<1>1. StoredOK'
  <2> SUFFICES ASSUME NEW s \in Sessions PROVE stored[s] \in Seq(seats'[s])
    BY DEF StoredOK
  <2>1. stored[s] \in Seq(seats[s]) /\ seats[s] \subseteq seats'[s]
    BY DEF StoredOK, SeatsGrow
  <2> QED
    BY <2>1, SeqMonotonic
<1>2. ASSUME NEW l \in Loaders PROVE LoadAt(l)' /\ LoadNames(l)' /\ Listing(l)'
  <2>1. LoadAt(l)'
    BY DEF LoadsOK, LoadAt
  <2>2. LoadNames(l)'
    <3> SUFFICES ASSUME load[l].at = "set"
                 PROVE  load[l].names \in Seq(seats'[Head(load[l].left)])
      BY DEF LoadNames
    <3> DEFINE s == Head(load[l].left)
    <3>1. s \in Sessions
      BY HeadLeft
    <3>2. load[l].names \in Seq(seats[s])
      BY DEF LoadsOK, LoadNames
    <3> HIDE DEF s
    <3>3. load[l].names \in Seq(seats'[s])
      BY <3>1, <3>2, SeqMonotonic DEF SeatsGrow
    <3> QED
      BY <3>3 DEF s
  <2>3. Listing(l)'
    <3>1. Listing(l)
      BY DEF LoadsOK
    <3>2. \A s \in Sessions : load[l].before[s] \subseteq seats'[s]
      BY <3>1 DEF Listing, SeatsGrow
    <3>3. Alone(l)' <=> Alone(l)
      BY DEF Alone
    <3>4. Unspoilt(l)' <=> Unspoilt(l)
      BY DEF Unspoilt
    <3> QED
      BY <3>1, <3>2, <3>3, <3>4 DEF Listing
  <2> QED
    BY <2>1, <2>2, <2>3
<1> QED
  BY <1>1, <1>2 DEF LoadsOK

(***************************************************************************)
(* ReadKept: a step that leaves an Availability request alone, its         *)
(* connection included, keeps its part of the invariant.                   *)
(***************************************************************************)
LEMMA ReadKept ==
  ASSUME ReadsOK, NEW q \in Readers, SeatsGrow, RequestsOK,
         read'[q] = read[q], pc'[q] = pc[q],
         pc[q] = "mget" =>
           /\ call'[q] = call[q]
           /\ held'[q] = held[q]
           /\ alive'[held[q]] => alive[held[q]]
  PROVE  ReadOK(q)'
<1> DEFINE r == read[q]
<1>1. ReadOK(q) /\ read[q] \in ReadRec
  BY DEF ReadsOK, RequestsOK
<1>2. r.session \in Sessions => seats[r.session] \subseteq seats'[r.session]
  BY DEF SeatsGrow
<1>3. pc[q] = "mget" => r.want \in Seq(seats'[r.session])
  <2> SUFFICES ASSUME pc[q] = "mget" PROVE r.want \in Seq(seats'[r.session])
    OBVIOUS
  <2>1. r.session \in Sessions /\ r.want \in Seq(seats[r.session])
    BY <1>1 DEF ReadOK
  <2> QED
    BY <1>2, <2>1, SeqMonotonic
<1>4. pc[q] = "mget" => /\ Back(q)' /\ held'[q] \in Resources
                        /\ \/ r.text = Format(r.session, r.want)
                           \/ r.text = <<>> /\ (r.want = <<>> \/ ~alive'[held'[q]])
  BY <1>1 DEF ReadOK, Back
<1>5. \A i \in DOMAIN r.answer :
        r.answer[i].name = <<>> \/ Elements(r.answer[i].name) \subseteq seats'[r.session]
  <2>1. CASE pc[q] = "idle"
    BY <1>1, <2>1 DEF ReadOK
  <2>2. CASE pc[q] # "idle"
    BY <1>1, <1>2, <2>2 DEF ReadOK
  <2> QED
    BY <2>1, <2>2
<1> QED
  BY <1>1, <1>3, <1>4, <1>5 DEF ReadOK

(***************************************************************************)
(* FreshOK: requests that have not begun, and a new pool.                  *)
(***************************************************************************)
Fresh ==
  /\ pc = [p \in Clients |-> "idle"]
  /\ load = [l \in Loaders |-> NoLoad]
  /\ read = [q \in Readers |-> NoRead]

\* FreshOK: requests that have not begun have nothing to keep.
LEMMA FreshOK ==
  ASSUME Fresh PROVE RequestsOK /\ LoadsOK /\ ReadsOK
<1>1. NoLoad \in LoadRec
  BY DEF NoLoad, LoadRec
<1>2. NoRead \in ReadRec
  BY DEF NoRead, ReadRec, Text
<1>3. RequestsOK
  <2> HIDE DEF LoadRec, ReadRec
  <2> QED
    BY <1>1, <1>2 DEF Fresh, RequestsOK, PcState
<1>4. ASSUME NEW l \in Loaders PROVE LoadAt(l) /\ LoadNames(l) /\ Listing(l)
  <2>1. load[l] = NoLoad /\ pc[l] = "idle"
    BY SessionsAssumption DEF Fresh
  <2>2. /\ NoLoad.at = "none" /\ NoLoad.closed = FALSE /\ Len(NoLoad.chen) = 0
        /\ \A s \in Sessions : NoLoad.before[s] = {}
    BY DEF NoLoad
  <2> QED
    BY <2>1, <2>2, SessionsAssumption DEF LoadAt, LoadNames, Listing, Unspoilt
<1>5. ASSUME NEW q \in Readers PROVE ReadOK(q)
  <2>1. read[q] = NoRead /\ pc[q] = "idle" /\ NoRead.answer = <<>>
    BY SessionsAssumption DEF Fresh, NoRead
  <2> QED
    BY <2>1 DEF ReadOK
<1> QED
  BY <1>3, <1>4, <1>5 DEF LoadsOK, ReadsOK

\* InitInv: an empty database, an empty Redis and a new pool.
LEMMA InitInv == Init => SessionsInv
<1> SUFFICES ASSUME Init PROVE SessionsInv
  OBVIOUS
<1>1. PoolTypeOK /\ Exclusive
  BY PoolInitSafe DEF Init
<1>2. TablesOK
  <2>1. sessions \in SUBSET Sessions /\ IsFiniteSet(sessions)
    BY FS_EmptySet DEF Init
  <2>2. /\ seats \in [Sessions -> SUBSET AllSeats]
        /\ \A s \in Sessions : seats[s] \subseteq Seeded[s] /\ IsFiniteSet(seats[s])
    BY FS_EmptySet DEF Init
  <2>3. list \in [Sessions -> Text] /\ stored \in [Sessions -> Seq(AllSeats)]
    BY DEF Init, Text
  <2>4. cached \in SUBSET (Sessions \X AllSeats) /\ alive \in [Resources -> BOOLEAN]
    BY DEF Init
  <2> QED
    BY <2>1, <2>2, <2>3, <2>4 DEF TablesOK
<1>3. StoredOK
  BY DEF Init, StoredOK
<1>4. Fresh
  BY DEF Init, Fresh
<1> QED
  BY <1>1, <1>2, <1>3, <1>4, FreshOK DEF SessionsInv

(***************************************************************************)
(* RestartInv: the database and Redis outlive the process, and a new pool  *)
(* has nothing open.                                                       *)
(***************************************************************************)
LEMMA RestartInv ==
  ASSUME SessionsInv, Restart PROVE SessionsInv'
<1>1. PoolTypeOK' /\ Exclusive'
  <2>1. PoolTypeOK
    BY DEF SessionsInv
  <2>2. /\ resources' \in Seq(Wrapper)
        /\ Len(resources') = Capacity
        /\ \A i \in 1..Len(resources') : resources'[i] = NoRes
    BY PoolAssumption DEF Restart, Wrapper
  <2>3. /\ call' \in [Procs -> CallState]
        /\ held' \in [Procs -> Wrapper]
        /\ \A p \in Procs : held'[p] = NoRes
    BY DEF Restart, CallState, Wrapper
  <2>4. PoolTypeOK'
    BY <2>1, <2>2, <2>3, PoolAssumption DEF PoolTypeOK, Restart, settings
  <2>5. Exclusive'
    BY <2>2, <2>3, PoolAssumption DEF Exclusive, HeldOnce, HeldNotPooled, PooledOnce
  <2> QED
    BY <2>4, <2>5
<1>2. TablesOK'
  <2>1. alive' \in [Resources -> BOOLEAN]
    BY DEF Restart
  <2> QED
    BY <2>1 DEF SessionsInv, Restart, TablesOK, dbVars, redisVars
<1>3. StoredOK'
  BY DEF SessionsInv, StoredOK, Restart, dbVars, redisVars
<1>4. (RequestsOK /\ LoadsOK /\ ReadsOK)'
  <2>1. Fresh'
    BY DEF Restart, Fresh
  <2> QED
    BY <2>1, FreshOK, PTL
<1> QED
  BY <1>1, <1>2, <1>3, <1>4 DEF SessionsInv
-----------------------------------------------------------------------------
(***************************************************************************)
(* The steps outside the requests: inserts, seat statuses, failures.       *)
(***************************************************************************)
LEMMA WorldStep ==
  ASSUME SessionsInv,
         \/ \E s \in Sessions :
              \/ InsertSession(s)
              \/ \E n \in Seeded[s] : InsertSeat(s, n) \/ LoadSeat(s, n)
         \/ \E c \in Resources : Break(c)
  PROVE  SessionsInv'
<1>1. /\ TablesOK' /\ SeatsGrow
      /\ \A c \in Resources : alive'[c] => alive[c]
  <2>0. TablesOK
    BY DEF SessionsInv
  <2>1. ASSUME NEW s \in Sessions, InsertSession(s)
        PROVE  TablesOK' /\ SeatsGrow /\ UNCHANGED alive
    <3>1. IsFiniteSet(sessions')
      BY <2>0, <2>1, FS_AddElement DEF TablesOK, InsertSession
    <3> QED
      BY <2>0, <2>1, <3>1 DEF TablesOK, InsertSession, SeatsGrow, redisVars
  <2>2. ASSUME NEW s \in Sessions, NEW n \in Seeded[s], InsertSeat(s, n)
        PROVE  TablesOK' /\ SeatsGrow /\ UNCHANGED alive
    <3>1. n \in AllSeats
      BY DEF AllSeats
    <3>2. /\ seats' \in [Sessions -> SUBSET AllSeats]
          /\ \A t \in Sessions : seats'[t] = IF t = s THEN seats[s] \cup {n} ELSE seats[t]
      BY <2>0, <2>2, <3>1 DEF TablesOK, InsertSeat
    <3>3. \A t \in Sessions : seats'[t] \subseteq Seeded[t] /\ IsFiniteSet(seats'[t])
      <4>1. IsFiniteSet(seats[s] \cup {n})
        BY <2>0, FS_AddElement DEF TablesOK
      <4> QED
        BY <2>0, <3>2, <4>1 DEF TablesOK
    <3>4. SeatsGrow
      BY <3>2 DEF SeatsGrow
    <3> QED
      BY <2>0, <2>2, <3>2, <3>3, <3>4 DEF TablesOK, InsertSeat, redisVars
  <2>3. ASSUME NEW s \in Sessions, NEW n \in Seeded[s], LoadSeat(s, n)
        PROVE  TablesOK' /\ SeatsGrow /\ UNCHANGED alive
    <3>1. n \in AllSeats
      BY DEF AllSeats
    <3>2. cached' \in SUBSET (Sessions \X AllSeats)
      BY <2>0, <2>3, <3>1 DEF TablesOK, LoadSeat
    <3> QED
      BY <2>0, <2>3, <3>2 DEF TablesOK, LoadSeat, SeatsGrow, dbVars
  <2>4. ASSUME NEW c \in Resources, Break(c)
        PROVE  TablesOK' /\ SeatsGrow /\ \A d \in Resources : alive'[d] => alive[d]
    <3>1. alive' \in [Resources -> BOOLEAN]
      BY <2>0, <2>4 DEF TablesOK, Break
    <3>2. \A d \in Resources : alive'[d] => alive[d]
      BY <2>0, <2>4 DEF TablesOK, Break
    <3> QED
      BY <2>0, <2>4, <3>1, <3>2 DEF TablesOK, Break, SeatsGrow, dbVars, redisVars
  <2> QED
    BY <2>1, <2>2, <2>3, <2>4
<1>2. UNCHANGED <<poolVars, reqVars, list, stored>>
  BY DEF InsertSession, InsertSeat, LoadSeat, Break, redisVars
<1>3. PoolTypeOK' /\ Exclusive'
  BY <1>2 DEF SessionsInv, poolVars, PoolTypeOK, Exclusive, HeldOnce,
              HeldNotPooled, PooledOnce
<1>4. RequestsOK'
  BY <1>2 DEF SessionsInv, RequestsOK, reqVars
<1>5. LoadsOK' /\ StoredOK'
  BY <1>1, <1>2, LoadKept DEF SessionsInv, reqVars
<1>6. ReadsOK'
  <2> SUFFICES ASSUME NEW q \in Readers PROVE ReadOK(q)'
    BY DEF ReadsOK
  <2>1. pc[q] = "mget" => held[q] \in Resources
    BY DEF SessionsInv, ReadsOK, ReadOK
  <2> QED
    BY <1>1, <1>2, <2>1, ReadKept DEF SessionsInv, reqVars, poolVars
<1> QED
  BY <1>1, <1>3, <1>4, <1>5, <1>6 DEF SessionsInv

(***************************************************************************)
(* The steps of pool.Get.  A request that has its connection is not in the *)
(* pool, and the connection it holds is in use, so nobody dials it again.  *)
(***************************************************************************)
LEMMA InProcs == (\A l \in Loaders : l \in Procs /\ l \in Clients)
                 /\ (\A q \in Readers : q \in Procs /\ q \in Clients /\ q \notin Loaders)
BY SessionsAssumption DEF Procs

\* GetSteps: a wrapper is received and its connection used, closed or dialled.
LEMMA GetSteps ==
  ASSUME SessionsInv, NEW p \in Clients, TakeWrapper(p) \/ Unwrap(p)
  PROVE  SessionsInv'
<1>0. p \in Procs /\ PoolTypeOK /\ Exclusive /\ TablesOK /\ RequestsOK
      /\ StoredOK /\ LoadsOK /\ ReadsOK
  BY DEF Procs, SessionsInv
<1> DEFINE Others == \A q \in Procs : q # p => call'[q] = call[q] /\ held'[q] = held[q]
           Revived == \A c \in Resources : alive'[c] => alive[c] \/ c \notin InUse
           Inside == call[p] \in {"recv", "unwrap", "sendback"}
           Rest == UNCHANGED <<dbVars, redisVars, reqVars>>
           PoolOK == PoolTypeOK' /\ Exclusive'
           AliveOK == alive' \in [Resources -> BOOLEAN]
<1>1. alive \in [Resources -> BOOLEAN] /\ call \in [Procs -> CallState]
      /\ held \in [Procs -> Wrapper]
  BY <1>0 DEF TablesOK, PoolTypeOK
<1>2. GetStep(p) => PoolOK
  BY <1>0, GetStepSafe
<1>3. ASSUME TakeWrapper(p)
      PROVE  Others /\ Revived /\ Inside /\ Rest /\ PoolOK /\ AliveOK
  <2>1. PoolOK
    BY <1>2, <1>3 DEF TakeWrapper, GetStep
  <2> QED
    BY <1>0, <1>1, <1>3, <2>1 DEF TakeWrapper, Receive, Hold, Goto
<1>4. ASSUME Reuse(p) \/ FactoryFail(p) \/ SendBack(p),
             UNCHANGED <<dbVars, redisVars, alive, reqVars>>
      PROVE  Others /\ Revived /\ Inside /\ Rest /\ PoolOK /\ AliveOK
  <2>1. PoolOK
    BY <1>2, <1>4 DEF GetStep
  <2> QED
    BY <1>0, <1>1, <1>4, <2>1 DEF Reuse, FactoryFail, SendBack, Hold, Goto
<1>5. ASSUME CloseIdle(p)
      PROVE  Others /\ Revived /\ Inside /\ Rest /\ PoolOK /\ AliveOK
  <2>1. PoolOK
    BY <1>2, <1>5 DEF CloseIdle, GetStep
  <2>2. Others /\ Inside /\ Rest
    BY <1>0, <1>1, <1>5 DEF CloseIdle, Expire, Hold
  <2>3. alive' = [alive EXCEPT ![held[p]] = FALSE]
    BY <1>5 DEF CloseIdle
  <2>4. Revived /\ AliveOK
    BY <1>1, <2>3
  <2> QED
    BY <2>1, <2>2, <2>4
<1>6. ASSUME NEW c \in Resources, Dial(p, c)
      PROVE  Others /\ Revived /\ Inside /\ Rest /\ PoolOK /\ AliveOK
  <2>1. PoolOK
    BY <1>2, <1>6 DEF Dial, GetStep
  <2>2. Others /\ Inside /\ Rest
    BY <1>0, <1>1, <1>6 DEF Dial, FactoryOk, Hold, Goto
  <2>3. alive' = [alive EXCEPT ![c] = TRUE] /\ c \notin InUse
    BY <1>6 DEF Dial, FactoryOk
  <2>4. Revived /\ AliveOK
    BY <1>1, <2>3
  <2> QED
    BY <2>1, <2>2, <2>4
<1>7. ASSUME CloseNilConn(p), ~Restart
      PROVE  Others /\ Revived /\ Inside /\ Rest /\ PoolOK /\ AliveOK
  <2>1. /\ call[p] = "unwrap" /\ Hold(p, NoRes) /\ Goto(p, "panic")
        /\ UNCHANGED <<resources, settings, dbVars, redisVars, alive, reqVars>>
    BY <1>7 DEF CloseNilConn
  <2>2. PoolOK
    <3>1. "panic" \in CallState
      BY DEF CallState
    <3>2. PutStep(p)
      BY <2>1, <3>1 DEF PutStep, Leave
    <3> QED
      BY <1>0, <3>2, PutStepSafe
  <2> QED
    BY <1>0, <1>1, <2>1, <2>2 DEF Hold, Goto
<1>8. CASE Restart
  BY <1>8, RestartInv
<1>9. CASE ~Restart
  <2>1. Others /\ Revived /\ Inside /\ Rest /\ PoolOK /\ AliveOK
    BY <1>3, <1>4, <1>5, <1>6, <1>7, <1>9 DEF Unwrap
  <2>2. TablesOK'
    BY <1>0, <2>1 DEF TablesOK, dbVars, redisVars
  <2>3. RequestsOK'
    BY <1>0, <2>1 DEF RequestsOK, reqVars
  <2>4. SeatsGrow /\ UNCHANGED <<load, list, stored, pc, read>>
    BY <2>1 DEF SeatsGrow, dbVars, redisVars, reqVars
  <2>5. LoadsOK' /\ StoredOK'
    BY <1>0, <2>4, LoadKept
  <2>6. ASSUME NEW q \in Readers PROVE ReadOK(q)'
    <3>1. ASSUME pc[q] = "mget"
          PROVE  call'[q] = call[q] /\ held'[q] = held[q]
                 /\ (alive'[held[q]] => alive[held[q]])
      <4>1. call[q] \in {"ok", "err"} /\ held[q] \in Resources
        BY <1>0, <3>1 DEF ReadsOK, ReadOK, Back
      <4>2. q \in Procs /\ q # p
        BY <2>1, <4>1, InProcs
      <4>3. held[q] \in InUse
        BY <4>2 DEF InUse
      <4> QED
        BY <2>1, <4>1, <4>2, <4>3
    <3> QED
      BY <1>0, <2>4, <3>1, ReadKept
  <2> QED
    BY <2>1, <2>2, <2>3, <2>5, <2>6 DEF SessionsInv, ReadsOK
<1> QED
  BY <1>8, <1>9
-----------------------------------------------------------------------------
(***************************************************************************)
(* What getSeats reports for a list, by name: Expected is the instance of  *)
(* a request.                                                              *)
(***************************************************************************)
NoSeat == [name |-> <<>>, status |-> <<>>]

SeatOf(s, n) ==
  [name |-> <<n>>, status |-> IF <<s, n>> \in cached THEN SeatKey(s, n) ELSE <<>>]

Reported(s, names) ==
  IF names = <<>> THEN << NoSeat >> ELSE [i \in DOMAIN names |-> SeatOf(s, names[i])]

\* ReportKey: a key gives back the name it was made of and its own status.
LEMMA ReportKey ==
  ASSUME TablesOK, NEW s \in Sessions, NEW n
  PROVE  /\ TrimPrefix(SeatKey(s, n), <<s, "-">>) = <<n>>
         /\ Value(SeatKey(s, n)) = IF <<s, n>> \in cached THEN SeatKey(s, n) ELSE <<>>
<1>1. TrimPrefix(SeatKey(s, n), <<s, "-">>) = <<n>>
  <2> DEFINE T == {s, "-", n}
             k == <<s, "-", n>>
             p == <<s, "-">>
             m == <<n>>
             u == SubSeq(k, 1, 2)
             v == SubSeq(k, 3, 3)
  <2>1. /\ k \in Seq(T) /\ Len(k) = 3 /\ k[1] = s /\ k[2] = "-" /\ k[3] = n
        /\ p \in Seq(T) /\ Len(p) = 2 /\ p[1] = s /\ p[2] = "-"
        /\ m \in Seq(T) /\ Len(m) = 1 /\ m[1] = n
    OBVIOUS
  <2> HIDE DEF T, k, p, m
  <2>2. u \in Seq(T) /\ Len(u) = 2 /\ u[1] = s /\ u[2] = "-"
    <3>1. k \in Seq(T) /\ Len(k) = 3 /\ k[1] = s /\ k[2] = "-"
      BY <2>1
    <3> QED
      BY <3>1
  <2>3. v \in Seq(T) /\ Len(v) = 1 /\ v[1] = n
    <3>1. k \in Seq(T) /\ 3 \in 1..Len(k) /\ k[3] = n
      BY <2>1
    <3>2. ASSUME NEW i \in 1..Len(k)
          PROVE  /\ SubSeq(k, i, i) \in Seq(T)
                 /\ Len(SubSeq(k, i, i)) = 1
                 /\ SubSeq(k, i, i)[1] = k[i]
      BY <3>1
    <3> QED
      BY <3>1, <3>2
  <2> HIDE DEF u, v
  <2>4. u = p
    <3>1. \A i \in 1..Len(u) : u[i] = p[i]
      BY <2>1, <2>2
    <3> QED
      BY <2>1, <2>2, <3>1, SeqEqual
  <2>5. v = m
    <3>1. \A i \in 1..Len(v) : v[i] = m[i]
      BY <2>1, <2>3
    <3> QED
      BY <2>1, <2>3, <3>1, SeqEqual
  <2>6. TrimPrefix(k, p) = m
    BY <2>1, <2>4, <2>5 DEF TrimPrefix, u, v
  <2> QED
    BY <2>6 DEF k, p, m, SeatKey
<1>2. SeatKey(s, n) \in { SeatKey(k[1], k[2]) : k \in cached } <=> <<s, n>> \in cached
  <2>1. ASSUME NEW k \in cached, SeatKey(s, n) = SeatKey(k[1], k[2])
        PROVE  <<s, n>> \in cached
    <3>1. s = k[1] /\ n = k[2]
      BY <2>1 DEF SeatKey
    <3>2. k = <<k[1], k[2]>>
      BY DEF TablesOK
    <3> QED
      BY <3>1, <3>2
  <2>2. ASSUME <<s, n>> \in cached
        PROVE  SeatKey(s, n) \in { SeatKey(k[1], k[2]) : k \in cached }
    <3> DEFINE k == <<s, n>>
    <3>1. k[1] = s /\ k[2] = n
      OBVIOUS
    <3> HIDE DEF k
    <3> QED
      BY <2>2, <3>1 DEF k
  <2> QED
    BY <2>1, <2>2
<1> QED
  BY <1>1, <1>2 DEF Value

\* ReportNothing: an empty list is reported as one seat without a name.
LEMMA ReportNothing ==
  ASSUME NEW s, NEW t, Parse(t) = << <<>> >>
  PROVE  Report(s, t) = << NoSeat >>
<1>1. TrimPrefix(<<>>, <<s, "-">>) = <<>>
  BY DEF TrimPrefix
<1>2. Value(<<>>) = <<>>
  BY DEF Value
<1> DEFINE keys == << <<>> >>
<1>3. DOMAIN keys = {1} /\ keys[1] = <<>>
  OBVIOUS
<1>4. Report(s, t) = [i \in DOMAIN keys |->
        [name |-> TrimPrefix(keys[i], <<s, "-">>), status |-> Value(keys[i])]]
  BY DEF Report
<1> HIDE DEF keys
<1>5. Report(s, t) = [i \in {1} |-> NoSeat]
  BY <1>1, <1>2, <1>3, <1>4 DEF NoSeat
<1>6. << NoSeat >> = [i \in {1} |-> NoSeat]
  <2> HIDE DEF NoSeat
  <2> QED
    OBVIOUS
<1> QED
  BY <1>5, <1>6

\* ReportFormat: what was formatted is reported, seat by seat.
LEMMA ReportFormat ==
  ASSUME TablesOK, NEW s \in Sessions, NEW names \in Seq(Seeded[s])
  PROVE  Report(s, Format(s, names)) = Reported(s, names)
<1> DEFINE t == Format(s, names)
<1>1. CASE names = <<>>
  <2>1. Parse(t) = << <<>> >>
    BY <1>1, RoundTrip
  <2> HIDE DEF t
  <2>2. Report(s, t) = << NoSeat >>
    BY <2>1, ReportNothing
  <2> QED
    BY <1>1, <2>2 DEF Reported, t
<1>2. CASE names # <<>>
  <2> DEFINE n == Len(names)
             keys == Parse(t)
  <2>1. keys = [k \in 1..n |-> SeatKey(s, names[k])]
    BY <1>2, RoundTrip
  <2>2. DOMAIN names = 1..n
    OBVIOUS
  <2> HIDE DEF keys, n
  <2>3. DOMAIN keys = 1..n /\ \A i \in 1..n : keys[i] = SeatKey(s, names[i])
    BY <2>1
  <2>4. Report(s, t) = [i \in DOMAIN keys |->
          [name |-> TrimPrefix(keys[i], <<s, "-">>), status |-> Value(keys[i])]]
    BY DEF Report, keys
  <2>5. \A i \in 1..n : [name |-> TrimPrefix(keys[i], <<s, "-">>),
                         status |-> Value(keys[i])] = SeatOf(s, names[i])
    BY <2>3, ReportKey DEF SeatOf
  <2>6. Report(s, t) = [i \in 1..n |-> SeatOf(s, names[i])]
    BY <2>3, <2>4, <2>5
  <2> QED
    BY <1>2, <2>2, <2>6 DEF Reported
<1> QED
  BY <1>1, <1>2

\* ExpectedReported: what the property asks for is the report of the names.
LEMMA ExpectedReported ==
  ASSUME NEW q PROVE Expected(q) = Reported(read[q].session, read[q].want)
BY DEF Expected, Reported, NoSeat, SeatOf

(***************************************************************************)
(* ReportedTyped: a report has its type, and names only listed seats.      *)
(***************************************************************************)
LEMMA ReportedTyped ==
  ASSUME TablesOK, NEW s \in Sessions, NEW names \in Seq(seats[s])
  PROVE  /\ Reported(s, names) \in Seq([name : Text, status : Text])
         /\ \A i \in DOMAIN Reported(s, names) :
              LET n == Reported(s, names)[i].name
              IN  n = <<>> \/ Elements(n) \subseteq seats[s]
<1> DEFINE R == [name : Text, status : Text]
<1>1. <<>> \in Text
  BY DEF Text
<1>2. NoSeat \in R /\ NoSeat.name = <<>>
  BY <1>1 DEF NoSeat
<1>3. ASSUME NEW n \in seats[s]
      PROVE  SeatOf(s, n) \in R /\ SeatOf(s, n).name = <<n>> /\ Elements(<<n>>) = {n}
  <2>1. n \in Tokens /\ s \in Tokens /\ "-" \in Tokens
    BY DEF TablesOK, Tokens
  <2>2. <<n>> \in Text /\ SeatKey(s, n) \in Text
    BY <2>1 DEF Text, SeatKey
  <2>3. Elements(<<n>>) = {n}
    BY DEF Elements
  <2> HIDE DEF R
  <2>4. SeatOf(s, n) \in R
    BY <1>1, <2>2 DEF SeatOf, R
  <2>5. SeatOf(s, n).name = <<n>>
    BY DEF SeatOf
  <2> QED
    BY <2>3, <2>4, <2>5
<1> HIDE DEF R
<1>4. CASE names = <<>>
  <2>1. Reported(s, names) = << NoSeat >>
    BY <1>4 DEF Reported
  <2> HIDE DEF NoSeat
  <2>2. << NoSeat >> \in Seq(R) /\ DOMAIN << NoSeat >> = {1} /\ << NoSeat >>[1] = NoSeat
    BY <1>2
  <2>3. \A i \in DOMAIN Reported(s, names) : Reported(s, names)[i].name = <<>>
    BY <1>2, <2>1, <2>2
  <2> QED
    BY <2>1, <2>2, <2>3 DEF R
<1>5. CASE names # <<>>
  <2> DEFINE n == Len(names)
             f == Reported(s, names)
  <2>1. n \in Nat /\ DOMAIN names = 1..n /\ \A i \in 1..n : names[i] \in seats[s]
    OBVIOUS
  <2>2. f = [i \in 1..n |-> SeatOf(s, names[i])]
    BY <1>5, <2>1 DEF Reported
  <2> HIDE DEF f, n
  <2>3. f \in Seq(R) /\ DOMAIN f = 1..n
    <3>1. \A i \in 1..n : SeatOf(s, names[i]) \in R
      BY <1>3, <2>1
    <3>2. f \in [1..n -> R] /\ n \in Nat
      BY <2>1, <2>2, <3>1
    <3> QED
      BY <3>2
  <2>4. \A i \in 1..n : f[i].name = <<names[i]>> /\ Elements(<<names[i]>>) \subseteq seats[s]
    BY <1>3, <2>1, <2>2
  <2> QED
    BY <2>3, <2>4 DEF f, R
<1> QED
  BY <1>4, <1>5
-----------------------------------------------------------------------------
(***************************************************************************)
(* ReadLocal: a step of one Availability request touches nothing that      *)
(* another request depends on.                                             *)
(***************************************************************************)
OnlyOf(p) == \A r \in Procs : r # p => call'[r] = call[r] /\ held'[r] = held[r]

PcOnlyOf(p) == \A r \in Clients : r # p => pc'[r] = pc[r]

LEMMA ReadLocal ==
  ASSUME SessionsInv, NEW q \in Readers,
         UNCHANGED <<dbVars, redisVars, alive, load>>,
         PoolTypeOK', Exclusive', RequestsOK', OnlyOf(q), PcOnlyOf(q),
         \A r \in Readers : r # q => read'[r] = read[r],
         ReadOK(q)'
  PROVE  SessionsInv'
<1>1. TablesOK'
  BY DEF SessionsInv, TablesOK, dbVars, redisVars
<1>2. SeatsGrow
  BY DEF SeatsGrow, dbVars
<1>3. LoadsOK' /\ StoredOK'
  <2>1. \A l \in Loaders : pc'[l] = pc[l]
    BY InProcs DEF PcOnlyOf
  <2> QED
    BY <1>2, <2>1, LoadKept DEF SessionsInv, redisVars
<1>4. ASSUME NEW r \in Readers, r # q PROVE ReadOK(r)'
  <2>1. r \in Procs /\ r \in Clients
    BY InProcs
  <2> QED
    BY <1>2, <1>4, <2>1, ReadKept DEF OnlyOf, PcOnlyOf, SessionsInv
<1> QED
  BY <1>1, <1>3, <1>4 DEF SessionsInv, ReadsOK

\* AvailabilityStep: the request begins and calls pool.Get.
LEMMA AvailabilityStep ==
  ASSUME SessionsInv, NEW q \in Readers, NEW s \in Sessions, Availability(q, s)
  PROVE  SessionsInv'
<1>0. q \in Procs /\ q \in Clients /\ PoolTypeOK /\ Exclusive /\ RequestsOK /\ ReadOK(q)
  BY InProcs DEF SessionsInv, ReadsOK
<1>1. PoolTypeOK' /\ Exclusive'
  <2>1. GetStep(q)
    BY DEF Availability, GetStep
  <2> QED
    BY <1>0, <2>1, GetStepSafe
<1>2. OnlyOf(q)
  BY <1>0 DEF Availability, GetCall, Goto, OnlyOf, PoolTypeOK
<1>3. PcOnlyOf(q) /\ pc' \in [Clients -> PcState] /\ pc'[q] = "get"
  BY <1>0 DEF Availability, Step, PcOnlyOf, RequestsOK, PcState
<1> DEFINE new == [read[q] EXCEPT !.session = s]
<1>4. read[q] \in ReadRec /\ read \in [Readers -> ReadRec]
  BY <1>0 DEF RequestsOK
<1>5. new \in ReadRec /\ new.session = s /\ new.answer = read[q].answer
  BY <1>4 DEF ReadRec
<1>6. read' = [read EXCEPT ![q] = new]
  BY DEF Availability
<1> HIDE DEF new
<1>7. /\ read' \in [Readers -> ReadRec] /\ read'[q] = new
      /\ \A r \in Readers : r # q => read'[r] = read[r]
  BY <1>4, <1>5, <1>6
<1>8. RequestsOK'
  BY <1>0, <1>3, <1>7 DEF RequestsOK, Availability
<1>9. ReadOK(q)'
  <2>1. read[q].answer = <<>>
    BY <1>0 DEF ReadOK, Availability
  <2> QED
    BY <1>3, <1>5, <1>7, <2>1 DEF ReadOK
<1>10. UNCHANGED <<dbVars, redisVars, alive, load>>
  BY DEF Availability
<1> QED
  BY <1>1, <1>2, <1>3, <1>7, <1>8, <1>9, <1>10, ReadLocal

\* NilConnStep: the error path of a nil connection reports nothing.
LEMMA NilConnStep ==
  ASSUME SessionsInv, NEW q \in Readers, NilConn(q)
  PROVE  SessionsInv'
<1>0. q \in Procs /\ q \in Clients /\ PoolTypeOK /\ Exclusive /\ RequestsOK /\ ReadOK(q)
  BY InProcs DEF SessionsInv, ReadsOK
<1>1. PoolTypeOK' /\ Exclusive' /\ OnlyOf(q)
  BY <1>0 DEF NilConn, poolVars, PoolTypeOK, Exclusive, HeldOnce, HeldNotPooled,
              PooledOnce, OnlyOf
<1>2. PcOnlyOf(q) /\ pc' \in [Clients -> PcState] /\ pc[q] = "get" /\ pc'[q] = "put"
  BY <1>0 DEF NilConn, Step, PcOnlyOf, RequestsOK, PcState
<1>3. RequestsOK'
  BY <1>0, <1>2 DEF RequestsOK, NilConn
<1>4. ReadOK(q)'
  BY <1>0, <1>2 DEF ReadOK, NilConn
<1> QED
  BY <1>1, <1>2, <1>3, <1>4, ReadLocal DEF NilConn

\* GetSeatKeysStep: the GET reads the text of the names stored, or "".
LEMMA GetSeatKeysStep ==
  ASSUME SessionsInv, NEW q \in Readers, GetSeatKeys(q)
  PROVE  SessionsInv'
<1> DEFINE s == read[q].session
           text == IF alive[held[q]] THEN list[s] ELSE <<>>
           new == [read[q] EXCEPT !.text = text, !.want = stored[s]]
<1>0. /\ q \in Procs /\ q \in Clients /\ PoolTypeOK /\ Exclusive /\ RequestsOK
      /\ ReadOK(q) /\ TablesOK /\ StoredOK
  BY InProcs DEF SessionsInv, ReadsOK
<1>1. PoolTypeOK' /\ Exclusive' /\ OnlyOf(q)
  BY <1>0 DEF GetSeatKeys, poolVars, PoolTypeOK, Exclusive, HeldOnce, HeldNotPooled,
              PooledOnce, OnlyOf
<1>2. PcOnlyOf(q) /\ pc' \in [Clients -> PcState] /\ pc[q] = "get" /\ pc'[q] = "mget"
  BY <1>0 DEF GetSeatKeys, Step, PcOnlyOf, RequestsOK, PcState
<1>3. s \in Sessions /\ read[q].answer = <<>> /\ held[q] \in Resources
  BY <1>0, <1>2 DEF ReadOK, GetSeatKeys
<1>4. read[q] \in ReadRec /\ read \in [Readers -> ReadRec]
  BY <1>0 DEF RequestsOK
<1>5. text \in Text /\ stored[s] \in Seq(AllSeats) /\ <<>> \in Text
  BY <1>0, <1>3 DEF TablesOK, Text
<1>6. /\ new \in ReadRec /\ new.session = s /\ new.answer = <<>>
      /\ new.text = text /\ new.want = stored[s]
  <2> HIDE DEF text, Text
  <2> QED
    BY <1>3, <1>4, <1>5 DEF ReadRec
<1>7. read' = [read EXCEPT ![q] = new]
  BY DEF GetSeatKeys
<1> HIDE DEF new
<1>8. /\ read' \in [Readers -> ReadRec] /\ read'[q] = new
      /\ \A r \in Readers : r # q => read'[r] = read[r]
  BY <1>4, <1>6, <1>7
<1>9. RequestsOK'
  BY <1>0, <1>2, <1>8 DEF RequestsOK, GetSeatKeys
<1>10. UNCHANGED <<poolVars, dbVars, redisVars, alive, load>> /\ Back(q)
  BY DEF GetSeatKeys
<1>11. ReadOK(q)'
  <2>1. /\ Back(q)' /\ held'[q] \in Resources /\ alive' = alive /\ held' = held
        /\ seats' = seats
    BY <1>3, <1>10 DEF poolVars, Back, dbVars
  <2>2. stored[s] \in Seq(seats[s])
    BY <1>0, <1>3 DEF StoredOK
  <2>3. \/ text = Format(s, stored[s])
        \/ text = <<>> /\ (stored[s] = <<>> \/ ~alive[held[q]])
    BY <1>0, <1>3 DEF StoredOK
  <2> HIDE DEF text
  <2> QED
    BY <1>2, <1>3, <1>6, <1>8, <2>1, <2>2, <2>3 DEF ReadOK
<1> QED
  BY <1>1, <1>2, <1>8, <1>9, <1>10, <1>11, ReadLocal

(***************************************************************************)
(* AnswerReported: what GetSeats makes of the text is the list as it was   *)
(* at the GET.                                                             *)
(***************************************************************************)
LEMMA AnswerReported ==
  ASSUME SessionsInv, NEW q \in Readers, pc[q] = "mget", alive[held[q]]
  PROVE  Report(read[q].session, read[q].text)
           = Reported(read[q].session, read[q].want)
<1> DEFINE s == read[q].session
           want == read[q].want
           text == read[q].text
<1>1. /\ s \in Sessions /\ want \in Seq(seats[s]) /\ TablesOK
      /\ text = Format(s, want) \/ (text = <<>> /\ want = <<>>)
  BY DEF SessionsInv, ReadsOK, ReadOK
<1> HIDE DEF s, want, text
<1>2. want \in Seq(Seeded[s])
  BY <1>1, SeqMonotonic DEF TablesOK
<1>3. CASE text = Format(s, want)
  <2>1. Report(s, text) = Reported(s, want)
    BY <1>1, <1>2, <1>3, ReportFormat
  <2> QED
    BY <2>1 DEF s, want, text
<1>4. CASE text = <<>> /\ want = <<>>
  <2>1. Report(s, text) = << NoSeat >>
    BY <1>4, ParseEmpty, ReportNothing
  <2>2. Report(s, text) = Reported(s, want)
    BY <1>4, <2>1 DEF Reported
  <2> QED
    BY <2>2 DEF s, want, text
<1> QED
  BY <1>1, <1>3, <1>4

\* GetSeatsStep: the MGET reports seats that have rows.
LEMMA GetSeatsStep ==
  ASSUME SessionsInv, NEW q \in Readers, GetSeats(q)
  PROVE  SessionsInv'
<1> DEFINE s == read[q].session
           answer == IF alive[held[q]] THEN Report(s, read[q].text) ELSE <<>>
           new == [read[q] EXCEPT !.answer = answer]
           A == Seq([name : Text, status : Text])
<1>0. /\ q \in Procs /\ q \in Clients /\ PoolTypeOK /\ Exclusive /\ RequestsOK
      /\ ReadOK(q) /\ TablesOK
  BY InProcs DEF SessionsInv, ReadsOK
<1>1. PoolTypeOK' /\ Exclusive' /\ OnlyOf(q)
  BY <1>0 DEF GetSeats, poolVars, PoolTypeOK, Exclusive, HeldOnce, HeldNotPooled,
              PooledOnce, OnlyOf
<1>2. PcOnlyOf(q) /\ pc' \in [Clients -> PcState] /\ pc[q] = "mget" /\ pc'[q] = "put"
  BY <1>0 DEF GetSeats, Step, PcOnlyOf, RequestsOK, PcState
<1>3. s \in Sessions /\ read[q].want \in Seq(seats[s])
  BY <1>0, <1>2 DEF ReadOK
<1>4. read[q] \in ReadRec /\ read \in [Readers -> ReadRec]
  BY <1>0 DEF RequestsOK
<1>5. /\ answer \in A
      /\ \A i \in DOMAIN answer :
           answer[i].name = <<>> \/ Elements(answer[i].name) \subseteq seats[s]
  <2>1. CASE alive[held[q]]
    <3>1. answer = Reported(s, read[q].want)
      BY <1>2, <2>1, AnswerReported
    <3> HIDE DEF answer, s
    <3> QED
      BY <1>0, <1>3, <3>1, ReportedTyped
  <2>2. CASE ~alive[held[q]]
    <3>1. answer = <<>>
      BY <2>2
    <3> HIDE DEF answer
    <3> QED
      BY <3>1
  <2> QED
    BY <2>1, <2>2
<1>6. new \in ReadRec /\ new.session = s /\ new.answer = answer
  <2> HIDE DEF answer
  <2> QED
    BY <1>4, <1>5 DEF ReadRec
<1>7. read' = [read EXCEPT ![q] = new]
  BY DEF GetSeats
<1> HIDE DEF new, answer, A
<1>8. /\ read' \in [Readers -> ReadRec] /\ read'[q] = new
      /\ \A r \in Readers : r # q => read'[r] = read[r]
  BY <1>4, <1>6, <1>7
<1>9. RequestsOK'
  BY <1>0, <1>2, <1>8 DEF RequestsOK, GetSeats
<1>10. UNCHANGED <<dbVars, redisVars, alive, load>>
  BY DEF GetSeats
<1>11. ReadOK(q)'
  <2>1. seats' = seats
    BY <1>10 DEF dbVars
  <2> HIDE DEF s
  <2> QED
    BY <1>2, <1>3, <1>5, <1>6, <1>8, <2>1 DEF ReadOK
<1> QED
  BY <1>1, <1>2, <1>8, <1>9, <1>10, <1>11, ReadLocal

(***************************************************************************)
(* The end of a request: its connection goes back, or is lost in a panic.  *)
(***************************************************************************)
LEMMA RespondStep ==
  ASSUME SessionsInv, NEW q \in Readers, Respond(q), PutStep(q), OnlyOf(q),
         UNCHANGED <<dbVars, redisVars, alive, load>>
  PROVE  SessionsInv'
<1>0. q \in Procs /\ q \in Clients /\ PoolTypeOK /\ Exclusive /\ RequestsOK
  BY InProcs DEF SessionsInv
<1>1. PoolTypeOK' /\ Exclusive'
  BY <1>0, PutStepSafe
<1>2. PcOnlyOf(q) /\ pc' \in [Clients -> PcState] /\ pc'[q] = "idle"
  BY <1>0 DEF Respond, Step, PcOnlyOf, RequestsOK, PcState
<1>3. NoRead \in ReadRec /\ NoRead.answer = <<>>
  BY DEF NoRead, ReadRec, Text
<1>4. /\ read' \in [Readers -> ReadRec] /\ read'[q] = NoRead
      /\ \A r \in Readers : r # q => read'[r] = read[r]
  BY <1>0, <1>3 DEF Respond, RequestsOK
<1>5. RequestsOK'
  BY <1>0, <1>2, <1>4 DEF RequestsOK
<1>6. ReadOK(q)'
  BY <1>2, <1>3, <1>4 DEF ReadOK
<1> QED
  BY <1>1, <1>2, <1>4, <1>5, <1>6, ReadLocal

\* ReturnSteps: the deferred Put, or the filter that recovers its panic.
LEMMA ReturnSteps ==
  ASSUME SessionsInv, NEW q \in Readers, ReturnConnection(q) \/ Recover(q)
  PROVE  SessionsInv'
<1>0. /\ q \in Procs /\ PoolTypeOK /\ Exclusive /\ RequestsOK /\ ReadOK(q)
      /\ call \in [Procs -> CallState] /\ held \in [Procs -> Wrapper]
  BY InProcs DEF SessionsInv, PoolTypeOK, ReadsOK
<1>1. CASE ReturnConnection(q) /\ Put(q, held[q]) /\ Respond(q)
  <2>1. PutStep(q)
    BY <1>1 DEF PutStep
  <2>2. OnlyOf(q)
    BY <1>0, <1>1 DEF Put, Hold, Goto, OnlyOf
  <2> QED
    BY <1>1, <2>1, <2>2, RespondStep DEF ReturnConnection
<1>2. CASE ReturnConnection(q) /\ PutPanic(q) /\ UNCHANGED <<pc, read>>
  <2>1. PutStep(q)
    BY <1>2 DEF PutStep
  <2>2. PoolTypeOK' /\ Exclusive'
    BY <1>0, <2>1, PutStepSafe
  <2>3. OnlyOf(q) /\ PcOnlyOf(q)
    BY <1>0, <1>2 DEF PutPanic, Hold, Goto, OnlyOf, PcOnlyOf
  <2>4. UNCHANGED <<dbVars, redisVars, alive, load>> /\ pc[q] = "put"
    BY <1>2 DEF ReturnConnection
  <2>5. RequestsOK'
    BY <1>0, <1>2, <2>4 DEF RequestsOK
  <2>6. ReadOK(q)'
    BY <1>0, <1>2, <2>4 DEF ReadOK, dbVars
  <2> QED
    BY <1>2, <2>2, <2>3, <2>4, <2>5, <2>6, ReadLocal
<1>3. CASE Recover(q)
  <2>1. PutStep(q)
    <3>1. "out" \in CallState
      BY DEF CallState
    <3> QED
      BY <1>3, <3>1 DEF PutStep, Leave, Recover
  <2>2. OnlyOf(q)
    BY <1>0, <1>3 DEF Recover, Goto, OnlyOf
  <2> QED
    BY <1>3, <2>1, <2>2, RespondStep DEF Recover
<1> QED
  BY <1>1, <1>2, <1>3 DEF ReturnConnection
-----------------------------------------------------------------------------
(***************************************************************************)
(* LoadLocal: a step of a LoadSets request that has begun.  Another one    *)
(* that has begun is spoilt, so what this one does to the lists is no      *)
(* longer promised to it.                                                  *)
(***************************************************************************)
LEMMA LoadLocal ==
  ASSUME SessionsInv, NEW l \in Loaders, pc[l] # "idle",
         UNCHANGED <<dbVars, read>>,
         PoolTypeOK', Exclusive', TablesOK', RequestsOK', StoredOK',
         OnlyOf(l), PcOnlyOf(l),
         \A m \in Loaders : m # l => load'[m] = load[m],
         \A c \in Resources : alive'[c] => alive[c],
         LoadAt(l)', LoadNames(l)', Listing(l)'
  PROVE  SessionsInv'
<1>1. SeatsGrow /\ seats' = seats
  BY DEF SeatsGrow, dbVars
<1>2. ASSUME NEW m \in Loaders, m # l
      PROVE  LoadAt(m)' /\ LoadNames(m)' /\ Listing(m)'
  <2>1. load'[m] = load[m] /\ pc'[m] = pc[m]
    BY <1>2, InProcs DEF PcOnlyOf
  <2>2. LoadAt(m) /\ LoadNames(m) /\ Listing(m)
    BY DEF SessionsInv, LoadsOK
  <2>3. LoadAt(m)'
    BY <2>1, <2>2 DEF LoadAt
  <2>4. LoadNames(m)'
    BY <1>1, <2>1, <2>2 DEF LoadNames
  <2>5. ~Unspoilt(m)
    BY <1>2, <2>2 DEF Listing, Alone
  <2>6. ~Unspoilt(m)'
    BY <2>1, <2>5 DEF Unspoilt
  <2>7. \A s \in Sessions : load'[m].before[s] \subseteq seats'[s]
    BY <1>1, <2>1, <2>2 DEF Listing
  <2> QED
    BY <2>3, <2>4, <2>6, <2>7 DEF Listing
<1>3. ASSUME NEW q \in Readers PROVE ReadOK(q)'
  <2>1. q \in Procs /\ q \in Clients /\ q # l
    BY InProcs
  <2>2. pc[q] = "mget" => held[q] \in Resources
    BY DEF SessionsInv, ReadsOK, ReadOK
  <2> QED
    BY <1>1, <2>1, <2>2, ReadKept DEF OnlyOf, PcOnlyOf, SessionsInv
<1> QED
  BY <1>2, <1>3 DEF SessionsInv, LoadsOK, ReadsOK

(***************************************************************************)
(* The parts of a LoadSets request, when it is in the loop of its          *)
(* goroutine, and how a step writes them.                                  *)
(***************************************************************************)
LEMMA LoaderIn ==
  ASSUME SessionsInv, NEW l \in Loaders
  PROVE  /\ l \in Procs /\ l \in Clients
         /\ PoolTypeOK /\ Exclusive /\ TablesOK /\ RequestsOK /\ StoredOK
         /\ call \in [Procs -> CallState] /\ held \in [Procs -> Wrapper]
         /\ pc \in [Clients -> PcState]
         /\ load \in [Loaders -> LoadRec] /\ load[l] \in LoadRec
         /\ LoadAt(l) /\ LoadNames(l) /\ Listing(l)
         /\ load[l].at # "none" => pc[l] = "range"
<1>1. LoadAt(l) /\ LoadNames(l) /\ Listing(l)
  BY DEF SessionsInv, LoadsOK
<1>2. load[l].at # "none" => pc[l] = "range"
  BY <1>1 DEF LoadAt
<1>3. load \in [Loaders -> LoadRec] /\ load[l] \in LoadRec /\ pc \in [Clients -> PcState]
  BY DEF SessionsInv, RequestsOK
<1>4. l \in Procs /\ l \in Clients
  BY InProcs
<1> QED
  BY <1>1, <1>2, <1>3, <1>4 DEF SessionsInv, PoolTypeOK

\* LoadWrite: a step of one request writes its own record only.
LEMMA LoadWrite ==
  ASSUME SessionsInv, NEW l \in Loaders, NEW new \in LoadRec,
         load' = [load EXCEPT ![l] = new]
  PROVE  /\ load' \in [Loaders -> LoadRec] /\ load'[l] = new
         /\ \A m \in Loaders : m # l => load'[m] = load[m]
BY DEF SessionsInv, RequestsOK

\* The rows of a query, in some order.
LEMMA OrdersSeq ==
  ASSUME NEW S, IsFiniteSet(S), NEW q \in Orders(S)
  PROVE  q \in Seq(S) /\ Elements(q) = S
<1>1. Cardinality(S) \in Nat
  BY FS_CardinalityType
<1>2. q \in [1..Cardinality(S) -> S] /\ Elements(q) = S
  BY DEF Orders
<1> QED
  BY <1>1, <1>2

\* GetAllSeatKeysStep: the names cover the seats of before and of the list.
LEMMA GetAllSeatKeysStep ==
  ASSUME SessionsInv, NEW l \in Loaders, GetAllSeatKeys(l)
  PROVE  SessionsInv'
<1> DEFINE r == load[l]
           s == Head(r.left)
<1>0. /\ l \in Procs /\ l \in Clients
      /\ PoolTypeOK /\ Exclusive /\ TablesOK /\ RequestsOK /\ StoredOK
      /\ call \in [Procs -> CallState]
      /\ load[l] \in LoadRec
      /\ LoadAt(l) /\ Listing(l)
      /\ load[l].at = "query" /\ pc[l] = "range" /\ r.left # <<>>
  BY LoaderIn DEF GetAllSeatKeys
<1>1. s \in Sessions
  BY <1>0 DEF LoadRec
<1>2. PICK ok \in {TRUE, ~MayFail} :
        \E names \in IF ok THEN Orders(seats[s]) ELSE { <<>> } :
          load' = [load EXCEPT ![l].names = names, ![l].at = "set",
                               ![l].spoilt = @ \/ ~ok]
  BY DEF GetAllSeatKeys
<1>3. PICK names \in IF ok THEN Orders(seats[s]) ELSE { <<>> } :
        load' = [load EXCEPT ![l].names = names, ![l].at = "set",
                             ![l].spoilt = @ \/ ~ok]
  BY <1>2
<1>4. names \in Seq(seats[s]) /\ (ok => Elements(names) = seats[s])
  <2>1. IsFiniteSet(seats[s])
    BY <1>0, <1>1 DEF TablesOK
  <2>2. CASE ok
    <3>1. names \in Orders(seats[s])
      BY <2>2
    <3> QED
      BY <2>1, <3>1, OrdersSeq
  <2>3. CASE ~ok
    <3>1. names = <<>>
      BY <2>3
    <3> QED
      BY <2>3, <3>1
  <2> QED
    BY <2>2, <2>3
<1>5. names \in Seq(AllSeats)
  BY <1>0, <1>1, <1>4, SeqMonotonic DEF TablesOK
<1> DEFINE new == [r EXCEPT !.names = names, !.at = "set", !.spoilt = r.spoilt \/ ~ok]
<1>6. /\ new \in LoadRec
      /\ new.snap = r.snap /\ new.left = r.left /\ new.names = names
      /\ new.at = "set" /\ new.chen = r.chen /\ new.closed = r.closed
      /\ new.got = r.got /\ new.before = r.before
      /\ new.spoilt = (r.spoilt \/ ~ok)
  BY <1>0, <1>5 DEF LoadRec
<1>7. load' = [load EXCEPT ![l] = new]
  BY <1>3
<1> HIDE DEF new
<1>8. /\ load' \in [Loaders -> LoadRec] /\ load'[l] = new
      /\ \A m \in Loaders : m # l => load'[m] = load[m]
  BY <1>6, <1>7, LoadWrite
<1>9. UNCHANGED <<dbVars, redisVars, alive, pc, read>> /\ GetCall(l)
  BY DEF GetAllSeatKeys
<1>10. PoolTypeOK' /\ Exclusive' /\ OnlyOf(l)
  <2>1. GetStep(l)
    BY <1>9 DEF GetStep
  <2>2. OnlyOf(l)
    BY <1>0, <1>9 DEF GetCall, Goto, OnlyOf
  <2> QED
    BY <1>0, <2>1, <2>2, GetStepSafe
<1>11. TablesOK' /\ StoredOK' /\ RequestsOK'
  BY <1>0, <1>8, <1>9 DEF TablesOK, StoredOK, RequestsOK, dbVars, redisVars
<1>12. LoadAt(l)'
  BY <1>0, <1>6, <1>8, <1>9 DEF LoadAt
<1>13. LoadNames(l)'
  BY <1>4, <1>6, <1>8, <1>9 DEF LoadNames, dbVars
<1>14. Listing(l)'
  <2>1. \A t \in Sessions : new.before[t] \subseteq seats[t]
    BY <1>0, <1>6 DEF Listing
  <2>2. ASSUME Unspoilt(l)' PROVE Unspoilt(l) /\ ok
    BY <1>6, <1>8, <1>9, <2>2 DEF Unspoilt
  <2>3. ASSUME ok
        PROVE  r.before[s] \subseteq Elements(names) /\ Elements(stored[s]) \subseteq Elements(names)
    <3>1. Elements(names) = seats[s] /\ r.before[s] \subseteq seats[s]
      BY <1>0, <1>1, <1>4, <2>3 DEF Listing
    <3>2. stored[s] \in Seq(seats[s])
      BY <1>0, <1>1 DEF StoredOK
    <3>3. Elements(stored[s]) \subseteq seats[s]
      BY <3>2 DEF Elements
    <3> QED
      BY <3>1, <3>3
  <2>4. Alone(l)' <=> Alone(l)
    BY <1>9 DEF Alone
  <2>5. stored' = stored /\ seats' = seats
    BY <1>9 DEF dbVars, redisVars
  <2> QED
    BY <1>0, <1>6, <1>8, <2>1, <2>2, <2>3, <2>4, <2>5 DEF Listing
<1> QED
  BY <1>0, <1>8, <1>9, <1>10, <1>11, <1>12, <1>13, <1>14, LoadLocal DEF PcOnlyOf

(***************************************************************************)
(* LoadSession, with a connection that works or not.                       *)
(***************************************************************************)
LEMMA LoadSessionStep ==
  ASSUME SessionsInv, NEW l \in Loaders, LoadSession(l)
  PROVE  SessionsInv'
<1> DEFINE r == load[l]
           s == Head(r.left)
           c == held[l]
<1>0. /\ l \in Procs /\ l \in Clients
      /\ PoolTypeOK /\ Exclusive /\ TablesOK /\ RequestsOK /\ StoredOK
      /\ load[l] \in LoadRec
      /\ LoadAt(l) /\ LoadNames(l) /\ Listing(l)
      /\ load[l].at = "set" /\ pc[l] = "range" /\ c \in Resources
  BY LoaderIn DEF LoadSession
<1>1. s \in Sessions /\ r.left # <<>>
  BY <1>0, HeadLeft DEF SessionsInv
<1>2. r.names \in Seq(seats[s]) /\ r.names \in Seq(AllSeats)
  BY <1>0 DEF LoadNames, LoadRec
<1>3. UNCHANGED <<poolVars, dbVars, pc, read>>
  BY DEF LoadSession
<1>4. PoolTypeOK' /\ Exclusive' /\ OnlyOf(l) /\ PcOnlyOf(l)
  BY <1>0, <1>3 DEF poolVars, PoolTypeOK, Exclusive, HeldOnce, HeldNotPooled,
                    PooledOnce, OnlyOf, PcOnlyOf
<1>5. CASE /\ alive[c]
           /\ Store(s, r.names)
           /\ \E b \in {TRUE, ~MayFail} : alive' = [alive EXCEPT ![c] = b]
           /\ load' = [load EXCEPT ![l].at = "put"]
  <2> DEFINE new == [r EXCEPT !.at = "put"]
  <2>1. /\ new \in LoadRec
        /\ new.snap = r.snap /\ new.left = r.left /\ new.names = r.names
        /\ new.at = "put" /\ new.chen = r.chen /\ new.closed = r.closed
        /\ new.got = r.got /\ new.before = r.before /\ new.spoilt = r.spoilt
    BY <1>0 DEF LoadRec
  <2>2. load' = [load EXCEPT ![l] = new]
    BY <1>5
  <2> HIDE DEF new
  <2>3. /\ load' \in [Loaders -> LoadRec] /\ load'[l] = new
        /\ \A m \in Loaders : m # l => load'[m] = load[m]
    BY <2>1, <2>2, LoadWrite
  <2>4. Format(s, r.names) \in Text
    <3> DEFINE names == r.names
    <3>1. AllSeats \subseteq Tokens /\ s \in Tokens /\ "-" \in Tokens /\ Blank \in Tokens
          /\ "[" \in Tokens /\ "]" \in Tokens
      BY <1>1 DEF Tokens
    <3>2. names \in Seq(Tokens)
      BY <1>2, <3>1, SeqMonotonic
    <3> HIDE DEF s, names
    <3>3. Format(s, names) \in Seq(Tokens)
      BY <3>1, <3>2, FormatTyped
    <3> QED
      BY <3>3 DEF Text, names
  <2>5. /\ list' = [list EXCEPT ![s] = Format(s, r.names)]
        /\ stored' = [stored EXCEPT ![s] = r.names]
        /\ UNCHANGED cached
    BY <1>5 DEF Store
  <2>6. list' \in [Sessions -> Text] /\ stored' \in [Sessions -> Seq(AllSeats)]
    BY <1>0, <1>2, <2>4, <2>5 DEF TablesOK
  <2>7. alive' \in [Resources -> BOOLEAN] /\ \A d \in Resources : alive'[d] => alive[d]
    <3>1. PICK b \in {TRUE, ~MayFail} : alive' = [alive EXCEPT ![c] = b]
      BY <1>5
    <3>2. b \in BOOLEAN /\ alive \in [Resources -> BOOLEAN]
      BY <1>0, SessionsAssumption DEF TablesOK
    <3>3. \A d \in Resources : d # c => alive'[d] = alive[d]
      BY <3>1, <3>2
    <3>4. alive' \in [Resources -> BOOLEAN]
      BY <3>1, <3>2
    <3> QED
      BY <1>5, <3>3, <3>4
  <2>8. TablesOK' /\ RequestsOK'
    BY <1>0, <1>3, <2>3, <2>5, <2>6, <2>7 DEF TablesOK, RequestsOK, dbVars
  <2>9. StoredOK'
    <3> SUFFICES ASSUME NEW t \in Sessions
                 PROVE  /\ stored'[t] \in Seq(seats[t])
                        /\ \/ list'[t] = Format(t, stored'[t])
                           \/ list'[t] = <<>> /\ stored'[t] = <<>>
      BY <1>3 DEF StoredOK, dbVars
    <3>1. CASE t = s
      BY <1>0, <1>1, <1>2, <2>5, <3>1 DEF TablesOK
    <3>2. CASE t # s
      BY <1>0, <2>5, <3>2 DEF TablesOK, StoredOK
    <3> QED
      BY <3>1, <3>2
  <2>10. LoadAt(l)'
    BY <1>0, <1>1, <1>3, <2>1, <2>3 DEF LoadAt
  <2>11. LoadNames(l)'
    BY <2>1, <2>3 DEF LoadNames
  <2>12. Listing(l)'
    <3>1. \A t \in Sessions : new.before[t] \subseteq seats'[t]
      BY <1>0, <1>3, <2>1 DEF Listing, dbVars
    <3>2. (Unspoilt(l)' <=> Unspoilt(l)) /\ (Alone(l)' <=> Alone(l))
      BY <1>3, <2>1, <2>3 DEF Unspoilt, Alone
    <3>3. ASSUME Unspoilt(l)
          PROVE  /\ r.before[s] \subseteq Elements(stored'[s])
                 /\ \A t \in Elements(r.got) \cup Elements(r.chen) :
                      r.before[t] \subseteq Elements(stored'[t])
      <4>1. r.before[s] \subseteq Elements(r.names)
        BY <1>0, <3>3 DEF Listing
      <4>2. stored'[s] = r.names /\ \A t \in Sessions : t # s => stored'[t] = stored[t]
        BY <1>0, <1>1, <2>5 DEF TablesOK
      <4>3. Elements(r.got) \subseteq Sessions /\ Elements(r.chen) \subseteq Sessions
        BY <1>0 DEF LoadRec, Elements
      <4>4. \A t \in Elements(r.got) \cup Elements(r.chen) :
              r.before[t] \subseteq Elements(stored[t])
        BY <1>0, <3>3 DEF Listing
      <4> QED
        BY <4>1, <4>2, <4>3, <4>4
    <3> QED
      BY <1>0, <2>1, <2>3, <3>1, <3>2, <3>3 DEF Listing
  <2> QED
    BY <1>0, <1>3, <1>4, <2>3, <2>7, <2>8, <2>9, <2>10, <2>11, <2>12, LoadLocal
<1>6. CASE /\ ~alive[c]
           /\ load' = [load EXCEPT ![l].at = "put", ![l].spoilt = TRUE]
           /\ UNCHANGED <<redisVars, alive>>
  <2> DEFINE new == [r EXCEPT !.at = "put", !.spoilt = TRUE]
  <2>1. /\ new \in LoadRec
        /\ new.snap = r.snap /\ new.left = r.left /\ new.names = r.names
        /\ new.at = "put" /\ new.chen = r.chen /\ new.closed = r.closed
        /\ new.got = r.got /\ new.before = r.before /\ new.spoilt = TRUE
    BY <1>0 DEF LoadRec
  <2>2. load' = [load EXCEPT ![l] = new]
    BY <1>6
  <2> HIDE DEF new
  <2>3. /\ load' \in [Loaders -> LoadRec] /\ load'[l] = new
        /\ \A m \in Loaders : m # l => load'[m] = load[m]
    BY <2>1, <2>2, LoadWrite
  <2>4. TablesOK' /\ RequestsOK' /\ StoredOK'
    BY <1>0, <1>3, <1>6, <2>3 DEF TablesOK, RequestsOK, StoredOK, dbVars, redisVars
  <2>5. LoadAt(l)' /\ LoadNames(l)'
    BY <1>0, <1>1, <1>3, <2>1, <2>3 DEF LoadAt, LoadNames
  <2>6. Listing(l)'
    <3>1. \A t \in Sessions : new.before[t] \subseteq seats'[t]
      BY <1>0, <1>3, <2>1 DEF Listing, dbVars
    <3> QED
      BY <2>1, <2>3, <3>1 DEF Listing, Unspoilt
  <2> QED
    BY <1>0, <1>3, <1>4, <1>6, <2>3, <2>4, <2>5, <2>6, LoadLocal
<1> QED
  BY <1>5, <1>6 DEF LoadSession

(***************************************************************************)
(* The deferred Put, or the panic in it.                                   *)
(***************************************************************************)
LEMMA PutSessionStep ==
  ASSUME SessionsInv, NEW l \in Loaders, PutSession(l)
  PROVE  SessionsInv'
<1> DEFINE r == load[l]
<1>0. /\ l \in Procs /\ l \in Clients
      /\ PoolTypeOK /\ Exclusive /\ TablesOK /\ RequestsOK /\ StoredOK
      /\ call \in [Procs -> CallState] /\ held \in [Procs -> Wrapper]
      /\ load[l] \in LoadRec
      /\ LoadAt(l) /\ LoadNames(l) /\ Listing(l)
      /\ load[l].at = "put" /\ pc[l] = "range"
  BY LoaderIn DEF PutSession
<1>1. CASE Restart
  BY <1>1, RestartInv
<1>2. CASE ~Restart
  <2>0. /\ Put(l, held[l])
        /\ load' = [load EXCEPT ![l].at = "send", ![l].names = <<>>]
        /\ UNCHANGED <<alive, pc, read, dbVars, redisVars>>
    BY <1>2 DEF PutSession
  <2> DEFINE none == <<>>
             new == [r EXCEPT !.at = "send", !.names = none]
  <2>1. /\ new \in LoadRec
        /\ new.snap = r.snap /\ new.left = r.left
        /\ new.at = "send" /\ new.chen = r.chen /\ new.closed = r.closed
        /\ new.got = r.got /\ new.before = r.before /\ new.spoilt = r.spoilt
    <3>1. none \in Seq(AllSeats)
      OBVIOUS
    <3> HIDE DEF none
    <3> QED
      BY <1>0, <3>1 DEF LoadRec
  <2>2. load' = [load EXCEPT ![l] = new]
    BY <2>0
  <2> HIDE DEF new
  <2>3. /\ load' \in [Loaders -> LoadRec] /\ load'[l] = new
        /\ \A m \in Loaders : m # l => load'[m] = load[m]
    BY <2>1, <2>2, LoadWrite
  <2>4. PoolTypeOK' /\ Exclusive' /\ OnlyOf(l) /\ PcOnlyOf(l)
    <3>1. PutStep(l)
      BY <2>0 DEF PutStep
    <3>2. OnlyOf(l) /\ PcOnlyOf(l)
      BY <1>0, <2>0 DEF Put, Hold, Goto, OnlyOf, PcOnlyOf
    <3> QED
      BY <1>0, <3>1, <3>2, PutStepSafe
  <2>5. TablesOK' /\ RequestsOK' /\ StoredOK'
    BY <1>0, <2>0, <2>3 DEF TablesOK, RequestsOK, StoredOK, dbVars, redisVars
  <2>6. LoadAt(l)' /\ LoadNames(l)'
    BY <1>0, <2>0, <2>1, <2>3 DEF LoadAt, LoadNames
  <2>7. Listing(l)'
    <3>1. seats' = seats /\ stored' = stored
      BY <2>0 DEF dbVars, redisVars
    <3>2. (Unspoilt(l)' <=> Unspoilt(l)) /\ (Alone(l)' <=> Alone(l))
      BY <2>0, <2>1, <2>3 DEF Unspoilt, Alone
    <3> QED
      BY <1>0, <2>1, <2>3, <3>1, <3>2 DEF Listing
  <2> QED
    BY <1>0, <2>0, <2>3, <2>4, <2>5, <2>6, <2>7, LoadLocal
<1> QED
  BY <1>1, <1>2
-----------------------------------------------------------------------------
(***************************************************************************)
(* The channel: moving an id along keeps the order of the three queues.    *)
(***************************************************************************)
LEMMA HeadTail ==
  ASSUME NEW S, NEW t \in Seq(S), t # <<>>
  PROVE  /\ Head(t) \in S /\ Tail(t) \in Seq(S)
         /\ t = <<Head(t)>> \o Tail(t)
         /\ Head(t) \in Elements(t)
         /\ Elements(Tail(t)) \subseteq Elements(t)
<1> DEFINE h == <<Head(t)>>
           u == Tail(t)
           w == h \o u
           n == Len(t)
<1>1. /\ Head(t) \in S /\ u \in Seq(S) /\ Len(u) = n - 1 /\ n \in Nat \ {0}
      /\ \A i \in 1..(n - 1) : u[i] = t[i + 1]
      /\ h \in Seq(S) /\ Len(h) = 1 /\ h[1] = t[1]
      /\ DOMAIN t = 1..n /\ DOMAIN u = 1..(n - 1) /\ Head(t) = t[1]
  OBVIOUS
<1> HIDE DEF h, u, n
<1>2. /\ w \in Seq(S) /\ Len(w) = Len(h) + Len(u)
      /\ \A i \in 1..(Len(h) + Len(u)) :
           w[i] = IF i <= Len(h) THEN h[i] ELSE u[i - Len(h)]
  <2>1. h \in Seq(S) /\ u \in Seq(S)
    BY <1>1
  <2> QED
    BY <2>1, ConcatProperties, Zenon
<1> HIDE DEF w
<1>3. /\ w \in Seq(S) /\ Len(w) = n
      /\ \A i \in 1..n : w[i] = IF i <= 1 THEN h[i] ELSE u[i - 1]
  BY <1>1, <1>2
<1>4. ASSUME NEW i \in 1..n PROVE w[i] = t[i]
  <2>1. CASE i = 1
    BY <1>1, <1>3, <2>1
  <2>2. CASE i # 1
    <3>1. i - 1 \in 1..(n - 1) /\ (i - 1) + 1 = i /\ ~(i <= 1)
      BY <1>1, <2>2
    <3> QED
      BY <1>1, <1>3, <3>1
  <2> QED
    BY <2>1, <2>2
<1>5. t = w
  BY <1>3, <1>4, SeqEqual DEF n
<1>6. Head(t) \in Elements(t) /\ Elements(u) \subseteq Elements(t)
  <2>1. 1 \in DOMAIN t /\ \A i \in DOMAIN u : i + 1 \in DOMAIN t /\ u[i] = t[i + 1]
    BY <1>1
  <2>2. Head(t) = t[1]
    BY <1>1
  <2> QED
    BY <2>1, <2>2 DEF Elements
<1> QED
  BY <1>1, <1>5, <1>6 DEF w, h, u

\* AppendElements: Append adds one element at the end.
LEMMA AppendElements ==
  ASSUME NEW S, NEW t \in Seq(S), NEW x \in S
  PROVE  /\ Append(t, x) \in Seq(S) /\ Len(Append(t, x)) = Len(t) + 1
         /\ Append(t, x) = t \o <<x>>
         /\ Elements(Append(t, x)) \subseteq Elements(t) \cup {x}
<1> DEFINE u == Append(t, x)
           n == Len(t)
<1>1. /\ u \in Seq(S) /\ Len(u) = n + 1 /\ n \in Nat
      /\ \A i \in 1..n : u[i] = t[i]
      /\ u[n + 1] = x /\ DOMAIN u = 1..(n + 1) /\ DOMAIN t = 1..n
  BY AppendProperties, LenProperties
<1>2. u = t \o <<x>>
  BY AppendIsConcat
<1> HIDE DEF u, n
<1>3. ASSUME NEW i \in 1..(n + 1) PROVE u[i] \in Elements(t) \cup {x}
  <2>1. i \in 1..n \/ i = n + 1
    BY <1>1
  <2> QED
    BY <1>1, <2>1 DEF Elements
<1>4. Elements(u) \subseteq Elements(t) \cup {x}
  BY <1>1, <1>3 DEF Elements
<1> QED
  BY <1>1, <1>2, <1>4 DEF u, n

Queue(g, c, t) == (g \o c) \o t

\* MoveIn: chen <- id takes the first of the ids left to the channel's end.
LEMMA MoveIn ==
  ASSUME NEW S, NEW g \in Seq(S), NEW c \in Seq(S), NEW t \in Seq(S), t # <<>>
  PROVE  Queue(g, Append(c, Head(t)), Tail(t)) = Queue(g, c, t)
<1> DEFINE h == <<Head(t)>>
           u == Tail(t)
<1>1. t = h \o u /\ Head(t) \in S /\ u \in Seq(S)
  BY HeadTail
<1>2. h \in Seq(S)
  BY <1>1
<1>3. Append(c, Head(t)) = c \o h
  BY <1>1, AppendElements
<1> HIDE DEF h, u
<1>4. g \o c \in Seq(S)
  OBVIOUS
<1>5. (g \o c) \o h = g \o (c \o h)
  BY <1>2, ConcatAssociative, SMTT(60)
<1>6. ((g \o c) \o h) \o u = (g \o c) \o (h \o u)
  <2> DEFINE k == g \o c
  <2>1. k \in Seq(S) /\ u \in Seq(S)
    BY <1>1, <1>4
  <2> HIDE DEF k
  <2>2. (k \o h) \o u = k \o (h \o u)
    BY <1>2, <2>1, ConcatAssociative, SMTT(60)
  <2> QED
    BY <2>2 DEF k
<1> QED
  BY <1>1, <1>3, <1>5, <1>6 DEF u, Queue

\* MoveOn: a receive takes the first id of the channel to the end of got.
LEMMA MoveOn ==
  ASSUME NEW S, NEW g \in Seq(S), NEW c \in Seq(S), c # <<>>
  PROVE  \A t : Queue(Append(g, Head(c)), Tail(c), t) = Queue(g, c, t)
<1> DEFINE h == <<Head(c)>>
           u == Tail(c)
<1>1. c = h \o u /\ Head(c) \in S /\ u \in Seq(S)
  BY HeadTail
<1>2. h \in Seq(S) /\ u \in Seq(S)
  BY <1>1
<1>3. Append(g, Head(c)) = g \o h
  BY <1>1, AppendElements
<1> HIDE DEF h, u
<1>4. (g \o h) \o u = g \o (h \o u)
  BY <1>2, ConcatAssociative, SMTT(60)
<1> QED
  BY <1>1, <1>3, <1>4 DEF u, Queue

(***************************************************************************)
(* The steps of LoadSets that touch neither the pool nor Redis.            *)
(***************************************************************************)
LEMMA QuietLoad ==
  ASSUME SessionsInv, NEW l \in Loaders, pc[l] # "idle", NEW new \in LoadRec,
         load' = [load EXCEPT ![l] = new],
         NEW s \in PcState, pc' = [pc EXCEPT ![l] = s],
         UNCHANGED <<poolVars, dbVars, redisVars, alive, read>>,
         LoadAt(l)', LoadNames(l)', Listing(l)'
  PROVE  SessionsInv'
<1>0. /\ l \in Clients /\ PoolTypeOK /\ Exclusive /\ TablesOK /\ RequestsOK
      /\ StoredOK
  BY LoaderIn
<1>1. /\ load' \in [Loaders -> LoadRec] /\ load'[l] = new
      /\ \A m \in Loaders : m # l => load'[m] = load[m]
  BY LoadWrite
<1>2. PoolTypeOK' /\ Exclusive' /\ OnlyOf(l)
  BY <1>0 DEF poolVars, PoolTypeOK, Exclusive, HeldOnce, HeldNotPooled,
              PooledOnce, OnlyOf
<1>3. PcOnlyOf(l) /\ pc' \in [Clients -> PcState]
  BY <1>0 DEF PcOnlyOf, RequestsOK
<1>4. TablesOK' /\ StoredOK'
  BY <1>0 DEF TablesOK, StoredOK, dbVars, redisVars
<1>5. RequestsOK'
  BY <1>0, <1>1, <1>3 DEF RequestsOK
<1> QED
  BY <1>1, <1>2, <1>3, <1>4, <1>5, LoadLocal

\* SendStep: the id sent has been listed by the SET before it.
LEMMA SendStep ==
  ASSUME SessionsInv, NEW l \in Loaders, Send(l)
  PROVE  SessionsInv'
<1> DEFINE r == load[l]
           s == Head(r.left)
           chen == Append(r.chen, s)
           left == Tail(r.left)
           new == [r EXCEPT !.at = "query", !.left = left, !.chen = chen]
<1>0. /\ l \in Clients /\ pc \in [Clients -> PcState]
      /\ r \in LoadRec /\ LoadAt(l) /\ Listing(l)
      /\ r.at = "send" /\ pc[l] = "range" /\ r.left # <<>>
      /\ Len(r.chen) < ChanSize
  BY LoaderIn, HeadLeft DEF Send, SessionsInv
<1>1. r.left \in Seq(Sessions) /\ r.chen \in Seq(Sessions) /\ r.got \in Seq(Sessions)
  BY <1>0 DEF LoadRec
<1>2. s \in Sessions /\ left \in Seq(Sessions)
  BY <1>0, <1>1, HeadTail
<1>3. /\ chen \in Seq(Sessions) /\ Len(chen) = Len(r.chen) + 1
      /\ Elements(chen) \subseteq Elements(r.chen) \cup {s}
  <2> HIDE DEF s
  <2> QED
    BY <1>1, <1>2, AppendElements
<1>4. (r.got \o chen) \o left = (r.got \o r.chen) \o r.left
  <2> DEFINE g == r.got
             c == r.chen
             t == r.left
  <2>1. g \in Seq(Sessions) /\ c \in Seq(Sessions) /\ t \in Seq(Sessions) /\ t # <<>>
    BY <1>0, <1>1
  <2> HIDE DEF g, c, t
  <2>2. Queue(g, Append(c, Head(t)), Tail(t)) = Queue(g, c, t)
    <3> HIDE DEF r, s, chen, left
    <3> QED
      BY <2>1, MoveIn
  <2> QED
    BY <2>2 DEF g, c, t, Queue
<1> HIDE DEF chen, left
<1>5. /\ new \in LoadRec
      /\ new.snap = r.snap /\ new.left = left
      /\ new.at = "query" /\ new.chen = chen /\ new.closed = r.closed
      /\ new.got = r.got /\ new.before = r.before /\ new.spoilt = r.spoilt
  BY <1>0, <1>2, <1>3 DEF LoadRec
<1>6. load' = [load EXCEPT ![l] = new] /\ pc' = [pc EXCEPT ![l] = "range"]
      /\ UNCHANGED <<poolVars, dbVars, redisVars, alive, read, pc>>
  BY <1>0 DEF Send, chen, left
<1> HIDE DEF new
<1>7. load'[l] = new
  BY <1>5, <1>6, LoadWrite
<1>8. LoadAt(l)'
  <2>1. Len(chen) <= ChanSize
    <3>1. Len(r.chen) \in Nat
      BY <1>1
    <3> QED
      BY <1>0, <1>3, <3>1, SessionsAssumption
  <2>2. (new.got \o new.chen) \o new.left = new.snap
    BY <1>0, <1>4, <1>5 DEF LoadAt
  <2> QED
    BY <1>0, <1>5, <1>6, <1>7, <2>1, <2>2 DEF LoadAt
<1>9. LoadNames(l)'
  BY <1>5, <1>7 DEF LoadNames
<1>10. Listing(l)'
  <2>1. seats' = seats /\ stored' = stored
    BY <1>6 DEF dbVars, redisVars
  <2>2. (Unspoilt(l)' <=> Unspoilt(l)) /\ (Alone(l)' <=> Alone(l))
    BY <1>5, <1>6, <1>7 DEF Unspoilt, Alone
  <2>3. ASSUME Unspoilt(l), NEW t \in Elements(r.got) \cup Elements(chen)
        PROVE  r.before[t] \subseteq Elements(stored[t])
    BY <1>0, <1>3, <2>3 DEF Listing
  <2> QED
    BY <1>0, <1>5, <1>7, <2>1, <2>2, <2>3 DEF Listing
<1>11. "range" \in PcState
  BY DEF PcState
<1> QED
  BY <1>0, <1>5, <1>6, <1>8, <1>9, <1>10, <1>11, QuietLoad

\* CloseChenStep: the channel is closed only when nothing is left to send.
LEMMA CloseChenStep ==
  ASSUME SessionsInv, NEW l \in Loaders, CloseChen(l)
  PROVE  SessionsInv'
<1> DEFINE r == load[l]
           new == [r EXCEPT !.at = "none", !.closed = TRUE]
<1>0. /\ l \in Clients /\ pc \in [Clients -> PcState]
      /\ r \in LoadRec /\ LoadAt(l) /\ Listing(l)
      /\ r.at = "query" /\ pc[l] = "range" /\ r.left = <<>>
  BY LoaderIn DEF CloseChen, LoadAt
<1>1. /\ new \in LoadRec
      /\ new.snap = r.snap /\ new.left = r.left
      /\ new.at = "none" /\ new.chen = r.chen /\ new.closed = TRUE
      /\ new.got = r.got /\ new.before = r.before /\ new.spoilt = r.spoilt
  BY <1>0 DEF LoadRec
<1>2. load' = [load EXCEPT ![l] = new] /\ pc' = [pc EXCEPT ![l] = "range"]
      /\ UNCHANGED <<poolVars, dbVars, redisVars, alive, read, pc>>
  BY <1>0 DEF CloseChen
<1> HIDE DEF new
<1>3. load'[l] = new
  BY <1>1, <1>2, LoadWrite
<1>4. LoadAt(l)'
  BY <1>0, <1>1, <1>2, <1>3 DEF LoadAt
<1>5. LoadNames(l)'
  BY <1>1, <1>3 DEF LoadNames
<1>6. Listing(l)'
  <2>1. seats' = seats /\ stored' = stored
    BY <1>2 DEF dbVars, redisVars
  <2>2. (Unspoilt(l)' <=> Unspoilt(l)) /\ (Alone(l)' <=> Alone(l))
    BY <1>1, <1>2, <1>3 DEF Unspoilt, Alone
  <2> QED
    BY <1>0, <1>1, <1>3, <2>1, <2>2 DEF Listing
<1>7. "range" \in PcState
  BY DEF PcState
<1> QED
  BY <1>0, <1>1, <1>2, <1>4, <1>5, <1>6, <1>7, QuietLoad

\* RangeNextStep: what is received was in the channel, so it is listed.
LEMMA RangeNextStep ==
  ASSUME SessionsInv, NEW l \in Loaders, RangeNext(l)
  PROVE  SessionsInv'
<1> DEFINE r == load[l]
           s == Head(r.chen)
           got == Append(r.got, s)
           chen == Tail(r.chen)
           new == [r EXCEPT !.got = got, !.chen = chen]
<1>0. /\ l \in Clients /\ pc \in [Clients -> PcState]
      /\ r \in LoadRec /\ LoadAt(l) /\ LoadNames(l) /\ Listing(l)
      /\ pc[l] = "range" /\ r.chen # <<>>
  BY LoaderIn DEF RangeNext
<1>1. r.left \in Seq(Sessions) /\ r.chen \in Seq(Sessions) /\ r.got \in Seq(Sessions)
  BY <1>0 DEF LoadRec
<1>2. /\ s \in Sessions /\ chen \in Seq(Sessions)
      /\ s \in Elements(r.chen) /\ Elements(chen) \subseteq Elements(r.chen)
  BY <1>0, <1>1, HeadTail
<1>3. got \in Seq(Sessions) /\ Elements(got) \subseteq Elements(r.got) \cup {s}
  <2> HIDE DEF s
  <2> QED
    BY <1>1, <1>2, AppendElements
<1>4. (got \o chen) \o r.left = (r.got \o r.chen) \o r.left
  <2> DEFINE g == r.got
             c == r.chen
             t == r.left
  <2>1. g \in Seq(Sessions) /\ c \in Seq(Sessions) /\ c # <<>>
    BY <1>0, <1>1
  <2> HIDE DEF g, c, t
  <2>2. Queue(Append(g, Head(c)), Tail(c), t) = Queue(g, c, t)
    <3> HIDE DEF r, s, got, chen
    <3> QED
      BY <2>1, MoveOn
  <2> QED
    BY <2>2 DEF g, c, t, Queue
<1>5. Len(chen) <= ChanSize
  <2>1. Len(chen) = Len(r.chen) - 1 /\ Len(r.chen) \in Nat
    BY <1>0, <1>1
  <2>2. Len(r.chen) <= ChanSize
    BY <1>0 DEF LoadAt
  <2> HIDE DEF chen, r
  <2> QED
    BY <2>1, <2>2, SessionsAssumption
<1> HIDE DEF chen, got
<1>6. /\ new \in LoadRec
      /\ new.snap = r.snap /\ new.left = r.left /\ new.names = r.names
      /\ new.at = r.at /\ new.chen = chen /\ new.closed = r.closed
      /\ new.got = got /\ new.before = r.before /\ new.spoilt = r.spoilt
  BY <1>0, <1>2, <1>3 DEF LoadRec
<1>7. load' = [load EXCEPT ![l] = new] /\ pc' = [pc EXCEPT ![l] = "range"]
      /\ UNCHANGED <<poolVars, dbVars, redisVars, alive, read, pc>>
  BY <1>0 DEF RangeNext, chen, got
<1> HIDE DEF new
<1>8. load'[l] = new /\ seats' = seats /\ stored' = stored
  BY <1>6, <1>7, LoadWrite DEF dbVars, redisVars
<1>9. LoadAt(l)'
  <2>1. (new.got \o new.chen) \o new.left = new.snap
    BY <1>0, <1>4, <1>6 DEF LoadAt
  <2> QED
    BY <1>0, <1>5, <1>6, <1>7, <1>8, <2>1 DEF LoadAt
<1>10. LoadNames(l)'
  BY <1>0, <1>6, <1>8 DEF LoadNames
<1>11. Listing(l)'
  <2>2. (Unspoilt(l)' <=> Unspoilt(l)) /\ (Alone(l)' <=> Alone(l))
    BY <1>6, <1>7, <1>8 DEF Unspoilt, Alone
  <2>3. ASSUME Unspoilt(l), NEW t \in Elements(got) \cup Elements(chen)
        PROVE  r.before[t] \subseteq Elements(stored[t])
    BY <1>0, <1>2, <1>3, <2>3 DEF Listing
  <2> QED
    BY <1>0, <1>6, <1>8, <2>2, <2>3 DEF Listing
<1>12. "range" \in PcState
  BY DEF PcState
<1> QED
  BY <1>0, <1>6, <1>7, <1>9, <1>10, <1>11, <1>12, QuietLoad

\* RangeEndStep: closed and empty, so the snapshot has been received.
LEMMA RangeEndStep ==
  ASSUME SessionsInv, NEW l \in Loaders, RangeEnd(l)
  PROVE  SessionsInv'
<1> DEFINE r == load[l]
<1>0. /\ l \in Clients /\ pc \in [Clients -> PcState] /\ load \in [Loaders -> LoadRec]
      /\ r \in LoadRec /\ LoadAt(l) /\ LoadNames(l) /\ Listing(l)
      /\ pc[l] = "range" /\ r.chen = <<>> /\ r.closed /\ r.left = <<>>
  BY LoaderIn DEF RangeEnd, LoadAt, RequestsOK
<1>1. r.at = "none"
  BY <1>0 DEF LoadAt
<1>2. r.got = r.snap
  <2>1. r.got \in Seq(Sessions)
    BY <1>0 DEF LoadRec
  <2>2. r.got \o <<>> = r.got
    BY <2>1, ConcatEmptySeq
  <2>3. (r.got \o <<>>) \o <<>> = r.snap
    BY <1>0 DEF LoadAt
  <2> QED
    BY <2>2, <2>3
<1>3. load' = load /\ pc' = [pc EXCEPT ![l] = "answer"]
      /\ UNCHANGED <<poolVars, dbVars, redisVars, alive, read>>
  BY DEF RangeEnd, Step
<1>4. load' = [load EXCEPT ![l] = r] /\ load'[l] = r /\ pc'[l] = "answer"
      /\ seats' = seats /\ stored' = stored
  BY <1>0, <1>3 DEF dbVars, redisVars
<1> HIDE DEF r
<1>5. LoadAt(l)'
  <2>1. load[l] = r
    BY DEF r
  <2> QED
    BY <1>0, <1>1, <1>2, <1>4, <2>1 DEF LoadAt
<1>6. LoadNames(l)'
  BY <1>1, <1>4 DEF LoadNames
<1>7. Listing(l)'
  <2>1. load[l] = r
    BY DEF r
  <2>2. Unspoilt(l)' <=> Unspoilt(l)
    BY <1>0, <1>4, <2>1 DEF Unspoilt
  <2>3. Alone(l)' <=> Alone(l)
    BY <1>0, <1>3, SessionsAssumption DEF Alone
  <2> QED
    BY <1>0, <1>4, <2>1, <2>2, <2>3 DEF Listing
<1>8. "answer" \in PcState
  BY DEF PcState
<1> QED
  BY <1>0, <1>3, <1>4, <1>5, <1>6, <1>7, <1>8, QuietLoad

\* AnswerLoadStep: an answered request is one that has not begun.
LEMMA AnswerLoadStep ==
  ASSUME SessionsInv, NEW l \in Loaders, AnswerLoad(l)
  PROVE  SessionsInv'
<1>0. /\ l \in Clients /\ pc \in [Clients -> PcState] /\ load \in [Loaders -> LoadRec]
      /\ pc[l] = "answer"
  BY LoaderIn DEF AnswerLoad, RequestsOK
<1>1. NoLoad \in LoadRec
  BY DEF NoLoad, LoadRec
<1>2. load' = [load EXCEPT ![l] = NoLoad] /\ pc' = [pc EXCEPT ![l] = "idle"]
      /\ UNCHANGED <<poolVars, dbVars, redisVars, alive, read>>
  BY DEF AnswerLoad, Step
<1>3. load'[l] = NoLoad /\ pc'[l] = "idle"
  BY <1>0, <1>2
<1>4. /\ NoLoad.at = "none" /\ NoLoad.closed = FALSE /\ Len(NoLoad.chen) = 0
      /\ \A s \in Sessions : NoLoad.before[s] = {}
  BY DEF NoLoad
<1>5. LoadAt(l)' /\ LoadNames(l)' /\ Listing(l)'
  BY <1>3, <1>4, SessionsAssumption DEF LoadAt, LoadNames, Listing, Unspoilt
<1>6. "idle" \in PcState
  BY DEF PcState
<1> QED
  BY <1>0, <1>1, <1>2, <1>5, <1>6, QuietLoad

(***************************************************************************)
(* LoadSetsStep: the new request has sent nothing yet, and every other one *)
(* that has begun is spoilt from here on.                                  *)
(***************************************************************************)
LEMMA LoadSetsStep ==
  ASSUME SessionsInv, NEW l \in Loaders, LoadSets(l)
  PROVE  SessionsInv'
<1>0. /\ l \in Clients /\ PoolTypeOK /\ Exclusive /\ TablesOK /\ RequestsOK
      /\ StoredOK /\ pc \in [Clients -> PcState] /\ load \in [Loaders -> LoadRec]
  BY LoaderIn
<1> DEFINE first(ok, snap) ==
             [NoLoad EXCEPT !.snap = snap, !.left = snap, !.at = "query",
                            !.before = seats, !.spoilt = ~ok \/ ~Alone(l)]
           rest(m) == [load[m] EXCEPT !.spoilt = @ \/ pc[m] # "idle"]
<1>1. PICK ok \in {TRUE, ~MayFail} :
        \E snap \in IF ok THEN Orders(sessions) ELSE { <<>> } :
          load' = [m \in Loaders |-> IF m = l THEN first(ok, snap) ELSE rest(m)]
  BY DEF LoadSets
<1>2. PICK snap \in IF ok THEN Orders(sessions) ELSE { <<>> } :
        load' = [m \in Loaders |-> IF m = l THEN first(ok, snap) ELSE rest(m)]
  BY <1>1
<1>3. snap \in Seq(Sessions)
  <2>1. CASE ok
    <3>1. snap \in Orders(sessions) /\ IsFiniteSet(sessions)
      BY <1>0, <1>2, <2>1 DEF TablesOK
    <3>2. snap \in Seq(sessions)
      BY <3>1, OrdersSeq
    <3> QED
      BY <1>0, <3>2, SeqMonotonic DEF TablesOK
  <2>2. CASE ~ok
    <3>1. snap = <<>>
      BY <1>2, <2>2
    <3> QED
      BY <3>1
  <2> QED
    BY <2>1, <2>2
<1> DEFINE new == first(ok, snap)
<1>4. /\ new \in LoadRec
      /\ new.snap = snap /\ new.left = snap /\ new.at = "query"
      /\ new.chen = <<>> /\ new.closed = FALSE /\ new.got = <<>>
      /\ new.before = seats /\ new.spoilt = (~ok \/ ~Alone(l))
  <2> DEFINE bad == ~ok \/ ~Alone(l)
  <2>1. /\ NoLoad \in LoadRec /\ NoLoad.chen = <<>> /\ NoLoad.got = <<>>
        /\ NoLoad.closed = FALSE
    BY DEF NoLoad, LoadRec
  <2>2. bad \in BOOLEAN /\ seats \in [Sessions -> SUBSET AllSeats]
    BY <1>0 DEF TablesOK
  <2>3. new = [NoLoad EXCEPT !.snap = snap, !.left = snap, !.at = "query",
                             !.before = seats, !.spoilt = bad]
    OBVIOUS
  <2> HIDE DEF bad, first
  <2>4. /\ new \in LoadRec
        /\ new.snap = snap /\ new.left = snap /\ new.at = "query"
        /\ new.chen = NoLoad.chen /\ new.closed = NoLoad.closed
        /\ new.got = NoLoad.got /\ new.before = seats /\ new.spoilt = bad
    BY <1>3, <2>1, <2>2, <2>3 DEF LoadRec
  <2> QED
    BY <2>1, <2>4 DEF bad
<1>5. load'[l] = new /\ \A m \in Loaders : m # l => load'[m] = rest(m)
  BY <1>2
<1> HIDE DEF new, first
<1>6. ASSUME NEW m \in Loaders, m # l
      PROVE  /\ load'[m] \in LoadRec
             /\ load'[m].snap = load[m].snap /\ load'[m].left = load[m].left
             /\ load'[m].names = load[m].names /\ load'[m].at = load[m].at
             /\ load'[m].chen = load[m].chen /\ load'[m].closed = load[m].closed
             /\ load'[m].got = load[m].got /\ load'[m].before = load[m].before
             /\ pc[m] # "idle" => load'[m].spoilt
  <2>1. load'[m] = rest(m) /\ load[m] \in LoadRec
    BY <1>0, <1>5, <1>6
  <2> QED
    BY <2>1 DEF LoadRec
<1>7. load' \in [Loaders -> LoadRec]
  <2>1. \A m \in Loaders : load'[m] \in LoadRec
    BY <1>4, <1>5, <1>6
  <2>2. load' = [m \in Loaders |-> load'[m]]
    BY <1>2
  <2> HIDE DEF LoadRec
  <2> QED
    BY <2>1, <2>2
<1>8. /\ pc[l] = "idle" /\ pc' = [pc EXCEPT ![l] = "range"]
      /\ UNCHANGED <<poolVars, dbVars, redisVars, alive, read>>
      /\ seats' = seats /\ stored' = stored /\ list' = list
  BY DEF LoadSets, Step, dbVars, redisVars
<1>9. /\ pc' \in [Clients -> PcState] /\ pc'[l] = "range"
      /\ \A p \in Clients : p # l => pc'[p] = pc[p]
  BY <1>0, <1>8 DEF PcState
<1>10. PoolTypeOK' /\ Exclusive'
  BY <1>0, <1>8 DEF poolVars, PoolTypeOK, Exclusive, HeldOnce, HeldNotPooled,
                    PooledOnce
<1>11. TablesOK' /\ StoredOK' /\ RequestsOK'
  BY <1>0, <1>7, <1>8, <1>9 DEF TablesOK, StoredOK, RequestsOK, dbVars, redisVars
<1>12. LoadAt(l)' /\ LoadNames(l)' /\ Listing(l)'
  <2>1. LoadAt(l)'
    <3>1. (<<>> \o <<>>) \o snap = snap
      <4>1. <<>> \o snap = snap
        BY <1>3, ConcatEmptySeq
      <4>2. <<>> \o <<>> = <<>>
        OBVIOUS
      <4> QED
        BY <4>1, <4>2
    <3>2. Len(<<>>) <= ChanSize
      BY SessionsAssumption
    <3> QED
      BY <1>4, <1>5, <1>9, <3>1, <3>2 DEF LoadAt
  <2>2. LoadNames(l)'
    BY <1>4, <1>5 DEF LoadNames
  <2>3. Alone(l)' <=> Alone(l)
    BY <1>9, SessionsAssumption DEF Alone
  <2>4. Elements(<<>>) = {}
    BY DEF Elements
  <2>5. Listing(l)'
    BY <1>4, <1>5, <1>8, <2>3, <2>4 DEF Listing, Unspoilt
  <2> QED
    BY <2>1, <2>2, <2>5
<1>13. ASSUME NEW m \in Loaders, m # l
       PROVE  LoadAt(m)' /\ LoadNames(m)' /\ Listing(m)'
  <2>1. LoadAt(m) /\ LoadNames(m) /\ Listing(m)
    BY LoaderIn
  <2>2. pc'[m] = pc[m]
    BY <1>9, <1>13, InProcs
  <2>3. LoadAt(m)'
    BY <1>6, <1>13, <2>1, <2>2 DEF LoadAt
  <2>4. LoadNames(m)'
    BY <1>6, <1>8, <1>13, <2>1 DEF LoadNames
  <2>5. ~Unspoilt(m)'
    BY <1>6, <1>13, <2>2 DEF Unspoilt
  <2>6. \A s \in Sessions : load'[m].before[s] \subseteq seats'[s]
    BY <1>6, <1>8, <1>13, <2>1 DEF Listing
  <2> QED
    BY <2>3, <2>4, <2>5, <2>6 DEF Listing
<1>14. ASSUME NEW q \in Readers PROVE ReadOK(q)'
  <2>1. q \in Clients /\ q # l /\ SeatsGrow
    BY <1>8, InProcs DEF SeatsGrow
  <2> QED
    BY <1>8, <1>9, <2>1, ReadKept DEF SessionsInv, poolVars
<1> QED
  BY <1>10, <1>11, <1>12, <1>13, <1>14 DEF SessionsInv, LoadsOK, ReadsOK
-----------------------------------------------------------------------------
\* StutterInv: a step of somebody else.
LEMMA StutterInv ==
  ASSUME SessionsInv, UNCHANGED vars PROVE SessionsInv'
<1>1. /\ UNCHANGED <<resources, capacity, closed, idleTimeout, call, held, todo>>
      /\ UNCHANGED <<sessions, seats, list, cached, stored, alive, pc, load, read>>
  BY DEF vars, poolVars, settings, dbVars, redisVars, reqVars
<1>2. PoolTypeOK' /\ Exclusive'
  BY <1>1 DEF SessionsInv, PoolTypeOK, Exclusive, HeldOnce, HeldNotPooled, PooledOnce
<1>3. TablesOK' /\ RequestsOK'
  BY <1>1 DEF SessionsInv, TablesOK, RequestsOK
<1>4. SeatsGrow /\ LoadsOK' /\ StoredOK'
  BY <1>1, LoadKept DEF SessionsInv, SeatsGrow
<1>5. ReadsOK'
  <2> SUFFICES ASSUME NEW q \in Readers PROVE ReadOK(q)'
    BY DEF ReadsOK
  <2> QED
    BY <1>1, <1>4, ReadKept DEF SessionsInv
<1> QED
  BY <1>2, <1>3, <1>4, <1>5 DEF SessionsInv

(***************************************************************************)
(* NextInv: every step of the requests and of the world around them keeps  *)
(* the invariant.                                                          *)
(***************************************************************************)
LEMMA NextInv == SessionsInv /\ [Next]_vars => SessionsInv'
<1> SUFFICES ASSUME SessionsInv, [Next]_vars PROVE SessionsInv'
  OBVIOUS
<1>1. ASSUME NEW l \in Loaders,
             \/ LoadSets(l) \/ populateFromDbToRedis(l)
             \/ RangeNext(l) \/ RangeEnd(l) \/ AnswerLoad(l)
      PROVE  SessionsInv'
  <2>1. CASE LoadSets(l)
    BY <2>1, LoadSetsStep
  <2>2. CASE GetAllSeatKeys(l)
    BY <2>2, GetAllSeatKeysStep
  <2>3. CASE LoadSession(l)
    BY <2>3, LoadSessionStep
  <2>4. CASE LoadSessionPanic(l)
    BY <2>4, RestartInv DEF LoadSessionPanic
  <2>5. CASE PutSession(l)
    BY <2>5, PutSessionStep
  <2>6. CASE Send(l)
    BY <2>6, SendStep
  <2>7. CASE CloseChen(l)
    BY <2>7, CloseChenStep
  <2>8. CASE RangeNext(l)
    BY <2>8, RangeNextStep
  <2>9. CASE RangeEnd(l)
    BY <2>9, RangeEndStep
  <2>10. CASE AnswerLoad(l)
    BY <2>10, AnswerLoadStep
  <2> QED
    BY <1>1, <2>1, <2>2, <2>3, <2>4, <2>5, <2>6, <2>7, <2>8, <2>9, <2>10
       DEF populateFromDbToRedis
<1>2. ASSUME NEW q \in Readers,
             (\E s \in Sessions : Availability(q, s)) \/ ReadStep(q)
      PROVE  SessionsInv'
  <2>1. CASE \E s \in Sessions : Availability(q, s)
    BY <2>1, AvailabilityStep
  <2>2. CASE NilConn(q)
    BY <2>2, NilConnStep
  <2>3. CASE GetSeatKeys(q)
    BY <2>3, GetSeatKeysStep
  <2>4. CASE GetSeats(q)
    BY <2>4, GetSeatsStep
  <2>5. CASE ReturnConnection(q) \/ Recover(q)
    BY <2>5, ReturnSteps
  <2> QED
    BY <1>2, <2>1, <2>2, <2>3, <2>4, <2>5 DEF ReadStep
<1>3. ASSUME NEW p \in Clients, TakeWrapper(p) \/ Unwrap(p)
      PROVE  SessionsInv'
  BY <1>3, GetSteps
<1>4. CASE \/ \E s \in Sessions :
                \/ InsertSession(s)
                \/ \E n \in Seeded[s] : InsertSeat(s, n) \/ LoadSeat(s, n)
           \/ \E c \in Resources : Break(c)
  BY <1>4, WorldStep
<1>5. CASE UNCHANGED vars
  BY <1>5, StutterInv
<1> QED
  BY <1>1, <1>2, <1>3, <1>4, <1>5 DEF Next

(***************************************************************************)
(* SessionsSafety: the inductive invariant holds in every state of         *)
(* LoadSets, populateFromDbToRedis and Availability.                       *)
(***************************************************************************)
THEOREM SessionsSafety == Spec => []SessionsInv
BY InitInv, NextInv, PTL DEF Spec

(***************************************************************************)
(* SessionsTyped: the tables, Redis, the pool and the requests keep their  *)
(* types; the channel chen never holds more than its buffer.               *)
(***************************************************************************)
THEOREM SessionsTyped == Spec => []TypeOK
<1>1. SessionsInv => TypeOK
  <2> SUFFICES ASSUME SessionsInv PROVE TypeOK
    OBVIOUS
  <2>1. PoolTypeOK /\ TablesOK /\ RequestsOK
    BY DEF SessionsInv
  <2>2. cached \in SUBSET { <<s, n>> : s \in Sessions, n \in UNION { Seeded[t] : t \in Sessions } }
    BY <2>1 DEF TablesOK, AllSeats
  <2>3. ASSUME NEW l \in Loaders
        PROVE  /\ load[l].at \in {"none", "query", "set", "put", "send"}
               /\ Len(load[l].chen) <= ChanSize
               /\ load[l].spoilt \in BOOLEAN
    <3>1. load[l] \in LoadRec /\ LoadAt(l)
      BY LoaderIn
    <3> QED
      BY <3>1 DEF LoadRec, LoadAt
  <2>4. ASSUME NEW q \in Readers PROVE read[q].session \in Sessions \cup {NoSession}
    BY <2>1 DEF RequestsOK, ReadRec
  <2> QED
    BY <2>1, <2>2, <2>3, <2>4 DEF TypeOK, TablesOK, RequestsOK, PcState
<1> QED
  BY <1>1, SessionsSafety, PTL

(***************************************************************************)
(* SnapshotDelivered: the handler of LoadSets, which ranges over chen,     *)
(* leaves the loop with every session of GetAllSession's answer, each once *)
(* and in order, however small the channel is and however its goroutine is *)
(* scheduled.                                                              *)
(***************************************************************************)
THEOREM SnapshotDelivered == Spec => []EverySessionReported
<1>1. SessionsInv => EverySessionReported
  BY DEF SessionsInv, LoadsOK, LoadAt, EverySessionReported
<1> QED
  BY <1>1, SessionsSafety, PTL

(***************************************************************************)
(* ListedExist: no session-<id> list and no report of Availability names a *)
(* seat without a row in the table seats, after any failures, overlapping  *)
(* loads and restarts.                                                     *)
(***************************************************************************)
THEOREM ListedExist == Spec => []ListedSeatsExist
<1>1. SessionsInv => ListedSeatsExist
  <2> SUFFICES ASSUME SessionsInv PROVE ListedSeatsExist
    OBVIOUS
  <2>1. ASSUME NEW s \in Sessions PROVE Elements(stored[s]) \subseteq seats[s]
    <3>1. stored[s] \in Seq(seats[s])
      BY DEF SessionsInv, StoredOK
    <3> QED
      BY <3>1 DEF Elements
  <2>2. ASSUME NEW q \in Readers, NEW i \in DOMAIN read[q].answer
        PROVE  \/ read[q].answer[i].name = <<>>
               \/ Elements(read[q].answer[i].name) \subseteq seats[read[q].session]
    BY DEF SessionsInv, ReadsOK, ReadOK
  <2> QED
    BY <2>1, <2>2 DEF ListedSeatsExist
<1> QED
  BY <1>1, SessionsSafety, PTL

(***************************************************************************)
(* OkListed: when LoadSetsIntoRedis answers and nothing failed or          *)
(* overlapped, each session of its snapshot is listed with at least the    *)
(* seats it had when the request began.                                    *)
(***************************************************************************)
THEOREM OkListed == Spec => []OkMeansListed
<1>1. SessionsInv => OkMeansListed
  <2> SUFFICES ASSUME SessionsInv, NEW l \in Loaders, pc[l] = "answer",
                      ~load[l].spoilt, NEW s \in Elements(load[l].snap)
               PROVE  load[l].before[s] \subseteq Elements(stored[s])
    BY DEF OkMeansListed
  <2>1. LoadAt(l) /\ Listing(l)
    BY LoaderIn
  <2>2. load[l].got = load[l].snap
    BY <2>1 DEF LoadAt
  <2> QED
    BY <2>1, <2>2 DEF Listing, Unspoilt
<1> QED
  BY <1>1, SessionsSafety, PTL
-----------------------------------------------------------------------------
(***************************************************************************)
(* OnlySetStores: only the SET of LoadSessionIntoRedis writes a list.      *)
(***************************************************************************)
LEMMA OnlySetStores ==
  ASSUME Next PROVE stored' = stored \/ \E l \in Loaders : LoadSession(l)
<1>1. Restart => stored' = stored
  BY DEF Restart, redisVars
<1>2. ASSUME NEW l \in Loaders,
             \/ LoadSets(l) \/ populateFromDbToRedis(l)
             \/ RangeNext(l) \/ RangeEnd(l) \/ AnswerLoad(l)
      PROVE  stored' = stored \/ LoadSession(l)
  BY <1>1, <1>2 DEF LoadSets, populateFromDbToRedis, GetAllSeatKeys, LoadSessionPanic,
                    PutSession, Send, CloseChen, RangeNext, RangeEnd, AnswerLoad, redisVars
<1>3. ASSUME NEW q \in Readers,
             (\E s \in Sessions : Availability(q, s)) \/ ReadStep(q)
      PROVE  stored' = stored
  BY <1>3 DEF Availability, ReadStep, NilConn, GetSeatKeys, GetSeats, ReturnConnection,
              Recover, redisVars
<1>4. ASSUME NEW p \in Clients, TakeWrapper(p) \/ Unwrap(p) PROVE stored' = stored
  BY <1>1, <1>4 DEF TakeWrapper, Unwrap, CloseIdle, Dial, CloseNilConn, redisVars
<1>5. CASE \/ \E s \in Sessions :
                \/ InsertSession(s)
                \/ \E n \in Seeded[s] : InsertSeat(s, n) \/ LoadSeat(s, n)
           \/ \E c \in Resources : Break(c)
  BY <1>5 DEF InsertSession, InsertSeat, LoadSeat, Break, redisVars
<1> QED
  BY <1>2, <1>3, <1>4, <1>5 DEF Next

(***************************************************************************)
(* CleanLoadsGrow: a session-<id> list loses a seat only while some        *)
(* LoadSets has met a failing query or SET, or overlaps with another one.  *)
(* GetSeats ran before the SET, and the names it brought are still a       *)
(* superset of the list only because nobody else has written in between.   *)
(***************************************************************************)
THEOREM CleanLoadsGrow == Spec => OnlySpoiltLoadShrinks
<1> DEFINE A == \A s \in Sessions :
                  \/ Elements(stored[s]) \subseteq Elements(stored'[s])
                  \/ \E l \in Loaders : load[l].spoilt
<1>1. ASSUME SessionsInv, [Next]_vars PROVE [A]_vars
  <2>1. CASE stored' = stored
    BY <2>1
  <2>2. ASSUME NEW l \in Loaders, LoadSession(l), NEW s \in Sessions,
               ~load[l].spoilt
        PROVE  Elements(stored[s]) \subseteq Elements(stored'[s])
    <3> DEFINE h == Head(load[l].left)
    <3>1. load[l].at = "set" /\ pc[l] = "range" /\ Listing(l)
      BY <1>1, <2>2, LoaderIn DEF LoadSession
    <3>2. Elements(stored[h]) \subseteq Elements(load[l].names)
      BY <2>2, <3>1 DEF Listing, Unspoilt
    <3>3. stored' = stored \/ stored' = [stored EXCEPT ![h] = load[l].names]
      BY <2>2 DEF LoadSession, Store, redisVars
    <3>4. stored \in [Sessions -> Seq(AllSeats)]
      BY <1>1 DEF SessionsInv, TablesOK
    <3> HIDE DEF h
    <3> QED
      BY <3>2, <3>3, <3>4
  <2> QED
    BY <1>1, <2>1, <2>2, OnlySetStores
<1> HIDE DEF A
<1>2. Spec => [][A]_vars
  BY <1>1, SessionsSafety, PTL DEF Spec
<1> QED
  BY <1>2 DEF A, OnlySpoiltLoadShrinks

(***************************************************************************)
(* OnlyMgetAnswers: a reader goes from its GET to its answer only by the   *)
(* MGET of getSeats.                                                       *)
(***************************************************************************)
LEMMA OnlyMgetAnswers ==
  ASSUME SessionsInv, Next, NEW q \in Readers, pc[q] = "mget", pc'[q] = "put"
  PROVE  GetSeats(q)
<1>0. q \in Clients /\ pc \in [Clients -> PcState]
  BY InProcs DEF SessionsInv, RequestsOK
<1>1. ~Restart
  BY <1>0 DEF Restart
<1>2. ~UNCHANGED pc
  OBVIOUS
<1>3. ASSUME NEW l \in Loaders,
             \/ LoadSets(l) \/ populateFromDbToRedis(l)
             \/ RangeNext(l) \/ RangeEnd(l) \/ AnswerLoad(l)
      PROVE  FALSE
  <2>1. l # q /\ l \in Clients
    BY InProcs
  <2>2. ASSUME NEW s, Step(l, s) PROVE FALSE
    BY <1>0, <2>1, <2>2 DEF Step
  <2> QED
    BY <1>1, <1>2, <1>3, <2>2
       DEF LoadSets, populateFromDbToRedis, GetAllSeatKeys, LoadSession, LoadSessionPanic,
           PutSession, Send, CloseChen, RangeNext, RangeEnd, AnswerLoad
<1>4. ASSUME NEW r \in Readers,
             (\E s \in Sessions : Availability(r, s)) \/ ReadStep(r)
      PROVE  GetSeats(q)
  <2>1. ASSUME NEW s, Step(r, s) PROVE r = q /\ s = "put"
    BY <1>0, <2>1, InProcs DEF Step
  <2>2. CASE \E s \in Sessions : Availability(r, s)
    BY <2>1, <2>2 DEF Availability
  <2>3. CASE NilConn(r) \/ GetSeatKeys(r)
    BY <2>1, <2>3 DEF NilConn, GetSeatKeys
  <2>4. CASE GetSeats(r)
    <3>1. r = q
      BY <2>1, <2>4 DEF GetSeats
    <3> QED
      BY <2>4, <3>1
  <2>5. CASE ReturnConnection(r) \/ Recover(r)
    BY <1>2, <2>1, <2>5 DEF ReturnConnection, Recover, Respond
  <2> QED
    BY <1>4, <2>2, <2>3, <2>4, <2>5 DEF ReadStep
<1>5. ASSUME NEW p \in Clients, TakeWrapper(p) \/ Unwrap(p) PROVE FALSE
  BY <1>1, <1>2, <1>5 DEF TakeWrapper, Unwrap, CloseIdle, Dial, CloseNilConn, reqVars
<1>6. CASE \/ \E s \in Sessions :
                \/ InsertSession(s)
                \/ \E n \in Seeded[s] : InsertSeat(s, n) \/ LoadSeat(s, n)
           \/ \E c \in Resources : Break(c)
  BY <1>2, <1>6 DEF InsertSession, InsertSeat, LoadSeat, Break, reqVars
<1> QED
  BY <1>3, <1>4, <1>5, <1>6 DEF Next

(***************************************************************************)
(* TheListIsReported: Availability answers with the seats listed at its    *)
(* GET, in order, each with its own status or "", although the list went   *)
(* through fmt.Fprint and strings.Split and other requests used the pool,  *)
(* rewrote the list and loaded statuses between the GET and the MGET.      *)
(***************************************************************************)
THEOREM TheListIsReported == Spec => ReportsTheList
<1> DEFINE A == \A q \in Readers :
                  pc[q] = "mget" /\ pc'[q] = "put" =>
                    read'[q].answer = IF alive[held[q]] THEN Expected(q) ELSE <<>>
<1>1. ASSUME SessionsInv, [Next]_vars PROVE [A]_vars
  <2> SUFFICES ASSUME Next, NEW q \in Readers, pc[q] = "mget", pc'[q] = "put"
               PROVE  read'[q].answer = IF alive[held[q]] THEN Expected(q) ELSE <<>>
    BY <1>1
  <2> DEFINE answer == IF alive[held[q]]
                         THEN Report(read[q].session, read[q].text) ELSE <<>>
  <2>1. GetSeats(q)
    BY <1>1, OnlyMgetAnswers
  <2>2. read[q] \in ReadRec /\ read \in [Readers -> ReadRec]
    BY <1>1 DEF SessionsInv, RequestsOK
  <2>3. read' = [read EXCEPT ![q] = [read[q] EXCEPT !.answer = answer]]
    BY <2>1 DEF GetSeats
  <2>4. read'[q].answer = answer
    <3> HIDE DEF answer
    <3> QED
      BY <2>2, <2>3 DEF ReadRec
  <2>5. alive[held[q]] => answer = Expected(q)
    BY <1>1, AnswerReported, ExpectedReported
  <2> QED
    BY <2>4, <2>5
<1> HIDE DEF A
<1>2. Spec => [][A]_vars
  BY <1>1, SessionsSafety, PTL DEF Spec
<1> QED
  BY <1>2 DEF A, ReportsTheList
=============================================================================
