----------------------- MODULE RedisConnectionProofs -----------------------
(***************************************************************************)
(* Proofs about RedisHelper, for any number of requests, connections and   *)
(* seats: what a "ko" says about the seat, and how many connections the    *)
(* requests and the pool have between them.                                *)
(***************************************************************************)
EXTENDS RedisHelperProofs, FiniteSetTheorems

(***************************************************************************)
(* What each step of a request does to the pool, seen by the count.        *)
(* Slot(p) is p \in Taken: p has a wrapper that holds or may get a         *)
(* connection.                                                             *)
(***************************************************************************)
Slot(p) ==
  \/ call[p] = "sendback"
  \/ call[p] \in {"unwrap", "ok"} /\ held[p] # BadRes

Same(p) == UNCHANGED resources /\ (Slot(p)' <=> Slot(p))

Takes(p) ==
  /\ resources # <<>>
  /\ resources' = Tail(resources)
  /\ ~Slot(p)
  /\ Slot(p)' <=> Head(resources) # BadRes

Gives(p) ==
  /\ ~Slot(p)'
  /\ \E x \in Wrapper : resources' = Append(resources, x) /\ (Slot(p) <=> x # BadRes)

Panics(p) ==
  /\ Len(resources) = MaxCap
  /\ UNCHANGED resources
  /\ call[p] \in {"ok", "err"}
  /\ ~Slot(p)'

Moves(p) ==
  /\ Same(p) \/ Takes(p) \/ Gives(p) \/ Panics(p)
  /\ \A q \in Clients \ {p} : call'[q] = call[q] /\ held'[q] = held[q]

(***************************************************************************)
(* FailedGet: a request whose Get failed has ResourceConn{nil}; and the    *)
(* engine never closes its pool.                                           *)
(***************************************************************************)
FailedGet ==
  /\ ~closed
  /\ \A p \in Clients : call[p] \in {"sendback", "err"} => held[p] = BadRes

(***************************************************************************)
(* PoolMoves: every step takes a wrapper, gives one back, panics in a Put, *)
(* or leaves the count alone.                                              *)
(***************************************************************************)
LEMMA PoolMoves ==
  ASSUME Inv, FailedGet, [Next]_vars
  PROVE  /\ \/ UNCHANGED <<resources, call, held>>
            \/ \E p \in Clients : Moves(p)
         /\ FailedGet'
<1> USE DEF Procs, Goto, Hold, settings
<1>1. /\ call \in [Procs -> CallState]
      /\ held \in [Procs -> Wrapper]
      /\ resources \in Seq(Wrapper)
      /\ NoRes # BadRes /\ BadRes \notin Resources /\ NoRes \in Wrapper
  BY PoolAssumption, HelperAssumption DEF Inv, TypeOK, PoolTypeOK, Wrapper
<1>2. /\ ~closed
      /\ \A p \in Clients : call[p] \in {"sendback", "err"} => held[p] = BadRes
  BY DEF FailedGet
<1>3. ASSUME UNCHANGED <<resources, call, held, closed>>
      PROVE  UNCHANGED <<resources, call, held>> /\ FailedGet'
  BY <1>3 DEF FailedGet
<1>4. ASSUME NEW p \in Clients, NEW o \in {"block", "confirm"}, NEW k \in Keys,
             Request(p, o, k)
      PROVE  Moves(p) /\ FailedGet'
  BY <1>1, <1>2, <1>4 DEF Request, GetCall, Moves, Same, Slot, FailedGet
<1>5. ASSUME NEW p \in Clients, TakeWrapper(p)
      PROVE  Moves(p) /\ FailedGet'
  BY <1>1, <1>2, <1>5 DEF TakeWrapper, Receive, Moves, Takes, Slot, FailedGet
<1>6. ASSUME NEW p \in Clients, Unwrap(p)
      PROVE  Moves(p) /\ FailedGet'
  <2>1. CASE SendBack(p)
    <3>1. Gives(p)
      BY <1>1, <2>1 DEF SendBack, Gives, Slot
    <3> QED
      BY <1>1, <1>2, <2>1, <3>1 DEF SendBack, Moves, FailedGet
  <2>2. CASE Reuse(p) \/ FactoryFail(p) \/ CloseNilConn(p)
    BY <1>1, <1>2, <2>2
       DEF Reuse, FactoryFail, CloseNilConn, Moves, Same, Slot, FailedGet
  <2>3. CASE CloseIdle(p) \/ \E c \in Resources : Dial(p, c)
    BY <1>1, <1>2, <2>3
       DEF CloseIdle, Dial, Expire, FactoryOk, Moves, Same, Slot, FailedGet
  <2> QED
    BY <1>6, <2>1, <2>2, <2>3 DEF Unwrap
<1>7. ASSUME NEW p \in Clients, ReturnConnection(p)
      PROVE  Moves(p) /\ FailedGet'
  <2>1. call[p] \in {"ok", "err"}
    BY <1>7 DEF ReturnConnection, At
  <2>2. CASE Put(p, held[p])
    <3>1. Gives(p)
      BY <1>1, <1>2, <2>1, <2>2 DEF Put, Gives, Slot
    <3> QED
      BY <1>1, <1>2, <2>2, <3>1 DEF Put, Moves, FailedGet
  <2>3. CASE PutPanic(p)
    <3>1. Panics(p)
      BY <1>1, <1>2, <2>1, <2>3 DEF PutPanic, Panics, Slot
    <3> QED
      BY <1>1, <1>2, <2>3, <3>1 DEF PutPanic, Moves, FailedGet
  <2> QED
    BY <1>7, <2>2, <2>3 DEF ReturnConnection
<1>8. ASSUME NEW p \in Clients, Recover(p)
      PROVE  Moves(p) /\ FailedGet'
  BY <1>1, <1>2, <1>8 DEF Recover, Moves, Same, Slot, FailedGet
<1>9. ASSUME NEW p \in Clients,
             \/ NilConn(p) \/ Exists(p) \/ Watch(p) \/ Get(p) \/ Multi(p)
             \/ Set(p) \/ Exec(p)
      PROVE  UNCHANGED <<resources, call, held, closed>>
  BY <1>9
     DEF NilConn, Exists, Watch, Get, Multi, Set, Exec, ExecCommit, ExecAbort,
         ExecBroken, ExecReplyLost, poolVars
<1>10. ASSUME \/ \E k \in Keys, s \in {FREE, CONFIRMED} : LoadSeatsIntoRedis(k, s)
              \/ \E c \in Resources : Break(c)
              \/ BreakLoad
              \/ UNCHANGED vars
       PROVE  UNCHANGED <<resources, call, held, closed>>
  BY <1>10 DEF LoadSeatsIntoRedis, Break, BreakLoad, vars, poolVars
<1>11. ASSUME NEW p \in Clients, RequestStep(p)
       PROVE  \/ Moves(p) /\ FailedGet'
              \/ UNCHANGED <<resources, call, held, closed>>
  BY <1>5, <1>6, <1>7, <1>8, <1>9, <1>11
     DEF RequestStep, GetConnection, BlockSeat, ConfirmSeat, Commands
<1> QED
  BY <1>3, <1>4, <1>10, <1>11 DEF Next
-----------------------------------------------------------------------------
(***************************************************************************)
(* The wrappers in a channel s that are not ResourceConn{nil}, and how     *)
(* their number changes.                                                   *)
(***************************************************************************)
Good(s) == { i \in DOMAIN s : s[i] # BadRes }

(***************************************************************************)
(* GoodFinite: there are finitely many.                                    *)
(***************************************************************************)
LEMMA GoodFinite ==
  ASSUME NEW s \in Seq(Wrapper)
  PROVE  IsFiniteSet(Good(s)) /\ Cardinality(Good(s)) \in Nat
<1>1. Good(s) \in SUBSET (1..Len(s)) /\ Len(s) \in Nat
  BY DEF Good
<1>2. IsFiniteSet(1..Len(s))
  BY <1>1, FS_Interval
<1>3. IsFiniteSet(Good(s))
  BY <1>1, <1>2, FS_Subset
<1> QED
  BY <1>3, FS_CardinalityType

(***************************************************************************)
(* GoodTail: receiving a wrapper takes it off the count, if it is good.    *)
(***************************************************************************)
LEMMA GoodTail ==
  ASSUME NEW s \in Seq(Wrapper), s # <<>>
  PROVE  Cardinality(Good(Tail(s)))
           = IF Head(s) # BadRes THEN Cardinality(Good(s)) - 1
                                 ELSE Cardinality(Good(s))
<1> DEFINE S == Good(s) \ {1}
           T == Good(Tail(s))
           f == [i \in S |-> i - 1]
<1>1. /\ DOMAIN s = 1..Len(s) /\ Len(s) \in Nat \ {0} /\ Head(s) = s[1]
      /\ DOMAIN Tail(s) = 1..(Len(s) - 1)
      /\ \A i \in 1..(Len(s) - 1) : Tail(s)[i] = s[i + 1]
  OBVIOUS
<1>2. f \in Bijection(S, T)
  <2>1. f \in [S -> T]
    BY <1>1 DEF Good
  <2>2. \A i, j \in S : f[i] = f[j] => i = j
    BY <1>1 DEF Good
  <2>3. ASSUME NEW j \in T PROVE \E i \in S : f[i] = j
    <3>1. j + 1 \in S /\ j = (j + 1) - 1
      BY <1>1, <2>3 DEF Good
    <3> QED
      BY <3>1
  <2> HIDE DEF f, S, T
  <2> QED
    BY <2>1, <2>2, <2>3 DEF Bijection, Injection, Surjection, IsInjective
<1>3. 1 \in Good(s) <=> Head(s) # BadRes
  BY <1>1 DEF Good
<1>4. IsFiniteSet(Good(s)) /\ Cardinality(Good(s)) \in Nat
  BY GoodFinite
<1>5. /\ IsFiniteSet(S)
      /\ Cardinality(S) = IF 1 \in Good(s) THEN Cardinality(Good(s)) - 1
                                           ELSE Cardinality(Good(s))
  BY <1>4, FS_RemoveElement
<1>6. Cardinality(T) = Cardinality(S)
  <2> HIDE DEF f, S, T
  <2>1. ExistsBijection(S, T)
    BY <1>2 DEF ExistsBijection
  <2> QED
    BY <1>5, <2>1, FS_Bijection
<1> QED
  BY <1>3, <1>5, <1>6

(***************************************************************************)
(* GoodAppend: sending one adds it, if it is good.                         *)
(***************************************************************************)
LEMMA GoodAppend ==
  ASSUME NEW s \in Seq(Wrapper), NEW x \in Wrapper
  PROVE  Cardinality(Good(Append(s, x)))
           = IF x # BadRes THEN Cardinality(Good(s)) + 1
                           ELSE Cardinality(Good(s))
<1> DEFINE n == Len(s) + 1
<1>1. /\ DOMAIN s = 1..Len(s) /\ Len(s) \in Nat
      /\ DOMAIN Append(s, x) = 1..n
      /\ \A i \in 1..Len(s) : Append(s, x)[i] = s[i]
      /\ Append(s, x)[n] = x
  OBVIOUS
<1>2. CASE x # BadRes
  <2>1. Good(Append(s, x)) = Good(s) \cup {n} /\ n \notin Good(s)
    BY <1>1, <1>2 DEF Good
  <2>2. IsFiniteSet(Good(s))
    BY GoodFinite
  <2> HIDE DEF n
  <2> QED
    BY <1>2, <2>1, <2>2, FS_AddElement
<1>3. CASE x = BadRes
  <2>1. Good(Append(s, x)) = Good(s)
    BY <1>1, <1>3 DEF Good
  <2> QED
    BY <1>3, <2>1
<1> QED
  BY <1>2, <1>3

(***************************************************************************)
(* TakenMoves: and the same for the requests that have a slot.             *)
(***************************************************************************)
LEMMA TakenMoves ==
  ASSUME IsFiniteSet(Taken), NEW p \in Clients, Moves(p)
  PROVE  /\ IsFiniteSet(Taken') /\ Cardinality(Taken) \in Nat
         /\ Slot(p)' /\ ~Slot(p) => Cardinality(Taken') = Cardinality(Taken) + 1
         /\ ~Slot(p)' /\ Slot(p) =>
              Cardinality(Taken') = Cardinality(Taken) - 1 /\ Cardinality(Taken) > 0
         /\ (Slot(p)' <=> Slot(p)) => Cardinality(Taken') = Cardinality(Taken)
<1>1. Taken = { q \in Clients : Slot(q) }
  BY DEF Taken, Slot
<1>2. Taken' = { q \in Clients : Slot(q)' }
  BY DEF Taken, Slot
<1>3. \A q \in Clients \ {p} : Slot(q)' <=> Slot(q)
  BY DEF Moves, Slot
<1>4. Cardinality(Taken) \in Nat
  BY FS_CardinalityType
<1>5. CASE Slot(p)' /\ ~Slot(p)
  <2>1. Taken' = Taken \cup {p} /\ p \notin Taken
    BY <1>1, <1>2, <1>3, <1>5
  <2> QED
    BY <1>4, <1>5, <2>1, FS_AddElement
<1>6. CASE ~Slot(p)' /\ Slot(p)
  <2>1. Taken' = Taken \ {p} /\ p \in Taken
    BY <1>1, <1>2, <1>3, <1>6
  <2>2. Cardinality(Taken) # 0
    BY <2>1, FS_EmptySet
  <2> QED
    BY <1>4, <1>6, <2>1, <2>2, FS_RemoveElement
<1>7. CASE Slot(p)' <=> Slot(p)
  <2>1. Taken' = Taken
    BY <1>1, <1>2, <1>3, <1>7
  <2> QED
    BY <1>4, <1>7, <2>1
<1> QED
  BY <1>5, <1>6, <1>7
-----------------------------------------------------------------------------
(***************************************************************************)
(* LimitInv: the inductive invariant behind ConnectionLimit.               *)
(***************************************************************************)
LimitInv == Inv /\ FailedGet /\ IsFiniteSet(Taken) /\ ConnectionLimit

(***************************************************************************)
(* LimitInit: a new pool has Capacity wrappers, all of them good.          *)
(***************************************************************************)
LEMMA LimitInit == Init => LimitInv /\ ConnectionsReturned
<1> SUFFICES ASSUME Init PROVE LimitInv /\ ConnectionsReturned
  OBVIOUS
<1>1. Inv
  BY InvInit
<1>2. /\ \A p \in Clients : call[p] = "out"
      /\ ~closed
      /\ DOMAIN resources = 1..Capacity /\ Len(resources) = Capacity
      /\ \A i \in 1..Capacity : resources[i] = NoRes
      /\ Capacity \in Nat
  BY PoolAssumption DEF Init, PoolInit, Procs
<1>3. Taken = {}
  BY <1>2 DEF Taken
<1>4. IsFiniteSet(Taken) /\ Cardinality(Taken) = 0
  BY <1>3, FS_EmptySet
<1>5. Good(resources) = 1..Capacity
  BY <1>2, HelperAssumption DEF Good
<1>6. Cardinality(Good(resources)) = Capacity
  BY <1>2, <1>5, FS_Interval
<1>7. Cardinality(Good(resources)) + Cardinality(Taken) <= Capacity
  BY <1>2, <1>4, <1>6
<1>8. ConnectionLimit
  BY <1>7 DEF ConnectionLimit, Good
<1>9. ConnectionsReturned
  BY <1>2, <1>4 DEF ConnectionsReturned
<1> QED
  BY <1>1, <1>2, <1>4, <1>8, <1>9 DEF LimitInv, FailedGet

(***************************************************************************)
(* LimitNext: the Put too many after a failed Get sends ResourceConn{nil}, *)
(* which does not count; every other Put sends what its Get took.          *)
(***************************************************************************)
LEMMA LimitNext == LimitInv /\ [Next]_vars => LimitInv'
<1> SUFFICES ASSUME LimitInv, [Next]_vars PROVE LimitInv'
  OBVIOUS
<1>1. Inv' /\ FailedGet'
  BY InvNext, PoolMoves DEF LimitInv
<1>2. resources \in Seq(Wrapper) /\ resources' \in Seq(Wrapper)
  BY <1>1 DEF LimitInv, Inv, TypeOK, PoolTypeOK
<1>3. /\ Cardinality(Good(resources)) + Cardinality(Taken) <= Capacity
      /\ Capacity \in Nat
      /\ Cardinality(Good(resources)) \in Nat
  BY <1>2, GoodFinite, PoolAssumption DEF LimitInv, ConnectionLimit, Good
<1>4. SUFFICES /\ IsFiniteSet(Taken')
               /\ Cardinality(Good(resources')) + Cardinality(Taken') <= Capacity
  BY <1>1 DEF LimitInv, ConnectionLimit, Good
<1>5. CASE UNCHANGED <<resources, call, held>>
  <2>1. Taken' = Taken
    BY <1>5 DEF Taken
  <2> QED
    BY <1>3, <1>5, <2>1 DEF LimitInv
<1>6. ASSUME NEW p \in Clients, Moves(p)
      PROVE  /\ IsFiniteSet(Taken')
             /\ Cardinality(Good(resources')) + Cardinality(Taken') <= Capacity
  <2>1. /\ IsFiniteSet(Taken') /\ Cardinality(Taken) \in Nat
        /\ Slot(p)' /\ ~Slot(p) => Cardinality(Taken') = Cardinality(Taken) + 1
        /\ ~Slot(p)' /\ Slot(p) => Cardinality(Taken') = Cardinality(Taken) - 1
        /\ (Slot(p)' <=> Slot(p)) => Cardinality(Taken') = Cardinality(Taken)
    BY <1>6, TakenMoves DEF LimitInv
  <2>2. CASE Same(p)
    BY <1>3, <2>1, <2>2 DEF Same
  <2>3. CASE Takes(p)
    <3>1. Cardinality(Good(resources'))
            = IF Head(resources) # BadRes THEN Cardinality(Good(resources)) - 1
                                          ELSE Cardinality(Good(resources))
      BY <1>2, <2>3, GoodTail DEF Takes
    <3> QED
      BY <1>3, <2>1, <2>3, <3>1 DEF Takes
  <2>4. CASE Gives(p)
    <3>1. PICK x \in Wrapper :
            resources' = Append(resources, x) /\ (Slot(p) <=> x # BadRes)
      BY <2>4 DEF Gives
    <3>2. Cardinality(Good(resources'))
            = IF x # BadRes THEN Cardinality(Good(resources)) + 1
                            ELSE Cardinality(Good(resources))
      BY <1>2, <3>1, GoodAppend
    <3> QED
      BY <1>3, <2>1, <2>4, <3>1, <3>2 DEF Gives
  <2>5. CASE Panics(p)
    <3>1. Good(resources') = Good(resources) /\ ~Slot(p)'
      BY <2>5 DEF Panics
    <3> QED
      BY <1>3, <2>1, <3>1
  <2> QED
    BY <1>6, <2>2, <2>3, <2>4, <2>5 DEF Moves
<1> QED
  BY <1>5, <1>6, PoolMoves DEF LimitInv

(***************************************************************************)
(* ConnectionsLimited: however many requests there are and however many    *)
(* dials fail, the engine never has more connections than it gave to       *)
(* InitRedisPool.                                                          *)
(***************************************************************************)
THEOREM ConnectionsLimited == Spec => []ConnectionLimit
<1>1. LimitInv => ConnectionLimit
  BY DEF LimitInv
<1> QED
  BY <1>1, LimitInit, LimitNext, PTL DEF Spec
-----------------------------------------------------------------------------
(***************************************************************************)
(* NoNilConn: as long as dialling works there is no ResourceConn{nil}, no  *)
(* failed Get and no panic.                                                *)
(***************************************************************************)
NoNilConn ==
  /\ \A i \in 1..Len(resources) : resources[i] # BadRes
  /\ \A p \in Clients :
       held[p] # BadRes /\ call[p] \notin {"sendback", "err", "panic"}

ReturnInv == LimitInv /\ NoNilConn /\ ConnectionsReturned

(***************************************************************************)
(* RoomToPut: a request with a connection finds room for it in the channel.*)
(***************************************************************************)
LEMMA RoomToPut ==
  ASSUME ReturnInv, NEW p \in Clients, call[p] \in {"ok", "err"}
  PROVE  Len(resources) < MaxCap
<1>1. p \in Taken
  BY DEF ReturnInv, NoNilConn, Taken
<1>2. Cardinality(Taken) \in Nat /\ Cardinality(Taken) # 0
  BY <1>1, FS_CardinalityType, FS_EmptySet DEF ReturnInv, LimitInv
<1>3. Len(resources) \in Nat
  BY DEF ReturnInv, LimitInv, Inv, TypeOK, PoolTypeOK
<1> QED
  BY <1>2, <1>3, PoolAssumption DEF ReturnInv, ConnectionsReturned

(***************************************************************************)
(* NilConnNever: no step makes a ResourceConn{nil} when dialling works.    *)
(***************************************************************************)
LEMMA NilConnNever ==
  ASSUME ~FactoryMayFail, ReturnInv, [Next]_vars
  PROVE  NoNilConn'
<1> USE DEF Procs, Goto, Hold, settings
<1>1. /\ call \in [Procs -> CallState]
      /\ held \in [Procs -> Wrapper]
      /\ resources \in Seq(Wrapper)
      /\ Len(resources) <= MaxCap
      /\ NoRes # BadRes /\ BadRes \notin Resources
  BY PoolAssumption, HelperAssumption
     DEF ReturnInv, LimitInv, Inv, TypeOK, PoolTypeOK, Wrapper
<1>2. /\ \A i \in 1..Len(resources) : resources[i] # BadRes
      /\ \A p \in Clients :
           held[p] # BadRes /\ call[p] \notin {"sendback", "err", "panic"}
      /\ ~closed
  BY DEF ReturnInv, NoNilConn, LimitInv, FailedGet
<1>3. ASSUME UNCHANGED <<resources, call, held>> PROVE NoNilConn'
  BY <1>2, <1>3 DEF NoNilConn
<1>4. ASSUME NEW p \in Clients, NEW o \in {"block", "confirm"}, NEW k \in Keys,
             Request(p, o, k)
      PROVE  NoNilConn'
  BY <1>1, <1>2, <1>4 DEF Request, GetCall, NoNilConn
<1>5. ASSUME NEW p \in Clients, TakeWrapper(p) PROVE NoNilConn'
  <2>1. /\ resources # <<>> /\ resources' = Tail(resources)
        /\ held' = [held EXCEPT ![p] = Head(resources)]
        /\ call' = [call EXCEPT ![p] = "unwrap"]
    BY <1>5 DEF TakeWrapper, Receive
  <2>2. /\ Head(resources) # BadRes
        /\ \A i \in 1..Len(Tail(resources)) : Tail(resources)[i] # BadRes
    BY <1>1, <1>2, <2>1
  <2> QED
    BY <1>1, <1>2, <2>1, <2>2 DEF NoNilConn
<1>6. ASSUME NEW p \in Clients, Unwrap(p) PROVE NoNilConn'
  <2>1. ~FactoryFail(p) /\ ~SendBack(p) /\ ~CloseNilConn(p)
    BY <1>2 DEF FactoryFail, SendBack, CloseNilConn
  <2>2. CASE Reuse(p) \/ CloseIdle(p) \/ \E c \in Resources : Dial(p, c)
    BY <1>1, <1>2, <2>2
       DEF Reuse, CloseIdle, Dial, Expire, FactoryOk, NoNilConn
  <2> QED
    BY <1>6, <2>1, <2>2 DEF Unwrap
<1>7. ASSUME NEW p \in Clients, ReturnConnection(p) PROVE NoNilConn'
  <2>1. Len(resources) < MaxCap
    BY <1>7, RoomToPut DEF ReturnConnection, At
  <2>2. Put(p, held[p])
    BY <1>1, <1>2, <1>7, <2>1, PoolAssumption DEF ReturnConnection, PutPanic
  <2>3. /\ resources' = Append(resources, held[p])
        /\ held' = [held EXCEPT ![p] = NoRes]
        /\ call' = [call EXCEPT ![p] = "out"]
    BY <2>2 DEF Put
  <2>4. \A i \in 1..Len(resources') : resources'[i] # BadRes
    BY <1>1, <1>2, <2>3
  <2> QED
    BY <1>1, <1>2, <2>3, <2>4 DEF NoNilConn
<1>8. ASSUME NEW p \in Clients PROVE ~Recover(p)
  BY <1>2 DEF Recover
<1>9. ASSUME NEW p \in Clients,
             \/ NilConn(p) \/ Exists(p) \/ Watch(p) \/ Get(p) \/ Multi(p)
             \/ Set(p) \/ Exec(p)
      PROVE  UNCHANGED <<resources, call, held>>
  BY <1>9
     DEF NilConn, Exists, Watch, Get, Multi, Set, Exec, ExecCommit, ExecAbort,
         ExecBroken, ExecReplyLost, poolVars
<1>10. ASSUME \/ \E k \in Keys, s \in {FREE, CONFIRMED} : LoadSeatsIntoRedis(k, s)
              \/ \E c \in Resources : Break(c)
              \/ BreakLoad
              \/ UNCHANGED vars
       PROVE  UNCHANGED <<resources, call, held>>
  BY <1>10 DEF LoadSeatsIntoRedis, Break, BreakLoad, vars, poolVars
<1>11. ASSUME NEW p \in Clients, RequestStep(p) PROVE NoNilConn'
  BY <1>3, <1>5, <1>6, <1>7, <1>8, <1>9, <1>11
     DEF RequestStep, GetConnection, BlockSeat, ConfirmSeat, Commands
<1> QED
  BY <1>3, <1>4, <1>10, <1>11 DEF Next

(***************************************************************************)
(* ReturnNext: then a Put brings back exactly what the Get took.           *)
(***************************************************************************)
LEMMA ReturnNext ==
  ASSUME ~FactoryMayFail
  PROVE  ReturnInv /\ [Next]_vars => ReturnInv'
<1> SUFFICES ASSUME ReturnInv, [Next]_vars PROVE ReturnInv'
  OBVIOUS
<1>1. LimitInv' /\ NoNilConn'
  BY LimitNext, NilConnNever DEF ReturnInv
<1>2. /\ resources \in Seq(Wrapper) /\ Len(resources) \in Nat
      /\ Len(resources) + Cardinality(Taken) = Capacity
      /\ \A i \in 1..Len(resources) : resources[i] # BadRes
      /\ \A i \in 1..Len(resources') : resources'[i] # BadRes
  BY <1>1
     DEF ReturnInv, ConnectionsReturned, NoNilConn, LimitInv, Inv, TypeOK, PoolTypeOK
<1>3. SUFFICES Len(resources') + Cardinality(Taken') = Capacity
  BY <1>1 DEF ReturnInv, ConnectionsReturned
<1>4. CASE UNCHANGED <<resources, call, held>>
  <2>1. Taken' = Taken
    BY <1>4 DEF Taken
  <2> QED
    BY <1>2, <1>4, <2>1
<1>5. ASSUME NEW p \in Clients, Moves(p)
      PROVE  Len(resources') + Cardinality(Taken') = Capacity
  <2>1. /\ Cardinality(Taken) \in Nat
        /\ Slot(p)' /\ ~Slot(p) => Cardinality(Taken') = Cardinality(Taken) + 1
        /\ ~Slot(p)' /\ Slot(p) => Cardinality(Taken') = Cardinality(Taken) - 1
        /\ (Slot(p)' <=> Slot(p)) => Cardinality(Taken') = Cardinality(Taken)
    BY <1>5, TakenMoves DEF ReturnInv, LimitInv
  <2>2. CASE Same(p)
    BY <1>2, <2>1, <2>2 DEF Same
  <2>3. CASE Takes(p)
    <3>1. Head(resources) # BadRes /\ Len(resources') = Len(resources) - 1
      BY <1>2, <2>3 DEF Takes
    <3> QED
      BY <1>2, <2>1, <2>3, <3>1 DEF Takes
  <2>4. CASE Gives(p)
    <3>1. PICK x \in Wrapper :
            resources' = Append(resources, x) /\ (Slot(p) <=> x # BadRes)
      BY <2>4 DEF Gives
    <3>2. Len(resources') = Len(resources) + 1 /\ x # BadRes
      BY <1>2, <3>1
    <3> QED
      BY <1>2, <2>1, <2>4, <3>1, <3>2 DEF Gives
  <2>5. CASE Panics(p)
    <3>1. Len(resources) < MaxCap
      BY <2>5, RoomToPut DEF Panics
    <3> QED
      BY <1>2, <2>5, <3>1, PoolAssumption DEF Panics
  <2> QED
    BY <1>5, <2>2, <2>3, <2>4, <2>5 DEF Moves
<1> QED
  BY <1>4, <1>5, PoolMoves DEF ReturnInv, LimitInv

(***************************************************************************)
(* ConnectionsComeBack: as long as dialling works, every connection that a *)
(* request takes comes back, whatever it answers and although connections  *)
(* break, and none comes back twice.                                       *)
(***************************************************************************)
THEOREM ConnectionsComeBack ==
  ASSUME ~FactoryMayFail
  PROVE  Spec => []ConnectionsReturned
<1>1. Init => ReturnInv
  <2>1. Init => NoNilConn
    BY HelperAssumption, PoolAssumption DEF Init, PoolInit, NoNilConn, Procs
  <2> QED
    BY <2>1, LimitInit DEF ReturnInv
<1>2. ReturnInv => ConnectionsReturned
  BY DEF ReturnInv
<1> QED
  BY <1>1, <1>2, ReturnNext, PTL DEF Spec
-----------------------------------------------------------------------------
(***************************************************************************)
(* KoInv, the invariant behind KoMeansNoWrite: a request that has written  *)
(* its seat sends no further command; one about to Put is back from its    *)
(* Get; and a connection on which the reply to EXEC was lost stays broken  *)
(* as long as the request has it.                                          *)
(***************************************************************************)
KoOf(p) ==
  /\ committed[p] => pc[p] \in {"put", "idle"}
  /\ pc[p] = "put" => call[p] \in {"ok", "err", "panic"}
  /\ pc[p] = "put" /\ call[p] # "panic" /\ res[p] = "ko" /\ committed[p] =>
       held[p] \in Resources /\ ~alive[held[p]]

KoInv == \A p \in Clients : KoOf(p)

(***************************************************************************)
(* KoFrame: a step of p touches no other request, and brings a connection  *)
(* up only if nobody has it.                                               *)
(***************************************************************************)
LEMMA KoFrame ==
  ASSUME KoInv, NEW p \in Clients, KoOf(p)',
         \A q \in Clients \ {p} :
           /\ pc'[q] = pc[q] /\ call'[q] = call[q] /\ held'[q] = held[q]
           /\ res'[q] = res[q] /\ committed'[q] = committed[q],
         \A c \in Resources :
           alive'[c] => alive[c] \/ \A q \in Clients \ {p} : held[q] # c
  PROVE  KoInv'
<1> SUFFICES ASSUME NEW q \in Clients, q # p PROVE KoOf(q)'
  BY DEF KoInv
<1>1. KoOf(q)
  BY DEF KoInv
<1> QED
  BY <1>1 DEF KoOf

(***************************************************************************)
(* KoSteps: the steps of a request, seen by KoInv.                         *)
(***************************************************************************)
LEMMA KoSteps ==
  ASSUME Inv, KoInv, NEW p \in Clients,
         \/ \E o \in {"block", "confirm"}, k \in Keys : Request(p, o, k)
         \/ RequestStep(p)
  PROVE  KoInv'
<1> USE DEF Procs, Goto, Hold, settings
<1>1. /\ pc \in [Clients -> {"idle", "exists", "watch", "get", "multi", "set",
                             "exec", "put"}]
      /\ res \in [Clients -> {"none", "ok", "ko", "panic"}]
      /\ call \in [Procs -> CallState]
      /\ held \in [Procs -> Wrapper]
      /\ alive \in [Resources -> BOOLEAN]
      /\ committed \in [Clients -> BOOLEAN]
  BY DEF Inv, TypeOK, PoolTypeOK
<1>2. KoOf(p)
  BY DEF KoInv
<1>3. ASSUME NEW o \in {"block", "confirm"}, NEW k \in Keys, Request(p, o, k)
      PROVE  KoInv'
  <2>1. KoOf(p)'
    <3>1. pc'[p] \in {"exists", "watch"}
      BY <1>1, <1>3 DEF Request, FirstCommand
    <3>2. ~committed'[p]
      BY <1>1, <1>3, Zenon DEF Request
    <3> QED
      BY <3>1, <3>2 DEF KoOf
  <2> QED
    BY <1>1, <1>3, <2>1, KoFrame DEF Request, GetCall, connVars
<1>4. CASE GetConnection(p)
  <2>1. pc' = pc /\ res' = res /\ committed' = committed
    BY <1>4
       DEF GetConnection, TakeWrapper, Unwrap, CloseIdle, Dial, CloseNilConn,
           reqVars, historyVars
  <2>2. pc[p] # "put"
    BY <1>2, <1>4
       DEF KoOf, GetConnection, TakeWrapper, Unwrap, CloseIdle, Dial,
           CloseNilConn, Receive, Reuse, FactoryFail, FactoryOk, SendBack, Expire
  <2>3. KoOf(p)'
    BY <1>2, <2>1, <2>2 DEF KoOf
  <2>4. \A q \in Clients \ {p} : call'[q] = call[q] /\ held'[q] = held[q]
    BY <1>1, <1>4
       DEF GetConnection, TakeWrapper, Unwrap, CloseIdle, Dial, CloseNilConn,
           Receive, Reuse, FactoryFail, FactoryOk, SendBack, Expire
  <2>5. \A c \in Resources :
          alive'[c] => alive[c] \/ \A q \in Clients \ {p} : held[q] # c
    <3>1. CASE TakeWrapper(p) \/ CloseNilConn(p)
               \/ UNCHANGED <<store, connVars, reqVars, loadConn, historyVars>>
      BY <3>1 DEF TakeWrapper, CloseNilConn, connVars
    <3>2. CASE CloseIdle(p)
      BY <1>1, <3>2 DEF CloseIdle, Disconnect
    <3>3. ASSUME NEW c \in Resources, Dial(p, c), NEW d \in Resources, alive'[d]
          PROVE  alive[d] \/ \A q \in Clients \ {p} : held[q] # d
      BY <1>1, <3>3 DEF Dial, FactoryOk, InUse
    <3> QED
      BY <1>4, <3>1, <3>2, <3>3 DEF GetConnection, Unwrap
  <2> QED
    BY <2>1, <2>3, <2>4, <2>5, KoFrame
<1>5. CASE NilConn(p) \/ Exists(p) \/ Watch(p) \/ Get(p) \/ Multi(p) \/ Set(p)
           \/ ExecBroken(p)
  <2>1. /\ committed' = committed /\ alive' = alive
        /\ call' = call /\ held' = held
        /\ call[p] \in {"ok", "err"} /\ pc[p] \notin {"put", "idle"}
    BY <1>5
       DEF NilConn, Exists, Watch, Get, Multi, Set, ExecBroken, At, poolVars,
           connVars, historyVars, FirstCommand
  <2>2. \A q \in Clients \ {p} : pc'[q] = pc[q] /\ res'[q] = res[q]
    BY <1>1, <1>5
       DEF NilConn, Exists, Watch, Get, Multi, Set, ExecBroken, Finish, Advance
  <2>3. KoOf(p)'
    BY <1>2, <2>1 DEF KoOf
  <2> QED
    BY <2>1, <2>2, <2>3, KoFrame
<1>6. CASE ExecAbort(p) \/ ExecCommit(p) \/ ExecReplyLost(p)
  <2>1. /\ call' = call /\ held' = held
        /\ call[p] \in {"ok", "err"}
        /\ held[p] \in Resources
        /\ pc'[p] = "put"
        /\ \A q \in Clients \ {p} :
             /\ pc'[q] = pc[q] /\ res'[q] = res[q]
             /\ committed'[q] = committed[q]
    BY <1>1, <1>6
       DEF ExecAbort, ExecCommit, ExecReplyLost, At, Finish, Commit, poolVars,
           historyVars, Inv, TransactionInv, InRequest
  <2>2. \/ res'[p] = "ok" /\ alive' = alive
        \/ alive' = [alive EXCEPT ![held[p]] = FALSE]
    BY <1>1, <1>6 DEF ExecAbort, ExecCommit, ExecReplyLost, Finish
  <2>3. \A c \in Resources : alive'[c] => alive[c]
    BY <1>1, <2>1, <2>2
  <2>4. res'[p] = "ok" \/ ~alive'[held'[p]]
    BY <1>1, <2>1, <2>2
  <2>5. KoOf(p)'
    BY <2>1, <2>4 DEF KoOf
  <2> QED
    BY <2>1, <2>3, <2>5, KoFrame
<1>7. CASE ReturnConnection(p) \/ Recover(p)
  <2>1. /\ alive' = alive /\ committed' = committed
        /\ \A q \in Clients \ {p} :
             /\ call'[q] = call[q] /\ held'[q] = held[q]
             /\ pc'[q] = pc[q] /\ res'[q] = res[q]
        /\ pc'[p] = "idle" \/ (pc'[p] = pc[p] /\ call'[p] = "panic")
    <3>1. CASE ReturnConnection(p) /\ Respond(p)
      BY <1>1, <3>1
         DEF ReturnConnection, Respond, Put, PutPanic, connVars, historyVars
    <3>2. CASE PutPanic(p) /\ UNCHANGED <<reqVars, connVars, historyVars>>
      BY <1>1, <3>2 DEF PutPanic, reqVars, connVars, historyVars
    <3>3. CASE Recover(p)
      BY <1>1, <3>3 DEF Recover, Respond, connVars, historyVars
    <3> QED
      BY <1>7, <3>1, <3>2, <3>3 DEF ReturnConnection
  <2>2. KoOf(p)'
    BY <1>2, <2>1 DEF KoOf
  <2> QED
    BY <2>1, <2>2, KoFrame
<1> QED
  BY <1>3, <1>4, <1>5, <1>6, <1>7
     DEF RequestStep, BlockSeat, ConfirmSeat, Commands, Exec

(***************************************************************************)
(* KoAlways: KoInv holds throughout.                                       *)
(***************************************************************************)
LEMMA KoAlways == Spec => [](Inv /\ KoInv)
<1>1. Init => Inv /\ KoInv
  <2>1. Init => KoInv
    BY DEF Init, KoInv, KoOf
  <2> QED
    BY <2>1, InvInit
<1>2. Inv /\ KoInv /\ [Next]_vars => Inv' /\ KoInv'
  <2> SUFFICES ASSUME Inv, KoInv, [Next]_vars PROVE KoInv'
    BY InvNext
  <2>1. ASSUME UNCHANGED <<pc, res, call, held, committed>>,
               \A c \in Resources : alive'[c] => alive[c]
        PROVE  KoInv'
    BY <2>1 DEF KoInv, KoOf
  <2>2. CASE \E k \in Keys, s \in {FREE, CONFIRMED} : LoadSeatsIntoRedis(k, s)
    BY <2>1, <2>2 DEF LoadSeatsIntoRedis, reqVars, poolVars
  <2>3. ASSUME NEW c \in Resources, Break(c) PROVE KoInv'
    <3>1. alive' = [alive EXCEPT ![c] = FALSE] /\ alive \in [Resources -> BOOLEAN]
      BY <2>3 DEF Break, Disconnect, Inv, TypeOK
    <3>2. \A d \in Resources : alive'[d] => alive[d]
      BY <3>1
    <3> QED
      BY <2>1, <2>3, <3>2 DEF Break, reqVars, poolVars, historyVars
  <2>4. CASE BreakLoad \/ UNCHANGED vars
    BY <2>1, <2>4 DEF BreakLoad, vars, reqVars, poolVars, historyVars, connVars
  <2> QED
    BY <2>2, <2>3, <2>4, KoSteps DEF Next
<1> QED
  BY <1>1, <1>2, PTL DEF Spec

(***************************************************************************)
(* KoIsHonest: a request that answers "ko" has not written its seat,       *)
(* unless its connection broke under the EXEC, whatever the other requests *)
(* and loads did to the seat.                                              *)
(***************************************************************************)
THEOREM KoIsHonest == Spec => []KoMeansNoWrite
<1>1. KoInv => KoMeansNoWrite
  BY DEF KoInv, KoOf, KoMeansNoWrite
<1> QED
  BY <1>1, KoAlways, PTL
=============================================================================
