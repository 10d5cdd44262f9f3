-------------------------- MODULE RedisHelperProofs --------------------------
(***************************************************************************)
(* Proofs about RedisHelper, for any number of requests, connections and   *)
(* seats: the type invariant, the exclusive use of connections, the        *)
(* invariant of the optimistic transactions, and that the whole implements *)
(* SeatCache.                                                              *)
(***************************************************************************)
EXTENDS RedisHelper, ResourcePoolProofs

(***************************************************************************)
(* InRequest: a request in progress has its operation and its seat; past   *)
(* its first command it has a connection, which it holds until the Put.    *)
(***************************************************************************)
InRequest ==
  \A p \in Clients :
    /\ pc[p] # "idle" => op[p] \in {"block", "confirm"} /\ key[p] \in Keys
    /\ pc[p] \in {"get", "multi", "set", "exec"} =>
         call[p] \in {"ok", "err"} /\ held[p] \in Resources

(***************************************************************************)
(* Watching: a request about to GET its seat watches it.                   *)
(***************************************************************************)
Watching ==
  \A p \in Clients :
    pc[p] = "get" /\ alive[held[p]] => key[p] \in watched[held[p]]

(***************************************************************************)
(* QueuedByRequest: what EXEC will write is what the request queued, its   *)
(* own seat and nothing else.                                              *)
(***************************************************************************)
QueuedByRequest ==
  /\ \A c \in Resources : /\ multi[c] => alive[c]
                          /\ multi[c] \/ queued[c] = Nothing
  /\ \A p \in Clients :
       /\ pc[p] = "set" /\ alive[held[p]] => multi[held[p]]
       /\ pc[p] = "set" => queued[held[p]] = Nothing
       /\ pc[p] = "exec" /\ alive[held[p]] =>
            queued[held[p]] = [Nothing EXCEPT ![key[p]] = To(op[p])]

(***************************************************************************)
(* Inv, the inductive invariant.                                           *)
(***************************************************************************)
TransactionInv ==
  /\ InRequest
  /\ Watching
  /\ WatchGuards
  /\ TransactionsIsolated
  /\ QueuedByRequest

Inv == TypeOK /\ Exclusive /\ TransactionInv
-----------------------------------------------------------------------------
(***************************************************************************)
(* PoolPart: seen from the pool, every step of the helper is one of the    *)
(* pool's steps by some request, or nothing.                               *)
(***************************************************************************)
LEMMA PoolPart ==
  ASSUME PoolTypeOK, Exclusive, [Next]_vars
  PROVE  PoolTypeOK' /\ Exclusive'
<1>1. ASSUME UNCHANGED poolVars PROVE PoolTypeOK' /\ Exclusive'
  BY <1>1
     DEF poolVars, PoolTypeOK, Exclusive, HeldOnce, HeldNotPooled, PooledOnce
<1>2. ASSUME NEW p \in Clients, GetStep(p) PROVE PoolTypeOK' /\ Exclusive'
  BY <1>2, GetStepSafe DEF Procs
<1>3. ASSUME NEW p \in Clients, PutStep(p) PROVE PoolTypeOK' /\ Exclusive'
  BY <1>3, PutStepSafe DEF Procs
<1>4. ASSUME NEW p \in Clients, NEW o \in {"block", "confirm"}, NEW k \in Keys,
             Request(p, o, k)
      PROVE  GetStep(p)
  BY <1>4 DEF Request, GetStep
<1>5. ASSUME NEW p \in Clients, RequestStep(p)
      PROVE  GetStep(p) \/ PutStep(p) \/ UNCHANGED poolVars
  <2>1. CASE TakeWrapper(p)
    BY <2>1 DEF TakeWrapper, GetStep
  <2>2. CASE CloseNilConn(p)
    BY <2>2 DEF CloseNilConn, PutStep, Leave, CallState
  <2>3. CASE Unwrap(p) /\ ~CloseNilConn(p)
    BY <2>3 DEF Unwrap, CloseIdle, Dial, GetStep
  <2>4. CASE Recover(p)
    BY <2>4 DEF Recover, PutStep, Leave, CallState
  <2>5. CASE ReturnConnection(p)
    BY <2>5 DEF ReturnConnection, PutStep
  <2>6. CASE NilConn(p) \/ Exists(p) \/ Watch(p) \/ Get(p) \/ Multi(p) \/ Set(p)
    BY <2>6 DEF NilConn, Exists, Watch, Get, Multi, Set
  <2>7. CASE Exec(p)
    BY <2>7 DEF Exec, ExecCommit, ExecAbort, ExecBroken, ExecReplyLost
  <2> QED
    BY <1>5, <2>1, <2>2, <2>3, <2>4, <2>5, <2>6, <2>7
       DEF RequestStep, GetConnection, BlockSeat, ConfirmSeat, Commands
<1>6. ASSUME NEW k \in Keys, NEW s \in {FREE, CONFIRMED},
             LoadSeatsIntoRedis(k, s)
      PROVE  UNCHANGED poolVars
  BY <1>6 DEF LoadSeatsIntoRedis
<1>7. ASSUME (\E c \in Resources : Break(c)) \/ BreakLoad \/ UNCHANGED vars
      PROVE  UNCHANGED poolVars
  BY <1>7 DEF Break, BreakLoad, vars
<1> QED
  BY <1>1, <1>2, <1>3, <1>4, <1>5, <1>6, <1>7 DEF Next

(***************************************************************************)
(* QuietStep: a step of a request outside of its optimistic transaction.   *)
(* It touches no other request, and if it touches a connection then one    *)
(* that no transaction is using, leaving it without any.                   *)
(***************************************************************************)
Busy == {"get", "multi", "set", "exec"}

SameConn(c) ==
  /\ alive'[c] = alive[c]
  /\ watched'[c] = watched[c]
  /\ dirty'[c] = dirty[c]
  /\ multi'[c] = multi[c]
  /\ queued'[c] = queued[c]

SameRequest(q) ==
  /\ pc'[q] = pc[q] /\ op'[q] = op[q] /\ key'[q] = key[q]
  /\ call'[q] = call[q] /\ held'[q] = held[q]

LEMMA QuietStep ==
  ASSUME TransactionInv, NEW p \in Clients,
         pc[p] \notin Busy, pc'[p] \notin Busy,
         pc'[p] # "idle" => op'[p] \in {"block", "confirm"} /\ key'[p] \in Keys,
         \A q \in Clients \ {p} : SameRequest(q),
         \A c \in Resources :
           \/ SameConn(c)
           \/ /\ ~multi'[c] /\ queued'[c] = Nothing
              /\ \A q \in Clients : pc[q] \in Busy => held[q] # c,
         UNCHANGED store
  PROVE  TransactionInv'
<1>1. \A q \in Clients : pc'[q] \in Busy =>
        /\ q # p
        /\ SameRequest(q)
        /\ held[q] \in Resources
        /\ SameConn(held[q])
  BY DEF TransactionInv, InRequest, SameRequest, Busy
<1>2. InRequest'
  BY <1>1 DEF TransactionInv, InRequest, SameRequest, Busy
<1>3. Watching'
  BY <1>1 DEF TransactionInv, Watching, SameRequest, SameConn, Busy
<1>4. WatchGuards'
  BY <1>1 DEF TransactionInv, WatchGuards, SameRequest, SameConn, Busy, From
<1>5. TransactionsIsolated'
  <2> SUFFICES ASSUME NEW c \in Resources, multi'[c]
               PROVE  \E q \in Clients : held'[q] = c /\ pc'[q] \in {"set", "exec"}
    BY DEF TransactionsIsolated
  <2>1. multi[c]
    BY DEF SameConn
  <2>2. PICK q \in Clients : held[q] = c /\ pc[q] \in {"set", "exec"}
    BY <2>1 DEF TransactionInv, TransactionsIsolated
  <2>3. q # p /\ SameRequest(q)
    BY <2>2 DEF Busy
  <2> QED
    BY <2>2, <2>3 DEF SameRequest
<1>6. QueuedByRequest'
  <2>1. \A c \in Resources : /\ multi'[c] => alive'[c]
                             /\ multi'[c] \/ queued'[c] = Nothing
    BY DEF TransactionInv, QueuedByRequest, SameConn
  <2>2. ASSUME NEW q \in Clients, pc'[q] = "set"
        PROVE  /\ alive'[held'[q]] => multi'[held'[q]]
               /\ queued'[held'[q]] = Nothing
    <3>1. pc[q] = "set" /\ SameRequest(q) /\ SameConn(held[q])
      BY <1>1, <2>2 DEF SameRequest, Busy
    <3>2. (alive[held[q]] => multi[held[q]]) /\ queued[held[q]] = Nothing
      BY <3>1 DEF TransactionInv, QueuedByRequest
    <3> QED
      BY <3>1, <3>2 DEF SameRequest, SameConn
  <2>3. ASSUME NEW q \in Clients, pc'[q] = "exec", alive'[held'[q]]
        PROVE  queued'[held'[q]] = [Nothing EXCEPT ![key'[q]] = To(op'[q])]
    <3>1. pc[q] = "exec" /\ alive[held[q]] /\ SameRequest(q) /\ SameConn(held[q])
      BY <1>1, <2>3 DEF SameRequest, SameConn, Busy
    <3>2. queued[held[q]] = [Nothing EXCEPT ![key[q]] = To(op[q])]
      BY <3>1 DEF TransactionInv, QueuedByRequest
    <3> QED
      BY <3>1, <3>2 DEF SameRequest, SameConn
  <2> QED
    BY <2>1, <2>2, <2>3 DEF QueuedByRequest
<1> QED
  BY <1>2, <1>3, <1>4, <1>5, <1>6 DEF TransactionInv

(***************************************************************************)
(* QuietSteps: starting a request, waiting for and getting a connection,   *)
(* the commands before the WATCH, the Put and the recovery from a panic    *)
(* are quiet steps.                                                        *)
(***************************************************************************)
LEMMA QuietSteps ==
  ASSUME Inv, NEW p \in Clients,
         \/ \E o \in {"block", "confirm"}, k \in Keys : Request(p, o, k)
         \/ GetConnection(p)
         \/ op[p] \in {"block", "confirm"} /\ NilConn(p)
         \/ Exists(p)
         \/ ReturnConnection(p)
         \/ Recover(p)
  PROVE  TransactionInv'
<1> USE DEF Procs
<1>1. /\ pc \in [Clients -> {"idle", "exists", "watch", "get", "multi", "set",
                            "exec", "put"}]
      /\ op \in [Clients -> {"none", "block", "confirm"}]
      /\ key \in [Clients -> Keys \cup {Nobody}]
      /\ call \in [Procs -> CallState]
      /\ held \in [Procs -> Wrapper]
  BY DEF Inv, TypeOK, PoolTypeOK
<1>2. ASSUME UNCHANGED connVars
      PROVE  \A c \in Resources : SameConn(c)
  BY <1>2 DEF connVars, SameConn
<1>3. ASSUME NEW o \in {"block", "confirm"}, NEW k \in Keys, Request(p, o, k)
      PROVE  TransactionInv'
  <2>1. /\ pc[p] = "idle"
        /\ pc'[p] \in {"exists", "watch"}
        /\ op'[p] = o /\ key'[p] = k
        /\ \A q \in Clients \ {p} : SameRequest(q)
        /\ UNCHANGED store /\ UNCHANGED connVars
    BY <1>1, <1>3
       DEF Request, GetCall, Goto, FirstCommand, SameRequest
  <2> QED
    BY <1>2, <2>1, QuietStep DEF Busy, Inv
<1>4. ASSUME UNCHANGED <<store, connVars, reqVars>>, pc[p] \notin Busy,
             \A q \in Clients \ {p} : call'[q] = call[q] /\ held'[q] = held[q]
      PROVE  TransactionInv'
  <2>1. /\ pc' = pc /\ op' = op /\ key' = key
        /\ UNCHANGED store /\ UNCHANGED connVars
    BY <1>4 DEF reqVars
  <2>2. /\ pc'[p] \notin Busy
        /\ pc'[p] # "idle" => op'[p] \in {"block", "confirm"} /\ key'[p] \in Keys
        /\ \A q \in Clients \ {p} : SameRequest(q)
    BY <1>4, <2>1 DEF SameRequest, Inv, TransactionInv, InRequest
  <2> QED
    BY <1>2, <1>4, <2>1, <2>2, QuietStep DEF Inv
<1>5. CASE GetConnection(p)
  <2>1. pc[p] \notin Busy
    <3>1. call[p] \in {"recv", "unwrap", "sendback"}
      BY <1>5
         DEF GetConnection, TakeWrapper, Unwrap, CloseIdle, CloseNilConn, Dial,
             Receive, Expire, Reuse, FactoryOk, FactoryFail, SendBack
    <3> QED
      BY <3>1 DEF Inv, TransactionInv, InRequest, Busy
  <2>2. CASE TakeWrapper(p)
    <3>1. \A q \in Clients \ {p} : call'[q] = call[q] /\ held'[q] = held[q]
      BY <1>1, <2>2 DEF TakeWrapper, Receive, Goto, Hold
    <3> QED
      BY <1>4, <2>1, <2>2, <3>1 DEF TakeWrapper
  <2>3. CASE /\ Reuse(p) \/ FactoryFail(p) \/ SendBack(p)
             /\ UNCHANGED <<store, connVars, reqVars, loadConn, historyVars>>
    <3>1. \A q \in Clients \ {p} : call'[q] = call[q] /\ held'[q] = held[q]
      BY <1>1, <2>3 DEF Reuse, FactoryFail, SendBack, Goto, Hold
    <3> QED
      BY <1>4, <2>1, <2>3, <3>1
  <2>4. CASE CloseNilConn(p)
    <3>1. \A q \in Clients \ {p} : call'[q] = call[q] /\ held'[q] = held[q]
      BY <1>1, <2>4 DEF CloseNilConn, Goto, Hold
    <3> QED
      BY <1>4, <2>1, <2>4, <3>1 DEF CloseNilConn
  <2>5. ASSUME CloseIdle(p) \/ \E c \in Resources : Dial(p, c)
        PROVE  /\ pc' = pc /\ op' = op /\ key' = key /\ UNCHANGED store
               /\ \A q \in Clients \ {p} : SameRequest(q)
    BY <1>1, <2>5
       DEF CloseIdle, Dial, Expire, FactoryOk, Goto, Hold, SameRequest, reqVars
  <2>6. ASSUME NEW c \in Resources, Dial(p, c) \/ (CloseIdle(p) /\ c = held[p])
        PROVE  /\ ~multi'[c] /\ queued'[c] = Nothing
               /\ \A d \in Resources \ {c} : SameConn(d)
    BY <2>6 DEF Dial, CloseIdle, Disconnect, SameConn, Inv, TypeOK
  <2>7. ASSUME NEW c \in Resources, Dial(p, c) \/ (CloseIdle(p) /\ c = held[p])
        PROVE  \A q \in Clients : pc[q] \in Busy => held[q] # c
    BY <2>1, <2>7
       DEF Dial, CloseIdle, FactoryOk, InUse, Inv, Exclusive, HeldOnce
  <2>8. ASSUME NEW c \in Resources, Dial(p, c) \/ (CloseIdle(p) /\ c = held[p])
        PROVE  TransactionInv'
    <3>1. /\ pc'[p] \notin Busy
          /\ pc'[p] # "idle" => op'[p] \in {"block", "confirm"} /\ key'[p] \in Keys
      BY <2>1, <2>5, <2>8 DEF Inv, TransactionInv, InRequest
    <3> QED
      BY <2>1, <2>5, <2>6, <2>7, <2>8, <3>1, QuietStep DEF Inv
  <2>9. CASE CloseIdle(p)
    BY <2>8, <2>9 DEF CloseIdle, Expire
  <2> QED
    BY <1>5, <2>2, <2>3, <2>4, <2>8, <2>9 DEF GetConnection, Unwrap
<1>6. CASE (op[p] \in {"block", "confirm"} /\ NilConn(p)) \/ Exists(p)
  <2>1. /\ pc[p] \in {"exists", "watch"}
        /\ pc'[p] \in {"watch", "put"}
        /\ op' = op /\ key' = key /\ call' = call /\ held' = held
        /\ UNCHANGED store /\ UNCHANGED connVars
        /\ \A q \in Clients \ {p} : pc'[q] = pc[q]
    BY <1>1, <1>6
       DEF NilConn, Exists, At, FirstCommand, Finish, Advance, poolVars
  <2>2. /\ op'[p] \in {"block", "confirm"} /\ key'[p] \in Keys
        /\ \A q \in Clients \ {p} : SameRequest(q)
    BY <2>1 DEF SameRequest, Inv, TransactionInv, InRequest
  <2> QED
    BY <1>2, <2>1, <2>2, QuietStep DEF Busy, Inv
<1>7. CASE ReturnConnection(p) \/ Recover(p)
  <2>1. pc[p] \notin Busy
    BY <1>7 DEF ReturnConnection, Recover, At, Inv, TransactionInv, InRequest, Busy
  <2>2. CASE ReturnConnection(p) /\ UNCHANGED reqVars
    <3>1. \A q \in Clients \ {p} : call'[q] = call[q] /\ held'[q] = held[q]
      BY <1>1, <2>2 DEF ReturnConnection, Put, PutPanic, Goto, Hold
    <3> QED
      BY <1>4, <2>1, <2>2, <3>1 DEF ReturnConnection
  <2>3. CASE (ReturnConnection(p) /\ Respond(p)) \/ Recover(p)
    <3>1. /\ pc'[p] = "idle"
          /\ UNCHANGED store /\ UNCHANGED connVars
          /\ \A q \in Clients \ {p} : SameRequest(q)
      BY <1>1, <2>3
         DEF ReturnConnection, Recover, Respond, Put, PutPanic, Goto, Hold,
             SameRequest
    <3> QED
      BY <1>2, <2>1, <3>1, QuietStep DEF Busy, Inv
  <2> QED
    BY <1>7, <2>2, <2>3 DEF ReturnConnection
<1> QED
  BY <1>3, <1>5, <1>6, <1>7

(***************************************************************************)
(* CommandSteps: WATCH, GET, MULTI and SET.  Only the connection of the    *)
(* request changes, and no other request has it.                           *)
(***************************************************************************)
LEMMA CommandSteps ==
  ASSUME Inv, NEW p \in Clients, op[p] \in {"block", "confirm"},
         Watch(p) \/ Get(p) \/ Multi(p) \/ Set(p)
  PROVE  TransactionInv'
<1> DEFINE c == held[p]
<1> USE DEF Procs
<1>1. /\ pc \in [Clients -> {"idle", "exists", "watch", "get", "multi", "set",
                            "exec", "put"}]
      /\ alive \in [Resources -> BOOLEAN]
      /\ watched \in [Resources -> SUBSET Keys]
      /\ multi \in [Resources -> BOOLEAN]
      /\ queued \in [Resources -> [Keys -> Status \cup {MISSING}]]
  BY DEF Inv, TypeOK
<1>2. /\ pc[p] \in {"watch", "get", "multi", "set"}
      /\ pc'[p] \in {"get", "multi", "set", "exec", "put"}
      /\ \A q \in Clients \ {p} : pc'[q] = pc[q]
      /\ call[p] \in {"ok", "err"} /\ c \in Resources /\ key[p] \in Keys
      /\ call' = call /\ held' = held /\ op' = op /\ key' = key
      /\ store' = store /\ alive' = alive /\ dirty' = dirty
  BY <1>1
     DEF Watch, Get, Multi, Set, At, HasConn, Advance, Finish, poolVars,
         connVars, Inv, TransactionInv, InRequest
<1>3. \A q \in Clients \ {p} : held[q] # c
  BY <1>2 DEF Inv, Exclusive, HeldOnce
<1>4. \A d \in Resources : d # c =>
        watched'[d] = watched[d] /\ multi'[d] = multi[d] /\ queued'[d] = queued[d]
  BY <1>1 DEF Watch, Get, Multi, Set, connVars
<1>5. \A d \in Resources : watched[d] \subseteq watched'[d]
  BY <1>1 DEF Watch, Get, Multi, Set, connVars
<1>6. InRequest'
  BY <1>2 DEF Inv, TransactionInv, InRequest
<1>7. Watching'
  <2>1. pc'[p] = "get" /\ alive[c] => key[p] \in watched'[c]
    BY <1>1, <1>2 DEF Watch, Get, Multi, Set, At, Advance, Finish, Live
  <2> QED
    BY <1>2, <1>3, <1>5, <2>1
       DEF Inv, TransactionInv, InRequest, Watching
<1>8. WatchGuards'
  <2>1. pc'[p] \in {"multi", "set", "exec"} /\ alive[c] =>
          key[p] \in watched[c] /\ (dirty[c] \/ store[key[p]] = From(op[p]))
    BY <1>1, <1>2
       DEF Watch, Get, Multi, Set, At, Advance, Finish, Live, Inv,
           TransactionInv, Watching, WatchGuards
  <2> QED
    BY <1>2, <1>3, <1>5, <2>1
       DEF Inv, TransactionInv, InRequest, WatchGuards, From
<1>9. TransactionsIsolated'
  <2>1. multi'[c] => pc'[p] \in {"set", "exec"}
    <3>1. multi[c] => pc[p] \in {"set", "exec"}
      BY <1>2, <1>3 DEF Inv, TransactionInv, TransactionsIsolated
    <3> QED
      BY <1>1, <1>2, <3>1
         DEF Watch, Get, Multi, Set, At, Advance, Finish, connVars
  <2> QED
    BY <1>2, <1>3, <1>4, <2>1 DEF Inv, TransactionInv, TransactionsIsolated
<1>10. QueuedByRequest'
  <2>1. multi[c] => pc[p] = "set"
    BY <1>2, <1>3 DEF Inv, TransactionInv, TransactionsIsolated
  <2>2. queued[c] = Nothing
    BY <1>2, <2>1 DEF Inv, TransactionInv, QueuedByRequest
  <2>3. /\ multi'[c] \/ queued'[c] = Nothing
        /\ multi'[c] => alive[c]
        /\ pc'[p] = "set" => queued'[c] = Nothing /\ (alive[c] => multi'[c])
    <3>1. CASE Watch(p) \/ Get(p) \/ Multi(p)
      BY <1>1, <1>2, <2>2, <3>1
         DEF Watch, Get, Multi, At, Advance, Finish, connVars, Live, Inv,
             TransactionInv, QueuedByRequest
    <3>2. CASE Set(p)
      BY <1>1, <1>2, <2>2, <3>2
         DEF Set, At, Advance, Live, Inv, TransactionInv, QueuedByRequest
    <3> QED
      BY <3>1, <3>2
  <2>4. pc'[p] = "exec" /\ alive[c] =>
          queued'[c] = [Nothing EXCEPT ![key[p]] = To(op[p])]
    <3> SUFFICES ASSUME pc'[p] = "exec", alive[c]
                 PROVE  queued'[c] = [Nothing EXCEPT ![key[p]] = To(op[p])]
      OBVIOUS
    <3>1. Set(p)
      BY <1>1 DEF Watch, Get, Multi, Advance, Finish
    <3>2. queued' = [queued EXCEPT ![c][key[p]] = To(op[p])]
      BY <3>1 DEF Set, Live
    <3> QED
      BY <1>1, <1>2, <2>2, <3>2
  <2>5. ASSUME NEW q \in Clients \ {p}
        PROVE  /\ pc'[q] = "set" => /\ alive[held[q]] => multi'[held[q]]
                                    /\ queued'[held[q]] = Nothing
               /\ pc'[q] = "exec" /\ alive[held[q]] =>
                    queued'[held[q]] = [Nothing EXCEPT ![key[q]] = To(op[q])]
    <3>1. pc[q] \in {"set", "exec"} => held[q] \in Resources /\ held[q] # c
      BY <1>3 DEF Inv, TransactionInv, InRequest
    <3> QED
      BY <1>2, <1>4, <3>1 DEF Inv, TransactionInv, QueuedByRequest
  <2>6. \A d \in Resources : /\ multi'[d] => alive[d]
                             /\ multi'[d] \/ queued'[d] = Nothing
    BY <1>4, <2>3 DEF Inv, TransactionInv, QueuedByRequest
  <2> QED
    BY <1>2, <2>3, <2>4, <2>5, <2>6 DEF QueuedByRequest
<1> QED
  BY <1>6, <1>7, <1>8, <1>9, <1>10 DEF TransactionInv

(***************************************************************************)
(* CommitEffect: an EXEC that the server runs changes the request's seat   *)
(* from the status the request saw to the one it wants, and marks the      *)
(* other connections that watch the seat.                                  *)
(***************************************************************************)
LEMMA CommitEffect ==
  ASSUME Inv, NEW p \in Clients, op[p] \in {"block", "confirm"},
         At(p, "exec"), Live(p), ~dirty[held[p]], Commit(p)
  PROVE  /\ key[p] \in Keys /\ held[p] \in Resources
         /\ store[key[p]] = From(op[p])
         /\ store' = [store EXCEPT ![key[p]] = To(op[p])]
         /\ \A d \in Resources : d # held[p] =>
              dirty'[d] = (dirty[d] \/ key[p] \in watched[d])
         /\ winner' = IF op[p] = "block" THEN [winner EXCEPT ![key[p]] = p]
                                         ELSE winner
<1> DEFINE c == held[p]
           ks == { k \in Keys : queued[c][k] # MISSING }
<1>1. key[p] \in Keys /\ c \in Resources
  BY DEF At, Inv, TransactionInv, InRequest
<1>2. store[key[p]] = From(op[p])
  BY DEF At, Live, Inv, TransactionInv, WatchGuards
<1>3. queued[c] = [Nothing EXCEPT ![key[p]] = To(op[p])]
  BY DEF At, Live, Inv, TransactionInv, QueuedByRequest
<1>4. \A k \in Keys :
        queued[c][k] = IF k = key[p] THEN To(op[p]) ELSE MISSING
  BY <1>1, <1>3 DEF Nothing
<1>5. To(op[p]) # MISSING
  BY DEF To, MISSING, BLOCKED, CONFIRMED
<1>6. ks = {key[p]}
  BY <1>1, <1>4, <1>5
<1>7. store' = [k \in Keys |-> IF k \in ks THEN queued[c][k] ELSE store[k]]
  BY DEF Commit
<1>8. store' = [store EXCEPT ![key[p]] = To(op[p])]
  <2>1. store \in [Keys -> Status \cup {MISSING}]
    BY DEF Inv, TypeOK
  <2> QED
    BY <1>1, <1>4, <1>6, <1>7, <2>1
<1>9. \A d \in Resources : d # c =>
        dirty'[d] = (dirty[d] \/ key[p] \in watched[d])
  <2>1. dirty' = [Spoiled({key[p]}) EXCEPT ![c] = FALSE]
    BY <1>6 DEF Commit
  <2> SUFFICES ASSUME NEW d \in Resources, d # c
               PROVE  dirty'[d] = (dirty[d] \/ key[p] \in watched[d])
    OBVIOUS
  <2>2. dirty'[d] = (dirty[d] \/ watched[d] \cap {key[p]} # {})
    BY <2>1 DEF Spoiled
  <2>3. (watched[d] \cap {key[p]} # {}) <=> key[p] \in watched[d]
    OBVIOUS
  <2> QED
    BY <2>2, <2>3, Zenon
<1> QED
  BY <1>1, <1>2, <1>8, <1>9 DEF Commit

(***************************************************************************)
(* ExecSteps: EXEC, whether the server runs it, refuses it or never sees   *)
(* it.  The other requests that watch the seat are marked as it changes.   *)
(***************************************************************************)
LEMMA ExecSteps ==
  ASSUME Inv, NEW p \in Clients, op[p] \in {"block", "confirm"}, Exec(p)
  PROVE  TransactionInv'
<1> DEFINE c == held[p]
<1> USE DEF Procs
<1>1. /\ pc \in [Clients -> {"idle", "exists", "watch", "get", "multi", "set",
                            "exec", "put"}]
      /\ store \in [Keys -> Status \cup {MISSING}]
      /\ alive \in [Resources -> BOOLEAN]
      /\ watched \in [Resources -> SUBSET Keys]
      /\ dirty \in [Resources -> BOOLEAN]
      /\ multi \in [Resources -> BOOLEAN]
      /\ queued \in [Resources -> [Keys -> Status \cup {MISSING}]]
  BY DEF Inv, TypeOK
<1>2. /\ pc[p] = "exec" /\ pc'[p] = "put"
      /\ \A q \in Clients \ {p} : pc'[q] = pc[q]
      /\ c \in Resources /\ key[p] \in Keys
      /\ call' = call /\ held' = held /\ op' = op /\ key' = key
  BY <1>1
     DEF Exec, ExecCommit, ExecAbort, ExecBroken, ExecReplyLost, At, Finish,
         poolVars, Inv, TransactionInv, InRequest
<1>3. \A q \in Clients \ {p} : held[q] # c
  BY <1>2 DEF Inv, Exclusive, HeldOnce
<1>4. \A d \in Resources : d # c =>
        /\ alive'[d] = alive[d] /\ watched'[d] = watched[d]
        /\ multi'[d] = multi[d] /\ queued'[d] = queued[d]
  BY <1>1
     DEF Exec, ExecCommit, ExecAbort, ExecBroken, ExecReplyLost,
         EndTransaction, connVars
<1>5. ~multi'[c] /\ queued'[c] = Nothing
  <2>1. CASE ExecBroken(p)
    BY <1>2, <2>1
       DEF ExecBroken, Live, connVars, Inv, TransactionInv, QueuedByRequest
  <2>2. CASE ExecCommit(p) \/ ExecAbort(p) \/ ExecReplyLost(p)
    BY <1>1, <1>2, <2>2
       DEF ExecCommit, ExecAbort, ExecReplyLost, EndTransaction
  <2> QED
    BY <2>1, <2>2 DEF Exec
<1>6. \A q \in Clients \ {p} : pc[q] \in Busy =>
        held[q] \in Resources /\ held[q] # c
  BY <1>3 DEF Inv, TransactionInv, InRequest, Busy
<1>7. InRequest'
  BY <1>2 DEF Inv, TransactionInv, InRequest
<1>8. Watching'
  BY <1>2, <1>4, <1>6 DEF Inv, TransactionInv, Watching, Busy
<1>9. WatchGuards'
  <2> SUFFICES ASSUME NEW q \in Clients, pc'[q] \in {"multi", "set", "exec"},
                      alive'[held[q]]
               PROVE  /\ key[q] \in watched'[held[q]]
                      /\ dirty'[held[q]] \/ store'[key[q]] = From(op[q])
    BY <1>2 DEF WatchGuards, From
  <2>1. /\ q # p /\ pc[q] \in {"multi", "set", "exec"}
        /\ held[q] \in Resources /\ held[q] # c /\ key[q] \in Keys
    BY <1>2, <1>6 DEF Busy, Inv, TransactionInv, InRequest
  <2>2. /\ key[q] \in watched[held[q]] /\ key[q] \in watched'[held[q]]
        /\ dirty[held[q]] \/ store[key[q]] = From(op[q])
    BY <1>4, <2>1 DEF Inv, TransactionInv, WatchGuards
  <2>3. CASE ExecAbort(p) \/ ExecBroken(p)
    BY <1>1, <2>1, <2>2, <2>3 DEF ExecAbort, ExecBroken, connVars
  <2>4. CASE ExecCommit(p) \/ ExecReplyLost(p)
    <3>1. /\ store' = [store EXCEPT ![key[p]] = To(op[p])]
          /\ dirty'[held[q]] = (dirty[held[q]] \/ key[p] \in watched[held[q]])
      BY <2>1, <2>4, CommitEffect DEF ExecCommit, ExecReplyLost
    <3>2. CASE key[q] = key[p]
      <4>1. dirty'[held[q]]
        BY <2>2, <3>1, <3>2, Zenon
      <4> QED
        BY <2>2, <4>1
    <3>3. CASE key[q] # key[p]
      <4>1. store'[key[q]] = store[key[q]]
        BY <1>1, <2>1, <3>1, <3>3
      <4>2. dirty[held[q]] => dirty'[held[q]]
        BY <3>1, Zenon
      <4> QED
        BY <2>2, <4>1, <4>2
    <3> QED
      BY <3>2, <3>3
  <2> QED
    BY <2>3, <2>4 DEF Exec
<1>10. TransactionsIsolated'
  BY <1>2, <1>3, <1>4, <1>5 DEF Inv, TransactionInv, TransactionsIsolated
<1>11. QueuedByRequest'
  <2>1. \A d \in Resources : /\ multi'[d] => alive'[d]
                             /\ multi'[d] \/ queued'[d] = Nothing
    BY <1>4, <1>5 DEF Inv, TransactionInv, QueuedByRequest
  <2>2. ASSUME NEW q \in Clients, pc'[q] \in {"set", "exec"}
        PROVE  /\ pc[q] = pc'[q]
               /\ alive'[held[q]] = alive[held[q]]
               /\ multi'[held[q]] = multi[held[q]]
               /\ queued'[held[q]] = queued[held[q]]
    BY <1>2, <1>4, <1>6, <2>2 DEF Busy
  <2> QED
    BY <1>2, <2>1, <2>2 DEF Inv, TransactionInv, QueuedByRequest
<1> QED
  BY <1>7, <1>8, <1>9, <1>10, <1>11 DEF TransactionInv

(***************************************************************************)
(* OtherSteps: a load writes a seat and marks its watchers; a connection   *)
(* that breaks loses its transaction.                                      *)
(***************************************************************************)
LEMMA OtherSteps ==
  ASSUME Inv,
         \/ \E k \in Keys, s \in {FREE, CONFIRMED} : LoadSeatsIntoRedis(k, s)
         \/ \E c \in Resources : Break(c)
         \/ BreakLoad
         \/ UNCHANGED vars
  PROVE  TransactionInv'
<1>1. /\ store \in [Keys -> Status \cup {MISSING}]
      /\ alive \in [Resources -> BOOLEAN]
      /\ watched \in [Resources -> SUBSET Keys]
      /\ dirty \in [Resources -> BOOLEAN]
      /\ multi \in [Resources -> BOOLEAN]
      /\ queued \in [Resources -> [Keys -> Status \cup {MISSING}]]
  BY DEF Inv, TypeOK
<1>2. pc' = pc /\ op' = op /\ key' = key /\ call' = call /\ held' = held
  BY DEF LoadSeatsIntoRedis, Break, BreakLoad, vars, poolVars, reqVars
<1>3. InRequest'
  BY <1>2 DEF Inv, TransactionInv, InRequest
<1>4. CASE BreakLoad \/ UNCHANGED vars
  <2>1. UNCHANGED store /\ UNCHANGED connVars
    BY <1>4 DEF BreakLoad, vars
  <2> QED
    BY <1>2, <1>3, <2>1
       DEF Inv, TransactionInv, Watching, WatchGuards, TransactionsIsolated,
           QueuedByRequest, connVars
<1>5. ASSUME NEW k \in Keys, NEW s \in {FREE, CONFIRMED},
             LoadSeatsIntoRedis(k, s)
      PROVE  TransactionInv'
  <2>1. /\ store' = [store EXCEPT ![k] = s] /\ dirty' = Spoiled({k})
        /\ alive' = alive /\ watched' = watched
        /\ multi' = multi /\ queued' = queued
    BY <1>5 DEF LoadSeatsIntoRedis
  <2>2. WatchGuards'
    <3> SUFFICES ASSUME NEW q \in Clients, pc[q] \in {"multi", "set", "exec"},
                        alive[held[q]]
                 PROVE  /\ key[q] \in watched[held[q]]
                        /\ dirty'[held[q]] \/ store'[key[q]] = From(op[q])
      BY <1>2, <2>1 DEF WatchGuards, From
    <3>1. /\ held[q] \in Resources /\ key[q] \in Keys
          /\ key[q] \in watched[held[q]]
          /\ dirty[held[q]] \/ store[key[q]] = From(op[q])
      BY DEF Inv, TransactionInv, InRequest, WatchGuards
    <3>2. dirty'[held[q]] = (dirty[held[q]] \/ watched[held[q]] \cap {k} # {})
      BY <2>1, <3>1 DEF Spoiled
    <3>3. CASE key[q] = k
      <4>1. watched[held[q]] \cap {k} # {}
        BY <3>1, <3>3
      <4>2. dirty'[held[q]]
        BY <3>2, <4>1, Zenon
      <4> QED
        BY <3>1, <4>2
    <3>4. CASE key[q] # k
      <4>1. store'[key[q]] = store[key[q]]
        BY <1>1, <2>1, <3>1, <3>4
      <4>2. dirty[held[q]] => dirty'[held[q]]
        BY <3>2, Zenon
      <4> QED
        BY <3>1, <4>1, <4>2
    <3> QED
      BY <3>3, <3>4
  <2> QED
    BY <1>2, <1>3, <2>1, <2>2
       DEF Inv, TransactionInv, Watching, TransactionsIsolated, QueuedByRequest
<1>6. ASSUME NEW c \in Resources, Break(c)
      PROVE  TransactionInv'
  <2>1. /\ store' = store
        /\ \A d \in Resources : d # c => SameConn(d)
        /\ ~alive'[c] /\ ~multi'[c] /\ queued'[c] = Nothing
    BY <1>1, <1>6 DEF Break, Disconnect, SameConn
  <2>2. \A q \in Clients : pc[q] \in Busy => held[q] \in Resources
    BY DEF Inv, TransactionInv, InRequest, Busy
  <2>3. Watching'
    BY <1>2, <2>1, <2>2 DEF Inv, TransactionInv, Watching, SameConn, Busy
  <2>4. WatchGuards'
    BY <1>2, <2>1, <2>2
       DEF Inv, TransactionInv, WatchGuards, SameConn, Busy, From
  <2>5. TransactionsIsolated'
    BY <1>2, <2>1 DEF Inv, TransactionInv, TransactionsIsolated, SameConn
  <2>6. QueuedByRequest'
    BY <1>2, <2>1, <2>2
       DEF Inv, TransactionInv, QueuedByRequest, SameConn, Busy
  <2> QED
    BY <1>3, <2>3, <2>4, <2>5, <2>6 DEF TransactionInv
<1> QED
  BY <1>4, <1>5, <1>6

(***************************************************************************)
(* ExceptType: an update of a function with a value of its range.          *)
(***************************************************************************)
LEMMA ExceptType ==
  ASSUME NEW S, NEW V, NEW f \in [S -> V], NEW x, NEW v \in V
  PROVE  [f EXCEPT ![x] = v] \in [S -> V]
OBVIOUS

(***************************************************************************)
(* ResetType: the state the server has of a connection that it has just    *)
(* met or just lost has its type.                                          *)
(***************************************************************************)
ConnOK ==
  /\ alive \in [Resources -> BOOLEAN]
  /\ watched \in [Resources -> SUBSET Keys]
  /\ dirty \in [Resources -> BOOLEAN]
  /\ multi \in [Resources -> BOOLEAN]
  /\ queued \in [Resources -> [Keys -> Status \cup {MISSING}]]

\* ResetType: a connection that is dialled or closed has no WATCH and no MULTI.
LEMMA ResetType ==
  ASSUME ConnOK, NEW c, NEW b \in BOOLEAN,
         alive' = [alive EXCEPT ![c] = b],
         watched' = [watched EXCEPT ![c] = {}],
         dirty' = [dirty EXCEPT ![c] = FALSE],
         multi' = [multi EXCEPT ![c] = FALSE],
         queued' = [queued EXCEPT ![c] = Nothing]
  PROVE  ConnOK'
<1>1. Nothing \in [Keys -> Status \cup {MISSING}]
  BY DEF Nothing
<1>2. {} \in SUBSET Keys /\ FALSE \in BOOLEAN
  OBVIOUS
<1>3. watched' \in [Resources -> SUBSET Keys]
  BY <1>2, ExceptType DEF ConnOK
<1>4. queued' \in [Resources -> [Keys -> Status \cup {MISSING}]]
  BY <1>1, ExceptType DEF ConnOK
<1>5. /\ alive' \in [Resources -> BOOLEAN]
      /\ dirty' \in [Resources -> BOOLEAN]
      /\ multi' \in [Resources -> BOOLEAN]
  BY <1>2, ExceptType, Zenon DEF ConnOK
<1> QED
  BY <1>3, <1>4, <1>5 DEF ConnOK

(***************************************************************************)
(* TypePart: the variables of the helper keep their types.                 *)
(***************************************************************************)
LEMMA TypePart ==
  ASSUME Inv, [Next]_vars
  PROVE  TypeOK'
<1> DEFINE S == store \in [Keys -> Status \cup {MISSING}]
           R == /\ pc \in [Clients -> {"idle", "exists", "watch", "get",
                                       "multi", "set", "exec", "put"}]
                /\ op \in [Clients -> {"none", "block", "confirm"}]
                /\ key \in [Clients -> Keys \cup {Nobody}]
                /\ res \in [Clients -> {"none", "ok", "ko", "panic"}]
           H == /\ loadConn \in {"nil", "up", "broken"}
                /\ committed \in [Clients -> BOOLEAN]
                /\ winner \in [Keys -> Clients \cup {Nobody}]
<1>1. S /\ ConnOK /\ R /\ H /\ PoolTypeOK
  BY DEF Inv, TypeOK, ConnOK
<1> HIDE DEF S, R, H
<1>2. PoolTypeOK'
  BY PoolPart DEF Inv, TypeOK
<1>3. ASSUME UNCHANGED connVars PROVE ConnOK'
  BY <1>1, <1>3 DEF connVars, ConnOK
<1>4. ASSUME NEW p \in Clients, NEW o \in {"block", "confirm"}, NEW k \in Keys,
             Request(p, o, k)
      PROVE  S' /\ ConnOK' /\ R' /\ H'
  <2>1. S' /\ R' /\ H'
    BY <1>1, <1>4 DEF Request, FirstCommand, S, R, H
  <2> QED
    BY <1>3, <1>4, <2>1 DEF Request
<1>5. ASSUME NEW p \in Clients, RequestStep(p)
      PROVE  S' /\ ConnOK' /\ R' /\ H'
  <2>1. CASE GetConnection(p)
    <3>1. S' /\ R' /\ H'
      BY <1>1, <2>1
         DEF GetConnection, TakeWrapper, Unwrap, CloseIdle, CloseNilConn, Dial,
             reqVars, historyVars, S, R, H
    <3>2. ConnOK'
      <4>1. CASE UNCHANGED connVars
        BY <1>3, <4>1
      <4>2. CASE CloseIdle(p)
        BY <1>1, <4>2, ResetType DEF CloseIdle, Disconnect
      <4>3. ASSUME NEW c \in Resources, Dial(p, c) PROVE ConnOK'
        BY <1>1, <4>3, ResetType DEF Dial
      <4> QED
        BY <2>1, <4>1, <4>2, <4>3
           DEF GetConnection, TakeWrapper, Unwrap, CloseNilConn
    <3> QED
      BY <3>1, <3>2
  <2>2. CASE Recover(p) \/ ReturnConnection(p) \/ NilConn(p) \/ Exists(p)
               \/ Get(p) \/ ExecBroken(p)
    <3>1. UNCHANGED connVars /\ S' /\ H'
      BY <1>1, <2>2
         DEF Recover, ReturnConnection, NilConn, Exists, Get, ExecBroken,
             historyVars, S, H
    <3>2. R'
      BY <1>1, <2>2
         DEF Recover, ReturnConnection, NilConn, Exists, Get, ExecBroken,
             Respond, Finish, Advance, reqVars, R
    <3> QED
      BY <1>3, <3>1, <3>2
  <2>3. CASE Watch(p) \/ Multi(p) \/ Set(p)
    <3>1. S' /\ R' /\ H'
      BY <1>1, <2>3 DEF Watch, Multi, Set, Advance, historyVars, S, R, H
    <3>2. held[p] \in Resources /\ key[p] \in Keys
      BY <2>3
         DEF Watch, Multi, Set, At, HasConn, Inv, TransactionInv, InRequest
    <3>3. CASE Watch(p)
      <4>1. watched' \in [Resources -> SUBSET Keys]
        BY <1>1, <3>2, <3>3 DEF Watch, ConnOK
      <4> QED
        BY <1>1, <3>1, <3>3, <4>1 DEF Watch, ConnOK
    <3>4. CASE Multi(p)
      <4>1. Live(p) \in BOOLEAN
        BY <1>1, <3>2 DEF Live, ConnOK
      <4>2. multi' \in [Resources -> BOOLEAN]
        BY <1>1, <3>4, <4>1, ExceptType, Zenon DEF Multi, ConnOK
      <4> QED
        BY <1>1, <3>1, <3>4, <4>2 DEF Multi, ConnOK
    <3>5. CASE Set(p)
      <4>1. To(op[p]) \in Status \cup {MISSING}
        BY DEF To, Status
      <4>2. queued' \in [Resources -> [Keys -> Status \cup {MISSING}]]
        BY <1>1, <3>2, <3>5, <4>1 DEF Set, ConnOK
      <4> QED
        BY <1>1, <3>1, <3>5, <4>2 DEF Set, ConnOK
    <3> QED
      BY <2>3, <3>1, <3>3, <3>4, <3>5
  <2>4. CASE Exec(p) /\ ~ExecBroken(p) /\ op[p] \in {"block", "confirm"}
    <3>1. R'
      BY <1>1, <2>4 DEF Exec, ExecCommit, ExecAbort, ExecReplyLost, Finish, R
    <3>2. /\ EndTransaction(p)
          /\ loadConn' = loadConn
          /\ alive' = alive \/ alive' = [alive EXCEPT ![held[p]] = FALSE]
      BY <2>4 DEF Exec, ExecCommit, ExecAbort, ExecReplyLost
    <3>3. S' /\ H' /\ dirty' \in [Resources -> BOOLEAN]
      <4>1. CASE ExecAbort(p)
        <5>1. dirty' \in [Resources -> BOOLEAN]
          BY <1>1, <4>1, ExceptType, Zenon DEF ExecAbort, ConnOK
        <5> QED
          BY <1>1, <4>1, <5>1 DEF ExecAbort, historyVars, S, H
      <4>2. CASE ExecCommit(p) \/ ExecReplyLost(p)
        <5>1. /\ key[p] \in Keys
              /\ store' = [store EXCEPT ![key[p]] = To(op[p])]
              /\ winner' = IF op[p] = "block" THEN [winner EXCEPT ![key[p]] = p]
                                              ELSE winner
              /\ Commit(p)
          BY <2>4, <4>2, CommitEffect DEF ExecCommit, ExecReplyLost
        <5>2. To(op[p]) \in Status \cup {MISSING}
          BY DEF To, Status
        <5>3. S'
          BY <1>1, <5>1, <5>2, ExceptType DEF S
        <5>4. dirty' \in [Resources -> BOOLEAN]
          BY <5>1 DEF Commit, Spoiled
        <5>5. committed' \in [Clients -> BOOLEAN]
          BY <1>1, <5>1, ExceptType, Zenon DEF Commit, H
        <5>6. winner' \in [Keys -> Clients \cup {Nobody}]
          BY <1>1, <5>1 DEF H
        <5> QED
          BY <1>1, <3>2, <5>3, <5>4, <5>5, <5>6 DEF H
      <4> QED
        BY <2>4, <4>1, <4>2 DEF Exec
    <3>4. /\ alive' \in [Resources -> BOOLEAN]
          /\ multi' \in [Resources -> BOOLEAN]
      BY <1>1, <3>2, ExceptType, Zenon DEF EndTransaction, ConnOK
    <3>5. watched' \in [Resources -> SUBSET Keys]
      BY <1>1, <3>2 DEF EndTransaction, ConnOK
    <3>6. queued' \in [Resources -> [Keys -> Status \cup {MISSING}]]
      BY <1>1, <3>2 DEF EndTransaction, ConnOK, Nothing
    <3> QED
      BY <3>1, <3>3, <3>4, <3>5, <3>6 DEF ConnOK
  <2> QED
    BY <1>5, <2>1, <2>2, <2>3, <2>4
       DEF RequestStep, BlockSeat, ConfirmSeat, Commands
<1>6. ASSUME NEW k \in Keys, NEW s \in {FREE, CONFIRMED},
             LoadSeatsIntoRedis(k, s)
      PROVE  S' /\ ConnOK' /\ R' /\ H'
  <2>1. dirty' \in [Resources -> BOOLEAN]
    BY <1>6 DEF LoadSeatsIntoRedis, Spoiled
  <2>2. ConnOK'
    BY <1>1, <1>6, <2>1 DEF LoadSeatsIntoRedis, ConnOK
  <2> QED
    BY <1>1, <1>6, <2>2 DEF LoadSeatsIntoRedis, Status, reqVars, S, R, H
<1>7. ASSUME NEW c \in Resources, Break(c)
      PROVE  S' /\ ConnOK' /\ R' /\ H'
  <2>1. ConnOK'
    BY <1>1, <1>7, ResetType DEF Break, Disconnect
  <2> QED
    BY <1>1, <1>7, <2>1 DEF Break, reqVars, historyVars, S, R, H
<1>8. ASSUME BreakLoad \/ UNCHANGED vars
      PROVE  S' /\ ConnOK' /\ R' /\ H'
  <2>1. UNCHANGED connVars /\ S' /\ R' /\ H'
    BY <1>1, <1>8 DEF BreakLoad, vars, reqVars, historyVars, S, R, H
  <2> QED
    BY <1>3, <2>1
<1>9. S' /\ ConnOK' /\ R' /\ H'
  BY <1>4, <1>5, <1>6, <1>7, <1>8 DEF Next
<1> QED
  BY <1>2, <1>9 DEF TypeOK, ConnOK, S, R, H
-----------------------------------------------------------------------------
(***************************************************************************)
(* InvInit: Inv holds when InitRedisPool has run and no request has come.  *)
(***************************************************************************)
LEMMA InvInit == Init => Inv
<1> SUFFICES ASSUME Init PROVE Inv
  OBVIOUS
<1>1. PoolTypeOK /\ Exclusive
  BY PoolInitSafe DEF Init
<1>2. TypeOK
  <2>1. /\ alive \in [Resources -> BOOLEAN]
        /\ dirty \in [Resources -> BOOLEAN]
        /\ multi \in [Resources -> BOOLEAN]
        /\ committed \in [Clients -> BOOLEAN]
    BY DEF Init
  <2>2. /\ store \in [Keys -> Status \cup {MISSING}]
        /\ watched \in [Resources -> SUBSET Keys]
        /\ queued \in [Resources -> [Keys -> Status \cup {MISSING}]]
        /\ loadConn \in {"nil", "up", "broken"}
        /\ winner \in [Keys -> Clients \cup {Nobody}]
    BY DEF Init, Status, Nothing
  <2>3. /\ pc \in [Clients -> {"idle", "exists", "watch", "get", "multi",
                               "set", "exec", "put"}]
        /\ op \in [Clients -> {"none", "block", "confirm"}]
        /\ key \in [Clients -> Keys \cup {Nobody}]
        /\ res \in [Clients -> {"none", "ok", "ko", "panic"}]
    BY DEF Init
  <2> QED
    BY <1>1, <2>1, <2>2, <2>3 DEF TypeOK
<1>3. TransactionInv
  BY DEF Init, TransactionInv, InRequest, Watching, WatchGuards,
         TransactionsIsolated, QueuedByRequest
<1> QED
  BY <1>1, <1>2, <1>3 DEF Inv

(***************************************************************************)
(* InvNext: every step of a request, a load or the network preserves Inv.  *)
(***************************************************************************)
LEMMA InvNext == Inv /\ [Next]_vars => Inv'
<1> SUFFICES ASSUME Inv, [Next]_vars PROVE Inv'
  OBVIOUS
<1>1. TypeOK' /\ Exclusive'
  BY TypePart, PoolPart DEF Inv, TypeOK
<1>2. TransactionInv'
  <2>1. ASSUME NEW p \in Clients,
               \/ \E o \in {"block", "confirm"}, k \in Keys : Request(p, o, k)
               \/ RequestStep(p)
        PROVE  TransactionInv'
    BY <2>1, QuietSteps, CommandSteps, ExecSteps
       DEF RequestStep, BlockSeat, ConfirmSeat, Commands
  <2> QED
    BY <2>1, OtherSteps DEF Next
<1> QED
  BY <1>1, <1>2 DEF Inv

\* HelperAlways: the inductive invariant.
LEMMA HelperAlways == Spec => []Inv
BY InvInit, InvNext, PTL DEF Spec

(***************************************************************************)
(* HelperTyped: the pool, the connections, the server and the requests     *)
(* keep their types, with failing dials and broken connections too.        *)
(***************************************************************************)
THEOREM HelperTyped == Spec => []TypeOK
<1>1. Inv => TypeOK
  BY DEF Inv
<1> QED
  BY <1>1, HelperAlways, PTL

(***************************************************************************)
(* ConnectionsExclusive: no two requests share a connection of the Redis   *)
(* pool.                                                                   *)
(***************************************************************************)
THEOREM ConnectionsExclusive == Spec => []Exclusive
<1>1. Inv => Exclusive
  BY DEF Inv
<1> QED
  BY <1>1, HelperAlways, PTL

(***************************************************************************)
(* NoInheritedTransaction: no request of the redis helper gets a           *)
(* connection in the middle of the WATCH or MULTI of another one.          *)
(***************************************************************************)
THEOREM NoInheritedTransaction == Spec => []TransactionsIsolated
<1>1. Inv => TransactionsIsolated
  BY DEF Inv, TransactionInv
<1> QED
  BY <1>1, HelperAlways, PTL

(***************************************************************************)
(* HelperSafety: for any number of requests, connections and seats, a      *)
(* request between its GET and its EXEC is either right about its seat or  *)
(* bound to be refused.                                                    *)
(***************************************************************************)
THEOREM HelperSafety == Spec => []WatchGuards
<1>1. Inv => WatchGuards
  BY DEF Inv, TransactionInv
<1> QED
  BY <1>1, HelperAlways, PTL

(***************************************************************************)
(* CacheStep: an EXEC that the server runs is a Block or a Confirm of the  *)
(* cache, the SET of a load is its Load, and nothing else changes a seat.  *)
(***************************************************************************)
LEMMA CacheStep ==
  ASSUME Inv, [Next]_vars
  PROVE  [Cache!Next]_<<store, winner>>
<1>1. ASSUME NEW p \in Clients, op[p] \in {"block", "confirm"},
             ExecCommit(p) \/ ExecReplyLost(p)
      PROVE  Cache!Next
  <2>1. /\ key[p] \in Keys
        /\ store[key[p]] = From(op[p])
        /\ store' = [store EXCEPT ![key[p]] = To(op[p])]
        /\ winner' = IF op[p] = "block" THEN [winner EXCEPT ![key[p]] = p]
                                        ELSE winner
    BY <1>1, CommitEffect DEF ExecCommit, ExecReplyLost
  <2>2. CASE op[p] = "block"
    <3>1. Cache!Block(p, key[p])
      BY <2>1, <2>2 DEF Cache!Block, From, To, FREE, BLOCKED
    <3> QED
      BY <2>1, <3>1 DEF Cache!Next
  <2>3. CASE op[p] = "confirm"
    <3>1. Cache!Confirm(key[p])
      BY <2>1, <2>3 DEF Cache!Confirm, From, To, BLOCKED, CONFIRMED
    <3> QED
      BY <2>1, <3>1 DEF Cache!Next
  <2> QED
    BY <1>1, <2>2, <2>3
<1>2. ASSUME NEW k \in Keys, NEW s \in {FREE, CONFIRMED},
             LoadSeatsIntoRedis(k, s)
      PROVE  Cache!Next
  <2>1. Cache!Load(k, s) /\ s \in Cache!Loadable
    BY <1>2
       DEF LoadSeatsIntoRedis, Cache!Load, Cache!Loadable, FREE, CONFIRMED
  <2> QED
    BY <2>1 DEF Cache!Next
<1>3. ASSUME NEW p \in Clients, RequestStep(p),
             ~(/\ op[p] \in {"block", "confirm"}
               /\ ExecCommit(p) \/ ExecReplyLost(p))
      PROVE  UNCHANGED <<store, winner>>
  <2>1. CASE GetConnection(p)
    BY <2>1
       DEF GetConnection, TakeWrapper, Unwrap, CloseIdle, CloseNilConn, Dial,
           historyVars
  <2>2. CASE Recover(p) \/ ReturnConnection(p) \/ NilConn(p) \/ Exists(p)
    BY <2>2 DEF Recover, ReturnConnection, NilConn, Exists, historyVars
  <2>3. CASE Watch(p) \/ Get(p) \/ Multi(p) \/ Set(p)
    BY <2>3 DEF Watch, Get, Multi, Set, historyVars
  <2>4. CASE ExecAbort(p) \/ ExecBroken(p)
    BY <2>4 DEF ExecAbort, ExecBroken, historyVars
  <2> QED
    BY <1>3, <2>1, <2>2, <2>3, <2>4
       DEF RequestStep, BlockSeat, ConfirmSeat, Commands, Exec
<1>4. ASSUME \/ \E p \in Clients, o \in {"block", "confirm"}, k \in Keys :
                  Request(p, o, k)
             \/ \E c \in Resources : Break(c)
             \/ BreakLoad
             \/ UNCHANGED vars
      PROVE  UNCHANGED <<store, winner>>
  BY <1>4 DEF Request, Break, BreakLoad, vars, historyVars
<1> QED
  BY <1>1, <1>2, <1>3, <1>4 DEF Next

(***************************************************************************)
(* ImplementsSeatCache: BlockSeat, ConfirmSeat and LoadSeatsIntoRedis over *)
(* pooled connections implement the atomic SeatCache, for any number of    *)
(* requests, connections and seats and whatever breaks.                    *)
(***************************************************************************)
THEOREM ImplementsSeatCache == Spec => SeatCacheImplemented
<1>1. Init => Cache!Init
  BY DEF Init, Cache!Init, Cache!Loadable, FREE, CONFIRMED, MISSING
<1>2. Inv /\ [Next]_vars => [Cache!Next]_(Cache!vars)
  BY CacheStep DEF Cache!vars
<1> QED
  BY <1>1, <1>2, InvInit, InvNext, PTL DEF Spec, SeatCacheImplemented, Cache!Spec
=============================================================================
