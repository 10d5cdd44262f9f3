----------------------------- MODULE RedisHelper -----------------------------
(***************************************************************************)
(* booking-engine/app/helpers/redis_helper.go: blocking and confirming     *)
(* seats in Redis over pooled connections.                                 *)
(*                                                                         *)
(* A request p is an HTTP goroutine that runs BlockSeat or ConfirmSeat.    *)
(* pc[p] is the next Redis command it sends; every c.Do is one step, since *)
(* the commands of other requests may reach the server in between.  The    *)
(* pool is module ResourcePool, its resources are the Redis connections    *)
(* and held[p] is the connection the request got.                          *)
(*                                                                         *)
(* The Redis server is external: WATCH, MULTI and EXEC are modelled from   *)
(* how the code uses them (a write to a watched key makes the watcher's    *)
(* next EXEC do nothing and answer nil).  A connection may break at any    *)
(* time; redigo then fails every further command on it (conn.fatal).       *)
(***************************************************************************)
EXTENDS ResourcePool

CONSTANTS
  Keys,      \* seat keys, "<session>-<seat>"
  MayBreak,  \* can connections break?
  Nobody     \* no request, no key

ASSUME HelperAssumption ==
  /\ MayBreak \in BOOLEAN
  /\ Nobody \notin Clients \cup Keys
  /\ BadRes # NoRes

FREE == "free"
BLOCKED == "blocked"
CONFIRMED == "confirmed"
MISSING == "missing"   \* the key does not exist; GET answers nil

Status == {FREE, BLOCKED, CONFIRMED}

VARIABLES
  store,      \* Redis: the status under each seat key
  alive,      \* is the connection usable?
  watched,    \* Redis: the keys a connection watches
  dirty,      \* Redis: was a watched key written since?
  multi,      \* Redis: is the connection between MULTI and EXEC?
  queued,     \* Redis: the SETs queued on the connection, by key
  pc, op, key,\* the request: next command, operation, seat key
  res,        \* the request's result
  loadConn,   \* the unpooled connection c of LoadSeatsIntoRedis
  committed,  \* history: did this request's EXEC write the seat?
  winner      \* history: the request whose block of a seat stands

connVars == <<alive, watched, dirty, multi, queued>>
reqVars == <<pc, op, key, res>>
vars == <<poolVars, store, connVars, reqVars, loadConn, committed, winner>>

Nothing == [k \in Keys |-> MISSING]  \* no SET queued

From(o) == IF o = "block" THEN FREE ELSE BLOCKED
ToMisspelt(o) == IF o = "block" THEN "block" ELSE "confirm"  \* mutant of To
To(o) == IF o = "block" THEN BLOCKED ELSE CONFIRMED
FirstCommand(o) == IF o = "block" THEN "exists" ELSE "watch"

Init ==
  /\ PoolInit
  /\ store \in [Keys -> {FREE, CONFIRMED, MISSING}]
  /\ alive = [c \in Resources |-> FALSE]
  /\ watched = [c \in Resources |-> {}]
  /\ dirty = [c \in Resources |-> FALSE]
  /\ multi = [c \in Resources |-> FALSE]
  /\ queued = [c \in Resources |-> Nothing]
  /\ pc = [p \in Clients |-> "idle"]
  /\ op = [p \in Clients |-> "none"]
  /\ key = [p \in Clients |-> Nobody]
  /\ res = [p \in Clients |-> "none"]
  /\ loadConn = "nil"
  /\ committed = [p \in Clients |-> FALSE]
  /\ winner = [k \in Keys |-> Nobody]

(***************************************************************************)
(* How a step moves the request: on to its next command, to its return     *)
(* (where the deferred pool.Put runs) with a result, or to its end.        *)
(***************************************************************************)
Advance(p, cmd) == pc' = [pc EXCEPT ![p] = cmd] /\ UNCHANGED <<op, key, res>>

Finish(p, r) ==
  /\ pc' = [pc EXCEPT ![p] = "put"]
  /\ res' = [res EXCEPT ![p] = r]
  /\ UNCHANGED <<op, key>>

Respond(p) ==
  /\ pc' = [pc EXCEPT ![p] = "idle"]
  /\ op' = [op EXCEPT ![p] = "none"]
  /\ key' = [key EXCEPT ![p] = Nobody]
  /\ res' = [res EXCEPT ![p] = "none"]

(***************************************************************************)
(* The request is back from GetConnection and about to send cmd on its     *)
(* connection.  GetConnection only logs the error of a failed Get, so both *)
(* outcomes go on; HasConn says that there is a connection to send on.     *)
(***************************************************************************)
At(p, cmd) == pc[p] = cmd /\ call[p] \in {"ok", "err"}

HasConn(p) == held[p] \in Resources

Live(p) == alive[held[p]]

(***************************************************************************)
(* Redis: writing the keys ks spoils the transaction of every connection   *)
(* that watches one of them.                                               *)
(***************************************************************************)
Spoiled(ks) == [c \in Resources |-> dirty[c] \/ watched[c] \cap ks # {}]

(***************************************************************************)
(* The end of connection c, seen by the server: it forgets the watches and *)
(* the transaction.                                                        *)
(***************************************************************************)
Disconnect(c) ==
  /\ alive' = [alive EXCEPT ![c] = FALSE]
  /\ watched' = [watched EXCEPT ![c] = {}]
  /\ dirty' = [dirty EXCEPT ![c] = FALSE]
  /\ multi' = [multi EXCEPT ![c] = FALSE]
  /\ queued' = [queued EXCEPT ![c] = Nothing]

historyVars == <<committed, winner>>
-----------------------------------------------------------------------------
(***************************************************************************)
(* GetConnection.  A request starts with it, whatever it is about to do.   *)
(***************************************************************************)
Request(p, o, k) ==
  /\ pc[p] = "idle"
  /\ GetCall(p)
  /\ pc' = [pc EXCEPT ![p] = FirstCommand(o)]
  /\ op' = [op EXCEPT ![p] = o]
  /\ key' = [key EXCEPT ![p] = k]
  /\ committed' = [committed EXCEPT ![p] = FALSE]
  /\ UNCHANGED <<store, connVars, res, loadConn, winner>>

(***************************************************************************)
(* The factory of InitRedisPool: redis.Dial opens connection c, which the  *)
(* server knows nothing about yet; a failed Dial is FactoryFail.           *)
(***************************************************************************)
Dial(p, c) ==
  /\ FactoryOk(p, c)
  /\ alive' = [alive EXCEPT ![c] = TRUE]
  /\ watched' = [watched EXCEPT ![c] = {}]
  /\ dirty' = [dirty EXCEPT ![c] = FALSE]
  /\ multi' = [multi EXCEPT ![c] = FALSE]
  /\ queued' = [queued EXCEPT ![c] = Nothing]
  /\ UNCHANGED <<store, reqVars, loadConn, historyVars>>

(***************************************************************************)
(* When Dial fails the factory still returns ResourceConn{nil}, which is   *)
(* not a nil Resource.  Once such a value is pooled and expires, the pool  *)
(* closes it: ResourceConn.Close calls a method of a nil interface, and    *)
(* the panic leaves get with the wrapper taken.                            *)
(***************************************************************************)
CloseNilConn(p) ==
  /\ call[p] = "unwrap"
  /\ idleTimeout
  /\ held[p] = BadRes
  /\ Hold(p, NoRes)
  /\ Goto(p, "panic")
  /\ UNCHANGED <<resources, settings, store, connVars, reqVars, loadConn,
                 historyVars>>

\* The pool closes a connection that has been idle too long.
CloseIdle(p) ==
  /\ Expire(p)
  /\ Disconnect(held[p])
  /\ UNCHANGED <<store, reqVars, loadConn, historyVars>>

\* The steps of pool.Get after the receive.
Unwrap(p) ==
  \/ /\ Reuse(p) \/ FactoryFail(p) \/ SendBack(p)
     /\ UNCHANGED <<store, connVars, reqVars, loadConn, historyVars>>
  \/ CloseIdle(p)
  \/ \E c \in Resources : Dial(p, c)
  \/ CloseNilConn(p)

TakeWrapper(p) ==
  Receive(p) /\ UNCHANGED <<store, connVars, reqVars, loadConn, historyVars>>

GetConnection(p) == TakeWrapper(p) \/ Unwrap(p)
-----------------------------------------------------------------------------
(***************************************************************************)
(* The commands of BlockSeat and ConfirmSeat.  On a broken connection      *)
(* every Do fails and reads as 0, "" or an error.  Between MULTI and EXEC  *)
(* the server would queue any command instead of answering it; that no     *)
(* other command meets an open MULTI is the invariant TransactionsIsolated.*)
(***************************************************************************)

\* Any command on ResourceConn{nil} is a nil dereference: the first panics.
NilConn(p) ==
  /\ At(p, FirstCommand(op[p]))
  /\ held[p] = BadRes
  /\ Finish(p, "panic")
  /\ UNCHANGED <<poolVars, store, connVars, loadConn, historyVars>>

Exists(p) ==
  /\ At(p, "exists") /\ HasConn(p)
  /\ IF Live(p) /\ store[key[p]] # MISSING
       THEN Advance(p, "watch") ELSE Finish(p, "ko")
  /\ UNCHANGED <<poolVars, store, connVars, loadConn, historyVars>>

WatchSkipped(p) ==  \* mutant of Watch: the key is not watched
  /\ At(p, "watch") /\ HasConn(p)
  /\ Advance(p, "get")
  /\ UNCHANGED <<poolVars, store, connVars, loadConn, historyVars>>

Watch(p) ==
  /\ At(p, "watch") /\ HasConn(p)
  /\ watched' = IF Live(p)
                  THEN [watched EXCEPT ![held[p]] = @ \cup {key[p]}]
                  ELSE watched
  /\ Advance(p, "get")
  /\ UNCHANGED <<poolVars, store, alive, dirty, multi, queued, loadConn,
                 historyVars>>

GetUntested(p) ==  \* mutant of Get: only the error is looked at
  /\ At(p, "get")
  /\ IF Live(p) THEN Advance(p, "multi") ELSE Finish(p, "ko")
  /\ UNCHANGED <<poolVars, store, connVars, loadConn, historyVars>>

\* GET, and the test of the status it returned.
Get(p) ==
  /\ At(p, "get")
  /\ IF Live(p) /\ store[key[p]] = From(op[p])
       THEN Advance(p, "multi") ELSE Finish(p, "ko")
  /\ UNCHANGED <<poolVars, store, connVars, loadConn, historyVars>>

Multi(p) ==
  /\ At(p, "multi")
  /\ multi' = [multi EXCEPT ![held[p]] = Live(p)]
  /\ Advance(p, "set")
  /\ UNCHANGED <<poolVars, store, alive, watched, dirty, queued, loadConn,
                 historyVars>>

SetLast(p) ==  \* mutant of Set: returns without EXEC
  /\ At(p, "set")
  /\ queued' = IF Live(p)
                 THEN [queued EXCEPT ![held[p]][key[p]] = To(op[p])]
                 ELSE queued
  /\ Finish(p, "ok")
  /\ UNCHANGED <<poolVars, store, alive, watched, dirty, multi, loadConn,
                 historyVars>>

Set(p) ==
  /\ At(p, "set")
  /\ queued' = IF Live(p)
                 THEN [queued EXCEPT ![held[p]][key[p]] = To(op[p])]
                 ELSE queued
  /\ Advance(p, "exec")
  /\ UNCHANGED <<poolVars, store, alive, watched, dirty, multi, loadConn,
                 historyVars>>

(***************************************************************************)
(* The server runs an EXEC: the queued SETs take effect, the connection's  *)
(* transaction and watches are gone.                                       *)
(***************************************************************************)
Commit(p) ==
  LET c == held[p]
      ks == { k \in Keys : queued[c][k] # MISSING }
  IN  /\ store' = [k \in Keys |-> IF k \in ks THEN queued[c][k] ELSE store[k]]
      /\ dirty' = [Spoiled(ks) EXCEPT ![c] = FALSE]
      /\ committed' = [committed EXCEPT ![p] = TRUE]
      /\ winner' = IF op[p] = "block" THEN [winner EXCEPT ![key[p]] = p]
                                      ELSE winner

EndTransaction(p) ==
  /\ watched' = [watched EXCEPT ![held[p]] = {}]
  /\ multi' = [multi EXCEPT ![held[p]] = FALSE]
  /\ queued' = [queued EXCEPT ![held[p]] = Nothing]

ExecInverted(p) ==  \* mutant of ExecCommit: err != nil for err == nil
  /\ At(p, "exec") /\ Live(p) /\ ~dirty[held[p]]
  /\ Commit(p)
  /\ EndTransaction(p)
  /\ Finish(p, "ko")
  /\ UNCHANGED <<poolVars, alive, loadConn>>

(***************************************************************************)
(* EXEC.  The code returns true when there is no error; an EXEC that redis *)
(* refuses because a watched key was written answers nil without an error. *)
(***************************************************************************)
ExecCommit(p) ==
  /\ At(p, "exec") /\ Live(p) /\ ~dirty[held[p]]
  /\ Commit(p)
  /\ EndTransaction(p)
  /\ Finish(p, "ok")
  /\ UNCHANGED <<poolVars, alive, loadConn>>

ExecAbort(p) ==
  /\ At(p, "exec") /\ Live(p) /\ dirty[held[p]]
  /\ dirty' = [dirty EXCEPT ![held[p]] = FALSE]
  /\ EndTransaction(p)
  /\ Finish(p, "ok")
  /\ UNCHANGED <<poolVars, store, alive, loadConn, historyVars>>

\* The connection is broken already: EXEC never reaches the server.
ExecBroken(p) ==
  /\ At(p, "exec") /\ ~Live(p)
  /\ Finish(p, "ko")
  /\ UNCHANGED <<poolVars, store, connVars, loadConn, historyVars>>

\* The server runs EXEC and the connection breaks before the reply is read.
ExecReplyLost(p) ==
  /\ MayBreak
  /\ At(p, "exec") /\ Live(p) /\ ~dirty[held[p]]
  /\ Commit(p)
  /\ EndTransaction(p)
  /\ alive' = [alive EXCEPT ![held[p]] = FALSE]
  /\ Finish(p, "ko")
  /\ UNCHANGED <<poolVars, loadConn>>

Exec(p) ==
  ExecCommit(p) \/ ExecAbort(p) \/ ExecBroken(p) \/ ExecReplyLost(p)

ReturnSkipped(p) ==  \* mutant of ReturnConnection: no Put when the answer is ko
  /\ At(p, "put")
  /\ \/ res[p] # "ko" /\ Put(p, held[p]) /\ Respond(p)
     \/ res[p] # "ko" /\ PutPanic(p) /\ UNCHANGED reqVars
     \/ /\ res[p] = "ko"
        /\ Hold(p, NoRes) /\ Goto(p, "out") /\ UNCHANGED <<resources, settings>>
        /\ Respond(p)
  /\ UNCHANGED <<store, connVars, loadConn, historyVars>>

ReturnTwice(p) ==  \* mutant of ReturnConnection: an explicit Put and a deferred one
  /\ At(p, "put")
  /\ Len(resources) < MaxCap - 1
  /\ resources' = resources \o <<held[p], held[p]>>
  /\ Hold(p, NoRes) /\ Goto(p, "out") /\ UNCHANGED settings
  /\ Respond(p)
  /\ UNCHANGED <<store, connVars, loadConn, historyVars>>

(***************************************************************************)
(* The deferred pool.Put(c), whatever Get said and whatever became of the  *)
(* connection; then the response.  revel's PanicFilter turns a panic into  *)
(* a 500 response.                                                         *)
(***************************************************************************)
ReturnConnection(p) ==
  /\ At(p, "put")
  /\ \/ Put(p, held[p]) /\ Respond(p)
     \/ PutPanic(p) /\ UNCHANGED reqVars
  /\ UNCHANGED <<store, connVars, loadConn, historyVars>>

Recover(p) ==
  /\ call[p] = "panic"
  /\ Goto(p, "out")
  /\ Respond(p)
  /\ UNCHANGED <<resources, held, settings, store, connVars, loadConn,
                 historyVars>>

Commands(p) ==
  Watch(p) \/ Get(p) \/ Multi(p) \/ Set(p) \/ Exec(p) \/ ReturnConnection(p)

BlockSeat(p) == op[p] = "block" /\ (NilConn(p) \/ Exists(p) \/ Commands(p))

ConfirmSeat(p) == op[p] = "confirm" /\ (NilConn(p) \/ Commands(p))
-----------------------------------------------------------------------------
(***************************************************************************)
(* LoadSeatsIntoRedis: a plain SET on a connection of its own, dialled on  *)
(* first use and never again once it exists.  A failed dial and a Do on    *)
(* the broken connection return false and change nothing.                  *)
(***************************************************************************)
LoadSeatsIntoRedis(k, s) ==
  /\ loadConn # "broken"
  /\ store' = [store EXCEPT ![k] = s]
  /\ dirty' = Spoiled({k})
  /\ winner' = [winner EXCEPT ![k] = Nobody]
  /\ loadConn' \in {"up"} \cup (IF MayBreak THEN {"broken"} ELSE {})
  /\ UNCHANGED <<poolVars, alive, watched, multi, queued, reqVars, committed>>

(***************************************************************************)
(* Connections break at any time, in the pool as well as in a request.     *)
(***************************************************************************)
Break(c) ==
  /\ MayBreak
  /\ alive[c]
  /\ Disconnect(c)
  /\ UNCHANGED <<poolVars, store, reqVars, loadConn, historyVars>>

BreakLoad ==
  /\ MayBreak
  /\ loadConn = "up"
  /\ loadConn' = "broken"
  /\ UNCHANGED <<poolVars, store, connVars, reqVars, historyVars>>

RequestStep(p) ==
  GetConnection(p) \/ BlockSeat(p) \/ ConfirmSeat(p) \/ Recover(p)

Next ==
  \/ \E p \in Clients :
       \/ \E o \in {"block", "confirm"}, k \in Keys : Request(p, o, k)
       \/ RequestStep(p)
  \/ \E k \in Keys, s \in {FREE, CONFIRMED} : LoadSeatsIntoRedis(k, s)
  \/ \E c \in Resources : Break(c)
  \/ BreakLoad

(***************************************************************************)
(* The goroutine of a request keeps running until it has answered; one     *)
(* that waits for a connection is served in turn, since Go queues the      *)
(* receivers of a channel first in, first out (strong fairness).  Nothing  *)
(* forces requests, loads or failures to happen.                           *)
(***************************************************************************)
Fairness ==
  \A p \in Clients :
    /\ SF_vars(TakeWrapper(p))
    /\ WF_vars(Unwrap(p) \/ BlockSeat(p) \/ ConfirmSeat(p) \/ Recover(p))

Spec == Init /\ [][Next]_vars

FairSpec == Spec /\ Fairness
-----------------------------------------------------------------------------
TypeOK ==
  /\ PoolTypeOK
  /\ store \in [Keys -> Status \cup {MISSING}]
  /\ alive \in [Resources -> BOOLEAN]
  /\ watched \in [Resources -> SUBSET Keys]
  /\ dirty \in [Resources -> BOOLEAN]
  /\ multi \in [Resources -> BOOLEAN]
  /\ queued \in [Resources -> [Keys -> Status \cup {MISSING}]]
  /\ pc \in [Clients -> {"idle", "exists", "watch", "get", "multi", "set",
                         "exec", "put"}]
  /\ op \in [Clients -> {"none", "block", "confirm"}]
  /\ key \in [Clients -> Keys \cup {Nobody}]
  /\ res \in [Clients -> {"none", "ok", "ko", "panic"}]
  /\ loadConn \in {"nil", "up", "broken"}
  /\ committed \in [Clients -> BOOLEAN]
  /\ winner \in [Keys -> Clients \cup {Nobody}]

(***************************************************************************)
(* SeatCacheImplemented: BlockSeat, ConfirmSeat and LoadSeatsIntoRedis     *)
(* over pooled connections implement the atomic SeatCache: a seat becomes  *)
(* blocked only from free and confirmed only from blocked, whatever the    *)
(* interleaving of the commands, the leftovers on reused connections, the  *)
(* broken connections and the lost replies.                                *)
(***************************************************************************)
Cache == INSTANCE SeatCache WITH status <- store, Requests <- Clients

SeatCacheImplemented == Cache!Spec

(***************************************************************************)
(* WatchGuards: from the GET that saw the expected status up to the EXEC,  *)
(* either the seat still has that status or the server has marked the      *)
(* connection, so that its EXEC will do nothing.                           *)
(***************************************************************************)
WatchGuards ==
  \A p \in Clients :
    pc[p] \in {"multi", "set", "exec"} /\ alive[held[p]] =>
      /\ key[p] \in watched[held[p]]
      /\ dirty[held[p]] \/ store[key[p]] = From(op[p])

(***************************************************************************)
(* TransactionsIsolated: a connection has an open MULTI only while the     *)
(* request that sent it still holds it and is about to SET or EXEC; no     *)
(* request is ever handed a connection in the middle of a transaction.     *)
(***************************************************************************)
TransactionsIsolated ==
  \A c \in Resources :
    multi[c] => \E p \in Clients : held[p] = c /\ pc[p] \in {"set", "exec"}

(***************************************************************************)
(* KoMeansNoWrite: a request that is about to answer "ko" has written the  *)
(* seat only if its connection broke under the EXEC.                       *)
(***************************************************************************)
KoMeansNoWrite ==
  \A p \in Clients :
    pc[p] = "put" /\ call[p] # "panic" /\ res[p] = "ko" /\ committed[p] =>
      ~alive[held[p]]

(***************************************************************************)
(* The wrappers out of the channel: those a Get has taken and those the    *)
(* requests hold until their deferred Put.  ResourceConn{nil} is not worth *)
(* a wrapper: when the factory returns it, its wrapper goes back at once.  *)
(***************************************************************************)
Taken == { p \in Clients : \/ call[p] = "sendback"
                           \/ call[p] \in {"unwrap", "ok"} /\ held[p] # BadRes }

(***************************************************************************)
(* ConnectionLimit: the wrappers that hold or may get a connection never   *)
(* outnumber the capacity given to InitRedisPool, also when every failed   *)
(* Get is followed by a Put too many.                                      *)
(***************************************************************************)
ConnectionLimit ==
  Cardinality({ i \in DOMAIN resources : resources[i] # BadRes })
    + Cardinality(Taken) <= Capacity

(***************************************************************************)
(* ConnectionsReturned: as long as dialling works, every connection that   *)
(* leaves the channel comes back, and none comes back twice.               *)
(***************************************************************************)
ConnectionsReturned == Len(resources) + Cardinality(Taken) = Capacity

(***************************************************************************)
(* EveryRequestAnswered: as long as no dial fails, every request is        *)
(* answered and its goroutine ends, although requests wait for each        *)
(* other's connections and connections break and expire.  A dial that      *)
(* fails sends a wrapper back, so that it shows in call.                   *)
(***************************************************************************)
DialsSucceed == \A p \in Clients : call[p] # "sendback"

EveryRequestAnswered ==
  []DialsSucceed => \A p \in Clients : pc[p] # "idle" ~> pc[p] = "idle"

(***************************************************************************)
(* OkMeansCommitted: a request answers "ok" only if its own EXEC wrote the *)
(* seat.  The redigo example for optimistic locking loops "until           *)
(* transaction is successful" and tests the EXEC reply for nil.            *)
(***************************************************************************)
OkMeansCommitted ==
  \A p \in Clients : pc[p] = "put" /\ res[p] = "ok" => committed[p]

(***************************************************************************)
(* NoClosedPut: a request does not Put a connection that redigo has closed *)
(* (conn.fatal); the pool's comment asks for Put(nil) instead.             *)
(***************************************************************************)
NoClosedPut ==
  [][\A p \in Clients :
       ReturnConnection(p) /\ held[p] \in Resources => alive[held[p]]]_vars
=============================================================================
