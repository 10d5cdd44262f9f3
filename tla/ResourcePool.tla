---------------------------- MODULE ResourcePool ----------------------------
(***************************************************************************)
(* The connection pool of the booking engine: vitess' ResourcePool         *)
(* (github.com/youtube/vitess/go/pools/resource_pool.go).                  *)
(*                                                                         *)
(* The pool is one buffered Go channel of wrappers; a wrapper holds an     *)
(* open resource or nothing.  Get receives a wrapper (blocking), Put sends *)
(* one (never blocking: it panics when the channel is full), SetCapacity   *)
(* swaps the capacity and then drains or fills the channel one wrapper at  *)
(* a time while Gets and Puts go on.                                       *)
(*                                                                         *)
(* A goroutine inside a pool call is a process with a program counter,     *)
(* call[p].  Every channel operation and every call of the factory is a    *)
(* step of its own.  Module PoolContract drives these actions the way the  *)
(* pool's comments ask for, module RedisHelper the way the booking engine  *)
(* does.                                                                   *)
(*                                                                         *)
(* Left out: the statistics (waitCount, waitTime), which nothing reads     *)
(* back, and the clock: whether an idle resource has expired when it is    *)
(* received is a free choice while idleTimeout is positive.                *)
(***************************************************************************)
EXTENDS Integers, Sequences, FiniteSets

CONSTANTS
  Clients,        \* goroutines that Get and Put
  Admins,         \* goroutines that SetCapacity and Close
  Resources,      \* identities of the resources the factory can open
  NoRes,          \* Go's nil: no resource in a wrapper
  BadRes,         \* the resource the factory returns beside an error
  Capacity,       \* initial capacity
  MaxCap,         \* buffer size of the channel
  FactoryMayFail  \* can the factory return an error?

Procs == Clients \cup Admins

Wrapper == Resources \cup {NoRes, BadRes}

(***************************************************************************)
(* The parameter check of NewResourcePool, and what the model's constants  *)
(* have to be.                                                             *)
(***************************************************************************)
ASSUME PoolAssumption ==
  /\ Capacity \in Nat \ {0}
  /\ MaxCap \in Nat
  /\ Capacity <= MaxCap
  /\ Clients \cap Admins = {}
  /\ NoRes \notin Resources
  /\ BadRes \notin Resources
  /\ FactoryMayFail \in BOOLEAN

VARIABLES
  resources,    \* the channel: a sequence of wrappers
  capacity,     \* the capacity the last SetCapacity asked for
  closed,       \* has the channel been closed?
  idleTimeout,  \* is the idle timeout positive?
  call,         \* where each goroutine is in its pool call
  held,         \* the wrapper content a goroutine took out of the channel
  todo          \* wrappers a SetCapacity has left to add (>0) or drain (<0)

poolVars == <<resources, capacity, closed, idleTimeout, call, held, todo>>

CallState == { "out",       \* not in a pool call, holding nothing
               "recv",      \* Get: receiving from the channel
               "unwrap",    \* Get: a wrapper received, not yet a resource
               "sendback",  \* Get: the factory failed, wrapper to give back
               "ok",        \* Get returned held[p] and no error
               "err",       \* Get returned held[p] and an error
               "resize",    \* SetCapacity to a positive capacity
               "closing",   \* SetCapacity to 0, which is Close
               "panic" }    \* the pool call panicked

(***************************************************************************)
(* NewResourcePool: capacity empty wrappers in a channel of size MaxCap.   *)
(***************************************************************************)
PoolInit ==
  /\ resources = [i \in 1..Capacity |-> NoRes]
  /\ capacity = Capacity
  /\ closed = FALSE
  /\ idleTimeout = TRUE
  /\ call = [p \in Procs |-> "out"]
  /\ held = [p \in Procs |-> NoRes]
  /\ todo = [p \in Procs |-> 0]

Pooled == { resources[i] : i \in DOMAIN resources }

InUse == Pooled \cup { held[p] : p \in Procs }

Goto(p, s) == call' = [call EXCEPT ![p] = s]

Hold(p, r) == held' = [held EXCEPT ![p] = r]

settings == <<capacity, closed, idleTimeout, todo>>
-----------------------------------------------------------------------------
(***************************************************************************)
(* Get and TryGet.                                                         *)
(***************************************************************************)
GetCall(p) ==
  /\ call[p] = "out"
  /\ Goto(p, "recv")
  /\ UNCHANGED <<resources, held, settings>>

ReceiveShared(p) ==  \* mutant of Receive: the wrapper stays in the channel
  /\ call[p] = "recv"
  /\ resources # <<>>
  /\ Hold(p, Head(resources))
  /\ Goto(p, "unwrap")
  /\ UNCHANGED <<resources, settings>>

(***************************************************************************)
(* The blocking receive: the first branch of the select, or the receive    *)
(* after it had to wait.                                                   *)
(***************************************************************************)
Receive(p) ==
  /\ call[p] = "recv"
  /\ resources # <<>>
  /\ resources' = Tail(resources)
  /\ Hold(p, Head(resources))
  /\ Goto(p, "unwrap")
  /\ UNCHANGED settings

(***************************************************************************)
(* A receive from the closed and drained channel: CLOSED_ERR.              *)
(***************************************************************************)
ReceiveClosed(p) ==
  /\ call[p] = "recv"
  /\ closed
  /\ resources = <<>>
  /\ Goto(p, "err")
  /\ UNCHANGED <<resources, held, settings>>

(***************************************************************************)
(* TryGet with a wrapper at hand.  With none it returns nil, nil and       *)
(* changes nothing.                                                        *)
(***************************************************************************)
TryGet(p) ==
  /\ call[p] = "out"
  /\ resources # <<>>
  /\ resources' = Tail(resources)
  /\ Hold(p, Head(resources))
  /\ Goto(p, "unwrap")
  /\ UNCHANGED settings

(***************************************************************************)
(* The resource has been idle too long: it is closed and dropped.          *)
(***************************************************************************)
Expire(p) ==
  /\ call[p] = "unwrap"
  /\ idleTimeout
  /\ held[p] \in Resources
  /\ Hold(p, NoRes)
  /\ UNCHANGED <<resources, call, settings>>

(***************************************************************************)
(* The wrapper holds a resource that has not expired: Get returns it.      *)
(***************************************************************************)
Reuse(p) ==
  /\ call[p] = "unwrap"
  /\ held[p] # NoRes
  /\ Goto(p, "ok")
  /\ UNCHANGED <<resources, held, settings>>

(***************************************************************************)
(* An empty wrapper: the factory opens resource r, one not open already.   *)
(***************************************************************************)
FactoryOk(p, r) ==
  /\ call[p] = "unwrap"
  /\ held[p] = NoRes
  /\ r \notin InUse
  /\ Hold(p, r)
  /\ Goto(p, "ok")
  /\ UNCHANGED <<resources, settings>>

FactoryFail(p) ==
  /\ FactoryMayFail
  /\ call[p] = "unwrap"
  /\ held[p] = NoRes
  /\ Hold(p, BadRes)
  /\ Goto(p, "sendback")
  /\ UNCHANGED <<resources, settings>>

SendBackForgotten(p) ==  \* mutant of SendBack: the slot is not given back
  /\ call[p] = "sendback"
  /\ Goto(p, "err")
  /\ UNCHANGED <<resources, held, settings>>

(***************************************************************************)
(* The factory failed: an empty wrapper goes back into the channel and the *)
(* caller gets the error, beside whatever the factory returned.            *)
(***************************************************************************)
SendBack(p) ==
  /\ call[p] = "sendback"
  /\ ~closed
  /\ Len(resources) < MaxCap
  /\ resources' = Append(resources, NoRes)
  /\ Goto(p, "err")
  /\ UNCHANGED <<held, settings>>
-----------------------------------------------------------------------------
PutKept(p, r) ==  \* mutant of Put: the caller goes on using what it put back
  /\ ~closed
  /\ Len(resources) < MaxCap
  /\ resources' = Append(resources, r)
  /\ UNCHANGED <<call, held, settings>>

(***************************************************************************)
(* Put(r) by a goroutine whose Get has returned.                           *)
(***************************************************************************)
Put(p, r) ==
  /\ ~closed
  /\ Len(resources) < MaxCap
  /\ resources' = Append(resources, r)
  /\ Hold(p, NoRes)
  /\ Goto(p, "out")
  /\ UNCHANGED settings

(***************************************************************************)
(* The default branch of Put's select, "Attempt to Put into a full         *)
(* ResourcePool", and Go's panic on a send to a closed channel.  What was  *)
(* to be put is lost.                                                      *)
(***************************************************************************)
PutPanic(p) ==
  /\ closed \/ Len(resources) = MaxCap
  /\ Hold(p, NoRes)
  /\ Goto(p, "panic")
  /\ UNCHANGED <<resources, settings>>

(***************************************************************************)
(* The other two sends to the channel, when it is closed already: get      *)
(* gives a wrapper back, SetCapacity adds one.                             *)
(***************************************************************************)
SendBackPanic(p) ==
  /\ closed
  /\ call[p] = "sendback"
  /\ Hold(p, NoRes)
  /\ Goto(p, "panic")
  /\ UNCHANGED <<resources, settings>>

GrowPanic(p) ==
  /\ closed
  /\ call[p] = "resize" /\ todo[p] > 0
  /\ Hold(p, NoRes)
  /\ Goto(p, "panic")
  /\ UNCHANGED <<resources, settings>>
-----------------------------------------------------------------------------
SetCapacityAny(p, c) ==  \* mutant of SetCapacity: no range check
  /\ call[p] = "out"
  /\ capacity # 0
  /\ capacity # c
  /\ capacity' = c
  /\ todo' = [todo EXCEPT ![p] = c - capacity]
  /\ Goto(p, IF c = 0 THEN "closing" ELSE "resize")
  /\ UNCHANGED <<resources, held, closed, idleTimeout>>

(***************************************************************************)
(* SetCapacity and Close.  The compare-and-swap loop takes effect at its   *)
(* successful swap; a closed pool, an unchanged capacity and a capacity    *)
(* out of range return at once.                                            *)
(***************************************************************************)
SetCapacity(p, c) ==
  /\ call[p] = "out"
  /\ c \in 0..MaxCap
  /\ capacity # 0
  /\ capacity # c
  /\ capacity' = c
  /\ todo' = [todo EXCEPT ![p] = c - capacity]
  /\ Goto(p, IF c = 0 THEN "closing" ELSE "resize")
  /\ UNCHANGED <<resources, held, closed, idleTimeout>>

(***************************************************************************)
(* One turn of the shrinking loop: take a wrapper, close its resource.     *)
(* From a closed and drained channel it receives the zero wrapper.         *)
(***************************************************************************)
Shrink(p) ==
  /\ call[p] \in {"resize", "closing"}
  /\ todo[p] < 0
  /\ \/ resources # <<>> /\ resources' = Tail(resources)
     \/ closed /\ resources = <<>> /\ UNCHANGED resources
  /\ todo' = [todo EXCEPT ![p] = @ + 1]
  /\ UNCHANGED <<capacity, closed, idleTimeout, call, held>>

(***************************************************************************)
(* One turn of the growing loop: send an empty wrapper, blocking when the  *)
(* channel is full.                                                        *)
(***************************************************************************)
Grow(p) ==
  /\ call[p] = "resize"
  /\ todo[p] > 0
  /\ ~closed
  /\ Len(resources) < MaxCap
  /\ resources' = Append(resources, NoRes)
  /\ todo' = [todo EXCEPT ![p] = @ - 1]
  /\ UNCHANGED <<capacity, closed, idleTimeout, call, held>>

CloseEarly(p) ==  \* mutant of ResizeDone: closes without draining everything
  /\ \/ call[p] = "resize" /\ todo[p] = 0
     \/ call[p] = "closing"
  /\ closed' = (closed \/ call[p] = "closing")
  /\ todo' = [todo EXCEPT ![p] = 0]
  /\ Goto(p, "out")
  /\ UNCHANGED <<resources, held, capacity, idleTimeout>>

(***************************************************************************)
(* The loop is done; a SetCapacity to 0 closes the channel.                *)
(***************************************************************************)
ResizeDone(p) ==
  /\ call[p] \in {"resize", "closing"}
  /\ todo[p] = 0
  /\ closed' = (closed \/ call[p] = "closing")
  /\ Goto(p, "out")
  /\ UNCHANGED <<resources, held, capacity, idleTimeout, todo>>

SetIdleTimeout(positive) ==
  /\ idleTimeout' = positive
  /\ UNCHANGED <<resources, capacity, closed, call, held, todo>>
-----------------------------------------------------------------------------
(***************************************************************************)
(* PoolTypeOK: the channel never holds more wrappers than its buffer, and  *)
(* every variable has its type.                                            *)
(***************************************************************************)
PoolTypeOK ==
  /\ resources \in Seq(Wrapper)
  /\ Len(resources) <= MaxCap
  /\ capacity \in 0..MaxCap
  /\ closed \in BOOLEAN
  /\ idleTimeout \in BOOLEAN
  /\ call \in [Procs -> CallState]
  /\ held \in [Procs -> Wrapper]
  /\ todo \in [Procs -> Int]

(***************************************************************************)
(* Exclusive: an open resource is in one place only.  Two goroutines never *)
(* hold the same resource, a held resource is not in the channel as well,  *)
(* and the channel holds it once.  The channel receive in get, the send in *)
(* Put and the replacement of an expired resource all have to respect it:  *)
(* commands of two requests on one Redis connection would otherwise end up *)
(* in one transaction.                                                     *)
(***************************************************************************)
HeldOnce ==
  \A p, q \in Procs : held[p] \in Resources /\ held[p] = held[q] => p = q

HeldNotPooled ==
  \A p \in Procs, i \in 1..Len(resources) :
    held[p] \in Resources => resources[i] # held[p]

PooledOnce ==
  \A i, j \in 1..Len(resources) :
    resources[i] \in Resources /\ resources[i] = resources[j] => i = j

Exclusive == HeldOnce /\ HeldNotPooled /\ PooledOnce
=============================================================================
