------------------------- MODULE PoolContractProofs -------------------------
(***************************************************************************)
(* What holds of the pool under its contract for any number of goroutines, *)
(* resources and resizers, and any capacity.                               *)
(***************************************************************************)
EXTENDS PoolContract, ResourcePoolProofs, FiniteSetTheorems

(***************************************************************************)
(* PoolStepSafe: every step of a client or an admin keeps the types and    *)
(* the exclusive use of resources.                                         *)
(***************************************************************************)
LEMMA PoolStepSafe ==
  ASSUME PoolTypeOK, Exclusive, [Next]_poolVars
  PROVE  PoolTypeOK' /\ Exclusive'
<1>1. ASSUME NEW p \in Clients, ClientNext(p)
      PROVE  PoolTypeOK' /\ Exclusive'
  <2>1. p \in Procs
    BY DEF Procs
  <2>2. CASE GetStep(p)
    BY <2>1, <2>2, GetStepSafe
  <2>3. CASE GiveUp(p)
    <3>1. Leave(p)
      BY <2>3 DEF GiveUp, Leave, CallState
    <3> QED
      BY <2>1, <3>1, PutStepSafe DEF PutStep
  <2>4. CASE GiveBack(p)
    BY <2>1, <2>4, PutStepSafe DEF GiveBack, PutStep
  <2>5. CASE SendBackPanic(p)
    BY <2>1, <2>5, PutStepSafe DEF PutStep
  <2> QED
    BY <1>1, <2>2, <2>3, <2>4, <2>5 DEF ClientNext, Getting, GetStep
<1>2. ASSUME NEW p \in Admins, AdminNext(p)
      PROVE  PoolTypeOK' /\ Exclusive'
  <2>1. p \in Procs
    BY DEF Procs
  <2>2. CASE GrowPanic(p)
    BY <2>1, <2>2, PutStepSafe DEF PutStep
  <2>3. CASE ~GrowPanic(p)
    <3>1. (-1)..(MaxCap + 1) \subseteq Int
      BY PoolAssumption
    <3>2. ResizeStep(p)
      BY <1>2, <2>3, <3>1 DEF AdminNext, ResizeStep
    <3> QED
      BY <2>1, <3>2, ResizeStepSafe
  <2> QED
    BY <2>2, <2>3
<1>3. ASSUME NEW positive \in BOOLEAN, SetIdleTimeout(positive)
      PROVE  PoolTypeOK' /\ Exclusive'
  BY <1>3
     DEF SetIdleTimeout, PoolTypeOK, Exclusive, HeldOnce, HeldNotPooled,
         PooledOnce
<1>4. CASE UNCHANGED poolVars
  BY <1>4
     DEF poolVars, PoolTypeOK, Exclusive, HeldOnce, HeldNotPooled, PooledOnce
<1> QED
  BY <1>1, <1>2, <1>3, <1>4 DEF Next

\* PoolAlways: the types and the exclusive ownership are inductive together.
LEMMA PoolAlways == Spec => [](PoolTypeOK /\ Exclusive)
<1>1. Init => PoolTypeOK /\ Exclusive
  BY PoolInitSafe DEF Init
<1>2. PoolTypeOK /\ Exclusive /\ [Next]_poolVars => PoolTypeOK' /\ Exclusive'
  BY PoolStepSafe
<1> QED
  BY <1>1, <1>2, PTL DEF Spec

(***************************************************************************)
(* PoolTyped: whatever clients and admins do, the channel never holds more *)
(* than MaxCap wrappers and each of them is a resource, empty or the       *)
(* ResourceConn of a failed dial.                                          *)
(***************************************************************************)
THEOREM PoolTyped == Spec => []PoolTypeOK
BY PoolAlways, PTL

(***************************************************************************)
(* PoolSafety: clients that get and put and admins that resize and close   *)
(* never make two goroutines share a resource, and none is in the channel  *)
(* while it is held.                                                       *)
(***************************************************************************)
THEOREM PoolSafety == Spec => []Exclusive
BY PoolAlways, PTL
-----------------------------------------------------------------------------
(***************************************************************************)
(* Counting slots.  Nothing is assumed of the number of goroutines, so     *)
(* that the counted sets are finite is part of the invariant.              *)
(***************************************************************************)
Counted ==
  /\ IsFiniteSet(Outstanding)
  /\ IsFiniteSet(ToAdd)
  /\ IsFiniteSet(ToDrain)

(***************************************************************************)
(* TodoInLoop: only a SetCapacity in its loop has turns left, or one that  *)
(* panicked in it.                                                         *)
(***************************************************************************)
TodoInLoop ==
  \A p \in Procs :
    /\ todo[p] \in (-MaxCap)..MaxCap
    /\ todo[p] # 0 => p \in Admins /\ call[p] \in {"resize", "closing", "panic"}

(***************************************************************************)
(* AdminsHoldNothing: a goroutine that resizes has no wrapper of its own.  *)
(***************************************************************************)
Holding == {"unwrap", "sendback", "ok"}

AdminsHoldNothing == \A p \in Admins : call[p] \notin Holding

SlotInv ==
  /\ PoolTypeOK /\ Exclusive
  /\ Counted
  /\ TodoInLoop
  /\ AdminsHoldNothing
  /\ SlotsConserved

(***************************************************************************)
(* TurnsOf: a loop of d turns has d turns.                                 *)
(***************************************************************************)
LEMMA TurnsOf ==
  ASSUME NEW p, NEW d \in Nat
  PROVE  /\ IsFiniteSet({p} \X (1..d))
         /\ Cardinality({p} \X (1..d)) = d
<1>1. IsFiniteSet({p}) /\ Cardinality({p}) = 1
  BY FS_Singleton
<1>2. IsFiniteSet(1..d) /\ Cardinality(1..d) = d
  BY FS_Interval
<1>3. /\ IsFiniteSet({p} \X (1..d))
      /\ Cardinality({p} \X (1..d)) = Cardinality({p}) * Cardinality(1..d)
  BY <1>1, <1>2, FS_Product
<1> QED
  BY <1>1, <1>2, <1>3

(***************************************************************************)
(* DisjointUnion: disjoint finite sets are counted apart.                  *)
(***************************************************************************)
LEMMA DisjointUnion ==
  ASSUME NEW S, IsFiniteSet(S), NEW T, IsFiniteSet(T), S \cap T = {}
  PROVE  /\ IsFiniteSet(S \cup T)
         /\ Cardinality(S \cup T) = Cardinality(S) + Cardinality(T)
<1>1. Cardinality(S) \in Nat /\ Cardinality(T) \in Nat
  BY FS_CardinalityType
<1>2. Cardinality(S \cap T) = 0
  BY FS_EmptySet
<1>3. /\ IsFiniteSet(S \cup T)
      /\ Cardinality(S \cup T)
           = Cardinality(S) + Cardinality(T) - Cardinality(S \cap T)
  BY FS_Union, Zenon
<1> QED
  BY <1>1, <1>2, <1>3

(***************************************************************************)
(* LoopStarts: a SetCapacity that swaps the capacity takes on as many      *)
(* turns as the capacity differs.                                          *)
(***************************************************************************)
LEMMA LoopStarts ==
  ASSUME todo \in [Procs -> Int], NEW p \in Admins, todo[p] = 0,
         NEW d \in (-MaxCap)..MaxCap, todo' = [todo EXCEPT ![p] = d],
         IsFiniteSet(ToAdd), IsFiniteSet(ToDrain)
  PROVE  /\ IsFiniteSet(ToAdd') /\ IsFiniteSet(ToDrain')
         /\ Cardinality(ToAdd') - Cardinality(ToDrain')
              = Cardinality(ToAdd) - Cardinality(ToDrain) + d
<1>1. MaxCap \in Nat /\ p \in Procs
  BY PoolAssumption DEF Procs
<1>2. \A q \in Admins : todo[q] \in Int /\ todo'[q] = IF q = p THEN d ELSE todo[q]
  BY DEF Procs
<1>3. Cardinality(ToAdd) \in Nat /\ Cardinality(ToDrain) \in Nat
  BY FS_CardinalityType
<1>4. CASE d >= 0
  <2> DEFINE T == {p} \X (1..d)
  <2>1. ToAdd' = ToAdd \cup T
    BY <1>1, <1>2, <1>4 DEF ToAdd
  <2>2. ToDrain' = ToDrain
    BY <1>1, <1>2, <1>4 DEF ToDrain
  <2>3. ToAdd \cap T = {}
    BY <1>1, <1>2, <1>4 DEF ToAdd
  <2>4. d \in Nat
    BY <1>1, <1>4
  <2>5. IsFiniteSet(T) /\ Cardinality(T) = d
    BY <2>4, TurnsOf
  <2> HIDE DEF T
  <2>6. IsFiniteSet(ToAdd') /\ Cardinality(ToAdd') = Cardinality(ToAdd) + d
    BY <2>1, <2>3, <2>5, DisjointUnion
  <2> QED
    BY <1>3, <2>2, <2>4, <2>6
<1>5. CASE d < 0
  <2> DEFINE T == {p} \X (1..(-d))
  <2>1. ToDrain' = ToDrain \cup T
    BY <1>1, <1>2, <1>5 DEF ToDrain
  <2>2. ToAdd' = ToAdd
    BY <1>1, <1>2, <1>5 DEF ToAdd
  <2>3. ToDrain \cap T = {}
    BY <1>1, <1>2, <1>5 DEF ToDrain
  <2>4. -d \in Nat
    BY <1>1, <1>5
  <2>5. IsFiniteSet(T) /\ Cardinality(T) = -d
    BY <2>4, TurnsOf
  <2> HIDE DEF T
  <2>6. IsFiniteSet(ToDrain') /\ Cardinality(ToDrain') = Cardinality(ToDrain) - d
    BY <1>3, <2>1, <2>3, <2>4, <2>5, DisjointUnion
  <2> QED
    BY <1>1, <1>3, <2>2, <2>6
<1> QED
  BY <1>1, <1>4, <1>5

(***************************************************************************)
(* LoopTurns: a turn of a loop takes one turn off.                         *)
(***************************************************************************)
LEMMA LoopTurns ==
  ASSUME todo \in [Procs -> Int], NEW p \in Admins,
         todo[p] \in (-MaxCap)..MaxCap, NEW d \in {1, -1},
         d = 1 => todo[p] < 0, d = -1 => todo[p] > 0,
         todo' = [todo EXCEPT ![p] = @ + d],
         IsFiniteSet(ToAdd), IsFiniteSet(ToDrain)
  PROVE  /\ IsFiniteSet(ToAdd') /\ IsFiniteSet(ToDrain')
         /\ Cardinality(ToAdd') - Cardinality(ToDrain')
              = Cardinality(ToAdd) - Cardinality(ToDrain) + d
<1>1. MaxCap \in Nat /\ p \in Procs
  BY PoolAssumption DEF Procs
<1>2. \A q \in Admins :
        todo[q] \in Int /\ todo'[q] = IF q = p THEN todo[p] + d ELSE todo[q]
  BY DEF Procs
<1>3. Cardinality(ToAdd) \in Nat /\ Cardinality(ToDrain) \in Nat
  BY FS_CardinalityType
<1>4. CASE d = -1
  <2> DEFINE t == <<p, todo[p]>>
  <2>1. ToAdd' = ToAdd \ {t}
    BY <1>1, <1>2, <1>4 DEF ToAdd
  <2>2. ToDrain' = ToDrain
    BY <1>1, <1>2, <1>4 DEF ToDrain
  <2>3. t \in ToAdd
    BY <1>1, <1>2, <1>4 DEF ToAdd
  <2> HIDE DEF t
  <2>4. IsFiniteSet(ToAdd') /\ Cardinality(ToAdd') = Cardinality(ToAdd) - 1
    BY <2>1, <2>3, FS_RemoveElement
  <2> QED
    BY <1>3, <1>4, <2>2, <2>4
<1>5. CASE d = 1
  <2> DEFINE t == <<p, -todo[p]>>
  <2>1. ToDrain' = ToDrain \ {t}
    BY <1>1, <1>2, <1>5 DEF ToDrain
  <2>2. ToAdd' = ToAdd
    BY <1>1, <1>2, <1>5 DEF ToAdd
  <2>3. t \in ToDrain
    BY <1>1, <1>2, <1>5 DEF ToDrain
  <2> HIDE DEF t
  <2>4. IsFiniteSet(ToDrain') /\ Cardinality(ToDrain') = Cardinality(ToDrain) - 1
    BY <2>1, <2>3, FS_RemoveElement
  <2> QED
    BY <1>3, <1>5, <2>2, <2>4
<1> QED
  BY <1>4, <1>5

(***************************************************************************)
(* A client's step, as the count sees it: a wrapper is taken, or given     *)
(* back, or lost in a panic, or none moves.                                *)
(***************************************************************************)
Still(p) ==
  /\ Len(resources') = Len(resources)
  /\ call'[p] # "panic"
  /\ call[p] \in Holding <=> call'[p] \in Holding

Takes(p) ==
  /\ Len(resources') = Len(resources) - 1
  /\ call[p] \notin Holding
  /\ call'[p] \in Holding

Gives(p) ==
  /\ Len(resources') = Len(resources) + 1
  /\ call[p] \in Holding
  /\ call'[p] \notin Holding
  /\ call'[p] # "panic"

Panics(p) ==
  /\ call[p] \in Holding
  /\ call'[p] = "panic"
  /\ closed \/ Len(resources) = MaxCap
  /\ UNCHANGED resources

\* ClientMoves: a client takes a slot, gives one back, panics or does neither.
LEMMA ClientMoves ==
  ASSUME PoolTypeOK, NEW p \in Clients, ClientNext(p),
         todo[p] = 0
  PROVE  /\ UNCHANGED <<capacity, closed, todo>>
         /\ \A q \in Procs \ {p} : call'[q] = call[q]
         /\ call[p] # "panic"
         /\ Still(p) \/ Takes(p) \/ Gives(p) \/ Panics(p)
<1>1. /\ p \in Procs
      /\ resources \in Seq(Wrapper)
      /\ call \in [Procs -> CallState]
      /\ held \in [Procs -> Wrapper]
  BY DEF PoolTypeOK, Procs
<1> USE DEF Goto, settings, Holding
<1>2. CASE GetCall(p) \/ ReceiveClosed(p) \/ Expire(p) \/ Reuse(p)
           \/ (\E r \in Resources : FactoryOk(p, r)) \/ FactoryFail(p)
           \/ GiveUp(p)
  BY <1>1, <1>2
     DEF GetCall, ReceiveClosed, Expire, Reuse, FactoryOk, FactoryFail, GiveUp,
         Still
<1>3. CASE TryGet(p) \/ Receive(p)
  <2>1. Len(Tail(resources)) = Len(resources) - 1
    BY <1>1, <1>3 DEF TryGet, Receive
  <2> QED
    BY <1>1, <1>3, <2>1 DEF TryGet, Receive, Takes
<1>4. CASE SendBack(p)
  BY <1>1, <1>4 DEF SendBack, Gives, Wrapper
<1>5. CASE SendBackPanic(p)
  BY <1>1, <1>5 DEF SendBackPanic, Panics
<1>6. CASE GiveBack(p)
  <2>1. ASSUME NEW x \in Wrapper, Put(p, x), call[p] = "ok" PROVE Gives(p)
    BY <1>1, <2>1 DEF Put, Gives
  <2>2. ASSUME PutPanic(p), call[p] = "ok" PROVE Panics(p)
    BY <1>1, <2>2 DEF PutPanic, Panics
  <2>3. held[p] \in Wrapper /\ NoRes \in Wrapper
    BY <1>1 DEF Wrapper
  <2>4. /\ UNCHANGED <<capacity, closed, todo>>
        /\ \A q \in Procs \ {p} : call'[q] = call[q]
        /\ call[p] = "ok"
    BY <1>1, <1>6 DEF GiveBack, Put, PutPanic
  <2>5. Gives(p) \/ Panics(p)
    BY <1>6, <2>1, <2>2, <2>3 DEF GiveBack
  <2> QED
    BY <2>4, <2>5
<1> QED
  BY <1>2, <1>3, <1>4, <1>5, <1>6 DEF ClientNext, Getting

(***************************************************************************)
(* ClientSlots: no step of a client loses or invents a slot.               *)
(***************************************************************************)
LEMMA ClientSlots ==
  ASSUME SlotInv, PoolTypeOK', NEW p \in Clients, ClientNext(p)
  PROVE  Counted' /\ TodoInLoop' /\ SlotsConserved'
<1>1. /\ p \in Procs
      /\ Len(resources) \in Nat
      /\ capacity \in Nat
      /\ call \in [Procs -> CallState]
      /\ call' \in [Procs -> CallState]
  BY PoolAssumption DEF SlotInv, PoolTypeOK, Procs
<1>2. todo[p] = 0
  BY <1>1, PoolAssumption DEF SlotInv, TodoInLoop
<1>3. /\ UNCHANGED <<capacity, closed, todo>>
      /\ \A q \in Procs \ {p} : call'[q] = call[q]
      /\ call[p] # "panic"
      /\ Still(p) \/ Takes(p) \/ Gives(p) \/ Panics(p)
  BY <1>2, ClientMoves DEF SlotInv
<1>4. ToAdd' = ToAdd /\ ToDrain' = ToDrain
  BY <1>3 DEF ToAdd, ToDrain
<1>5. TodoInLoop'
  BY <1>2, <1>3 DEF SlotInv, TodoInLoop
<1>6. /\ IsFiniteSet(Outstanding) /\ Cardinality(Outstanding) \in Nat
      /\ IsFiniteSet(ToAdd) /\ Cardinality(ToAdd) \in Nat
      /\ IsFiniteSet(ToDrain) /\ Cardinality(ToDrain) \in Nat
  BY FS_CardinalityType DEF SlotInv, Counted
<1>7. Panicked \subseteq Panicked'
  BY <1>3 DEF Panicked
<1>8. ~closed' /\ Panicked' = {} =>
        Len(resources) + Cardinality(Outstanding)
          + Cardinality(ToAdd) - Cardinality(ToDrain) = capacity
  BY <1>3, <1>7 DEF SlotInv, SlotsConserved
<1>9. CASE Still(p)
  <2>1. Outstanding' = Outstanding
    BY <1>1, <1>3, <1>9 DEF Outstanding, Still, Holding
  <2> QED
    BY <1>3, <1>4, <1>5, <1>6, <1>8, <1>9, <2>1
       DEF Still, Counted, SlotsConserved
<1>10. CASE Takes(p)
  <2>1. Outstanding' = Outstanding \cup {p} /\ p \notin Outstanding
    BY <1>1, <1>3, <1>10 DEF Outstanding, Takes, Holding
  <2>2. /\ IsFiniteSet(Outstanding')
        /\ Cardinality(Outstanding') = Cardinality(Outstanding) + 1
    BY <1>6, <2>1, FS_AddElement
  <2> QED
    BY <1>1, <1>3, <1>4, <1>5, <1>6, <1>8, <1>10, <2>2
       DEF Takes, Counted, SlotsConserved
<1>11. CASE Gives(p) \/ Panics(p)
  <2>1. Outstanding' = Outstanding \ {p} /\ p \in Outstanding
    BY <1>1, <1>3, <1>11 DEF Outstanding, Gives, Panics, Holding
  <2>2. /\ IsFiniteSet(Outstanding')
        /\ Cardinality(Outstanding') = Cardinality(Outstanding) - 1
    BY <1>6, <2>1, FS_RemoveElement
  <2>3. CASE Gives(p)
    BY <1>1, <1>3, <1>4, <1>5, <1>6, <1>8, <2>2, <2>3
       DEF Gives, Counted, SlotsConserved
  <2>4. CASE Panics(p)
    <3>1. p \in Panicked'
      BY <1>1, <2>4 DEF Panics, Panicked
    <3> QED
      BY <1>4, <1>5, <1>6, <2>2, <3>1 DEF Counted, SlotsConserved
  <2> QED
    BY <1>11, <2>3, <2>4
<1> QED
  BY <1>3, <1>9, <1>10, <1>11

(***************************************************************************)
(* AdminSlots: nor does a step of SetCapacity or Close, in whatever state  *)
(* it finds the other resizers.                                            *)
(***************************************************************************)
LEMMA AdminSlots ==
  ASSUME SlotInv, NEW p \in Admins, AdminNext(p)
  PROVE  Counted' /\ TodoInLoop' /\ SlotsConserved'
<1>1. /\ p \in Procs
      /\ resources \in Seq(Wrapper)
      /\ Len(resources) \in Nat
      /\ capacity \in 0..MaxCap
      /\ MaxCap \in Nat
      /\ call \in [Procs -> CallState]
      /\ todo \in [Procs -> Int]
      /\ todo[p] \in (-MaxCap)..MaxCap
      /\ call[p] \notin Holding
  BY PoolAssumption DEF SlotInv, PoolTypeOK, TodoInLoop, AdminsHoldNothing, Procs
<1>2. /\ IsFiniteSet(Outstanding) /\ Cardinality(Outstanding) \in Nat
      /\ IsFiniteSet(ToAdd) /\ Cardinality(ToAdd) \in Nat
      /\ IsFiniteSet(ToDrain) /\ Cardinality(ToDrain) \in Nat
  BY FS_CardinalityType DEF SlotInv, Counted
<1>3. ~closed /\ Panicked = {} =>
        Len(resources) + Cardinality(Outstanding)
          + Cardinality(ToAdd) - Cardinality(ToDrain) = capacity
  BY DEF SlotInv, SlotsConserved
<1>4. \A q \in Procs :
        /\ todo[q] \in (-MaxCap)..MaxCap
        /\ todo[q] # 0 => q \in Admins /\ call[q] \in {"resize", "closing", "panic"}
  BY DEF SlotInv, TodoInLoop
<1>5. Len(resources) \in Int /\ capacity \in Int
  BY <1>1
<1>6. ASSUME NEW c \in (-1)..(MaxCap + 1), SetCapacity(p, c)
      PROVE  Counted' /\ TodoInLoop' /\ SlotsConserved'
  <2> DEFINE d == c - capacity
  <2>1. /\ c \in 0..MaxCap /\ d \in (-MaxCap)..MaxCap
        /\ todo[p] = 0
    BY <1>1, <1>4, <1>6 DEF SetCapacity
  <2>2. /\ todo' = [todo EXCEPT ![p] = d]
        /\ capacity' = c
        /\ resources' = resources /\ closed' = closed
        /\ \A q \in Procs \ {p} : call'[q] = call[q]
        /\ call[p] = "out" /\ call'[p] \in {"resize", "closing"}
    BY <1>1, <1>6 DEF SetCapacity, Goto
  <2>3. c = capacity + d /\ d \in Int
    BY <1>1, <2>1
  <2> HIDE DEF d
  <2>4. /\ IsFiniteSet(ToAdd') /\ IsFiniteSet(ToDrain')
        /\ Cardinality(ToAdd') - Cardinality(ToDrain')
             = Cardinality(ToAdd) - Cardinality(ToDrain) + d
    BY <1>1, <1>2, <2>1, <2>2, LoopStarts
  <2>5. Cardinality(ToAdd') \in Nat /\ Cardinality(ToDrain') \in Nat
    BY <2>4, FS_CardinalityType
  <2>6. Outstanding' = Outstanding /\ Panicked' = Panicked
    BY <1>1, <2>2 DEF Outstanding, Panicked
  <2>7. TodoInLoop'
    BY <1>1, <1>4, <2>1, <2>2 DEF TodoInLoop
  <2>8. SlotsConserved'
    <3>1. SUFFICES ASSUME ~closed, Panicked = {}
                   PROVE  Len(resources) + Cardinality(Outstanding)
                            + Cardinality(ToAdd') - Cardinality(ToDrain') = c
      BY <2>2, <2>6 DEF SlotsConserved
    <3> QED
      BY <1>2, <1>3, <1>5, <2>3, <2>4, <2>5, <3>1
  <2> QED
    BY <1>2, <2>4, <2>6, <2>7, <2>8 DEF Counted
<1>7. ASSUME NEW d \in {1, -1},
             \/ d = 1 /\ Shrink(p)
             \/ d = -1 /\ Grow(p)
      PROVE  Counted' /\ TodoInLoop' /\ SlotsConserved'
  <2>1. /\ todo' = [todo EXCEPT ![p] = @ + d]
        /\ d = 1 => todo[p] < 0
        /\ d = -1 => todo[p] > 0
        /\ capacity' = capacity /\ closed' = closed /\ call' = call
        /\ call[p] \in {"resize", "closing"}
    BY <1>1, <1>7 DEF Shrink, Grow
  <2>2. ~closed => Len(resources') = Len(resources) - d
    <3>1. CASE Shrink(p) /\ ~closed
      <4>1. resources # <<>> /\ resources' = Tail(resources) /\ d = 1
        BY <1>7, <3>1 DEF Shrink, Grow
      <4> QED
        BY <1>1, <4>1
    <3>2. CASE Grow(p) /\ d = -1
      <4>1. NoRes \in Wrapper
        BY DEF Wrapper
      <4> QED
        BY <1>1, <3>2, <4>1 DEF Grow
    <3> QED
      BY <1>7, <3>1, <3>2
  <2>3. /\ IsFiniteSet(ToAdd') /\ IsFiniteSet(ToDrain')
        /\ Cardinality(ToAdd') - Cardinality(ToDrain')
             = Cardinality(ToAdd) - Cardinality(ToDrain) + d
    BY <1>1, <1>2, <2>1, LoopTurns
  <2>4. Cardinality(ToAdd') \in Nat /\ Cardinality(ToDrain') \in Nat
    BY <2>3, FS_CardinalityType
  <2>5. Outstanding' = Outstanding /\ Panicked' = Panicked
    BY <2>1 DEF Outstanding, Panicked
  <2>6. TodoInLoop'
    BY <1>1, <1>4, <2>1 DEF TodoInLoop
  <2>7. SlotsConserved'
    <3>1. SUFFICES ASSUME ~closed, Panicked = {}
                   PROVE  Len(resources) - d + Cardinality(Outstanding)
                            + Cardinality(ToAdd') - Cardinality(ToDrain')
                              = capacity
      BY <2>1, <2>2, <2>5 DEF SlotsConserved
    <3> QED
      BY <1>2, <1>3, <1>5, <2>3, <2>4, <3>1
  <2> QED
    BY <1>2, <2>3, <2>5, <2>6, <2>7 DEF Counted
<1>8. CASE GrowPanic(p)
  <2>1. /\ todo' = todo /\ closed' = closed /\ closed
        /\ \A q \in Procs \ {p} : call'[q] = call[q]
        /\ call'[p] = "panic" /\ call[p] \notin Holding
    BY <1>1, <1>8 DEF GrowPanic, Goto, settings
  <2>2. ToAdd' = ToAdd /\ ToDrain' = ToDrain /\ Outstanding' = Outstanding
    BY <1>1, <2>1 DEF ToAdd, ToDrain, Outstanding, Holding
  <2>3. TodoInLoop'
    BY <1>1, <1>4, <2>1 DEF TodoInLoop
  <2> QED
    BY <1>2, <2>1, <2>2, <2>3 DEF Counted, SlotsConserved
<1>9. CASE ResizeDone(p)
  <2>1. /\ todo' = todo /\ todo[p] = 0 /\ (closed => closed')
        /\ capacity' = capacity /\ resources' = resources
        /\ \A q \in Procs \ {p} : call'[q] = call[q]
        /\ call'[p] = "out" /\ call[p] \in {"resize", "closing"}
    BY <1>1, <1>9 DEF ResizeDone, Goto
  <2>2. /\ ToAdd' = ToAdd /\ ToDrain' = ToDrain
        /\ Outstanding' = Outstanding /\ Panicked' = Panicked
    BY <1>1, <2>1 DEF ToAdd, ToDrain, Outstanding, Panicked
  <2>3. TodoInLoop'
    BY <1>1, <1>4, <2>1 DEF TodoInLoop
  <2> QED
    BY <1>2, <1>3, <2>1, <2>2, <2>3 DEF Counted, SlotsConserved
<1> QED
  BY <1>6, <1>7, <1>8, <1>9 DEF AdminNext

(***************************************************************************)
(* SlotInit: the channel starts full and nobody owes or has anything.      *)
(***************************************************************************)
LEMMA SlotInit == Init => SlotInv
<1> SUFFICES ASSUME Init PROVE SlotInv
  OBVIOUS
<1>1. PoolTypeOK /\ Exclusive
  BY PoolInitSafe DEF Init
<1>2. /\ \A p \in Procs : call[p] = "out" /\ todo[p] = 0
      /\ Len(resources) = Capacity /\ capacity = Capacity
      /\ Capacity \in Nat /\ MaxCap \in Nat
  BY PoolAssumption DEF Init, PoolInit
<1>3. Outstanding = {}
  BY <1>2 DEF Outstanding
<1>4. ToAdd = {} /\ ToDrain = {}
  BY <1>2 DEF ToAdd, ToDrain, Procs
<1>5. Counted /\ SlotsConserved
  BY <1>2, <1>3, <1>4, FS_EmptySet DEF Counted, SlotsConserved
<1>6. TodoInLoop /\ AdminsHoldNothing
  BY <1>2 DEF TodoInLoop, AdminsHoldNothing, Holding, Procs
<1> QED
  BY <1>1, <1>5, <1>6 DEF SlotInv

(***************************************************************************)
(* AdminsStay: no step gives a wrapper to a goroutine that resizes.        *)
(***************************************************************************)
LEMMA AdminsStay ==
  ASSUME PoolTypeOK, AdminsHoldNothing, [Next]_poolVars
  PROVE  AdminsHoldNothing'
<1>1. call \in [Procs -> CallState]
  BY DEF PoolTypeOK
<1>2. ASSUME NEW p \in Clients, ClientNext(p) PROVE AdminsHoldNothing'
  <2>1. call' = call \/ \E s \in CallState : call' = [call EXCEPT ![p] = s]
    BY <1>2
       DEF ClientNext, Getting, GetCall, TryGet, Receive, ReceiveClosed, Expire,
           Reuse, FactoryOk, FactoryFail, SendBack, SendBackPanic, GiveUp,
           GiveBack, Put, PutPanic, Goto, CallState
  <2> QED
    BY <1>1, <2>1, PoolAssumption DEF AdminsHoldNothing, Procs
<1>3. ASSUME NEW p \in Admins, AdminNext(p) PROVE AdminsHoldNothing'
  <2>1. \/ call' = call
        \/ \E s \in {"out", "resize", "closing", "panic"} :
             call' = [call EXCEPT ![p] = s]
    BY <1>3
       DEF AdminNext, SetCapacity, Shrink, Grow, GrowPanic, ResizeDone, Goto
  <2> QED
    BY <1>1, <2>1 DEF AdminsHoldNothing, Holding, Procs
<1>4. ASSUME UNCHANGED call PROVE AdminsHoldNothing'
  BY <1>4 DEF AdminsHoldNothing
<1> QED
  BY <1>2, <1>3, <1>4 DEF Next, SetIdleTimeout, poolVars

(***************************************************************************)
(* SlotNext: the invariant is inductive.                                   *)
(***************************************************************************)
LEMMA SlotNext == SlotInv /\ [Next]_poolVars => SlotInv'
<1> SUFFICES ASSUME SlotInv, [Next]_poolVars PROVE SlotInv'
  OBVIOUS
<1>1. PoolTypeOK' /\ Exclusive' /\ AdminsHoldNothing'
  BY PoolStepSafe, AdminsStay DEF SlotInv
<1>2. ASSUME UNCHANGED <<resources, capacity, closed, call, todo>>
      PROVE  Counted' /\ TodoInLoop' /\ SlotsConserved'
  <2>1. /\ Outstanding' = Outstanding /\ Panicked' = Panicked
        /\ ToAdd' = ToAdd /\ ToDrain' = ToDrain
    BY <1>2 DEF Outstanding, Panicked, ToAdd, ToDrain
  <2> QED
    BY <1>2, <2>1 DEF SlotInv, Counted, TodoInLoop, SlotsConserved
<1>3. Counted' /\ TodoInLoop' /\ SlotsConserved'
  BY <1>1, <1>2, ClientSlots, AdminSlots DEF Next, SetIdleTimeout, poolVars
<1> QED
  BY <1>1, <1>3 DEF SlotInv

\* SlotAlways: the counting invariant.
LEMMA SlotAlways == Spec => []SlotInv
BY SlotInit, SlotNext, PTL DEF Spec

(***************************************************************************)
(* SlotsAreConserved: for any number of clients and of resizers that run   *)
(* at once, no slot of the open pool is lost or invented.                  *)
(***************************************************************************)
THEOREM SlotsAreConserved == Spec => []SlotsConserved
<1>1. SlotInv => SlotsConserved
  BY DEF SlotInv
<1> QED
  BY <1>1, SlotAlways, PTL
-----------------------------------------------------------------------------
(***************************************************************************)
(* One resizer.  Two overlapping SetCapacity calls can make Put panic: the *)
(* second one grows the pool again while the first has not yet drained     *)
(* what it has to.  With a single goroutine that resizes, no call panics   *)
(* and Close keeps its promise.                                            *)
(***************************************************************************)
OneResizer == \A a, b \in Admins : a = b

(***************************************************************************)
(* LoopBounded: the slots there were before the loop fit into the channel, *)
(* the channel is open while a loop runs, and Close runs at capacity 0.    *)
(***************************************************************************)
LoopBounded ==
  \A a \in Admins :
    /\ capacity - todo[a] <= MaxCap
    /\ call[a] \in {"resize", "closing"} => ~closed
    /\ call[a] = "closing" => capacity = 0

(***************************************************************************)
(* ClosedMeansEmpty: Close drained the channel before it closed it.        *)
(***************************************************************************)
ClosedMeansEmpty == closed => capacity = 0 /\ resources = <<>>

LoneInv ==
  /\ SlotInv
  /\ LoopBounded
  /\ NoPanic
  /\ ClosedMeansEmpty
  /\ ClosedMeansReturned

(***************************************************************************)
(* OwnTurns: the turns left are those of the one loop.                     *)
(***************************************************************************)
LEMMA OwnTurns ==
  ASSUME OneResizer, SlotInv
  PROVE  /\ Admins = {} => Cardinality(ToAdd) - Cardinality(ToDrain) = 0
         /\ \A a \in Admins : Cardinality(ToAdd) - Cardinality(ToDrain) = todo[a]
<1>1. Cardinality({}) = 0
  BY FS_EmptySet
<1>2. ASSUME Admins = {}
      PROVE  Cardinality(ToAdd) - Cardinality(ToDrain) = 0
  <2>1. ToAdd = {} /\ ToDrain = {}
    BY <1>2 DEF ToAdd, ToDrain
  <2> QED
    BY <1>1, <2>1
<1>3. ASSUME NEW a \in Admins
      PROVE  Cardinality(ToAdd) - Cardinality(ToDrain) = todo[a]
  <2>1. /\ MaxCap \in Nat
        /\ todo[a] \in (-MaxCap)..MaxCap
        /\ \A b \in Admins : b = a
    BY PoolAssumption DEF SlotInv, TodoInLoop, OneResizer, Procs
  <2>2. CASE todo[a] >= 0
    <3>1. ToAdd = {a} \X (1..todo[a]) /\ ToDrain = {}
      BY <2>1, <2>2 DEF ToAdd, ToDrain
    <3>2. todo[a] \in Nat
      BY <2>1, <2>2
    <3>3. Cardinality(ToAdd) = todo[a]
      BY <3>1, <3>2, TurnsOf
    <3> QED
      BY <1>1, <3>1, <3>2, <3>3
  <2>3. CASE todo[a] < 0
    <3>1. ToDrain = {a} \X (1..(-todo[a])) /\ ToAdd = {}
      BY <2>1, <2>3 DEF ToAdd, ToDrain
    <3>2. -todo[a] \in Nat /\ todo[a] \in Int
      BY <2>1, <2>3
    <3>3. Cardinality(ToDrain) = -todo[a]
      BY <3>1, <3>2, TurnsOf
    <3> QED
      BY <1>1, <3>1, <3>2, <3>3
  <2> QED
    BY <2>1, <2>2, <2>3
<1> QED
  BY <1>2, <1>3

(***************************************************************************)
(* RoomToPut: whoever has a wrapper of the pool finds the channel open and *)
(* room in it.                                                             *)
(***************************************************************************)
LEMMA RoomToPut ==
  ASSUME OneResizer, LoneInv, NEW p \in Outstanding
  PROVE  ~closed /\ Len(resources) < MaxCap
<1>1. ~closed
  BY DEF LoneInv, ClosedMeansReturned
<1>2. Len(resources) + Cardinality(Outstanding)
        + Cardinality(ToAdd) - Cardinality(ToDrain) = capacity
  BY <1>1 DEF LoneInv, SlotInv, SlotsConserved, NoPanic
<1>3. /\ Cardinality(Outstanding) \in Nat /\ Cardinality(Outstanding) # 0
      /\ Cardinality(ToAdd) \in Nat /\ Cardinality(ToDrain) \in Nat
  BY FS_CardinalityType, FS_EmptySet DEF LoneInv, SlotInv, Counted
<1>4. /\ Len(resources) \in Nat
      /\ capacity \in 0..MaxCap
      /\ MaxCap \in Nat
  BY PoolAssumption DEF LoneInv, SlotInv, PoolTypeOK
<1>5. capacity - (Cardinality(ToAdd) - Cardinality(ToDrain)) <= MaxCap
  <2>1. CASE Admins = {}
    BY <1>3, <1>4, <2>1, OwnTurns DEF LoneInv
  <2>2. ASSUME NEW a \in Admins
        PROVE  capacity - (Cardinality(ToAdd) - Cardinality(ToDrain)) <= MaxCap
    BY <2>2, OwnTurns DEF LoneInv, LoopBounded
  <2> QED
    BY <2>1, <2>2
<1> QED
  BY <1>1, <1>2, <1>3, <1>4, <1>5

(***************************************************************************)
(* LoneClient: a client's Put or failed Get does not panic, and nothing is *)
(* taken out of a closed pool.                                             *)
(***************************************************************************)
LEMMA LoneClient ==
  ASSUME OneResizer, LoneInv, SlotInv', NEW p \in Clients, ClientNext(p)
  PROVE  LoneInv'
<1>1. /\ p \in Procs /\ p \notin Admins
      /\ resources' \in Seq(Wrapper)
      /\ resources \in Seq(Wrapper)
      /\ call \in [Procs -> CallState]
      /\ call' \in [Procs -> CallState]
  BY PoolAssumption DEF LoneInv, SlotInv, PoolTypeOK, Procs
<1>2. /\ UNCHANGED <<capacity, closed, todo>>
      /\ \A q \in Procs \ {p} : call'[q] = call[q]
      /\ call[p] # "panic"
      /\ Still(p) \/ Takes(p) \/ Gives(p) \/ Panics(p)
  <2>1. todo[p] = 0
    BY <1>1 DEF LoneInv, SlotInv, TodoInLoop
  <2> QED
    BY <2>1, ClientMoves DEF LoneInv, SlotInv
<1>3. ~Panics(p)
  <2> SUFFICES ASSUME Panics(p) PROVE FALSE
    OBVIOUS
  <2>1. p \in Outstanding
    BY <1>1 DEF Panics, Outstanding, Holding
  <2>2. Len(resources) < MaxCap /\ ~closed
    BY <2>1, RoomToPut
  <2> QED
    BY <1>1, <2>2, PoolAssumption DEF Panics
<1>4. LoopBounded'
  BY <1>1, <1>2 DEF LoneInv, LoopBounded, Procs
<1>5. NoPanic'
  <2>1. \A q \in Procs : call[q] # "panic"
    BY DEF LoneInv, NoPanic, Panicked
  <2>2. call'[p] # "panic"
    BY <1>2, <1>3 DEF Still, Takes, Gives, Holding
  <2> QED
    BY <1>2, <2>1, <2>2 DEF NoPanic, Panicked
<1>6. ASSUME closed
      PROVE  capacity' = 0 /\ resources' = <<>> /\ Outstanding' = {}
  <2>1. capacity = 0 /\ resources = <<>> /\ Outstanding = {}
    BY <1>6 DEF LoneInv, ClosedMeansEmpty, ClosedMeansReturned
  <2>2. p \notin Outstanding /\ Len(resources) = 0
    BY <2>1
  <2>3. Still(p)
    <3>1. ~Gives(p)
      BY <1>1, <2>2 DEF Gives, Outstanding, Holding
    <3>2. ~Takes(p)
      BY <1>1, <2>2 DEF Takes
    <3> QED
      BY <1>2, <1>3, <3>1, <3>2
  <2>4. resources' = <<>>
    BY <1>1, <2>2, <2>3 DEF Still
  <2>5. Outstanding' = Outstanding
    BY <1>1, <1>2, <2>3 DEF Outstanding, Still, Holding
  <2> QED
    BY <1>2, <2>1, <2>4, <2>5
<1> QED
  BY <1>2, <1>4, <1>5, <1>6 DEF LoneInv, ClosedMeansEmpty, ClosedMeansReturned

(***************************************************************************)
(* LoneAdmin: the loop runs on an open channel, and when Close ends it has *)
(* seen every wrapper.                                                     *)
(***************************************************************************)
LEMMA LoneAdmin ==
  ASSUME OneResizer, LoneInv, SlotInv', NEW p \in Admins, AdminNext(p)
  PROVE  LoneInv'
<1>1. /\ p \in Procs
      /\ \A a \in Admins : a = p
      /\ resources \in Seq(Wrapper)
      /\ capacity \in 0..MaxCap
      /\ MaxCap \in Nat
      /\ call \in [Procs -> CallState]
      /\ todo \in [Procs -> Int]
      /\ call[p] \notin Holding
  BY PoolAssumption
     DEF LoneInv, SlotInv, PoolTypeOK, AdminsHoldNothing, OneResizer, Procs
<1>2. /\ \A q \in Procs : call[q] # "panic"
      /\ capacity - todo[p] <= MaxCap
      /\ call[p] \in {"resize", "closing"} => ~closed
      /\ call[p] = "closing" => capacity = 0
      /\ closed => capacity = 0
  BY DEF LoneInv, LoopBounded, NoPanic, Panicked, ClosedMeansEmpty
<1>3. ASSUME NEW c \in (-1)..(MaxCap + 1), SetCapacity(p, c)
      PROVE  LoneInv'
  <2>1. /\ ~closed' /\ call'[p] \in {"resize", "closing"}
        /\ call'[p] = "closing" => capacity' = 0
        /\ \A q \in Procs \ {p} : call'[q] = call[q]
    BY <1>1, <1>2, <1>3 DEF SetCapacity, Goto
  <2>2. capacity' - todo'[p] <= MaxCap
    <3>1. capacity' = c /\ todo'[p] = c - capacity /\ c \in Int
      BY <1>1, <1>3 DEF SetCapacity
    <3> QED
      BY <1>1, <3>1
  <2>3. LoopBounded'
    BY <1>1, <2>1, <2>2 DEF LoopBounded
  <2>4. NoPanic'
    BY <1>1, <1>2, <2>1 DEF NoPanic, Panicked
  <2> QED
    BY <2>1, <2>3, <2>4 DEF LoneInv, ClosedMeansEmpty, ClosedMeansReturned
<1>4. CASE Shrink(p) \/ Grow(p)
  <2>1. /\ ~closed' /\ ~closed /\ call' = call /\ capacity' = capacity
        /\ capacity - todo'[p] <= MaxCap
    BY <1>1, <1>2, <1>4 DEF Shrink, Grow
  <2>2. LoopBounded' /\ NoPanic'
    BY <1>1, <1>2, <2>1 DEF LoopBounded, NoPanic, Panicked
  <2> QED
    BY <2>1, <2>2 DEF LoneInv, ClosedMeansEmpty, ClosedMeansReturned
<1>5. ~GrowPanic(p)
  BY <1>1, <1>2 DEF GrowPanic, Holding
<1>6. CASE ResizeDone(p)
  <2>1. /\ todo[p] = 0 /\ todo' = todo /\ capacity' = capacity
        /\ resources' = resources /\ ~closed
        /\ closed' => call[p] = "closing"
        /\ call'[p] = "out" /\ call[p] \in {"resize", "closing"}
        /\ \A q \in Procs \ {p} : call'[q] = call[q]
    BY <1>1, <1>2, <1>6 DEF ResizeDone, Goto
  <2>2. LoopBounded'
    BY <1>1, <1>2, <2>1 DEF LoopBounded
  <2>3. NoPanic'
    BY <1>1, <1>2, <2>1 DEF NoPanic, Panicked
  <2>4. Outstanding' = Outstanding
    BY <1>1, <2>1 DEF Outstanding
  <2>5. ASSUME call[p] = "closing"
        PROVE  capacity = 0 /\ resources = <<>> /\ Outstanding = {}
    <3>1. capacity = 0
      BY <1>2, <2>5
    <3>2. Len(resources) + Cardinality(Outstanding)
            + Cardinality(ToAdd) - Cardinality(ToDrain) = 0
      BY <2>1, <3>1 DEF LoneInv, SlotInv, SlotsConserved, NoPanic
    <3>3. Cardinality(ToAdd) - Cardinality(ToDrain) = 0
      BY <2>1, OwnTurns DEF LoneInv
    <3>4. /\ IsFiniteSet(Outstanding) /\ Cardinality(Outstanding) \in Nat
          /\ Cardinality(ToAdd) \in Nat /\ Cardinality(ToDrain) \in Nat
          /\ Len(resources) \in Nat
      BY <1>1, FS_CardinalityType DEF LoneInv, SlotInv, Counted
    <3>5. Len(resources) = 0 /\ Cardinality(Outstanding) = 0
      BY <3>2, <3>3, <3>4
    <3> QED
      BY <1>1, <3>1, <3>4, <3>5, FS_EmptySet
  <2> QED
    BY <2>1, <2>2, <2>3, <2>4, <2>5
       DEF LoneInv, ClosedMeansEmpty, ClosedMeansReturned
<1> QED
  BY <1>3, <1>4, <1>5, <1>6 DEF AdminNext

(***************************************************************************)
(* LoneNext: with one resizer the invariant is inductive.                  *)
(***************************************************************************)
LEMMA LoneNext ==
  ASSUME OneResizer
  PROVE  LoneInv /\ [Next]_poolVars => LoneInv'
<1> SUFFICES ASSUME LoneInv, [Next]_poolVars PROVE LoneInv'
  OBVIOUS
<1>1. SlotInv'
  BY SlotNext DEF LoneInv
<1>2. ASSUME UNCHANGED <<resources, capacity, closed, call, todo>>
      PROVE  LoneInv'
  BY <1>1, <1>2
     DEF LoneInv, LoopBounded, NoPanic, Panicked, ClosedMeansEmpty,
         ClosedMeansReturned, Outstanding
<1> QED
  BY <1>1, <1>2, LoneClient, LoneAdmin DEF Next, SetIdleTimeout, poolVars

(***************************************************************************)
(* LoneInit: a new pool is open and nobody is in it.                       *)
(***************************************************************************)
LEMMA LoneInit == Init => LoneInv
<1> SUFFICES ASSUME Init PROVE LoneInv
  OBVIOUS
<1>1. SlotInv
  BY SlotInit
<1>2. /\ ~closed /\ capacity <= MaxCap /\ capacity \in Int
      /\ \A p \in Procs : call[p] = "out" /\ todo[p] = 0
  BY PoolAssumption DEF Init, PoolInit
<1> QED
  BY <1>1, <1>2
     DEF LoneInv, LoopBounded, NoPanic, Panicked, ClosedMeansEmpty,
         ClosedMeansReturned, Procs

(***************************************************************************)
(* PutNeverPanics: as long as only one goroutine resizes the pool, Put     *)
(* never finds the channel full and nobody sends to the closed channel,    *)
(* whatever the clients do meanwhile.                                      *)
(***************************************************************************)
THEOREM PutNeverPanics ==
  ASSUME OneResizer
  PROVE  Spec => []NoPanic
<1>1. LoneInv => NoPanic
  BY DEF LoneInv
<1> QED
  BY <1>1, LoneInit, LoneNext, PTL DEF Spec

(***************************************************************************)
(* CloseWaits: then Close waits for every resource to be returned.         *)
(***************************************************************************)
THEOREM CloseWaits ==
  ASSUME OneResizer
  PROVE  Spec => []ClosedMeansReturned
<1>1. LoneInv => ClosedMeansReturned
  BY DEF LoneInv
<1> QED
  BY <1>1, LoneInit, LoneNext, PTL DEF Spec
=============================================================================
