------------------------- MODULE ResourcePoolProofs -------------------------
(***************************************************************************)
(* Lemmas about the actions of ResourcePool.  Whatever drives the pool, an *)
(* open resource stays in one place: every step changes the channel and    *)
(* the goroutines' hands in one of the few ways below, and each of them    *)
(* preserves PoolTypeOK and Exclusive.                                     *)
(***************************************************************************)
EXTENDS ResourcePool, TLAPS

(***************************************************************************)
(* The channel and the hands of the goroutines, with their types.          *)
(***************************************************************************)
ChannelOK ==
  /\ resources \in Seq(Wrapper)
  /\ Len(resources) <= MaxCap
  /\ held \in [Procs -> Wrapper]

Safe == ChannelOK /\ Exclusive

(***************************************************************************)
(* Take: a receive moves the first wrapper of the channel into one hand.   *)
(***************************************************************************)
LEMMA TakeSafe ==
  ASSUME Safe, NEW p \in Procs,
         resources # <<>>, resources' = Tail(resources),
         Hold(p, Head(resources))
  PROVE  Safe'
<1>1. ChannelOK'
  BY PoolAssumption DEF Safe, ChannelOK, Hold
<1>2. /\ Len(resources') = Len(resources) - 1
      /\ \A i \in 1..Len(resources') : resources'[i] = resources[i + 1]
      /\ held' = [held EXCEPT ![p] = resources[1]]
      /\ Len(resources) \in Nat \ {0}
  BY DEF Safe, ChannelOK, Hold
<1>3. HeldOnce'
  BY <1>2, PoolAssumption
     DEF Safe, ChannelOK, Exclusive, HeldOnce, HeldNotPooled
<1>4. HeldNotPooled'
  BY <1>2, PoolAssumption
     DEF Safe, ChannelOK, Exclusive, HeldNotPooled, PooledOnce
<1>5. PooledOnce'
  BY <1>2 DEF Safe, ChannelOK, Exclusive, PooledOnce
<1> QED
  BY <1>1, <1>3, <1>4, <1>5 DEF Safe, Exclusive

(***************************************************************************)
(* Drop: a shrinking SetCapacity takes the first wrapper and closes it.    *)
(***************************************************************************)
LEMMA DropSafe ==
  ASSUME Safe, resources # <<>>, resources' = Tail(resources),
         UNCHANGED held
  PROVE  Safe'
<1>1. ChannelOK'
  BY PoolAssumption DEF Safe, ChannelOK
<1>2. /\ Len(resources') = Len(resources) - 1
      /\ \A i \in 1..Len(resources') : resources'[i] = resources[i + 1]
      /\ Len(resources) \in Nat \ {0}
  BY DEF Safe, ChannelOK
<1>3. Exclusive'
  BY <1>2 DEF Safe, ChannelOK, Exclusive, HeldOnce, HeldNotPooled, PooledOnce
<1> QED
  BY <1>1, <1>3 DEF Safe

(***************************************************************************)
(* Append: a wrapper x goes into the channel.  It is empty, or it is the   *)
(* one that hand p lets go of.                                             *)
(***************************************************************************)
LEMMA AppendSafe ==
  ASSUME Safe, NEW p \in Procs, NEW x \in Wrapper,
         x = held[p] \/ x \notin Resources,
         Len(resources) < MaxCap, resources' = Append(resources, x),
         \/ Hold(p, NoRes)
         \/ x \notin Resources /\ UNCHANGED held
  PROVE  Safe'
<1>1. ChannelOK'
  BY PoolAssumption DEF Safe, ChannelOK, Hold, Wrapper
<1>2. /\ Len(resources') = Len(resources) + 1
      /\ \A i \in 1..Len(resources) : resources'[i] = resources[i]
      /\ resources'[Len(resources) + 1] = x
      /\ Len(resources) \in Nat
  BY DEF Safe, ChannelOK
<1>3. HeldOnce'
  BY PoolAssumption DEF Safe, ChannelOK, Exclusive, HeldOnce, Hold
<1>4. HeldNotPooled'
  <2> SUFFICES ASSUME NEW q \in Procs, NEW i \in 1..Len(resources'),
                      held'[q] \in Resources
               PROVE  resources'[i] # held'[q]
    BY DEF HeldNotPooled
  <2>1. held[q] \in Resources /\ held'[q] = held[q]
    BY PoolAssumption DEF Safe, ChannelOK, Hold
  <2>2. CASE i \in 1..Len(resources)
    BY <1>2, <2>1, <2>2 DEF Safe, Exclusive, HeldNotPooled
  <2>3. CASE i = Len(resources) + 1
    <3>1. CASE x \notin Resources
      BY <1>2, <2>1, <2>3, <3>1
    <3>2. CASE x \in Resources
      <4>1. x = held[p] /\ Hold(p, NoRes)
        BY <3>2
      <4>2. q # p
        BY <4>1, <2>1, PoolAssumption DEF Safe, ChannelOK, Hold
      <4> QED
        BY <1>2, <2>1, <2>3, <4>1, <4>2 DEF Safe, Exclusive, HeldOnce
    <3> QED
      BY <3>1, <3>2
  <2> QED
    BY <1>2, <2>2, <2>3
<1>5. PooledOnce'
  <2>1. \A i \in 1..Len(resources) : x \in Resources => resources[i] # x
    BY DEF Safe, Exclusive, HeldNotPooled
  <2> QED
    BY <1>2, <2>1 DEF Safe, Exclusive, PooledOnce
<1> QED
  BY <1>1, <1>3, <1>4, <1>5 DEF Safe, Exclusive

(***************************************************************************)
(* LetGo: a hand drops what it holds for x, which is no open resource.     *)
(***************************************************************************)
LEMMA LetGoSafe ==
  ASSUME Safe, NEW p \in Procs, NEW x \in {NoRes, BadRes},
         UNCHANGED resources, Hold(p, x)
  PROVE  Safe'
BY PoolAssumption
   DEF Safe, ChannelOK, Exclusive, HeldOnce, HeldNotPooled, PooledOnce, Hold,
       Wrapper

(***************************************************************************)
(* Open: the factory opens a resource that is not in use.                  *)
(***************************************************************************)
LEMMA OpenSafe ==
  ASSUME Safe, NEW p \in Procs, NEW r \in Resources, r \notin InUse,
         UNCHANGED resources, Hold(p, r)
  PROVE  Safe'
<1>1. /\ \A q \in Procs : held[q] # r
      /\ \A i \in 1..Len(resources) : resources[i] # r
  BY DEF InUse, Pooled, Safe, ChannelOK
<1> QED
  BY <1>1
     DEF Safe, ChannelOK, Exclusive, HeldOnce, HeldNotPooled, PooledOnce, Hold,
         Wrapper

(***************************************************************************)
(* Still: a step that moves no wrapper.                                    *)
(***************************************************************************)
LEMMA StillSafe ==
  ASSUME Safe, UNCHANGED <<resources, held>>
  PROVE  Safe'
BY DEF Safe, ChannelOK, Exclusive, HeldOnce, HeldNotPooled, PooledOnce
-----------------------------------------------------------------------------
(***************************************************************************)
(* The steps of a goroutine p, whatever protocol it follows: the actions   *)
(* of the pool, and ending a call without giving anything back.            *)
(***************************************************************************)
Leave(p) ==
  /\ Hold(p, NoRes) \/ UNCHANGED held
  /\ \E s \in CallState : Goto(p, s)
  /\ UNCHANGED <<resources, settings>>

GetStep(p) ==
  \/ GetCall(p)
  \/ Receive(p)
  \/ ReceiveClosed(p)
  \/ TryGet(p)
  \/ Expire(p)
  \/ Reuse(p)
  \/ \E r \in Resources : FactoryOk(p, r)
  \/ FactoryFail(p)
  \/ SendBack(p)

PutStep(p) ==
  \/ \E x \in {held[p], NoRes} : Put(p, x)
  \/ PutPanic(p)
  \/ SendBackPanic(p)
  \/ GrowPanic(p)
  \/ Leave(p)

ResizeStep(p) ==
  \/ \E c \in Int : SetCapacity(p, c)
  \/ Shrink(p)
  \/ Grow(p)
  \/ ResizeDone(p)

(***************************************************************************)
(* PoolInitSafe: NewResourcePool establishes the invariant.                *)
(***************************************************************************)
LEMMA PoolInitSafe == PoolInit => PoolTypeOK /\ Exclusive
<1> SUFFICES ASSUME PoolInit PROVE PoolTypeOK /\ Exclusive
  OBVIOUS
<1>1. /\ resources \in Seq(Wrapper)
      /\ Len(resources) = Capacity
      /\ \A i \in 1..Len(resources) : resources[i] = NoRes
  BY PoolAssumption DEF PoolInit, Wrapper
<1>2. PoolTypeOK
  <2>1. closed \in BOOLEAN /\ idleTimeout \in BOOLEAN
    BY DEF PoolInit
  <2>2. capacity \in 0..MaxCap /\ Len(resources) <= MaxCap
    BY <1>1, PoolAssumption DEF PoolInit
  <2>3. /\ call \in [Procs -> CallState]
        /\ held \in [Procs -> Wrapper]
        /\ todo \in [Procs -> Int]
    BY DEF PoolInit, CallState, Wrapper
  <2> QED
    BY <1>1, <2>1, <2>2, <2>3 DEF PoolTypeOK
<1>3. Exclusive
  BY <1>1, PoolAssumption
     DEF PoolInit, Exclusive, HeldOnce, HeldNotPooled, PooledOnce
<1> QED
  BY <1>2, <1>3

(***************************************************************************)
(* The other half of PoolTypeOK.                                           *)
(***************************************************************************)
SettingsOK ==
  /\ capacity \in 0..MaxCap
  /\ closed \in BOOLEAN
  /\ idleTimeout \in BOOLEAN
  /\ call \in [Procs -> CallState]
  /\ todo \in [Procs -> Int]

(***************************************************************************)
(* TypeSafe: the two halves of the invariant, regrouped.                   *)
(***************************************************************************)
LEMMA TypeSafe == PoolTypeOK /\ Exclusive <=> Safe /\ SettingsOK
BY DEF PoolTypeOK, Safe, ChannelOK, SettingsOK

(***************************************************************************)
(* GetStepSafe: every step of Get and TryGet keeps the types and the       *)
(* exclusive use of resources.                                             *)
(***************************************************************************)
LEMMA GetStepSafe ==
  ASSUME PoolTypeOK, Exclusive, NEW p \in Procs, GetStep(p)
  PROVE  PoolTypeOK' /\ Exclusive'
<1>1. Safe /\ SettingsOK
  BY TypeSafe
<1>2. SettingsOK'
  BY <1>1
     DEF SettingsOK, CallState, GetStep, GetCall, Receive, ReceiveClosed,
         TryGet, Expire, Reuse, FactoryOk, FactoryFail, SendBack, Goto, settings
<1>3. Safe'
  <2>1. CASE GetCall(p) \/ ReceiveClosed(p) \/ Reuse(p)
    BY <1>1, <2>1, StillSafe DEF GetCall, ReceiveClosed, Reuse
  <2>2. CASE Receive(p) \/ TryGet(p)
    BY <1>1, <2>2, TakeSafe DEF Receive, TryGet
  <2>3. CASE Expire(p)
    BY <1>1, <2>3, LetGoSafe DEF Expire
  <2>4. CASE \E r \in Resources : FactoryOk(p, r)
    BY <1>1, <2>4, OpenSafe DEF FactoryOk
  <2>5. CASE FactoryFail(p)
    BY <1>1, <2>5, LetGoSafe DEF FactoryFail
  <2>6. CASE SendBack(p)
    <3>1. NoRes \in Wrapper /\ NoRes \notin Resources
      BY PoolAssumption DEF Wrapper
    <3> QED
      BY <1>1, <2>6, <3>1, AppendSafe DEF SendBack
  <2> QED
    BY <2>1, <2>2, <2>3, <2>4, <2>5, <2>6 DEF GetStep
<1> QED
  BY <1>2, <1>3, TypeSafe DEF PoolTypeOK, Safe, ChannelOK, SettingsOK

(***************************************************************************)
(* PutStepSafe: so does Put, and ending a call or panicking in it.         *)
(***************************************************************************)
LEMMA PutStepSafe ==
  ASSUME PoolTypeOK, Exclusive, NEW p \in Procs, PutStep(p)
  PROVE  PoolTypeOK' /\ Exclusive'
<1>1. Safe /\ SettingsOK
  BY TypeSafe
<1>2. SettingsOK'
  BY <1>1
     DEF SettingsOK, CallState, PutStep, Put, PutPanic, SendBackPanic,
         GrowPanic, Leave, Goto, settings
<1>3. Safe'
  <2>1. ASSUME NEW x \in {held[p], NoRes}, Put(p, x) PROVE Safe'
    <3>1. x \in Wrapper /\ (x = held[p] \/ x \notin Resources)
      BY <1>1, PoolAssumption DEF Safe, ChannelOK, Wrapper
    <3> QED
      BY <1>1, <2>1, <3>1, AppendSafe DEF Put
  <2>2. CASE PutPanic(p) \/ SendBackPanic(p) \/ GrowPanic(p) \/ Leave(p)
    BY <1>1, <2>2, LetGoSafe, StillSafe DEF PutPanic, SendBackPanic, GrowPanic, Leave
  <2> QED
    BY <2>1, <2>2 DEF PutStep
<1> QED
  BY <1>2, <1>3 DEF PoolTypeOK, Safe, ChannelOK, SettingsOK

(***************************************************************************)
(* ResizeStepSafe: so does every step of SetCapacity and Close.            *)
(***************************************************************************)
LEMMA ResizeStepSafe ==
  ASSUME PoolTypeOK, Exclusive, NEW p \in Procs, ResizeStep(p)
  PROVE  PoolTypeOK' /\ Exclusive'
<1>1. Safe /\ SettingsOK
  BY TypeSafe
<1>2. SettingsOK'
  <2>1. CASE \E c \in Int : SetCapacity(p, c)
    BY <1>1, <2>1, PoolAssumption DEF SettingsOK, CallState, SetCapacity, Goto
  <2>2. CASE Shrink(p) \/ Grow(p)
    BY <1>1, <2>2 DEF SettingsOK, Shrink, Grow
  <2>3. CASE ResizeDone(p)
    <3>1. closed' \in BOOLEAN
      BY <2>3, Zenon DEF ResizeDone
    <3> QED
      BY <1>1, <2>3, <3>1 DEF SettingsOK, CallState, ResizeDone, Goto
  <2> QED
    BY <2>1, <2>2, <2>3 DEF ResizeStep
<1>3. Safe'
  <2>1. CASE (\E c \in Int : SetCapacity(p, c)) \/ ResizeDone(p)
    BY <1>1, <2>1, StillSafe DEF SetCapacity, ResizeDone
  <2>2. CASE Shrink(p)
    BY <1>1, <2>2, DropSafe, StillSafe DEF Shrink
  <2>3. CASE Grow(p)
    <3>1. NoRes \in Wrapper /\ NoRes \notin Resources
      BY PoolAssumption DEF Wrapper
    <3> QED
      BY <1>1, <2>3, <3>1, AppendSafe DEF Grow
  <2> QED
    BY <2>1, <2>2, <2>3 DEF ResizeStep
<1> QED
  BY <1>2, <1>3 DEF PoolTypeOK, Safe, ChannelOK, SettingsOK
=============================================================================
