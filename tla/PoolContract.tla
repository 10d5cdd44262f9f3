---------------------------- MODULE PoolContract ----------------------------
(***************************************************************************)
(* The resource pool under the protocol its comments prescribe: "For every *)
(* successful Get, a corresponding Put is required.  If you no longer need *)
(* a resource, you will need to call Put(nil)".  Clients get and put,      *)
(* admins resize and close, all of them concurrently.                      *)
(***************************************************************************)
EXTENDS ResourcePool

(***************************************************************************)
(* A client whose Get failed just goes away; one that got a resource       *)
(* returns it, or nil in its place once it has closed it.                  *)
(***************************************************************************)
GiveUp(p) ==
  /\ call[p] = "err"
  /\ Hold(p, NoRes)
  /\ Goto(p, "out")
  /\ UNCHANGED <<resources, settings>>

GiveBack(p) ==
  /\ call[p] = "ok"
  /\ Put(p, held[p]) \/ Put(p, NoRes) \/ PutPanic(p)

Getting(p) ==
  \/ Expire(p)
  \/ Reuse(p)
  \/ \E r \in Resources : FactoryOk(p, r)
  \/ FactoryFail(p)
  \/ SendBack(p)
  \/ SendBackPanic(p)

ClientNext(p) ==
  \/ GetCall(p)
  \/ TryGet(p)
  \/ Receive(p)
  \/ ReceiveClosed(p)
  \/ Getting(p)
  \/ GiveUp(p)
  \/ GiveBack(p)

AdminNext(p) ==
  \/ \E c \in (-1)..(MaxCap + 1) : SetCapacity(p, c)
  \/ Shrink(p)
  \/ Grow(p)
  \/ GrowPanic(p)
  \/ ResizeDone(p)

Init == PoolInit

Next ==
  \/ \E p \in Clients : ClientNext(p)
  \/ \E p \in Admins : AdminNext(p)
  \/ \E positive \in BOOLEAN : SetIdleTimeout(positive)

(***************************************************************************)
(* A goroutine inside a pool call keeps running, and a client gives back   *)
(* what it got.  Go serves the goroutines blocked on a channel in the      *)
(* order they blocked, so one that waits to receive or to send is not      *)
(* overtaken for ever: strong fairness.  Nothing forces a goroutine to     *)
(* call Get or SetCapacity.                                                *)
(***************************************************************************)
Fairness ==
  /\ \A p \in Clients :
       /\ WF_poolVars(Getting(p)) /\ WF_poolVars(GiveUp(p))
       /\ WF_poolVars(GiveBack(p)) /\ WF_poolVars(ReceiveClosed(p))
       /\ SF_poolVars(Receive(p))
  /\ \A p \in Admins :
       /\ SF_poolVars(Shrink(p)) /\ SF_poolVars(Grow(p))
       /\ WF_poolVars(ResizeDone(p))

Spec == Init /\ [][Next]_poolVars

FairSpec == Spec /\ Fairness
-----------------------------------------------------------------------------
(***************************************************************************)
(* Goroutines that have taken a wrapper and not yet returned it.           *)
(***************************************************************************)
Outstanding == { p \in Procs : call[p] \in {"unwrap", "sendback", "ok"} }

Panicked == { p \in Procs : call[p] = "panic" }

(***************************************************************************)
(* The turns that the loops of the running SetCapacity calls have left:    *)
(* <<p, i>> for each wrapper that p still has to add, or to drain.         *)
(***************************************************************************)
ToAdd == { t \in Admins \X (1..MaxCap) : t[2] <= todo[t[1]] }

ToDrain == { t \in Admins \X (1..MaxCap) : t[2] <= -todo[t[1]] }

(***************************************************************************)
(* SlotsConserved: while the pool is open and no call has panicked, the    *)
(* wrappers in the channel, those taken out by Gets and those the running  *)
(* SetCapacity calls still owe add up to the capacity, however many of     *)
(* them resize at once.  It is what makes the capacity a limit: a failed   *)
(* factory or an expired resource may neither lose nor invent a slot.      *)
(***************************************************************************)
SlotsConserved ==
  ~closed /\ Panicked = {} =>
    Len(resources) + Cardinality(Outstanding)
      + Cardinality(ToAdd) - Cardinality(ToDrain) = capacity

(***************************************************************************)
(* NoPanic: no pool call panics, that is Put never finds the channel full  *)
(* and nobody sends to the closed channel.                                 *)
(***************************************************************************)
NoPanic == Panicked = {}

(***************************************************************************)
(* ClosedMeansReturned: "It waits for all resources to be returned (Put)"  *)
(* (the comment of Close): once the channel is closed, no goroutine has a  *)
(* wrapper of the pool.                                                    *)
(***************************************************************************)
ClosedMeansReturned == closed => Outstanding = {}

(***************************************************************************)
(* GetReturns: a blocked Get eventually returns, with a resource or with   *)
(* an error, also while the pool shrinks, grows or closes.                 *)
(***************************************************************************)
GetReturns == \A p \in Clients : call[p] = "recv" ~> call[p] # "recv"

(***************************************************************************)
(* ResizeReturns: SetCapacity and Close eventually return.                 *)
(***************************************************************************)
ResizeReturns ==
  \A p \in Admins : call[p] \in {"resize", "closing"} ~> call[p] = "out"
=============================================================================
