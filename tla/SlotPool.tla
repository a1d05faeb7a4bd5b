------------------------------ MODULE SlotPool ------------------------------
(***************************************************************************)
(* What the callers of BrowserScheduler may rely on: a fair pool of        *)
(* Capacity slots.                                                         *)
(*                                                                         *)
(* A call is new, queued, has a slot, or is gone for good.  Which slot it  *)
(* has, locks, events and time do not appear.  A call that has a slot may  *)
(* keep it for ever; a call that is queued may leave, for whatever reason. *)
(***************************************************************************)
EXTENDS Integers, FiniteSets

CONSTANTS Jobs, Bounded, Capacity, QueueCapacity

VARIABLES phase,  \* "new", "queued", "has" or "gone"
          ahead   \* <<i, j>>: both are queued, and i came first

vars == <<phase, ahead>>

In(p) == {j \in Jobs : phase[j] = p}

Exhausted == Cardinality(In("has")) = Capacity

First(j) == j \in In("queued") /\ \A i \in In("queued") : <<i, j>> \notin ahead

Init ==
    /\ phase = [j \in Jobs |-> "new"]
    /\ ahead = {}

\* The pairs without j.
Forget(j) == {a \in ahead : j \notin {a[1], a[2]}}

\* A slot is taken at once only if nobody is queued for it.
Take(j) ==
    /\ phase[j] = "new"
    /\ In("queued") = {}
    /\ Cardinality(In("has")) < Capacity
    /\ phase' = [phase EXCEPT ![j] = "has"]
    /\ UNCHANGED ahead

\* A call waits only if there is no slot, behind everybody who waits.
Enqueue(j) ==
    /\ phase[j] = "new"
    /\ Exhausted
    /\ phase' = [phase EXCEPT ![j] = "queued"]
    /\ ahead' = ahead \cup (In("queued") \X {j})

\* A call is turned away if the queue is full, or its own deadline has passed.
Refuse(j) ==
    /\ phase[j] = "new"
    /\ \/ j \in Bounded
       \/ Exhausted /\ Cardinality(In("queued")) >= QueueCapacity
    /\ phase' = [phase EXCEPT ![j] = "gone"]
    /\ UNCHANGED ahead

Leave(j) ==
    /\ phase[j] = "queued"
    /\ phase' = [phase EXCEPT ![j] = "gone"]
    /\ ahead' = Forget(j)

\* A slot that comes back is handed to the call that came first, if one waits.
GiveBack(j) ==
    /\ phase[j] = "has"
    /\ \/ /\ In("queued") = {}
          /\ phase' = [phase EXCEPT ![j] = "gone"]
          /\ UNCHANGED ahead
       \/ \E k \in Jobs :
             /\ First(k)
             /\ phase' = [phase EXCEPT ![j] = "gone", ![k] = "has"]
             /\ ahead' = Forget(k)

Next == \E j \in Jobs : Take(j) \/ Enqueue(j) \/ Refuse(j) \/ Leave(j) \/ GiveBack(j)

Spec == Init /\ [][Next]_vars

=============================================================================
