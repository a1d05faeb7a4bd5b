----------------------- MODULE BrowserScheduler_proofs -----------------------
(***************************************************************************)
(* What holds of the slot scheduler for every number of jobs, slots and    *)
(* places in the queue.                                                    *)
(*                                                                         *)
(* SchedInv is inductive.  It says of every slot who has it (Ownership),   *)
(* of the pool that it is what is left over (SlotsConserved), and of the   *)
(* queue that it is empty while a slot is free (NoIdleSlot).  The last is  *)
(* what makes a slot that comes back go straight to the first waiter, and  *)
(* it needs the accounting: acquire queues a job when active has reached   *)
(* the capacity or the pool is empty, and only with SlotsConserved are     *)
(* those two the same.                                                     *)
(***************************************************************************)
EXTENDS BrowserScheduler, FiniteSetTheorems, FunctionTheorems, TLAPS

Ownership ==
    /\ \A j \in Jobs : slot[j] # NoSlot => slot[j] \notin available /\ pc[j] \in Owning
    /\ \A j, k \in Jobs : slot[j] # NoSlot /\ slot[j] = slot[k] => j = k

SchedInv == TypeOK /\ SlotsConserved /\ Ownership /\ LeaseHasSlot /\ NoIdleSlot

\* Tickets are given in the order of arrival, once to a job.
Queued == {j \in Jobs : ticket[j] > 0}

Tickets ==
    /\ \A j \in Jobs : ticket[j] <= Cardinality(Queued)
    /\ \A j \in Jobs : pc[j] = "start" => ticket[j] = 0
    /\ \A j, k \in Jobs : ticket[j] = ticket[k] /\ ticket[j] > 0 => j = k
    /\ \A j \in waiters : ticket[j] > 0

\* Every slot is free or of a job.
NoneLost == \A s \in Slots \ available : \E j \in Jobs : slot[j] = s

-----------------------------------------------------------------------------
\* There are as many slots as the capacity says.
LEMMA SlotCount ==
    /\ IsFiniteSet(Slots) /\ Cardinality(Slots) = Capacity
    /\ NoSlot \notin Slots /\ Slots \subseteq Int
<1>1. Capacity \in Nat \ {0}
  BY CapacityAssumption
<1>2. IsFiniteSet(0 .. Capacity - 1) /\ Cardinality(0 .. Capacity - 1) = Capacity
  BY <1>1, FS_Interval
<1> QED
  BY <1>1, <1>2 DEF Slots, NoSlot

\* The pool is finite, and its size is a number within the capacity.
LEMMA PoolSize ==
    ASSUME NEW A \in SUBSET Slots
    PROVE  /\ IsFiniteSet(A) /\ Cardinality(A) \in 0 .. Capacity
           /\ A = {} <=> Cardinality(A) = 0
           /\ Cardinality(A) = Capacity => A = Slots
<1>1. /\ IsFiniteSet(A) /\ Cardinality(A) <= Cardinality(Slots)
      /\ Cardinality(Slots) = Cardinality(A) => Slots = A
  BY SlotCount, FS_Subset
<1>2. Cardinality(A) \in Nat
  BY <1>1, FS_CardinalityType
<1>3. A = {} <=> Cardinality(A) = 0
  BY <1>1, FS_EmptySet
<1> QED
  BY <1>1, <1>2, <1>3, SlotCount, CapacityAssumption

\* A slot put into the pool makes it larger by one.
LEMMA PoolAdd ==
    ASSUME NEW A \in SUBSET Slots, NEW s \in Slots \ A
    PROVE  A \cup {s} \in SUBSET Slots /\ Cardinality(A \cup {s}) = Cardinality(A) + 1
BY PoolSize, FS_AddElement

\* Taking a slot from the pool makes it smaller by one.
LEMMA PoolTake ==
    ASSUME NEW A \in SUBSET Slots, NEW s \in A
    PROVE  A \ {s} \in SUBSET Slots /\ Cardinality(A \ {s}) = Cardinality(A) - 1
BY PoolSize, FS_RemoveElement

\* A slot comes back in one of two ways: nobody waits and it is free again, or
\* it goes to the first of the queue while the pool is, and stays, empty.
Freed(j) ==
    /\ waiters = {} /\ waiters' = waiters
    /\ active' = active - 1
    /\ available' = available \cup {slot[j]}
    /\ slot' = [slot EXCEPT ![j] = NoSlot]

HandedTo(j, k) ==
    /\ IsFirst(k) /\ waiters' = waiters \ {k}
    /\ available = {} /\ available' = {} /\ active' = active
    /\ slot' = [slot EXCEPT ![j] = NoSlot, ![k] = slot[j]]

\* Those are the only ways.
LEMMA ReturnCases ==
    ASSUME TypeOK, SlotsConserved, NoIdleSlot, NEW j \in Jobs, ReturnSlot(j)
    PROVE  Freed(j) \/ \E k \in waiters : HandedTo(j, k)
<1>1. active \in 0 .. Capacity /\ Capacity \in Nat
  BY CapacityAssumption DEF TypeOK
<1>2. CASE waiters = {}
  BY <1>2 DEF ReturnSlot, PutBack, Freed
<1>3. CASE waiters # {}
  <2>1. available = {}
    BY <1>3 DEF NoIdleSlot
  <2>2. ~(waiters = {} \/ active - 1 >= Capacity)
    BY <1>1, <1>3
  <2>3. PICK s \in available \cup {slot[j]}, k \in waiters :
           /\ IsFirst(k)
           /\ available' = (available \cup {slot[j]}) \ {s}
           /\ slot' = [slot EXCEPT ![j] = NoSlot, ![k] = s]
           /\ waiters' = waiters \ {k}
    BY <2>2 DEF ReturnSlot
  <2>4. active' = active
    BY <2>2 DEF ReturnSlot
  <2>5. s = slot[j] /\ available' = {}
    BY <2>1, <2>3
  <2>6. HandedTo(j, k)
    BY <2>1, <2>3, <2>4, <2>5 DEF HandedTo
  <2> QED
    BY <2>6
<1> QED
  BY <1>2, <1>3

Left == {"timeout", "cancelled", "failed", "released"}

\* Giving back a slot keeps the invariant, wherever the job goes with it.
LEMMA ReturnKeepsInv ==
    ASSUME SchedInv, NEW j \in Jobs, slot[j] # NoSlot, ReturnSlot(j),
           NEW label \in Left, Goto(j, label), UNCHANGED <<ticket, cancel, expired>>
    PROVE  SchedInv'
<1>1. /\ TypeOK /\ SlotsConserved /\ Ownership /\ LeaseHasSlot /\ NoIdleSlot
      /\ slot[j] \in Slots /\ slot[j] \notin available /\ pc[j] \in Owning
      /\ available \in SUBSET Slots /\ active \in 0 .. Capacity /\ Capacity \in Nat
      /\ waiters \subseteq Jobs /\ slot \in [Jobs -> Slots \cup {NoSlot}]
      /\ pc \in [Jobs -> PC]
  BY CapacityAssumption DEF SchedInv, TypeOK, Ownership
<1>2. pc' = [pc EXCEPT ![j] = label] /\ label \in PC /\ label \notin Waiting
      /\ label \notin {"granted", "lock", "held"}
  BY DEF Goto, Left, PC, Waiting
<1>3. j \notin waiters
  BY <1>1 DEF LeaseHasSlot
<1>4. NoSlot \notin Slots
  BY SlotCount
<1>5. CASE Freed(j)
  <2>1. Cardinality(available') = Cardinality(available) + 1 /\ available' \in SUBSET Slots
    BY <1>1, <1>5, PoolAdd DEF Freed
  <2>2. Cardinality(available) \in Nat /\ active + Cardinality(available) = Capacity
    BY <1>1, PoolSize DEF SlotsConserved
  <2>3. Cardinality(available') \in 0 .. Capacity
    BY <2>1, PoolSize
  <2>4. active' = active - 1 /\ active' \in 0 .. Capacity
    BY <1>1, <1>5, <2>1, <2>2, <2>3 DEF Freed
  <2>5. SlotsConserved'
    BY <1>1, <2>1, <2>2, <2>4 DEF SlotsConserved
  <2>6. TypeOK'
    BY <1>1, <1>2, <1>5, <2>1, <2>4 DEF TypeOK, Freed
  <2>7. Ownership'
    BY <1>1, <1>2, <1>4, <1>5 DEF Ownership, Freed
  <2>8. LeaseHasSlot'
    BY <1>1, <1>2, <1>5 DEF LeaseHasSlot, Freed
  <2>9. NoIdleSlot'
    BY <1>5 DEF NoIdleSlot, Freed
  <2> QED
    BY <2>5, <2>6, <2>7, <2>8, <2>9 DEF SchedInv
<1>6. ASSUME NEW k \in waiters, HandedTo(j, k)
      PROVE  SchedInv'
  <2>1. k \in Jobs /\ k # j /\ pc[k] \in Waiting /\ slot[k] = NoSlot
    BY <1>1, <1>3 DEF LeaseHasSlot
  <2>2. \A i \in Jobs : slot'[i] = IF i = k THEN slot[j]
                                   ELSE IF i = j THEN NoSlot ELSE slot[i]
    BY <1>1, <1>6, <2>1 DEF HandedTo
  <2>3. slot' \in [Jobs -> Slots \cup {NoSlot}]
    BY <1>1, <1>6, <2>1 DEF HandedTo
  <2>4. TypeOK'
    BY <1>1, <1>2, <1>6, <2>3 DEF TypeOK, HandedTo
  <2>5. SlotsConserved'
    BY <1>1, <1>6 DEF SlotsConserved, HandedTo
  <2>6. \A i \in Jobs : pc'[i] = IF i = j THEN label ELSE pc[i]
    BY <1>1, <1>2
  <2>7. Ownership'
    BY <1>1, <1>6, <2>1, <2>2, <2>6 DEF Ownership, HandedTo, Owning
  <2>8. LeaseHasSlot'
    BY <1>1, <1>2, <1>4, <1>6, <2>1, <2>2, <2>6 DEF LeaseHasSlot, HandedTo, Waiting
  <2>9. NoIdleSlot'
    BY <1>6 DEF NoIdleSlot, HandedTo
  <2> QED
    BY <2>4, <2>5, <2>7, <2>8, <2>9 DEF SchedInv
<1> QED
  BY <1>1, <1>5, <1>6, ReturnCases

\* The pool starts full.
LEMMA SchedInit == Init => SchedInv
<1> SUFFICES ASSUME Init PROVE SchedInv
  OBVIOUS
<1>1. Capacity \in Nat \ {0} /\ Cardinality(Slots) = Capacity
  BY SlotCount, CapacityAssumption
<1>2. TypeOK
  BY <1>1 DEF Init, TypeOK, PC
<1>3. SlotsConserved
  BY <1>1 DEF Init, SlotsConserved
<1>4. Ownership /\ LeaseHasSlot /\ NoIdleSlot
  BY DEF Init, Ownership, LeaseHasSlot, NoIdleSlot, Waiting
<1> QED
  BY <1>2, <1>3, <1>4 DEF SchedInv

\* Tickets are numbers.
LEMMA TicketType == NextTicket \in Nat
<1>1. {j \in Jobs : ticket[j] > 0} \in SUBSET Jobs
  OBVIOUS
<1>2. IsFiniteSet({j \in Jobs : ticket[j] > 0})
  BY <1>1, JobsAssumption, FS_Subset
<1>3. Cardinality({j \in Jobs : ticket[j] > 0}) \in Nat
  BY <1>2, FS_CardinalityType
<1> QED
  BY <1>3 DEF NextTicket

\* A job that finds a free slot takes it; nobody is queued then.
LEMMA TakeKeepsInv ==
    ASSUME SchedInv, NEW j \in Jobs, pc[j] = "start", TakeImmediate(j),
           Goto(j, "lock"), UNCHANGED <<waiters, ticket, cancel, expired>>
    PROVE  SchedInv' /\ waiters = {}
<1>1. /\ TypeOK /\ SlotsConserved /\ Ownership /\ LeaseHasSlot /\ NoIdleSlot
      /\ available \in SUBSET Slots /\ active \in 0 .. Capacity /\ Capacity \in Nat
      /\ slot \in [Jobs -> Slots \cup {NoSlot}] /\ pc \in [Jobs -> PC]
  BY CapacityAssumption DEF SchedInv, TypeOK
<1>2. PICK s \in available : available' = available \ {s} /\ slot' = [slot EXCEPT ![j] = s]
  BY DEF TakeImmediate
<1>3. active < Capacity /\ active' = active + 1
  BY DEF TakeImmediate
<1>4. /\ Cardinality(available') = Cardinality(available) - 1
      /\ available' \in SUBSET Slots /\ Cardinality(available) \in Nat
  BY <1>1, <1>2, PoolTake, PoolSize
<1>5. pc' = [pc EXCEPT ![j] = "lock"] /\ "lock" \in PC /\ "lock" \in Owning
      /\ "lock" \notin Waiting
  BY DEF Goto, PC, Owning, Waiting
<1>6. waiters = {}
  BY <1>1, <1>2 DEF NoIdleSlot
<1>7. TypeOK'
  BY <1>1, <1>2, <1>3, <1>4, <1>5 DEF TypeOK
<1>8. SlotsConserved'
  BY <1>1, <1>3, <1>4 DEF SlotsConserved
<1>9. s \in Slots /\ s # NoSlot
  BY <1>1, SlotCount
<1>10. Ownership'
  BY <1>1, <1>2, <1>5, <1>9 DEF Ownership
<1>11. LeaseHasSlot'
  BY <1>1, <1>2, <1>5, <1>6, <1>9 DEF LeaseHasSlot
<1>12. NoIdleSlot'
  BY <1>6 DEF NoIdleSlot
<1> QED
  BY <1>6, <1>7, <1>8, <1>10, <1>11, <1>12 DEF SchedInv

\* A job is queued only when there is no slot.
LEMMA AcquireKeepsInv ==
    ASSUME SchedInv, NEW j \in Jobs, Acquire(j)
    PROVE  SchedInv'
<1>1. /\ TypeOK /\ SlotsConserved /\ Ownership /\ LeaseHasSlot /\ NoIdleSlot
      /\ available \in SUBSET Slots /\ active \in 0 .. Capacity /\ Capacity \in Nat
      /\ slot \in [Jobs -> Slots \cup {NoSlot}] /\ pc \in [Jobs -> PC]
      /\ waiters \subseteq Jobs /\ ticket \in [Jobs -> Nat] /\ pc[j] = "start"
      /\ UNCHANGED <<cancel, expired>>
  BY CapacityAssumption DEF SchedInv, TypeOK, Acquire
<1>2. slot[j] = NoSlot /\ j \notin waiters
  BY <1>1 DEF Ownership, Owning, Waiting, LeaseHasSlot
<1>3. ASSUME NEW label \in {"timeout", "saturated"}, Goto(j, label),
             UNCHANGED <<active, available, waiters, ticket, slot>>
      PROVE  SchedInv'
  <2>1. pc' = [pc EXCEPT ![j] = label] /\ label \in PC /\ label \notin Waiting
        /\ label \notin {"granted", "lock", "held"}
    BY <1>3 DEF Goto, PC, Waiting
  <2>2. TypeOK'
    BY <1>1, <1>3, <2>1 DEF TypeOK
  <2>3. SlotsConserved' /\ Ownership' /\ LeaseHasSlot' /\ NoIdleSlot'
    BY <1>1, <1>2, <1>3, <2>1 DEF SlotsConserved, Ownership, LeaseHasSlot, NoIdleSlot
  <2> QED
    BY <2>2, <2>3 DEF SchedInv
<1>4. CASE TakeImmediate(j) /\ Goto(j, "lock") /\ UNCHANGED <<waiters, ticket>>
  BY <1>1, <1>4, TakeKeepsInv
<1>5. CASE /\ ~(active < Capacity /\ available # {})
           /\ waiters' = waiters \cup {j}
           /\ ticket' = [ticket EXCEPT ![j] = NextTicket]
           /\ Goto(j, "top")
           /\ UNCHANGED <<active, available, slot>>
  <2>1. available = {}
    <3>1. active < Capacity \/ active = Capacity
      BY <1>1
    <3>2. CASE active = Capacity
      <4>1. Cardinality(available) = 0
        BY <1>1, <3>2, PoolSize DEF SlotsConserved
      <4> QED
        BY <1>1, <4>1, PoolSize
    <3> QED
      BY <1>5, <3>1, <3>2
  <2>2. pc' = [pc EXCEPT ![j] = "top"] /\ "top" \in PC /\ "top" \in Waiting
        /\ "top" \in Owning
    BY <1>5 DEF Goto, PC, Waiting, Owning
  <2>3. ticket' \in [Jobs -> Nat]
    BY <1>1, <1>5, TicketType
  <2>4. TypeOK'
    BY <1>1, <1>5, <2>2, <2>3 DEF TypeOK
  <2>5. SlotsConserved' /\ Ownership' /\ NoIdleSlot'
    BY <1>1, <1>5, <2>1, <2>2 DEF SlotsConserved, Ownership, NoIdleSlot
  <2>6. LeaseHasSlot'
    BY <1>1, <1>2, <1>5, <2>2 DEF LeaseHasSlot, Waiting
  <2> QED
    BY <2>4, <2>5, <2>6 DEF SchedInv
<1> QED
  BY <1>3, <1>4, <1>5 DEF Acquire

\* A job moves on and neither the pool, the queue nor a slot changes.
LEMMA MoveKeepsInv ==
    ASSUME SchedInv, NEW j \in Jobs, NEW label \in PC,
           UNCHANGED <<active, available, slot, waiters, ticket, cancel, expired>>,
           Goto(j, label), slot[j] # NoSlot => label \in Owning,
           label \in Waiting => pc[j] \in Waiting,
           j \in waiters => label \in Waiting,
           label \in {"granted", "lock", "held"} => slot[j] # NoSlot
    PROVE  SchedInv'
<1>1. pc' = [pc EXCEPT ![j] = label] /\ pc \in [Jobs -> PC]
  BY DEF Goto, SchedInv, TypeOK
<1>2. TypeOK'
  BY <1>1 DEF SchedInv, TypeOK
<1>3. SlotsConserved' /\ Ownership' /\ NoIdleSlot'
  BY <1>1 DEF SchedInv, SlotsConserved, Ownership, NoIdleSlot
<1>4. LeaseHasSlot'
  BY <1>1 DEF SchedInv, LeaseHasSlot
<1> QED
  BY <1>2, <1>3, <1>4 DEF SchedInv

\* A job leaves the queue without a slot.
LEMMA DequeueKeepsInv ==
    ASSUME SchedInv, NEW j \in waiters, NEW label \in Left, Goto(j, label),
           waiters' = waiters \ {j},
           UNCHANGED <<active, available, slot, ticket, cancel, expired>>
    PROVE  SchedInv'
<1>1. j \in Jobs /\ slot[j] = NoSlot
  BY DEF SchedInv, TypeOK, LeaseHasSlot
<1>2. pc' = [pc EXCEPT ![j] = label] /\ pc \in [Jobs -> PC] /\ label \in PC
      /\ label \notin Waiting /\ label \notin {"granted", "lock", "held"}
  BY DEF Goto, SchedInv, TypeOK, PC, Left, Waiting
<1>3. TypeOK'
  BY <1>2 DEF SchedInv, TypeOK
<1>4. SlotsConserved' /\ Ownership' /\ NoIdleSlot'
  BY <1>1, <1>2 DEF SchedInv, SlotsConserved, Ownership, NoIdleSlot
<1>5. LeaseHasSlot'
  BY <1>1, <1>2 DEF SchedInv, LeaseHasSlot
<1> QED
  BY <1>3, <1>4, <1>5 DEF SchedInv

\* The three ways in which a step treats the slots: it leaves them alone, hands
\* one out at once, or takes one back.
Shape ==
    \/ UNCHANGED <<slot, available>>
    \/ \E j \in Jobs : slot[j] = NoSlot /\ TakeImmediate(j) /\ UNCHANGED waiters
    \/ \E j \in Jobs : slot[j] # NoSlot /\ ReturnSlot(j)

\* So does every step of a job.
LEMMA StepShape ==
    ASSUME SchedInv, NEW j \in Jobs, Acquire(j) \/ Step(j) \/ Release(j)
    PROVE  Shape
<1>1. LeaseHasSlot /\ Ownership
  BY DEF SchedInv
<1>2. CASE Acquire(j)
  <2>1. slot[j] = NoSlot
    BY <1>1, <1>2 DEF Acquire, Ownership, Owning, Waiting
  <2> QED
    BY <1>2, <2>1 DEF Acquire, Shape
<1>3. CASE Cancelled(j)
  <2>1. pc[j] \in Waiting
    BY <1>3 DEF Cancelled, Waiting
  <2>2. CASE j \in waiters
    BY <1>3, <2>2 DEF Cancelled, Leave, Shape
  <2>3. CASE j \notin waiters
    BY <1>1, <1>3, <2>1, <2>3 DEF Cancelled, Leave, Shape, LeaseHasSlot
  <2> QED
    BY <2>2, <2>3
<1>4. CASE TimeUp(j) \/ Block(j) \/ Unblock(j)
  BY <1>4 DEF TimeUp, Block, Unblock, Shape
<1>5. CASE Granted(j)
  BY <1>1, <1>5 DEF Granted, Shape, LeaseHasSlot
<1>6. CASE LockProfile(j)
  BY <1>1, <1>6 DEF LockProfile, Shape, LeaseHasSlot
<1>7. CASE Release(j)
  BY <1>1, <1>7 DEF Release, Shape, LeaseHasSlot
<1> QED
  BY <1>2, <1>3, <1>4, <1>5, <1>6, <1>7 DEF Step

\* So does every step of the system.
LEMMA NextShape ==
    ASSUME SchedInv, [Next]_vars
    PROVE  Shape
<1>1. CASE \E j \in Jobs : Acquire(j) \/ Step(j) \/ Release(j)
  BY <1>1, StepShape
<1>2. CASE \E j \in Jobs : Cancel(j) \/ Expire(j)
  BY <1>2 DEF Cancel, Expire, Shape
<1>3. CASE AllDone \/ UNCHANGED vars
  BY <1>3 DEF AllDone, vars, Shape
<1> QED
  BY <1>1, <1>2, <1>3 DEF Next

\* Every step of a queued or served job keeps the invariant.
LEMMA StepKeepsInv ==
    ASSUME SchedInv, NEW j \in Jobs, Step(j) \/ Release(j)
    PROVE  SchedInv'
<1>1. /\ LeaseHasSlot /\ waiters \subseteq Jobs
      /\ {"top", "wait", "granted", "lock", "held"} \subseteq Owning
      /\ Waiting = {"top", "wait"}
      /\ {"top", "wait", "granted", "lock", "held", "failed"} \subseteq PC
      /\ Left = {"timeout", "cancelled", "failed", "released"}
  BY DEF SchedInv, TypeOK, Owning, Waiting, PC, Left
<1>2. CASE Cancelled(j)
  <2>1. CASE j \in waiters
    BY <1>1, <1>2, <2>1, DequeueKeepsInv DEF Cancelled, Leave
  <2>2. CASE j \notin waiters
    <3>1. slot[j] # NoSlot
      BY <1>1, <1>2, <2>2 DEF Cancelled, LeaseHasSlot
    <3> QED
      BY <1>1, <1>2, <2>2, <3>1, ReturnKeepsInv DEF Cancelled, Leave
  <2> QED
    BY <2>1, <2>2
<1>3. CASE TimeUp(j)
  <2>1. CASE j \in waiters
    BY <1>1, <1>3, <2>1, DequeueKeepsInv DEF TimeUp
  <2>2. CASE j \notin waiters
    <3>1. slot[j] # NoSlot
      BY <1>1, <1>3, <2>2 DEF TimeUp, LeaseHasSlot
    <3> QED
      BY <1>1, <1>3, <2>2, <3>1, MoveKeepsInv DEF TimeUp
  <2> QED
    BY <2>1, <2>2
<1>4. CASE Block(j)
  BY <1>1, <1>4, MoveKeepsInv DEF Block
<1>5. CASE Unblock(j)
  <2>1. CASE slot[j] # NoSlot
    <3>1. j \notin waiters
      BY <1>1, <1>5, <2>1 DEF Unblock, LeaseHasSlot
    <3> QED
      BY <1>1, <1>5, <2>1, <3>1, MoveKeepsInv DEF Unblock
  <2>2. CASE slot[j] = NoSlot
    BY <1>1, <1>5, <2>2, MoveKeepsInv DEF Unblock
  <2> QED
    BY <2>1, <2>2
<1>6. ASSUME pc[j] \in {"granted", "lock", "held"}
      PROVE  slot[j] # NoSlot /\ j \notin waiters
  BY <1>1, <1>6 DEF LeaseHasSlot
<1>7. CASE Granted(j)
  <2>1. CASE Late(j)
    BY <1>1, <1>6, <1>7, <2>1, ReturnKeepsInv DEF Granted
  <2>2. CASE ~Late(j)
    BY <1>1, <1>6, <1>7, <2>2, MoveKeepsInv DEF Granted
  <2> QED
    BY <2>1, <2>2
<1>8. CASE LockProfile(j)
  <2>1. slot[j] # NoSlot /\ j \notin waiters /\ pc[j] = "lock"
    BY <1>6, <1>8 DEF LockProfile
  <2>2. CASE Goto(j, "held") /\ UNCHANGED <<active, available, waiters, slot>>
    BY <1>1, <1>8, <2>1, <2>2, MoveKeepsInv DEF LockProfile
  <2>3. CASE ReturnSlot(j) /\ Goto(j, "failed")
    BY <1>1, <1>8, <2>1, <2>3, ReturnKeepsInv DEF LockProfile
  <2>4. CASE /\ LockRaises
             /\ Goto(j, "failed")
             /\ UNCHANGED <<active, available, waiters, slot>>
    <3>1. "failed" \in Owning
      BY <2>4 DEF Owning
    <3> QED
      BY <1>1, <1>8, <2>1, <2>4, <3>1, MoveKeepsInv DEF LockProfile
  <2> QED
    BY <1>8, <2>2, <2>3, <2>4 DEF LockProfile
<1>9. CASE Release(j)
  BY <1>1, <1>6, <1>9, ReturnKeepsInv DEF Release
<1> QED
  BY <1>2, <1>3, <1>4, <1>5, <1>7, <1>8, <1>9 DEF Step

\* Every step keeps the invariant.
LEMMA SchedNext == SchedInv /\ [Next]_vars => SchedInv'
<1> SUFFICES ASSUME SchedInv, [Next]_vars PROVE SchedInv'
  OBVIOUS
<1>1. ASSUME NEW j \in Jobs, Acquire(j)
      PROVE  SchedInv'
  BY <1>1, AcquireKeepsInv
<1>2. ASSUME NEW j \in Jobs, Step(j) \/ Release(j)
      PROVE  SchedInv'
  BY <1>2, StepKeepsInv
<1>3. ASSUME NEW j \in Jobs, Cancel(j) \/ Expire(j)
      PROVE  SchedInv'
  <2>1. TypeOK'
    BY <1>3 DEF SchedInv, TypeOK, Cancel, Expire
  <2>2. SlotsConserved' /\ Ownership' /\ LeaseHasSlot' /\ NoIdleSlot'
    BY <1>3 DEF SchedInv, SlotsConserved, Ownership, LeaseHasSlot, NoIdleSlot,
                Cancel, Expire
  <2> QED
    BY <2>1, <2>2 DEF SchedInv
<1>4. CASE AllDone \/ UNCHANGED vars
  <2>1. UNCHANGED vars
    BY <1>4 DEF AllDone
  <2>2. TypeOK'
    BY <2>1 DEF SchedInv, TypeOK, vars
  <2>3. SlotsConserved' /\ Ownership' /\ LeaseHasSlot' /\ NoIdleSlot'
    BY <2>1 DEF SchedInv, SlotsConserved, Ownership, LeaseHasSlot, NoIdleSlot, vars
  <2> QED
    BY <2>2, <2>3 DEF SchedInv
<1> QED
  BY <1>1, <1>2, <1>3, <1>4 DEF Next

\* No step forgets a slot.
LEMMA NoneLostNext ==
    ASSUME SchedInv, NoneLost, [Next]_vars
    PROVE  NoneLost'
<1>1. /\ TypeOK /\ SlotsConserved /\ NoIdleSlot /\ Ownership
      /\ slot \in [Jobs -> Slots \cup {NoSlot}] /\ waiters \subseteq Jobs
  BY DEF SchedInv, TypeOK
<1>2. NoSlot \notin Slots
  BY SlotCount
<1>3. CASE UNCHANGED <<slot, available>>
  BY <1>3 DEF NoneLost
<1>4. ASSUME NEW j \in Jobs, slot[j] = NoSlot, TakeImmediate(j)
      PROVE  NoneLost'
  <2>1. PICK s \in available : available' = available \ {s} /\ slot' = [slot EXCEPT ![j] = s]
    BY <1>4 DEF TakeImmediate
  <2> QED
    BY <1>1, <1>2, <1>4, <2>1 DEF NoneLost
<1>5. ASSUME NEW j \in Jobs, slot[j] # NoSlot, ReturnSlot(j)
      PROVE  NoneLost'
  <2>1. CASE Freed(j)
    BY <1>1, <1>5, <2>1 DEF Freed, NoneLost
  <2>2. ASSUME NEW k \in waiters, HandedTo(j, k)
        PROVE  NoneLost'
    <3>1. k \in Jobs /\ available' = available
      BY <1>1, <2>2 DEF HandedTo
    <3>2. slot'[k] = slot[j]
      BY <1>1, <2>2, <3>1 DEF HandedTo
    <3>3. slot[k] = NoSlot
      BY <3>1, <2>2 DEF SchedInv, LeaseHasSlot
    <3>4. ASSUME NEW i \in Jobs, i # j, i # k
          PROVE  slot'[i] = slot[i]
      BY <1>1, <2>2, <3>1, <3>4 DEF HandedTo
    <3> QED
      BY <1>2, <3>1, <3>2, <3>3, <3>4 DEF NoneLost
  <2> QED
    BY <1>1, <1>5, <2>1, <2>2, ReturnCases
<1> QED
  BY <1>3, <1>4, <1>5, NextShape DEF Shape

\* The set of jobs that have been queued is finite.
LEMMA QueuedSize == IsFiniteSet(Queued) /\ Cardinality(Queued) \in Nat
<1>1. Queued \in SUBSET Jobs
  BY DEF Queued
<1>2. IsFiniteSet(Queued)
  BY <1>1, JobsAssumption, FS_Subset
<1> QED
  BY <1>2, FS_CardinalityType

\* A job that is queued gets a ticket higher than all before it.
LEMMA EnqueueKeepsTickets ==
    ASSUME TypeOK, Tickets, NEW j \in Jobs, pc[j] = "start",
           waiters' = waiters \cup {j}, ticket' = [ticket EXCEPT ![j] = NextTicket],
           Goto(j, "top")
    PROVE  Tickets'
<1>1. ticket \in [Jobs -> Nat] /\ pc \in [Jobs -> PC] /\ waiters \subseteq Jobs
  BY DEF TypeOK
<1>2. NextTicket = Cardinality(Queued) + 1 /\ Cardinality(Queued) \in Nat
  BY QueuedSize DEF NextTicket, Queued
<1>3. ticket[j] = 0
  BY DEF Tickets
<1>4. \A i \in Jobs : ticket'[i] = IF i = j THEN Cardinality(Queued) + 1 ELSE ticket[i]
  BY <1>1, <1>2
<1>5. Queued' = Queued \cup {j}
  <2>1. Queued' = {i \in Jobs : ticket'[i] > 0}
    BY DEF Queued
  <2>2. \A i \in Jobs : ticket'[i] > 0 <=> i = j \/ ticket[i] > 0
    BY <1>1, <1>2, <1>4
  <2> QED
    BY <2>1, <2>2 DEF Queued
<1>6. j \notin Queued
  BY <1>3 DEF Queued
<1>7. Cardinality(Queued') = Cardinality(Queued) + 1
  BY <1>5, <1>6, QueuedSize, FS_AddElement
<1>8. \A i \in Jobs : pc'[i] = IF i = j THEN "top" ELSE pc[i]
  BY <1>1 DEF Goto
<1>9. \A i \in Jobs : ticket[i] <= Cardinality(Queued) /\ ticket[i] \in Nat
  BY <1>1 DEF Tickets
<1>10. \A i \in Jobs : ticket'[i] <= Cardinality(Queued)'
  BY <1>2, <1>4, <1>7, <1>9
<1>11. \A i \in Jobs : pc'[i] = "start" => ticket'[i] = 0
  BY <1>4, <1>8 DEF Tickets
<1>12. \A i, k \in Jobs : ticket'[i] = ticket'[k] /\ ticket'[i] > 0 => i = k
  BY <1>2, <1>4, <1>9 DEF Tickets
<1>13. \A i \in waiters' : ticket'[i] > 0
  BY <1>1, <1>2, <1>4 DEF Tickets
<1> QED
  BY <1>10, <1>11, <1>12, <1>13 DEF Tickets

\* Every other step leaves the tickets alone.
LEMMA TicketsNext ==
    ASSUME SchedInv, Tickets, [Next]_vars
    PROVE  Tickets'
<1>1. /\ TypeOK /\ ticket \in [Jobs -> Nat] /\ pc \in [Jobs -> PC] /\ waiters \subseteq Jobs
      /\ SlotsConserved /\ NoIdleSlot
  BY DEF SchedInv, TypeOK
<1>2. ASSUME ticket' = ticket, waiters' \subseteq waiters,
             \A i \in Jobs : pc'[i] = "start" => pc[i] = "start"
      PROVE  Tickets'
  BY <1>1, <1>2 DEF Tickets, Queued
<1>3. ASSUME NEW j \in Jobs, ReturnSlot(j)
      PROVE  waiters' \subseteq waiters
  BY <1>1, <1>3, ReturnCases DEF Freed, HandedTo
<1>4. ASSUME NEW j \in Jobs, NEW label, label # "start", Goto(j, label)
      PROVE  \A i \in Jobs : pc'[i] = "start" => pc[i] = "start"
  BY <1>1, <1>4 DEF Goto
<1>5. ASSUME NEW j \in Jobs, Acquire(j)
      PROVE  Tickets'
  <2>1. CASE /\ waiters' = waiters \cup {j}
             /\ ticket' = [ticket EXCEPT ![j] = NextTicket]
             /\ Goto(j, "top")
    BY <1>1, <1>5, <2>1, EnqueueKeepsTickets DEF Acquire
  <2>2. CASE /\ UNCHANGED <<waiters, ticket>>
             /\ \E label \in {"timeout", "lock", "saturated"} : Goto(j, label)
    BY <1>2, <1>4, <2>2
  <2> QED
    BY <1>5, <2>1, <2>2 DEF Acquire
<1>6. ASSUME NEW j \in Jobs, Step(j) \/ Release(j)
      PROVE  Tickets'
  <2>1. ticket' = ticket
    BY <1>6 DEF Step, Release, Cancelled, TimeUp, Block, Unblock, Granted, LockProfile
  <2>2. waiters' \subseteq waiters
    <3>1. CASE Cancelled(j)
      BY <1>3, <3>1 DEF Cancelled, Leave
    <3>2. CASE TimeUp(j) \/ Block(j) \/ Unblock(j)
      BY <3>2 DEF TimeUp, Block, Unblock
    <3>3. CASE Granted(j) \/ LockProfile(j) \/ Release(j)
      BY <1>3, <3>3 DEF Granted, LockProfile, Release
    <3> QED
      BY <1>6, <3>1, <3>2, <3>3 DEF Step
  <2>3. \E label \in {"top", "wait", "granted", "lock", "held", "timeout",
                      "cancelled", "failed", "released"} : Goto(j, label)
    BY <1>6 DEF Step, Release, Cancelled, TimeUp, Block, Unblock, Granted, LockProfile
  <2> QED
    BY <1>2, <1>4, <2>1, <2>2, <2>3
<1>7. CASE \E j \in Jobs : Cancel(j) \/ Expire(j)
  BY <1>2, <1>7 DEF Cancel, Expire
<1>8. CASE AllDone \/ UNCHANGED vars
  BY <1>2, <1>8 DEF AllDone, vars
<1> QED
  BY <1>5, <1>6, <1>7, <1>8 DEF Next

\* A slot that is handed out goes to whoever has waited longest.
LEMMA FifoNext ==
    ASSUME SchedInv, Tickets, [Next]_vars
    PROVE  FifoStep
<1>1. /\ TypeOK /\ SlotsConserved /\ NoIdleSlot /\ waiters \subseteq Jobs
      /\ slot \in [Jobs -> Slots \cup {NoSlot}] /\ ticket \in [Jobs -> Nat]
  BY DEF SchedInv, TypeOK
<1>2. CASE UNCHANGED <<slot, available>>
  BY <1>2 DEF FifoStep
<1>3. CASE \E j \in Jobs : slot[j] = NoSlot /\ TakeImmediate(j) /\ UNCHANGED waiters
  BY <1>1, <1>3 DEF FifoStep, TakeImmediate, NoIdleSlot
<1>4. ASSUME NEW j \in Jobs, slot[j] # NoSlot, ReturnSlot(j)
      PROVE  FifoStep
  <2>1. CASE Freed(j)
    BY <1>1, <2>1 DEF Freed, FifoStep
  <2>2. ASSUME NEW k \in waiters, HandedTo(j, k)
        PROVE  FifoStep
    <3>1. \A i \in Jobs : slot[i] = NoSlot /\ slot'[i] # NoSlot => i = k
      BY <1>1, <2>2 DEF HandedTo
    <3>2. \A i \in waiters \ {k} : ticket[k] < ticket[i]
      BY <1>1, <2>2 DEF HandedTo, IsFirst, Tickets
    <3> QED
      BY <2>2, <3>1, <3>2 DEF FifoStep, HandedTo
  <2> QED
    BY <1>1, <1>4, <2>1, <2>2, ReturnCases
<1> QED
  BY <1>2, <1>3, <1>4, NextShape DEF Shape

\* The invariant holds always.
LEMMA SchedAlways == Spec => [](SchedInv /\ NoneLost /\ Tickets)
<1>1. Init => SchedInv /\ NoneLost /\ Tickets
  <2> SUFFICES ASSUME Init PROVE SchedInv /\ NoneLost /\ Tickets
    OBVIOUS
  <2>1. NoneLost
    BY DEF Init, NoneLost
  <2>2. Tickets
    BY QueuedSize DEF Init, Tickets
  <2> QED
    BY <2>1, <2>2, SchedInit
<1>2. SchedInv /\ NoneLost /\ Tickets /\ [Next]_vars
        => (SchedInv /\ NoneLost /\ Tickets)'
  BY SchedNext, NoneLostNext, TicketsNext
<1> QED
  BY <1>1, <1>2, PTL DEF Spec

-----------------------------------------------------------------------------
(* The refinement of SlotPool. *)

Having == {j \in Jobs : slot[j] # NoSlot}

\* The jobs that have a slot are as many as the counter says.
LEMMA ActiveCounts ==
    ASSUME SchedInv, NoneLost
    PROVE  IsFiniteSet(Having) /\ Cardinality(Having) = active
<1>1. /\ available \in SUBSET Slots /\ active \in Nat /\ slot \in [Jobs -> Slots \cup {NoSlot}]
      /\ Ownership /\ SlotsConserved
  BY DEF SchedInv, TypeOK
<1>2. IsFiniteSet(Having)
  BY JobsAssumption, FS_Subset DEF Having
<1> DEFINE used == Slots \ available
           f == [j \in Having |-> slot[j]]
<1>3. f \in [Having -> used]
  BY <1>1 DEF Having, Ownership
<1>4. \A i, j \in Having : f[i] = f[j] => i = j
  BY <1>1 DEF Having, Ownership
<1>5. \A s \in used : \E j \in Having : f[j] = s
  <2> TAKE s \in used
  <2>1. PICK j \in Jobs : slot[j] = s
    BY DEF NoneLost
  <2>2. j \in Having
    BY <2>1, SlotCount DEF Having
  <2> QED
    BY <2>1, <2>2
<1>6. f \in Bijection(Having, used)
  <2> HIDE DEF f, used
  <2> QED
    BY <1>3, <1>4, <1>5, Fun_IsBij
<1>7. Cardinality(used) = Cardinality(Having)
  <2>1. ExistsBijection(Having, used)
    BY <1>6, Fun_ExistsBij
  <2> QED
    BY <1>2, <2>1, FS_Bijection
<1>8. Cardinality(used) = Cardinality(Slots) - Cardinality(available)
  <2>1. Slots \cap available = available
    BY <1>1
  <2>2. /\ IsFiniteSet(Slots) /\ IsFiniteSet(available)
        /\ Cardinality(Slots \ available) = Cardinality(Slots) - Cardinality(Slots \cap available)
    BY <1>1, SlotCount, FS_Difference, PoolSize
  <2> QED
    BY <2>1, <2>2
<1>9. Cardinality(available) \in Nat /\ Capacity \in Nat
  BY <1>1, PoolSize, CapacityAssumption
<1> QED
  BY <1>1, <1>2, <1>7, <1>8, <1>9, SlotCount DEF SlotsConserved

\* The pool counts as the scheduler does.
LEMMA SameCount == ASSUME NEW S PROVE Pool!Cardinality(S) = Cardinality(S)
BY DEF Pool!Cardinality, Cardinality

\* What the pool sees of a job.
LEMMA Phases ==
    ASSUME SchedInv
    PROVE  /\ Pool!In("has") = Having
           /\ Pool!In("queued") = waiters
           /\ \A j \in Jobs : pc[j] = "start" => phaseBar[j] = "new"
           /\ \A j \in Jobs : slot[j] # NoSlot => phaseBar[j] = "has"
           /\ \A j \in waiters : phaseBar[j] = "queued" /\ slot[j] = NoSlot
<1>1. Ownership /\ LeaseHasSlot /\ waiters \subseteq Jobs
  BY DEF SchedInv, TypeOK
<1>2. \A j \in waiters : slot[j] = NoSlot /\ pc[j] \in Waiting
  BY <1>1 DEF LeaseHasSlot
<1>3. \A j \in Jobs : pc[j] = "start" => slot[j] = NoSlot /\ j \notin waiters
  BY <1>1, <1>2 DEF Ownership, Owning, Waiting
<1> QED
  BY <1>1, <1>2, <1>3 DEF Pool!In, phaseBar, Having

\* No slot is free exactly when as many jobs have one as there are.
LEMMA PoolExhausted ==
    ASSUME SchedInv, NoneLost
    PROVE  Pool!Exhausted <=> available = {}
<1>1. /\ available \in SUBSET Slots /\ active \in Nat /\ SlotsConserved
  BY DEF SchedInv, TypeOK
<1>2. Cardinality(Pool!In("has")) = active
  BY Phases, ActiveCounts
<1>3. Cardinality(available) \in Nat /\ (available = {} <=> Cardinality(available) = 0)
  BY <1>1, PoolSize
<1> QED
  BY <1>1, <1>2, <1>3, SameCount, CapacityAssumption DEF Pool!Exhausted, SlotsConserved

\* The order of the queue without one of its jobs.
LEMMA OrderWithout ==
    ASSUME TypeOK, NEW k \in Jobs, waiters' = waiters \ {k}, ticket' = ticket
    PROVE  aheadBar' = Pool!Forget(k)
BY DEF aheadBar, Pool!Forget

\* The first of the queue has the lowest ticket.
LEMMA FirstIsFirst ==
    ASSUME SchedInv, NEW k \in waiters, IsFirst(k)
    PROVE  Pool!First(k)
<1>1. ticket \in [Jobs -> Nat] /\ waiters \subseteq Jobs
  BY DEF SchedInv, TypeOK
<1>2. \A i \in waiters : ticket[k] <= ticket[i] /\ ticket[i] \in Nat /\ ticket[k] \in Nat
  BY <1>1 DEF IsFirst
<1>3. \A i \in waiters : <<i, k>> \notin aheadBar
  BY <1>2 DEF aheadBar
<1> QED
  BY <1>3, Phases DEF Pool!First

\* A slot that comes back.
LEMMA ReturnGivesBack ==
    ASSUME SchedInv, NEW j \in Jobs, slot[j] # NoSlot, ReturnSlot(j),
           NEW label \in Left, Goto(j, label), ticket' = ticket
    PROVE  Pool!GiveBack(j)
<1>1. /\ TypeOK /\ SlotsConserved /\ NoIdleSlot /\ Ownership /\ LeaseHasSlot
      /\ waiters \subseteq Jobs /\ slot \in [Jobs -> Slots \cup {NoSlot}]
      /\ pc \in [Jobs -> PC] /\ ticket \in [Jobs -> Nat]
  BY DEF SchedInv, TypeOK
<1>2. \A i \in Jobs : pc'[i] = IF i = j THEN label ELSE pc[i]
  BY <1>1 DEF Goto
<1>3. label # "start" /\ phaseBar[j] = "has" /\ j \notin waiters
  BY <1>1, Phases DEF Left, LeaseHasSlot
<1>4. CASE Freed(j)
  <2>1. \A i \in Jobs : slot'[i] = IF i = j THEN NoSlot ELSE slot[i]
    BY <1>1, <1>4 DEF Freed
  <2>2. phaseBar' = [phaseBar EXCEPT ![j] = "gone"]
    BY <1>2, <1>3, <1>4, <2>1 DEF phaseBar, Freed
  <2>3. aheadBar' = aheadBar
    BY <1>4 DEF aheadBar, Freed
  <2>4. Pool!In("queued") = {}
    BY <1>4, Phases DEF Freed
  <2> QED
    BY <1>3, <2>2, <2>3, <2>4 DEF Pool!GiveBack
<1>5. ASSUME NEW k \in waiters, HandedTo(j, k)
      PROVE  Pool!GiveBack(j)
  <2>1. k \in Jobs /\ k # j /\ slot[k] = NoSlot
    BY <1>1, <1>3, Phases
  <2>2. \A i \in Jobs : slot'[i] = IF i = k THEN slot[j] ELSE IF i = j THEN NoSlot ELSE slot[i]
    BY <1>1, <1>5, <2>1 DEF HandedTo
  <2>3. phaseBar' = [phaseBar EXCEPT ![j] = "gone", ![k] = "has"]
    BY <1>2, <1>3, <1>5, <2>1, <2>2 DEF phaseBar, HandedTo
  <2>4. aheadBar' = Pool!Forget(k)
    BY <1>1, <1>5, <2>1, OrderWithout DEF HandedTo
  <2>5. Pool!First(k)
    BY <1>5, FirstIsFirst DEF HandedTo
  <2> QED
    BY <1>3, <2>1, <2>3, <2>4, <2>5 DEF Pool!GiveBack
<1> QED
  BY <1>1, <1>4, <1>5, ReturnCases

\* A job that moves on without touching slots and queue is not seen.
LEMMA MoveIsUnseen ==
    ASSUME TypeOK, NEW j \in Jobs, NEW label, label # "start", Goto(j, label),
           pc[j] # "start" \/ slot[j] # NoSlot \/ j \in waiters,
           UNCHANGED <<slot, waiters, ticket>>
    PROVE  UNCHANGED Pool!vars
<1>1. \A i \in Jobs : pc'[i] = IF i = j THEN label ELSE pc[i]
  BY DEF TypeOK, Goto
<1>2. phaseBar' = phaseBar
  BY <1>1 DEF phaseBar
<1>3. aheadBar' = aheadBar
  BY DEF aheadBar
<1> QED
  BY <1>2, <1>3 DEF Pool!vars

\* A job that leaves the queue.
LEMMA DequeueLeaves ==
    ASSUME SchedInv, NEW j \in waiters, NEW label \in Left, Goto(j, label),
           waiters' = waiters \ {j}, UNCHANGED <<slot, ticket>>
    PROVE  Pool!Leave(j)
<1>1. TypeOK /\ j \in Jobs /\ waiters \subseteq Jobs /\ pc \in [Jobs -> PC]
  BY DEF SchedInv, TypeOK
<1>2. phaseBar[j] = "queued" /\ slot[j] = NoSlot
  BY Phases
<1>3. \A i \in Jobs : pc'[i] = IF i = j THEN label ELSE pc[i]
  BY <1>1 DEF Goto
<1>4. phaseBar' = [phaseBar EXCEPT ![j] = "gone"]
  BY <1>1, <1>2, <1>3 DEF phaseBar, Left
<1>5. aheadBar' = Pool!Forget(j)
  BY <1>1, OrderWithout
<1> QED
  BY <1>2, <1>4, <1>5 DEF Pool!Leave

\* A job that arrives takes a slot, waits or is refused.
LEMMA AcquireEnters ==
    ASSUME SchedInv, NoneLost, Tickets, NEW j \in Jobs, Acquire(j)
    PROVE  Pool!Take(j) \/ Pool!Enqueue(j) \/ Pool!Refuse(j)
<1>1. /\ TypeOK /\ SlotsConserved /\ NoIdleSlot
      /\ available \in SUBSET Slots /\ active \in 0 .. Capacity /\ Capacity \in Nat
      /\ waiters \subseteq Jobs /\ slot \in [Jobs -> Slots \cup {NoSlot}]
      /\ pc \in [Jobs -> PC] /\ ticket \in [Jobs -> Nat]
  BY CapacityAssumption DEF SchedInv, TypeOK
<1>2. pc[j] = "start" /\ phaseBar[j] = "new"
  BY Phases DEF Acquire
<1>3. slot[j] = NoSlot /\ j \notin waiters
  BY <1>2 DEF phaseBar
<1>4. ASSUME NEW label, Goto(j, label)
      PROVE  \A i \in Jobs : pc'[i] = IF i = j THEN label ELSE pc[i]
  BY <1>1, <1>4 DEF Goto
<1>5. ASSUME NEW label, label # "start", Goto(j, label), UNCHANGED <<slot, waiters, ticket>>
      PROVE  phaseBar' = [phaseBar EXCEPT ![j] = "gone"] /\ aheadBar' = aheadBar
  <2>1. \A i \in Jobs : pc'[i] = IF i = j THEN label ELSE pc[i]
    BY <1>4, <1>5
  <2> QED
    BY <1>3, <1>5, <2>1 DEF phaseBar, aheadBar
<1>6. ASSUME ~(active < Capacity /\ available # {})
      PROVE  Pool!Exhausted
  <2>1. active = Capacity => available = {}
    BY <1>1, PoolSize DEF SlotsConserved
  <2> QED
    BY <1>1, <1>6, <2>1, PoolExhausted
<1>7. CASE Late(j)
  <2>1. Goto(j, "timeout") /\ UNCHANGED <<slot, waiters, ticket>>
    BY <1>7 DEF Acquire
  <2> QED
    BY <1>2, <1>5, <1>7, <2>1 DEF Pool!Refuse, Late
<1>8. CASE TakeImmediate(j) /\ Goto(j, "lock") /\ UNCHANGED <<waiters, ticket>>
  <2>1. PICK s \in available : slot' = [slot EXCEPT ![j] = s]
    BY <1>8 DEF TakeImmediate
  <2>2. s # NoSlot /\ waiters = {}
    BY <1>1, <2>1, SlotCount DEF NoIdleSlot
  <2>3. \A i \in Jobs : slot'[i] = IF i = j THEN s ELSE slot[i]
    BY <1>1, <2>1
  <2>4. \A i \in Jobs : pc'[i] = IF i = j THEN "lock" ELSE pc[i]
    BY <1>4, <1>8
  <2>5. phaseBar' = [phaseBar EXCEPT ![j] = "has"] /\ aheadBar' = aheadBar
    BY <1>8, <2>2, <2>3, <2>4 DEF phaseBar, aheadBar
  <2>6. Cardinality(Pool!In("has")) < Capacity
    BY <1>8, ActiveCounts, Phases DEF TakeImmediate
  <2> QED
    BY <1>2, <2>2, <2>5, <2>6, Phases, SameCount DEF Pool!Take
<1>9. CASE /\ ~(active < Capacity /\ available # {})
           /\ QueueFull /\ Goto(j, "saturated") /\ UNCHANGED <<waiters, ticket, slot>>
  <2>1. Cardinality(Pool!In("queued")) >= QueueCapacity
    BY <1>9, Phases DEF QueueFull
  <2> QED
    BY <1>2, <1>5, <1>6, <1>9, <2>1, SameCount DEF Pool!Refuse
<1>10. CASE /\ ~(active < Capacity /\ available # {})
            /\ waiters' = waiters \cup {j}
            /\ ticket' = [ticket EXCEPT ![j] = NextTicket]
            /\ Goto(j, "top") /\ slot' = slot
  <2>1. \A i \in Jobs : pc'[i] = IF i = j THEN "top" ELSE pc[i]
    BY <1>4, <1>10
  <2>2. phaseBar' = [phaseBar EXCEPT ![j] = "queued"]
    BY <1>3, <1>10, <2>1 DEF phaseBar
  <2>3. NextTicket = Cardinality(Queued) + 1 /\ Cardinality(Queued) \in Nat
    BY QueuedSize DEF NextTicket, Queued
  <2>4. \A i \in waiters : ticket'[i] = ticket[i] /\ ticket[i] \in Nat
    BY <1>1, <1>3, <1>10
  <2>5. \A i \in waiters : ticket'[i] < ticket'[j] /\ ~(ticket'[j] < ticket'[i])
    BY <1>1, <1>10, <2>3, <2>4 DEF Tickets
  <2>6. ~(ticket'[j] < ticket'[j])
    BY <1>1, <1>10, <2>3
  <2>7. aheadBar' = aheadBar \cup (waiters \X {j})
    BY <1>10, <2>4, <2>5, <2>6 DEF aheadBar
  <2> QED
    BY <1>2, <1>6, <1>10, <2>2, <2>7, Phases DEF Pool!Enqueue
<1> QED
  BY <1>7, <1>8, <1>9, <1>10 DEF Acquire

\* Every step of the scheduler is a step of the pool, or the pool does not see it.
LEMMA PoolNext ==
    SchedInv /\ NoneLost /\ Tickets /\ [Next]_vars => [Pool!Next]_(Pool!vars)
<1> SUFFICES ASSUME SchedInv, NoneLost, Tickets, [Next]_vars
             PROVE  Pool!Next \/ UNCHANGED Pool!vars
  OBVIOUS
<1>1. TypeOK /\ LeaseHasSlot /\ waiters \subseteq Jobs
  BY DEF SchedInv, TypeOK
<1>2. ASSUME NEW j \in Jobs, Acquire(j)
      PROVE  Pool!Next
  BY <1>2, AcquireEnters DEF Pool!Next
<1>3. ASSUME NEW j \in Jobs, Step(j) \/ Release(j)
      PROVE  Pool!Next \/ UNCHANGED Pool!vars
  <2>1. ticket' = ticket
    BY <1>3 DEF Step, Release, Cancelled, TimeUp, Block, Unblock, Granted, LockProfile
  <2>2. ASSUME slot[j] # NoSlot, ReturnSlot(j), NEW label \in Left, Goto(j, label)
        PROVE  Pool!Next
    BY <2>1, <2>2, ReturnGivesBack DEF Pool!Next
  <2>3. ASSUME j \in waiters, waiters' = waiters \ {j}, slot' = slot,
               NEW label \in Left, Goto(j, label)
        PROVE  Pool!Next
    BY <2>1, <2>3, DequeueLeaves DEF Pool!Next
  <2>4. ASSUME NEW label, label # "start", Goto(j, label), pc[j] # "start",
               UNCHANGED <<slot, waiters>>
        PROVE  UNCHANGED Pool!vars
    BY <1>1, <2>1, <2>4, MoveIsUnseen
  <2>5. {"timeout", "cancelled", "failed", "released"} \subseteq Left
    BY DEF Left
  <2>6. pc[j] \in {"granted", "lock", "held"} => slot[j] # NoSlot
    BY <1>1 DEF LeaseHasSlot
  <2>7. CASE Cancelled(j)
    <3>1. CASE j \in waiters
      BY <2>3, <2>5, <2>7, <3>1 DEF Cancelled, Leave
    <3>2. CASE j \notin waiters
      <4>1. slot[j] # NoSlot
        BY <1>1, <2>7, <3>2 DEF Cancelled, LeaseHasSlot, Waiting
      <4> QED
        BY <2>2, <2>5, <2>7, <3>2, <4>1 DEF Cancelled, Leave
    <3> QED
      BY <3>1, <3>2
  <2>8. CASE TimeUp(j)
    <3>1. CASE j \in waiters
      BY <2>3, <2>5, <2>8, <3>1 DEF TimeUp
    <3>2. CASE j \notin waiters
      BY <2>4, <2>8, <3>2 DEF TimeUp
    <3> QED
      BY <3>1, <3>2
  <2>9. CASE Block(j) \/ Unblock(j)
    BY <2>4, <2>9 DEF Block, Unblock
  <2>10. CASE Granted(j)
    <3>1. CASE Late(j)
      BY <2>2, <2>5, <2>6, <2>10, <3>1 DEF Granted
    <3>2. CASE ~Late(j)
      BY <2>4, <2>10, <3>2 DEF Granted
    <3> QED
      BY <3>1, <3>2
  <2>11. CASE LockProfile(j)
    <3>1. CASE ReturnSlot(j) /\ Goto(j, "failed")
      BY <2>2, <2>5, <2>6, <2>11, <3>1 DEF LockProfile
    <3>2. CASE (Goto(j, "held") \/ Goto(j, "failed")) /\ UNCHANGED <<waiters, slot>>
      BY <2>4, <2>11, <3>2 DEF LockProfile
    <3> QED
      BY <2>11, <3>1, <3>2 DEF LockProfile
  <2>12. CASE Release(j)
    BY <2>2, <2>5, <2>6, <2>12 DEF Release
  <2> QED
    BY <1>3, <2>7, <2>8, <2>9, <2>10, <2>11, <2>12 DEF Step
<1>4. CASE UNCHANGED <<slot, waiters, ticket, pc>>
  BY <1>4 DEF phaseBar, aheadBar, Pool!vars
<1>5. CASE \E j \in Jobs : Cancel(j) \/ Expire(j)
  BY <1>4, <1>5 DEF Cancel, Expire
<1>6. CASE AllDone \/ UNCHANGED vars
  BY <1>4, <1>6 DEF AllDone, vars
<1> QED
  BY <1>2, <1>3, <1>5, <1>6 DEF Next

\* The pool starts with everybody new and nobody queued.
LEMMA PoolInit == Init => Pool!Init
<1> SUFFICES ASSUME Init PROVE Pool!Init
  OBVIOUS
<1>1. phaseBar = [j \in Jobs |-> "new"]
  BY DEF Init, phaseBar
<1>2. aheadBar = {}
  BY DEF Init, aheadBar
<1> QED
  BY <1>1, <1>2 DEF Pool!Init

-----------------------------------------------------------------------------
\* The variables of the scheduler keep their types: in particular the count of
\* active slots stays between zero and the capacity.
THEOREM SchedulerTypeCorrect == Spec => []TypeOK
<1>1. SchedInv => TypeOK
  BY DEF SchedInv
<1> QED
  BY <1>1, SchedAlways, PTL

\* The counter and the pool agree at all times (the class docstring): whatever
\* cancellations, deadlines and grants cross, no slot is counted twice or lost.
THEOREM SchedulerConserves == Spec => []SlotsConserved
<1>1. SchedInv => SlotsConserved
  BY DEF SchedInv
<1> QED
  BY <1>1, SchedAlways, PTL

\* Every slot is free or of exactly one job that is on its way to use it.
THEOREM SchedulerOwnership == Spec => []SlotInOnePlace
<1>1. SchedInv /\ NoneLost => SlotInOnePlace
  BY DEF SchedInv, Ownership, NoneLost, SlotInOnePlace
<1> QED
  BY <1>1, SchedAlways, PTL

\* A lease has a slot, and a job is queued exactly while it waits for one.
THEOREM SchedulerLeases == Spec => []LeaseHasSlot
<1>1. SchedInv => LeaseHasSlot
  BY DEF SchedInv
<1> QED
  BY <1>1, SchedAlways, PTL

\* No slot lies idle while a job waits.
THEOREM SchedulerBusy == Spec => []NoIdleSlot
<1>1. SchedInv => NoIdleSlot
  BY DEF SchedInv
<1> QED
  BY <1>1, SchedAlways, PTL

\* All of it at once: where every slot is, at any moment.
THEOREM SchedulerAccounts == Spec => []SlotsAreAccounted
BY SchedulerConserves, SchedulerOwnership, SchedulerLeases, SchedulerBusy, PTL
   DEF SlotsAreAccounted

\* Slots are handed out in the order of arrival, and nobody overtakes the queue.
THEOREM SchedulerFifo == Spec => Fifo
<1>1. SchedInv /\ Tickets /\ [Next]_vars => [FifoStep]_vars
  BY FifoNext
<1> QED
  BY <1>1, SchedAlways, PTL DEF Spec, Fifo

\* The scheduler implements a fair pool of slots: whatever threads, deadlines,
\* cancellations and failing locks do, every step hands out, queues, refuses or
\* takes back as SlotPool says, or is invisible.
THEOREM SchedulerImplementsPool == Spec => ImplementsPool
BY PoolInit, PoolNext, SchedAlways, PTL DEF Spec, ImplementsPool, Pool!Spec

=============================================================================
