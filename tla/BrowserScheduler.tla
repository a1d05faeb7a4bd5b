-------------------------- MODULE BrowserScheduler --------------------------
(***************************************************************************)
(* The bounded FIFO queue for browser slots of one process.                *)
(*                                                                         *)
(* Every call of acquire() is a job.  A job takes a free slot at once, or  *)
(* waits in a queue of bounded length until a slot is pre-granted to it,   *)
(* it is cancelled or its time is up; then it takes the profile lock of    *)
(* the slot, outside the scheduler's lock, and holds the slot until        *)
(* release().                                                              *)
(*                                                                         *)
(* An action is a critical section of self._lock, or a step between two of *)
(* them that reads what another thread may change (the cancel event, the   *)
(* deadline, the waiter's event).                                          *)
(***************************************************************************)
EXTENDS Integers, FiniteSets

CONSTANTS Jobs,           \* calls of acquire
          Bounded,        \* jobs of a Match store: they have a deadline
          Cancellable,    \* jobs called with a cancel event
          Capacity,       \* CAMOUFOX_BROWSER_CAPACITY
          QueueCapacity,  \* CAMOUFOX_QUEUE_MAX_WAITERS
          LockRaises      \* the profile lock may raise something unexpected

ASSUME JobsAssumption ==
    /\ IsFiniteSet(Jobs)
    /\ Bounded \subseteq Jobs
    /\ Cancellable \subseteq Jobs
ASSUME CapacityAssumption ==
    /\ Capacity \in Nat \ {0}
    /\ QueueCapacity \in Nat
    /\ LockRaises \in BOOLEAN

Slots  == 0 .. Capacity - 1
NoSlot == -1

VARIABLES active,     \* _active
          available,  \* _available_slots; their order is left out
          waiters,    \* _waiters, ordered by ticket
          ticket,     \* the place in which a job joined the queue
          slot,       \* slot_id of the waiter, then of the lease
          pc,         \* where acquire or its caller is
          cancel,     \* cancel_event
          expired     \* the deadline, or the queue timeout, has passed

vars == <<active, available, waiters, ticket, slot, pc, cancel, expired>>

\* "top" and "wait" are the two halves of the wait loop; "granted" has read its
\* slot_id; "lock" is in _wrap_with_profile_lock.
PC == {"start", "top", "wait", "granted", "lock", "held",
       "saturated", "timeout", "cancelled", "failed", "released"}
Waiting  == {"top", "wait"}
Finished == {"saturated", "timeout", "cancelled", "failed", "released"}

TypeOK ==
    /\ active \in 0 .. Capacity
    /\ available \in SUBSET Slots
    /\ waiters \in SUBSET Jobs
    /\ ticket \in [Jobs -> Nat]
    /\ slot \in [Jobs -> Slots \cup {NoSlot}]
    /\ pc \in [Jobs -> PC]
    /\ cancel \in [Jobs -> BOOLEAN]
    /\ expired \in [Jobs -> BOOLEAN]

Init ==
    /\ active    = 0
    /\ available = Slots
    /\ waiters   = {}
    /\ ticket    = [j \in Jobs |-> 0]
    /\ slot      = [j \in Jobs |-> NoSlot]
    /\ pc        = [j \in Jobs |-> "start"]
    /\ cancel    = [j \in Jobs |-> FALSE]
    /\ expired   = [j \in Jobs |-> FALSE]

-----------------------------------------------------------------------------
Goto(j, label) == pc' = [pc EXCEPT ![j] = label]

Late(j) == j \in Bounded /\ expired[j]

\* Mutant: the queue is a stack.
IsLast(j) == j \in waiters /\ \A k \in waiters : ticket[k] <= ticket[j]

IsFirst(j) == j \in waiters /\ \A k \in waiters : ticket[j] <= ticket[k]

PutBack(j) ==
    /\ active' = active - 1
    /\ available' = available \cup {slot[j]}
    /\ slot' = [slot EXCEPT ![j] = NoSlot]
    /\ UNCHANGED waiters

\* Mutant: the waiter that is pre-granted the slot stays in the queue.
ReturnSlotNoPop(j) ==
    IF waiters = {}
    THEN PutBack(j)
    ELSE /\ \E k \in waiters :
              /\ IsFirst(k)
              /\ slot' = [slot EXCEPT ![j] = NoSlot, ![k] = slot[j]]
         /\ UNCHANGED <<active, available, waiters>>

\* The slot of j goes back to the pool and _wake_next_unlocked pre-grants a
\* free slot to the waiter that has waited longest.
ReturnSlot(j) ==
    LET free == available \cup {slot[j]}
    IN  IF waiters = {} \/ active - 1 >= Capacity
        THEN PutBack(j)
        ELSE /\ \E s \in free, k \in waiters :
                  /\ IsFirst(k)
                  /\ available' = free \ {s}
                  /\ slot' = [slot EXCEPT ![j] = NoSlot, ![k] = s]
                  /\ waiters' = waiters \ {k}
             /\ UNCHANGED active

\* Mutant: the slot is taken but not counted.
TakeUncounted(j) ==
    /\ \E s \in available :
         /\ available' = available \ {s}
         /\ slot' = [slot EXCEPT ![j] = s]
    /\ UNCHANGED active

\* _try_immediate_unlocked.
TakeImmediate(j) ==
    /\ active < Capacity
    /\ \E s \in available :
         /\ available' = available \ {s}
         /\ slot' = [slot EXCEPT ![j] = s]
    /\ active' = active + 1

QueueFull == Cardinality(waiters) >= QueueCapacity

NextTicket == 1 + Cardinality({j \in Jobs : ticket[j] > 0})

\* The critical section acquire begins with.
Acquire(j) ==
    /\ pc[j] = "start"
    /\ IF Late(j)
       THEN Goto(j, "timeout") /\ UNCHANGED <<active, available, waiters, ticket, slot>>
       ELSE \/ TakeImmediate(j) /\ Goto(j, "lock") /\ UNCHANGED <<waiters, ticket>>
            \/ /\ ~(active < Capacity /\ available # {})
               /\ IF QueueFull
                  THEN Goto(j, "saturated") /\ UNCHANGED <<waiters, ticket>>
                  ELSE /\ waiters' = waiters \cup {j}
                       /\ ticket' = [ticket EXCEPT ![j] = NextTicket]
                       /\ Goto(j, "top")
               /\ UNCHANGED <<active, available, slot>>
    /\ UNCHANGED <<cancel, expired>>

\* Mutant: the slot granted to a waiter that leaves is forgotten.
LeaveForgetting(j) ==
    /\ waiters' = waiters \ {j}
    /\ UNCHANGED <<active, available, slot>>

\* _dequeue_on_cancel.
Leave(j) ==
    IF j \in waiters
    THEN waiters' = waiters \ {j} /\ UNCHANGED <<active, available, slot>>
    ELSE ReturnSlot(j)

\* The cancel event is looked at before blocking, and only there.
Cancelled(j) ==
    /\ pc[j] = "top" /\ cancel[j]
    /\ Leave(j)
    /\ Goto(j, "cancelled")
    /\ UNCHANGED <<ticket, cancel, expired>>

\* Mutant: only the deadline of a Match store ends a wait.
TimeUpBounded(j) ==
    /\ pc[j] = "top" /\ ~cancel[j] /\ Late(j)
    /\ IF j \in waiters
       THEN waiters' = waiters \ {j} /\ Goto(j, "timeout")
       ELSE Goto(j, "granted") /\ UNCHANGED waiters
    /\ UNCHANGED <<active, available, ticket, slot, cancel, expired>>

\* Past the deadline: the job leaves the queue, unless it has just been granted
\* a slot.
TimeUp(j) ==
    /\ pc[j] = "top" /\ ~cancel[j] /\ expired[j]
    /\ IF j \in waiters
       THEN waiters' = waiters \ {j} /\ Goto(j, "timeout")
       ELSE Goto(j, "granted") /\ UNCHANGED waiters
    /\ UNCHANGED <<active, available, ticket, slot, cancel, expired>>

Block(j) ==
    /\ pc[j] = "top" /\ ~cancel[j] /\ ~expired[j]
    /\ Goto(j, "wait")
    /\ UNCHANGED <<active, available, waiters, ticket, slot, cancel, expired>>

\* waiter.event.wait returns: the event is set, or the 50 ms slice is over.
Unblock(j) ==
    /\ pc[j] = "wait"
    /\ Goto(j, IF slot[j] # NoSlot THEN "granted" ELSE "top")
    /\ UNCHANGED <<active, available, waiters, ticket, slot, cancel, expired>>

\* The slot has been read; a job past its deadline gives it back.
Granted(j) ==
    /\ pc[j] = "granted"
    /\ IF Late(j)
       THEN ReturnSlot(j) /\ Goto(j, "timeout")
       ELSE Goto(j, "lock") /\ UNCHANGED <<active, available, waiters, slot>>
    /\ UNCHANGED <<ticket, cancel, expired>>

\* _wrap_with_profile_lock: a RequestError gives the slot back; any other
\* exception (FileProfileLock creating or opening its file) passes through.
LockProfile(j) ==
    /\ pc[j] = "lock"
    /\ \/ Goto(j, "held") /\ UNCHANGED <<active, available, waiters, slot>>
       \/ ReturnSlot(j) /\ Goto(j, "failed")
       \/ /\ LockRaises
          /\ Goto(j, "failed")
          /\ UNCHANGED <<active, available, waiters, slot>>
    /\ UNCHANGED <<ticket, cancel, expired>>

Release(j) ==
    /\ pc[j] = "held"
    /\ ReturnSlot(j)
    /\ Goto(j, "released")
    /\ UNCHANGED <<ticket, cancel, expired>>

\* Another thread sets the cancel event.  Once the wait is over nobody reads it.
Cancel(j) ==
    /\ j \in Cancellable /\ ~cancel[j] /\ pc[j] \in Waiting \cup {"start"}
    /\ cancel' = [cancel EXCEPT ![j] = TRUE]
    /\ UNCHANGED <<active, available, waiters, ticket, slot, pc, expired>>

\* Time passes: the deadline of a Match store is absolute, the queue timeout
\* counts from the moment a job is queued.  Neither is read after "granted".
Expire(j) ==
    /\ ~expired[j]
    /\ \/ pc[j] \in Waiting
       \/ j \in Bounded /\ pc[j] \in {"start", "granted"}
    /\ expired' = [expired EXCEPT ![j] = TRUE]
    /\ UNCHANGED <<active, available, waiters, ticket, slot, pc, cancel>>

Step(j) ==
    \/ Cancelled(j) \/ TimeUp(j) \/ Block(j) \/ Unblock(j) \/ Granted(j)
    \/ LockProfile(j)

AllDone == (\A j \in Jobs : pc[j] \in Finished) /\ UNCHANGED vars

Next ==
    \/ \E j \in Jobs : Acquire(j) \/ Step(j) \/ Release(j) \/ Cancel(j) \/ Expire(j)
    \/ AllDone

Spec == Init /\ [][Next]_vars

\* Threads that called acquire run; nothing makes a job start, be cancelled, or
\* release the slot it holds.
FairSpec == Spec /\ \A j \in Jobs : WF_vars(Step(j))

TimePasses     == \A j \in Jobs : WF_vars(Expire(j))
HoldersRelease == \A j \in Jobs : WF_vars(Release(j))

-----------------------------------------------------------------------------
(* Safety. *)

\* "_active + len(_available_slots) == capacity at all times."
SlotsConserved == active + Cardinality(available) = Capacity

\* The states in which a job may have a slot; a job whose profile lock raised
\* something unexpected keeps it for ever.
Owning == Waiting \cup {"granted", "lock", "held"}
            \cup (IF LockRaises THEN {"failed"} ELSE {})

\* A slot is in one place: free, or of one job that is on its way to use it.
\* In particular the slot of a job that gave up has gone back to the pool.
SlotInOnePlace ==
    /\ \A j \in Jobs : slot[j] # NoSlot =>
          slot[j] \notin available /\ pc[j] \in Owning
    /\ \A j, k \in Jobs : slot[j] # NoSlot /\ slot[j] = slot[k] => j = k
    /\ \A s \in Slots \ available : \E j \in Jobs : slot[j] = s

\* Whoever has a lease, or is about to get one, has a slot; whoever is queued
\* has none and is still waiting for it.
LeaseHasSlot ==
    \A j \in Jobs :
       /\ pc[j] \in {"granted", "lock", "held"} => slot[j] # NoSlot
       /\ pc[j] \in Waiting => (j \in waiters <=> slot[j] = NoSlot)
       /\ j \in waiters => pc[j] \in Waiting

\* A slot never lies idle while somebody waits, however slots come back.
NoIdleSlot == waiters # {} => available = {}

\* Where every slot is at any moment, whatever cancellations, deadlines and
\* grants cross (the class docstring, and the comments of release).
SlotsAreAccounted == SlotsConserved /\ SlotInOnePlace /\ LeaseHasSlot /\ NoIdleSlot

\* FIFO, without barging: a job that is given a slot, at once or from the queue,
\* leaves nobody behind who has waited longer.
FifoStep ==
    \A j \in Jobs :
       slot[j] = NoSlot /\ slot'[j] # NoSlot =>
          \A k \in waiters \cap waiters' :
             j \in waiters /\ ticket[j] < ticket[k]
Fifo == [][FifoStep]_vars

(* Refinement. *)

phaseBar ==
    [j \in Jobs |-> IF slot[j] # NoSlot THEN "has"
                    ELSE IF j \in waiters THEN "queued"
                    ELSE IF pc[j] = "start" THEN "new" ELSE "gone"]

aheadBar == {a \in waiters \X waiters : ticket[a[1]] < ticket[a[2]]}

Pool == INSTANCE SlotPool WITH phase <- phaseBar, ahead <- aheadBar

\* What the threads inside acquire and release do together, with their events,
\* deadlines and races, is what a fair pool of slots does: slots are handed out
\* in order, nobody overtakes the queue, nobody is queued beside a free slot,
\* and a call without a deadline is refused only by a full queue.
ImplementsPool == Pool!Spec

(* Liveness. *)

\* If time passes, every call that waits comes back, with a slot or with an
\* error, although the holders of the slots may never release them.
AcquireReturns ==
    TimePasses =>
    \A j \in Jobs : pc[j] \in Waiting ~> pc[j] \in Finished \cup {"held"}

\* The profile lock raised something unexpected and the slot of j is lost.
SlotLost(j) == pc[j] = "failed" /\ slot[j] # NoSlot

\* No wake-up is lost: if the holders release and no slot is lost, whoever waits
\* is served, without the help of a timeout, which may never come.
EveryWaiterIsServed ==
    HoldersRelease /\ [](\A j \in Jobs : ~SlotLost(j)) =>
    \A j \in Jobs : j \in waiters ~> j \notin waiters

=============================================================================
