----------------------- MODULE ProfileOwnership_proofs -----------------------
(***************************************************************************)
(* What holds of profile ownership for every number of fetchers, fetches   *)
(* and faults.                                                             *)
(*                                                                         *)
(* Shape is inductive and needs no assumption on faults: it says where the *)
(* slot, the owner thread and the session of a fetcher point, and that a   *)
(* session only ever keeps the lease of a fetch that is done with it.      *)
(* KeyExact adds the Redis key.  It is inductive only together with the    *)
(* fact that no lease has been lost: while no fault has happened a key     *)
(* never expires, because its lease is attended, because the key is the    *)
(* one somebody holds.  Superseded needs no assumption on faults either,   *)
(* and makes every step one of ProfileLease.                               *)
(***************************************************************************)
EXTENDS ProfileOwnership, TLAPS

Users == {"lock", "ready", "unlock", "release"}

Shape ==
    /\ \A f \in Fetches : pc[f] # "start" => at[f] \in Fetchers
    /\ \A o \in Fetchers, f \in Fetches : busy[o] = f <=> at[f] = o /\ pc[f] = "run"
    /\ \A o \in Fetchers, f \in Fetches :
          slot[o] = f => at[f] = o /\ pc[f] \in Users \cup {"run"}
    /\ \A f \in Fetches : pc[f] \in Users => slot[at[f]] = f
    /\ \A o \in Fetchers, f \in Fetches :
          warm[o] = f => browser[o] /\ at[f] = o /\ pc[f] \in {"release", "done"}
    /\ \A f \in Fetches : f \in failopen =>
          pc[f] # "start" /\ pc[f] # "slot" /\ pc[f] # "lock"
             /\ \A o \in Fetchers : warm[o] # f
    /\ \A o \in Fetchers : browser[o] /\ busy[o] = NoFetch => warm[o] # NoFetch

KeyExact == faults = 0 =>
    /\ failopen = {} /\ lost = {}
    /\ \A f \in Fetches : Holding(f) <=> lock = f

ProfileInv == TypeOK /\ Shape

USE FetchAssumption

-----------------------------------------------------------------------------
\* At the start nobody has anything.
LEMMA ProfileInit == Init => ProfileInv /\ KeyExact
<1> SUFFICES ASSUME Init PROVE ProfileInv /\ KeyExact
  OBVIOUS
<1>1. TypeOK
  BY DEF Init, TypeOK, PC
<1>2. Shape
  BY DEF Init, Shape, Users
<1>3. KeyExact
  BY DEF Init, KeyExact, Holding
<1> QED
  BY <1>1, <1>2, <1>3 DEF ProfileInv

\* A fault is counted.
LEMMA FaultCounts == ASSUME TypeOK, Fault PROVE faults' \in 0 .. MaxFaults /\ faults' # 0
BY DEF TypeOK, Fault

\* Giving up a lease frees its key, or leaves the key and counts as a fault.
LEMMA GiveUpType ==
    ASSUME TypeOK, NEW f \in Fetches \cup {NoFetch}, GiveUp(f)
    PROVE  /\ lock' \in {lock, NoFetch} /\ lock' \in Fetches \cup {NoFetch}
           /\ faults' \in 0 .. MaxFaults
           /\ faults' \in {0, faults} => lock' = Freed(f) /\ UNCHANGED faults
<1>1. CASE lock' = Freed(f) /\ UNCHANGED faults
  BY <1>1 DEF TypeOK, Freed
<1>2. CASE Fault /\ UNCHANGED lock
  <2>1. faults \in Nat /\ faults' = faults + 1
    BY <1>2 DEF TypeOK, Fault
  <2> QED
    BY <1>2, <2>1, FaultCounts DEF TypeOK
<1> QED
  BY <1>1, <1>2 DEF GiveUp

\* Closing a session leaves the variables typed.
LEMMA CloseType ==
    ASSUME TypeOK, NEW o \in Fetchers, CloseSession(o)
    PROVE  /\ browser' \in [Fetchers -> BOOLEAN]
           /\ warm' \in [Fetchers -> Fetches \cup {NoFetch}]
           /\ lock' \in Fetches \cup {NoFetch}
           /\ UNCHANGED <<failopen, lost>>
           /\ faults' \in 0 .. MaxFaults
<1>1. warm[o] \in Fetches \cup {NoFetch} /\ GiveUp(warm[o])
  BY DEF TypeOK, CloseSession
<1> QED
  BY <1>1, GiveUpType DEF TypeOK, CloseSession

-----------------------------------------------------------------------------
(* One lemma per action. *)

\* The reuse check keeps the invariant.
LEMMA CheckKeeps ==
    ASSUME ProfileInv, NEW f \in Fetches, NEW o \in Fetchers, Check(f, o)
    PROVE  ProfileInv'
<1>1. TypeOK /\ Shape /\ pc[f] = "start" /\ busy[o] = NoFetch
  BY DEF ProfileInv, Check
<1>2. \A p \in Fetchers : busy[p] # f /\ slot[p] # f /\ warm[p] # f
  BY <1>1 DEF Shape, Users
<1>3. CASE /\ told' = [told EXCEPT ![f] = warm[o]]
           /\ Goto(f, "reuse")
           /\ UNCHANGED <<session, redis, faults>>
  <2>1. TypeOK'
    BY <1>1, <1>3 DEF TypeOK, Check, Goto, session, redis, PC
  <2>2. Shape'
    BY <1>1, <1>2, <1>3 DEF TypeOK, Shape, Check, Goto, session, redis, Users
  <2> QED
    BY <2>1, <2>2 DEF ProfileInv
<1>4. CASE CloseSession(o) /\ Goto(f, "slot") /\ UNCHANGED told
  <2>1. TypeOK'
    BY <1>1, <1>4, CloseType DEF TypeOK, Check, Goto, PC
  <2>2. Shape'
    BY <1>1, <1>2, <1>4 DEF TypeOK, Shape, Check, Goto, CloseSession, Users
  <2> QED
    BY <2>1, <2>2 DEF ProfileInv
<1> QED
  BY <1>3, <1>4 DEF Check

\* So do the steps that take a slot and a lease, or give up waiting for one.
LEMMA TakeKeeps ==
    ASSUME ProfileInv, NEW f \in Fetches,
           TakeSlot(f) \/ SlotRefused(f) \/ TakeLock(f) \/ FailOpen(f) \/ LockTimeout(f)
    PROVE  ProfileInv'
<1>1. TypeOK /\ Shape /\ at[f] \in Fetchers /\ pc[f] \in {"slot", "lock"}
  BY DEF ProfileInv, Shape, TakeSlot, SlotRefused, TakeLock, FailOpen, LockTimeout
<1>2. \A p \in Fetchers : busy[p] # f /\ warm[p] # f
  BY <1>1 DEF Shape
<1>3. CASE TakeSlot(f)
  <2>1. TypeOK'
    BY <1>1, <1>3 DEF TypeOK, TakeSlot, Goto, session, redis, PC
  <2>2. \A g \in Fetches : pc[g] \in Users => at[g] # at[f]
    BY <1>1, <1>3 DEF Shape, TakeSlot
  <2>3. Shape'
    BY <1>1, <1>2, <1>3, <2>2 DEF TypeOK, Shape, TakeSlot, Goto, session, redis, Users
  <2> QED
    BY <2>1, <2>3 DEF ProfileInv
<1>4. CASE SlotRefused(f)
  <2>1. TypeOK'
    BY <1>1, <1>4 DEF TypeOK, SlotRefused, Goto, session, redis, PC
  <2>2. \A p \in Fetchers : slot[p] # f
    BY <1>1, <1>4 DEF Shape, Users, SlotRefused
  <2>3. Shape'
    BY <1>1, <1>2, <1>4, <2>2 DEF TypeOK, Shape, SlotRefused, Goto, session, redis, Users
  <2> QED
    BY <2>1, <2>3 DEF ProfileInv
<1>5. CASE TakeLock(f)
  <2>1. TypeOK'
    BY <1>1, <1>5 DEF TypeOK, TakeLock, Goto, session, PC
  <2>2. Shape'
    BY <1>1, <1>2, <1>5 DEF TypeOK, Shape, TakeLock, Goto, session, Users
  <2> QED
    BY <2>1, <2>2 DEF ProfileInv
<1>6. CASE FailOpen(f)
  <2>1. TypeOK'
    BY <1>1, <1>6, FaultCounts DEF TypeOK, FailOpen, Goto, session, PC
  <2>2. Shape'
    BY <1>1, <1>2, <1>6 DEF TypeOK, Shape, FailOpen, Goto, session, Users
  <2> QED
    BY <2>1, <2>2 DEF ProfileInv
<1>7. CASE LockTimeout(f)
  <2>1. TypeOK'
    BY <1>1, <1>7 DEF TypeOK, LockTimeout, Goto, session, redis, PC
  <2>2. slot[at[f]] = f
    BY <1>1, <1>7 DEF Shape, Users, LockTimeout
  <2>3. \A g \in Fetches : pc[g] \in Users /\ g # f => at[g] # at[f]
    BY <1>1, <2>2 DEF Shape
  <2>4. Shape'
    BY <1>1, <1>2, <1>7, <2>2, <2>3
       DEF TypeOK, Shape, LockTimeout, Goto, session, redis, Users
  <2> QED
    BY <2>1, <2>4 DEF ProfileInv
<1> QED
  BY <1>3, <1>4, <1>5, <1>6, <1>7

\* So does the start of an operation.
LEMMA BeginKeeps ==
    ASSUME ProfileInv, NEW f \in Fetches, Begin(f)
    PROVE  ProfileInv'
<1>1. TypeOK /\ Shape /\ pc[f] \in {"reuse", "ready"} /\ at[f] \in Fetchers
  BY DEF ProfileInv, Shape, Begin
<1>2. /\ busy[at[f]] = NoFetch
      /\ busy' = [busy EXCEPT ![at[f]] = f]
      /\ pc' = [pc EXCEPT ![f] = "run"]
      /\ UNCHANGED <<at, told, slot, failopen, lost>>
  BY <1>1 DEF Begin, Goto
<1>3. \A p \in Fetchers : busy[p] # f /\ warm[p] # f
  BY <1>1 DEF Shape
<1>4. CASE UNCHANGED <<session, lock, faults>>
  <2>1. TypeOK'
    BY <1>1, <1>2, <1>4 DEF TypeOK, session, PC
  <2>2. Shape'
    BY <1>1, <1>2, <1>3, <1>4 DEF TypeOK, Shape, session, Users
  <2> QED
    BY <2>1, <2>2 DEF ProfileInv
<1>5. CASE /\ \E launched \in BOOLEAN : browser' = [browser EXCEPT ![at[f]] = launched]
           /\ warm' = [warm EXCEPT ![at[f]] = NoFetch]
           /\ GiveUp(warm[at[f]])
  <2>1. warm[at[f]] \in Fetches \cup {NoFetch}
    BY <1>1 DEF TypeOK
  <2>2. lock' \in Fetches \cup {NoFetch} /\ faults' \in 0 .. MaxFaults
    BY <1>1, <1>5, <2>1, GiveUpType
  <2>3. TypeOK'
    BY <1>1, <1>2, <1>5, <2>2 DEF TypeOK, PC
  <2>4. Shape'
    BY <1>1, <1>2, <1>3, <1>5 DEF TypeOK, Shape, Users
  <2> QED
    BY <2>3, <2>4 DEF ProfileInv
<1> QED
  BY <1>1, <1>4, <1>5 DEF Begin

\* So does its end, whoever keeps the lease.
LEMMA EndKeeps ==
    ASSUME ProfileInv, NEW f \in Fetches, End(f)
    PROVE  ProfileInv'
<1>1. TypeOK /\ Shape /\ pc[f] = "run" /\ at[f] \in Fetchers
  BY DEF ProfileInv, Shape, End
<1>2. /\ busy[at[f]] = f
      /\ busy' = [busy EXCEPT ![at[f]] = NoFetch]
      /\ UNCHANGED <<at, told, slot>>
  BY <1>1 DEF End, Shape
<1>3. \A p \in Fetchers : warm[p] # f
  BY <1>1 DEF Shape
<1>4. \A g \in Fetches : pc[g] = "run" /\ at[g] = at[f] => g = f
  BY <1>1, <1>2 DEF Shape
<1>5. CASE Retain(f, at[f])
  <2>1. TypeOK'
    BY <1>1, <1>2, <1>5 DEF TypeOK, Retain, Goto, redis, PC
  <2>2. Shape'
    BY <1>1, <1>2, <1>3, <1>4, <1>5
       DEF TypeOK, Shape, Retain, Leased, Goto, redis, Users
  <2> QED
    BY <2>1, <2>2 DEF ProfileInv
<1>6. CASE /\ CloseSession(at[f])
           /\ Goto(f, IF Leased(f) THEN "unlock" ELSE "done")
  <2>1. TypeOK'
    BY <1>1, <1>2, <1>6, CloseType DEF TypeOK, Goto, PC
  <2>2. Shape'
    BY <1>1, <1>2, <1>3, <1>4, <1>6
       DEF TypeOK, Shape, CloseSession, Leased, Goto, Users
  <2> QED
    BY <2>1, <2>2 DEF ProfileInv
<1> QED
  BY <1>1, <1>5, <1>6 DEF End

\* So does the release of the slot, with the lease or without it.
LEMMA ReleaseKeeps ==
    ASSUME ProfileInv, NEW f \in Fetches, Release(f)
    PROVE  ProfileInv'
<1>1. TypeOK /\ Shape /\ pc[f] \in {"unlock", "release"} /\ at[f] \in Fetchers
  BY DEF ProfileInv, Shape, Release
<1>2. slot[at[f]] = f
  BY <1>1 DEF Shape, Users
<1>3. \A g \in Fetches : pc[g] \in Users /\ g # f => at[g] # at[f]
  BY <1>1, <1>2 DEF Shape
<1>4. \A p \in Fetchers : busy[p] # f
  BY <1>1 DEF Shape
<1>5. lock' \in Fetches \cup {NoFetch} /\ faults' \in 0 .. MaxFaults
  BY <1>1, GiveUpType DEF Release, TypeOK
<1>6. TypeOK'
  BY <1>1, <1>5 DEF TypeOK, Release, Goto, session, PC
<1>7. Shape'
  BY <1>1, <1>2, <1>3, <1>4 DEF TypeOK, Shape, Release, Goto, session, Users
<1> QED
  BY <1>6, <1>7 DEF ProfileInv

\* So do the timer of a session and a crash.
LEMMA CloseKeeps ==
    ASSUME ProfileInv, NEW o \in Fetchers, Expire(o) \/ Crash(o)
    PROVE  ProfileInv'
<1>1. TypeOK /\ Shape
  BY DEF ProfileInv
<1>2. CASE Expire(o)
  <2>1. TypeOK'
    BY <1>1, <1>2, CloseType DEF TypeOK, Expire
  <2>2. Shape'
    BY <1>1, <1>2 DEF TypeOK, Shape, Expire, CloseSession, Users
  <2> QED
    BY <2>1, <2>2 DEF ProfileInv
<1>3. CASE Crash(o)
  <2>1. TypeOK'
    BY <1>1, <1>3, FaultCounts DEF TypeOK, Crash, redis, PC
  <2>2. /\ \A f \in Fetches : pc'[f] = IF at[f] = o THEN "done" ELSE pc[f]
        /\ UNCHANGED at
    BY <1>3 DEF Crash
  <2>3. Shape'
    BY <1>1, <1>3, <2>2 DEF TypeOK, Shape, Crash, redis, Users
  <2> QED
    BY <2>1, <2>3 DEF ProfileInv
<1> QED
  BY <1>2, <1>3

\* So does what happens to the key and its renewal.
LEMMA KeyKeeps ==
    ASSUME ProfileInv,
           \/ \E o \in Fetchers : RenewLost(o) \/ RenewFails(o)
           \/ KeyExpires \/ KeyExpiresEarly
           \/ UNCHANGED vars
    PROVE  ProfileInv'
<1>1. TypeOK /\ Shape
  BY DEF ProfileInv
<1>2. UNCHANGED <<pc, at, told, busy, session, slot, failopen>>
  BY DEF RenewLost, RenewFails, KeyExpires, KeyExpiresEarly, vars, redis
<1>3. lock' \in Fetches \cup {NoFetch} /\ lost' \in SUBSET Fetches /\ faults' \in 0 .. MaxFaults
  <2>1. CASE \E o \in Fetchers : RenewLost(o) \/ RenewFails(o)
    BY <1>1, <2>1, FaultCounts DEF TypeOK, RenewLost, RenewFails
  <2>2. CASE KeyExpires \/ KeyExpiresEarly \/ UNCHANGED vars
    BY <1>1, <2>2, FaultCounts DEF TypeOK, KeyExpires, KeyExpiresEarly, vars, redis
  <2> QED
    BY <2>1, <2>2
<1>4. TypeOK'
  BY <1>1, <1>2, <1>3 DEF TypeOK, session
<1>5. Shape'
  BY <1>1, <1>2 DEF Shape, session
<1> QED
  BY <1>4, <1>5 DEF ProfileInv

\* Every step keeps it.
LEMMA ProfileStep == ProfileInv /\ [Next]_vars => ProfileInv'
<1> SUFFICES ASSUME ProfileInv, [Next]_vars PROVE ProfileInv'
  OBVIOUS
<1>1. CASE \E f \in Fetches : \/ \E o \in Fetchers : Check(f, o)
                              \/ Step(f) \/ SlotRefused(f) \/ FailOpen(f) \/ LockTimeout(f)
  BY <1>1, CheckKeeps, TakeKeeps, BeginKeeps, EndKeeps, ReleaseKeeps DEF Step
<1>2. CASE \E o \in Fetchers : Expire(o) \/ RenewLost(o) \/ RenewFails(o) \/ Crash(o)
  BY <1>2, CloseKeeps, KeyKeeps
<1>3. CASE KeyExpires \/ KeyExpiresEarly \/ UNCHANGED vars
  BY <1>3, KeyKeeps
<1> QED
  BY <1>1, <1>2, <1>3 DEF Next, AllDone

-----------------------------------------------------------------------------
(* The Redis key. *)

\* Closing a session takes its lease, and no other, from those that sessions hold.
LEMMA CloseTakes ==
    ASSUME ProfileInv, NEW o \in Fetchers, warm' = [warm EXCEPT ![o] = NoFetch],
           NEW g \in Fetches
    PROVE  /\ (\E p \in Fetchers : warm'[p] = g)
                 <=> (\E p \in Fetchers : warm[p] = g) /\ warm[o] # g
           /\ warm[o] = g => pc[g] \in {"release", "done"}
<1>1. TypeOK /\ Shape
  BY DEF ProfileInv
<1>2. \A p \in Fetchers : warm[p] = g /\ warm[o] = g => p = o
  BY <1>1 DEF Shape
<1>3. (\E p \in Fetchers : warm'[p] = g)
         <=> (\E p \in Fetchers : warm[p] = g) /\ warm[o] # g
  BY <1>1, <1>2 DEF TypeOK
<1> QED
  BY <1>1, <1>3 DEF Shape

\* Until something fails, so it does with the key.
LEMMA CloseFrees ==
    ASSUME ProfileInv, KeyExact, faults = 0, NEW o \in Fetchers,
           warm' = [warm EXCEPT ![o] = NoFetch], lock' = Freed(warm[o]),
           NEW g \in Fetches
    PROVE  /\ lock' = g <=> lock = g /\ warm[o] # g
           /\ (\E p \in Fetchers : warm'[p] = g)
                 <=> (\E p \in Fetchers : warm[p] = g) /\ warm[o] # g
           /\ warm[o] = g => pc[g] \in {"release", "done"}
<1>1. TypeOK
  BY DEF ProfileInv
<1>2. warm[o] \in Fetches => lock = warm[o]
  BY DEF KeyExact, Holding
<1>3. lock' = g <=> lock = g /\ warm[o] # g
  BY <1>1, <1>2 DEF TypeOK, Freed
<1> QED
  BY <1>3, CloseTakes

\* While no fault has happened the steps of a fetch keep key and holder equal.
LEMMA FetchExact ==
    ASSUME ProfileInv, KeyExact, NEW f \in Fetches,
           \/ \E o \in Fetchers : Check(f, o)
           \/ Step(f) \/ SlotRefused(f) \/ LockTimeout(f)
    PROVE  KeyExact'
<1> SUFFICES ASSUME faults' = 0
             PROVE  /\ failopen' = {} /\ lost' = {}
                    /\ \A g \in Fetches : Holding(g)' <=> lock' = g
  BY DEF KeyExact
<1>1. TypeOK /\ Shape
  BY DEF ProfileInv
<1>2. \A g \in Fetches \cup {NoFetch} : GiveUp(g) => lock' = Freed(g) /\ faults = 0
  BY <1>1, GiveUpType
<1>3. \A o \in Fetchers : warm[o] \in Fetches \cup {NoFetch}
  BY <1>1 DEF TypeOK
<1>4. faults = 0 /\ UNCHANGED <<failopen, lost>>
  BY <1>2, <1>3
     DEF Check, Step, TakeSlot, TakeLock, Begin, End, Release, SlotRefused,
         LockTimeout, redis, CloseSession, Retain
<1>5. failopen = {} /\ lost = {} /\ \A g \in Fetches : Holding(g) <=> lock = g
  BY <1>4 DEF KeyExact
<1> SUFFICES ASSUME NEW g \in Fetches
             PROVE  Holding(g)' <=> lock' = g
  BY <1>4, <1>5
<1>6. Holding(g) <=> lock = g
  BY <1>5
<1>7. CASE \E o \in Fetchers : Check(f, o)
  <2>1. PICK o \in Fetchers : Check(f, o)
    BY <1>7
  <2>2. CASE Goto(f, "reuse") /\ UNCHANGED <<session, redis>>
    BY <1>1, <1>6, <2>1, <2>2
       DEF TypeOK, Shape, Check, Goto, session, redis, Holding, Leased
  <2>3. CASE CloseSession(o) /\ Goto(f, "slot")
    <3>1. /\ lock' = g <=> lock = g /\ warm[o] # g
          /\ (\E p \in Fetchers : warm'[p] = g)
                <=> (\E p \in Fetchers : warm[p] = g) /\ warm[o] # g
          /\ warm[o] = g => pc[g] \in {"release", "done"}
      <4>1. warm' = [warm EXCEPT ![o] = NoFetch] /\ lock' = Freed(warm[o])
        BY <1>2, <1>3, <2>3 DEF CloseSession
      <4> QED
        BY <1>4, <4>1, CloseFrees
    <3> QED
      BY <1>1, <1>6, <2>1, <2>3, <3>1
         DEF TypeOK, Shape, Check, Goto, Holding, Leased
  <2> QED
    BY <2>1, <2>2, <2>3 DEF Check
<1>8. CASE TakeSlot(f) \/ SlotRefused(f)
  BY <1>1, <1>6, <1>8
     DEF TypeOK, Shape, TakeSlot, SlotRefused, Goto, session, redis, Holding, Leased
<1>9. CASE TakeLock(f)
  BY <1>1, <1>5, <1>6, <1>9
     DEF TypeOK, Shape, TakeLock, Goto, session, Holding, Leased
<1>10. CASE LockTimeout(f)
  <2>1. slot[at[f]] = f
    BY <1>1, <1>10 DEF Shape, Users, LockTimeout
  <2> QED
    BY <1>1, <1>6, <1>10, <2>1
       DEF TypeOK, Shape, LockTimeout, Goto, session, redis, Holding, Leased
<1>11. CASE Begin(f)
  <2>1. /\ at[f] \in Fetchers /\ pc[f] \in {"reuse", "ready"}
        /\ pc' = [pc EXCEPT ![f] = "run"] /\ UNCHANGED <<at, slot>>
    BY <1>1, <1>11 DEF Shape, Begin, Goto
  <2>2. pc[f] = "ready" <=> slot[at[f]] = f
    BY <1>1, <2>1 DEF Shape, Users
  <2>3. CASE UNCHANGED <<session, lock>>
    BY <1>1, <1>6, <2>1, <2>2, <2>3 DEF TypeOK, session, Holding, Leased
  <2>4. CASE warm' = [warm EXCEPT ![at[f]] = NoFetch] /\ GiveUp(warm[at[f]])
    <3>1. /\ lock' = g <=> lock = g /\ warm[at[f]] # g
          /\ (\E p \in Fetchers : warm'[p] = g)
                <=> (\E p \in Fetchers : warm[p] = g) /\ warm[at[f]] # g
          /\ warm[at[f]] = g => pc[g] \in {"release", "done"}
      <4>1. PICK o \in Fetchers : o = at[f]
        BY <2>1
      <4>2. warm' = [warm EXCEPT ![o] = NoFetch] /\ lock' = Freed(warm[o])
        BY <1>2, <1>3, <2>4, <4>1
      <4>3. /\ lock' = g <=> lock = g /\ warm[o] # g
            /\ (\E p \in Fetchers : warm'[p] = g)
                  <=> (\E p \in Fetchers : warm[p] = g) /\ warm[o] # g
            /\ warm[o] = g => pc[g] \in {"release", "done"}
        BY <1>4, <4>2, CloseFrees
      <4> QED
        BY <4>1, <4>3
    <3>2. warm[at[f]] = g => pc[g] # "run"
      BY <3>1
    <3>3. g # f => pc'[g] = pc[g]
      BY <1>1, <2>1 DEF TypeOK
    <3>4. pc'[f] = "run"
      BY <1>1, <2>1 DEF TypeOK
    <3>5. CASE warm[at[f]] = g
      BY <1>1, <2>1, <3>1, <3>3, <3>5 DEF TypeOK, Holding, Leased
    <3>6. CASE warm[at[f]] # g
      BY <1>6, <2>1, <2>2, <3>1, <3>3, <3>4, <3>6 DEF Holding, Leased
    <3> QED
      BY <3>5, <3>6
  <2> QED
    BY <1>11, <2>1, <2>3, <2>4 DEF Begin
<1>12. CASE End(f)
  <2>1. at[f] \in Fetchers /\ pc[f] = "run" /\ UNCHANGED <<at, slot>>
    BY <1>1, <1>12 DEF Shape, End
  <2>2. CASE Retain(f, at[f])
    <3>1. Holding(f) /\ lock = f
      BY <1>5, <2>1, <2>2 DEF Holding, Retain
    <3>2. warm[at[f]] = NoFetch
      BY <1>1, <1>5, <2>1, <3>1 DEF TypeOK, Shape, Holding
    <3> QED
      BY <1>1, <1>6, <2>1, <2>2, <3>1, <3>2
         DEF TypeOK, Retain, Goto, redis, Holding, Leased
  <2>3. CASE CloseSession(at[f]) /\ Goto(f, IF Leased(f) THEN "unlock" ELSE "done")
    <3>1. /\ lock' = g <=> lock = g /\ warm[at[f]] # g
          /\ (\E p \in Fetchers : warm'[p] = g)
                <=> (\E p \in Fetchers : warm[p] = g) /\ warm[at[f]] # g
          /\ warm[at[f]] = g => pc[g] \in {"release", "done"}
      <4>1. PICK o \in Fetchers : o = at[f]
        BY <2>1
      <4>2. warm' = [warm EXCEPT ![o] = NoFetch] /\ lock' = Freed(warm[o])
        BY <1>2, <1>3, <2>3, <4>1 DEF CloseSession
      <4>3. /\ lock' = g <=> lock = g /\ warm[o] # g
            /\ (\E p \in Fetchers : warm'[p] = g)
                  <=> (\E p \in Fetchers : warm[p] = g) /\ warm[o] # g
            /\ warm[o] = g => pc[g] \in {"release", "done"}
        BY <1>4, <4>2, CloseFrees
      <4> QED
        BY <4>1, <4>3
    <3>2. /\ g # f => pc'[g] = pc[g]
          /\ pc'[f] = IF Leased(f) THEN "unlock" ELSE "done"
      BY <1>1, <2>3 DEF TypeOK, Goto
    <3>3. Leased(g)' <=> Leased(g)
      BY <2>1 DEF Leased
    <3>4. CASE g = f
      BY <1>6, <2>1, <3>1, <3>2, <3>3, <3>4 DEF Holding
    <3>5. CASE g # f
      BY <1>6, <2>1, <3>1, <3>2, <3>3, <3>5 DEF Holding
    <3> QED
      BY <3>4, <3>5
  <2> QED
    BY <1>12, <2>1, <2>2, <2>3 DEF End
<1>13. CASE Release(f)
  <2>1. /\ slot[at[f]] = f /\ at[f] \in Fetchers /\ pc[f] \in {"unlock", "release"}
        /\ UNCHANGED <<at, warm>>
        /\ slot' = [slot EXCEPT ![at[f]] = NoFetch]
        /\ lock' = IF pc[f] = "unlock" THEN Freed(f) ELSE lock
    BY <1>1, <1>13, <1>2 DEF Shape, Users, Release, session
  <2>2. pc' = [pc EXCEPT ![f] = "done"]
    BY <1>13 DEF Release, Goto
  <2>3. CASE pc[f] = "unlock"
    <3>1. Holding(f) /\ lock = f /\ \A p \in Fetchers : warm[p] # f
      BY <1>1, <1>5, <2>3 DEF Holding, Shape
    <3> QED
      BY <1>1, <1>6, <2>1, <2>2, <2>3, <3>1 DEF TypeOK, Shape, Freed, Holding, Leased
  <2>4. CASE pc[f] = "release"
    BY <1>1, <1>6, <2>1, <2>2, <2>4 DEF TypeOK, Holding, Leased
  <2> QED
    BY <2>1, <2>3, <2>4
<1> QED
  BY <1>7, <1>8, <1>9, <1>10, <1>11, <1>12, <1>13 DEF Step

\* So do all others: a key somebody holds does not expire.
LEMMA KeyExactStep == ProfileInv /\ KeyExact /\ [Next]_vars => KeyExact'
<1> SUFFICES ASSUME ProfileInv, KeyExact, [Next]_vars, faults' = 0 PROVE KeyExact'
  BY DEF KeyExact
<1>1. TypeOK /\ Shape /\ ~Fault
  BY FaultCounts DEF ProfileInv
<1>2. CASE \E f \in Fetches : \/ \E o \in Fetchers : Check(f, o)
                              \/ Step(f) \/ SlotRefused(f) \/ LockTimeout(f)
  BY <1>2, FetchExact
<1>3. CASE \E o \in Fetchers : Expire(o)
  <2>1. PICK o \in Fetchers : Expire(o)
    BY <1>3
  <2>2. /\ faults = 0 /\ UNCHANGED <<pc, at, slot, failopen, lost>>
        /\ warm' = [warm EXCEPT ![o] = NoFetch] /\ lock' = Freed(warm[o])
    <3>1. warm[o] \in Fetches \cup {NoFetch} /\ GiveUp(warm[o])
      BY <1>1, <2>1 DEF TypeOK, Expire, CloseSession
    <3>2. lock' = Freed(warm[o]) /\ UNCHANGED faults
      BY <1>1, <3>1, GiveUpType
    <3> QED
      BY <2>1, <3>2 DEF Expire, CloseSession
  <2>3. SUFFICES ASSUME NEW g \in Fetches PROVE Holding(g)' <=> lock' = g
    BY <2>2 DEF KeyExact
  <2>4. /\ lock' = g <=> lock = g /\ warm[o] # g
        /\ (\E p \in Fetchers : warm'[p] = g)
              <=> (\E p \in Fetchers : warm[p] = g) /\ warm[o] # g
        /\ warm[o] = g => pc[g] \in {"release", "done"}
    BY <2>2, CloseFrees
  <2>5. Holding(g) <=> lock = g
    BY <2>2 DEF KeyExact
  <2> QED
    BY <2>2, <2>4, <2>5 DEF Holding, Leased
<1>4. CASE \E o \in Fetchers : RenewLost(o)
  <2>1. PICK o \in Fetchers : RenewLost(o)
    BY <1>4
  <2>2. faults = 0 /\ warm[o] \in Fetches /\ lock # warm[o]
    BY <1>1, <2>1 DEF RenewLost, TypeOK
  <2> QED
    BY <2>2 DEF KeyExact, Holding
<1>5. CASE KeyExpires
  <2>1. faults = 0 /\ lock \in Fetches /\ ~Attended(lock)
    BY <1>1, <1>5 DEF KeyExpires, TypeOK
  <2> QED
    BY <2>1 DEF KeyExact, Attended
<1>6. CASE UNCHANGED vars
  BY <1>6 DEF KeyExact, vars, session, redis, Holding, Leased
<1> QED
  BY <1>1, <1>2, <1>3, <1>4, <1>5, <1>6
     DEF Next, AllDone, FailOpen, RenewFails, Crash, KeyExpiresEarly

-----------------------------------------------------------------------------
(* The theorems. *)

\* The variables keep their types.
THEOREM ProfileTypeCorrect == Spec => []TypeOK
<1>1. ProfileInv => TypeOK
  BY DEF ProfileInv
<1> QED
  BY <1>1, ProfileInit, ProfileStep, PTL DEF Spec

\* Whatever fails: a browser left open between operations is under a lease that
\* Redis has granted (_owner_call_with_profile_lease).
THEOREM IdleBrowserTheorem == Spec => []IdleBrowserIsLeased
<1>1. ProfileInv => IdleBrowserIsLeased
  BY DEF ProfileInv, TypeOK, Shape, IdleBrowserIsLeased
<1> QED
  BY <1>1, ProfileInit, ProfileStep, PTL DEF Spec

\* Whatever fails: the slot of a fetcher is of the fetch that still uses it, so
\* that no path through fetch loses or returns it twice.
THEOREM SlotTheorem == Spec => []SlotHasItsUser
<1>1. ProfileInv => SlotHasItsUser
  BY DEF ProfileInv, TypeOK, Shape, Users, SlotHasItsUser, Leased
<1> QED
  BY <1>1, ProfileInit, ProfileStep, PTL DEF Spec

\* Until something fails, the Redis key is the lease somebody holds, and at most
\* one somebody, through all hand-overs between fetch and session.
THEOREM LockTheorem == Spec => []LockNamesTheHolder
<1>1. KeyExact => LockNamesTheHolder
  BY DEF KeyExact, LockNamesTheHolder
<1> QED
  BY <1>1, ProfileInit, ProfileStep, KeyExactStep, PTL DEF Spec

\* The three records agree through all hand-overs.
THEOREM OwnersTheorem == Spec => []OwnersAgree
BY IdleBrowserTheorem, SlotTheorem, LockTheorem, PTL DEF OwnersAgree

\* Until something fails, two browsers on the profile imply that one of them
\* was launched without a lease.
THEOREM ExclusiveTheorem == Spec => []ExclusiveUnderLease
<1>1. ProfileInv /\ KeyExact => ExclusiveUnderLease
  <2> SUFFICES ASSUME ProfileInv, KeyExact, faults = 0,
                      NEW o \in Fetchers, NEW p \in Fetchers,
                      o # p, browser[o], browser[p],
                      ~\E x \in {o, p} : warm[x] = NoFetch /\ ~Leased(busy[x])
               PROVE  FALSE
    BY DEF ExclusiveUnderLease
  <2>1. TypeOK /\ Shape
    BY DEF ProfileInv
  <2>2. ASSUME NEW x \in {o, p}
        PROVE  lock \in Fetches /\ at[lock] = x
    <3>1. x \in Fetchers /\ browser[x] /\ (warm[x] # NoFetch \/ Leased(busy[x]))
      OBVIOUS
    <3>2. CASE warm[x] # NoFetch
      <4>1. warm[x] \in Fetches /\ Holding(warm[x])
        BY <2>1, <3>1, <3>2 DEF TypeOK, Holding
      <4>2. lock = warm[x]
        BY <4>1 DEF KeyExact
      <4> QED
        BY <2>1, <3>1, <4>1, <4>2 DEF Shape
    <3>3. CASE warm[x] = NoFetch
      <4>1. busy[x] \in Fetches /\ Leased(busy[x])
        BY <2>1, <3>1, <3>3 DEF TypeOK, Shape
      <4>2. at[busy[x]] = x /\ pc[busy[x]] = "run"
        BY <2>1, <3>1, <4>1 DEF Shape
      <4>3. Holding(busy[x])
        BY <4>1, <4>2 DEF Holding
      <4> QED
        BY <4>1, <4>2, <4>3 DEF KeyExact
    <3> QED
      BY <3>2, <3>3
  <2> QED
    BY <2>2
<1> QED
  BY <1>1, ProfileInit, ProfileStep, KeyExactStep, PTL DEF Spec

\* Closing the session takes the key only from its own lease, nobody's any more.
LEMMA CloseGivesUp ==
    ASSUME ProfileInv, NEW o \in Fetchers, NEW f \in Fetches,
           warm' = [warm EXCEPT ![o] = NoFetch], lock' = Freed(warm[o]),
           lock = f, lock' # f,
           pc[f] \in {"release", "done"} => pc'[f] = pc[f]
    PROVE  ~Holding(f)'
<1>1. TypeOK /\ Shape /\ warm[o] = f
  BY DEF ProfileInv, Freed
<1>2. pc[f] \in {"release", "done"} /\ \A p \in Fetchers : warm[p] = f => p = o
  BY <1>1 DEF Shape
<1>3. \A p \in Fetchers : warm'[p] # f
  BY <1>1, <1>2 DEF TypeOK
<1> QED
  BY <1>2, <1>3 DEF Holding

\* No step takes the key from an attended lease.
LEMMA EvictionStep == ProfileInv /\ [Next]_vars => NotEvictedStep
<1> SUFFICES ASSUME ProfileInv, [Next]_vars, NEW f \in Fetches,
                    lock = f, lock' # f, Attended(f), faults' = faults
             PROVE  ~Holding(f)'
  BY DEF NotEvictedStep
<1>1. TypeOK /\ Shape /\ ~Fault
  <2>1. faults \in Nat
    BY DEF ProfileInv, TypeOK
  <2> QED
    BY <2>1 DEF ProfileInv, Fault
<1>2. /\ \A g \in Fetches \cup {NoFetch} : GiveUp(g) => lock' = Freed(g)
      /\ \A o \in Fetchers : warm[o] \in Fetches \cup {NoFetch}
  BY <1>1, GiveUpType DEF TypeOK
<1>3. CASE \E g \in Fetches, o \in Fetchers : Check(g, o)
  <2>1. PICK g \in Fetches : \E o \in Fetchers : Check(g, o)
    BY <1>3
  <2>2. PICK o \in Fetchers : Check(g, o)
    BY <2>1
  <2>3. CloseSession(o) /\ Goto(g, "slot") /\ pc[g] = "start"
    BY <2>2 DEF Check, redis
  <2>4. pc[f] \in {"release", "done"} => pc'[f] = pc[f]
    BY <1>1, <2>3 DEF TypeOK, Goto
  <2> QED
    BY <1>2, <2>3, <2>4, CloseGivesUp DEF CloseSession
<1>4. CASE \E g \in Fetches : Begin(g)
  <2>1. PICK g \in Fetches : Begin(g)
    BY <1>4
  <2>2. PICK o \in Fetchers : warm' = [warm EXCEPT ![o] = NoFetch] /\ lock' = Freed(warm[o])
    BY <1>2, <2>1 DEF Begin
  <2>3. pc[f] \in {"release", "done"} => pc'[f] = pc[f]
    BY <1>1, <2>1 DEF TypeOK, Goto, Begin
  <2> QED
    BY <2>2, <2>3, CloseGivesUp
<1>5. CASE \E g \in Fetches : End(g)
  <2>1. PICK g \in Fetches : End(g)
    BY <1>5
  <2>2. PICK o \in Fetchers : CloseSession(o)
    BY <2>1 DEF End, Retain, redis
  <2>3. pc[f] \in {"release", "done"} => pc'[f] = pc[f]
    BY <1>1, <2>1 DEF TypeOK, Goto, End, Retain
  <2> QED
    BY <1>2, <2>2, <2>3, CloseGivesUp DEF CloseSession
<1>6. CASE \E g \in Fetches : Release(g)
  <2>1. PICK g \in Fetches : Release(g)
    BY <1>6
  <2>2. pc[g] = "unlock" /\ g = f /\ UNCHANGED warm
    BY <1>2, <2>1 DEF Release, Freed, session
  <2>3. pc'[f] = "done" /\ \A p \in Fetchers : warm[p] # f
    BY <1>1, <2>1, <2>2 DEF TypeOK, Shape, Release, Goto
  <2> QED
    BY <2>2, <2>3 DEF Holding
<1>7. CASE \E o \in Fetchers : Expire(o)
  <2>1. PICK o \in Fetchers : Expire(o)
    BY <1>7
  <2> QED
    BY <1>2, <2>1, CloseGivesUp DEF Expire, CloseSession
<1> QED
  BY <1>1, <1>3, <1>4, <1>5, <1>6, <1>7
     DEF Next, Step, AllDone, FailOpen, RenewLost, RenewFails, Crash, KeyExpires,
         KeyExpiresEarly, TakeSlot, SlotRefused, TakeLock, LockTimeout, vars, redis

\* Whatever fails: a lease that is renewed keeps the key until its holder gives
\* it up or the key expires early (the token compared by _RELEASE_LUA).
THEOREM NotEvictedTheorem == Spec => NotEvicted
<1>1. ProfileInv /\ [Next]_vars => [NotEvictedStep]_vars
  BY EvictionStep
<1> QED
  BY <1>1, ProfileInit, ProfileStep, PTL DEF Spec, NotEvicted

-----------------------------------------------------------------------------
(* The refinement of ProfileLease. *)

\* A session may keep a lease whose key expired early while the next fetch, which
\* has the key, works with it: the old lease has lost the key for good.
Superseded ==
    \A o \in Fetchers, f, g \in Fetches :
       warm[o] = g /\ slot[o] = f /\ pc[f] \in {"ready", "run"} /\ f \notin failopen
          => lock # g

HandedInv == ProfileInv /\ Superseded

LEMMA SupersededInit == Init => Superseded
BY DEF Init, Superseded

\* A key is taken by a fetch that no session knows yet.
LEMMA SupersededFetch ==
    ASSUME HandedInv, NEW f \in Fetches,
           \/ \E o \in Fetchers : Check(f, o)
           \/ Step(f) \/ SlotRefused(f) \/ FailOpen(f) \/ LockTimeout(f)
    PROVE  Superseded'
<1>1. TypeOK /\ Shape /\ Superseded
  BY DEF HandedInv, ProfileInv
<1>2. /\ \A g \in Fetches \cup {NoFetch} : GiveUp(g) => lock' \in {lock, NoFetch}
      /\ \A o \in Fetchers : warm[o] \in Fetches \cup {NoFetch}
  BY <1>1, GiveUpType DEF TypeOK
<1>3. CASE \E o \in Fetchers : Check(f, o)
  BY <1>1, <1>3, <1>2
     DEF TypeOK, Shape, Superseded, Check, CloseSession, Goto, session, redis, Users
<1>4. CASE TakeSlot(f) \/ SlotRefused(f) \/ LockTimeout(f)
  BY <1>1, <1>4
     DEF TypeOK, Superseded, TakeSlot, SlotRefused, LockTimeout, Goto, session, redis
<1>5. CASE TakeLock(f)
  BY <1>1, <1>5 DEF TypeOK, Shape, Superseded, TakeLock, Goto, session, redis
<1>6. CASE FailOpen(f)
  BY <1>1, <1>6 DEF TypeOK, Superseded, FailOpen, Goto, session, redis
<1>7. CASE Begin(f)
  <2>1. \A o \in Fetchers : slot[o] = f => pc[f] = "ready"
    BY <1>1, <1>7 DEF Shape, Begin, Users
  <2> QED
    BY <1>1, <1>7, <1>2, <2>1 DEF TypeOK, Superseded, Begin, Goto, session
<1>8. CASE End(f)
  <2>1. PICK o \in Fetchers : o = at[f] /\ (Retain(f, o) \/ CloseSession(o))
    BY <1>8 DEF End
  <2>2. /\ \A g \in Fetches : pc'[g] \in {"ready", "run"} => pc'[g] = pc[g] /\ g # f
        /\ UNCHANGED slot
    BY <1>1, <1>8 DEF TypeOK, End, Retain, CloseSession, Goto
  <2>3. CASE Retain(f, o)
    <3>1. slot[o] = f
      BY <2>1, <2>3 DEF Retain, Leased
    <3> QED
      BY <1>1, <2>2, <2>3, <3>1 DEF TypeOK, Superseded, Retain, redis
  <2>4. CASE CloseSession(o)
    BY <1>1, <1>2, <2>2, <2>4 DEF TypeOK, Superseded, CloseSession
  <2> QED
    BY <2>1, <2>3, <2>4
<1>9. CASE Release(f)
  BY <1>1, <1>9, <1>2 DEF TypeOK, Superseded, Release, Goto, session
<1> QED
  BY <1>3, <1>4, <1>5, <1>6, <1>7, <1>8, <1>9 DEF Step

LEMMA SupersededStep == HandedInv /\ [Next]_vars => Superseded'
<1> SUFFICES ASSUME HandedInv, [Next]_vars PROVE Superseded'
  OBVIOUS
<1>1. TypeOK /\ Shape /\ Superseded
  BY DEF HandedInv, ProfileInv
<1>2. CASE \E f \in Fetches : \/ \E o \in Fetchers : Check(f, o)
                              \/ Step(f) \/ SlotRefused(f) \/ FailOpen(f) \/ LockTimeout(f)
  BY <1>2, SupersededFetch
<1>3. CASE \E o \in Fetchers : Expire(o)
  <2>1. /\ \A g \in Fetches \cup {NoFetch} : GiveUp(g) => lock' \in {lock, NoFetch}
        /\ \A o \in Fetchers : warm[o] \in Fetches \cup {NoFetch}
    BY <1>1, GiveUpType DEF TypeOK
  <2> QED
    BY <1>1, <1>3, <2>1 DEF TypeOK, Superseded, Expire, CloseSession
<1>4. CASE \E o \in Fetchers : Crash(o)
  BY <1>1, <1>4 DEF TypeOK, Superseded, Crash, redis
<1>5. CASE \/ \E o \in Fetchers : RenewLost(o) \/ RenewFails(o)
           \/ KeyExpires \/ KeyExpiresEarly \/ UNCHANGED vars
  <2>1. UNCHANGED <<pc, slot, warm, failopen>> /\ lock' \in {lock, NoFetch}
    BY <1>5 DEF RenewLost, RenewFails, KeyExpires, KeyExpiresEarly, vars, session, redis
  <2> QED
    BY <1>1, <2>1 DEF TypeOK, Superseded
<1> QED
  BY <1>2, <1>3, <1>4, <1>5 DEF Next, AllDone

LEMMA HandedInit == Init => HandedInv
BY ProfileInit, SupersededInit DEF HandedInv

LEMMA HandedNext == HandedInv /\ [Next]_vars => HandedInv'
BY ProfileStep, SupersededStep DEF HandedInv

-----------------------------------------------------------------------------
\* The lease of a fetch that does not move.
LEMMA LeaseStays ==
    ASSUME NEW g \in Fetches,
           Holding(g)' <=> Holding(g),
           ~Holding(g) => (pc'[g] \in {"release", "done"} <=> pc[g] \in {"release", "done"})
    PROVE  leaseBar'[g] = leaseBar[g]
BY DEF leaseBar

LEMMA LeaseEnds ==
    ASSUME NEW S,
           \A g \in Fetches : leaseBar'[g] = IF g \in S THEN "over" ELSE leaseBar[g]
    PROVE  Lease!Ends(S)
BY DEF leaseBar, Lease!Ends

LEMMA LeaseMoves ==
    ASSUME NEW f \in Fetches, leaseBar'[f] = "held",
           \A g \in Fetches : g # f => leaseBar'[g] = leaseBar[g]
    PROVE  leaseBar' = [leaseBar EXCEPT ![f] = "held"]
BY DEF leaseBar

\* Nothing moves.
LEMMA LeaseRests ==
    ASSUME UNCHANGED <<lock, lost, faults>>,
           \A g \in Fetches : leaseBar'[g] = leaseBar[g]
    PROVE  UNCHANGED Lease!vars
<1>1. leaseBar' = leaseBar
  BY DEF leaseBar
<1> QED
  BY <1>1 DEF Lease!vars

\* The lease of a session is given up, if it has one; the fetch that closes the
\* session may end without ever having had one.
LEMMA CloseReturns ==
    ASSUME HandedInv, NEW o \in Fetchers, NEW S \in SUBSET Fetches,
           GiveUp(warm[o]), UNCHANGED lost,
           S = {} \/ \E f \in Fetches : S = {f} /\ leaseBar[f] = "new",
           \A g \in Fetches :
              leaseBar'[g] = IF warm[o] = g \/ g \in S THEN "over" ELSE leaseBar[g]
    PROVE  Lease!Next \/ UNCHANGED Lease!vars
<1>1. TypeOK
  BY DEF HandedInv, ProfileInv
<1>2. CASE Fault /\ UNCHANGED lock
  <2> DEFINE T == {g \in Fetches : warm[o] = g \/ g \in S}
  <2>1. T \in SUBSET Fetches /\ \A g \in Fetches : g \in T <=> warm[o] = g \/ g \in S
    OBVIOUS
  <2> HIDE DEF T
  <2>2. Lease!Ends(T)
    BY <2>1, LeaseEnds
  <2>3. Lease!Abandon(T)
    BY <1>2, <2>2 DEF Fault, Lease!Abandon, Lease!Fault
  <2> QED
    BY <2>1, <2>3 DEF Lease!Next
<1> SUFFICES ASSUME lock' = Freed(warm[o]), UNCHANGED faults
             PROVE  Lease!Next \/ UNCHANGED Lease!vars
  BY <1>2 DEF GiveUp
<1>3. CASE warm[o] = NoFetch
  <2>1. lock' = lock
    BY <1>3 DEF Freed
  <2>2. CASE S = {}
    BY <1>3, <2>1, <2>2, LeaseRests
  <2>3. ASSUME NEW f \in Fetches, S = {f}, leaseBar[f] = "new"
        PROVE  Lease!Pass(f)
    <3>1. Lease!Ends({f})
      BY <1>3, <2>3, LeaseEnds
    <3> QED
      BY <2>1, <2>3, <3>1 DEF Lease!Pass
  <2> QED
    BY <2>2, <2>3 DEF Lease!Next
<1>4. ASSUME NEW h \in Fetches, warm[o] = h
      PROVE  Lease!Return(h)
  <2>1. leaseBar[h] = "held"
    BY <1>4 DEF leaseBar, Holding
  <2>2. lock' = IF lock = h THEN Lease!NoFetch ELSE lock
    BY <1>4 DEF Freed, NoFetch, Lease!NoFetch
  <2>3. CASE S = {}
    <3>1. Lease!Ends({h})
      BY <1>4, <2>3, LeaseEnds
    <3> QED
      BY <2>1, <2>2, <3>1 DEF Lease!Return
  <2>4. ASSUME NEW f \in Fetches, S = {f}, leaseBar[f] = "new"
        PROVE  Lease!Return(h)
    <3>1. Lease!Ends({h, f})
      BY <1>4, <2>4, LeaseEnds
    <3>2. f \in Lease!In("new")
      BY <2>4 DEF Lease!In
    <3> QED
      BY <2>1, <2>2, <3>1, <3>2 DEF Lease!Return
  <2> QED
    BY <2>3, <2>4
<1> QED
  BY <1>1, <1>3, <1>4 DEF TypeOK, Lease!Next

LEMMA CloseOnlyReturns ==
    ASSUME HandedInv, NEW o \in Fetchers,
           GiveUp(warm[o]), UNCHANGED lost,
           \A g \in Fetches : leaseBar'[g] = IF warm[o] = g THEN "over" ELSE leaseBar[g]
    PROVE  Lease!Next \/ UNCHANGED Lease!vars
<1> DEFINE S == {}
<1>1. S \in SUBSET Fetches /\ \A g : g \notin S
  OBVIOUS
<1>2. S = {} \/ \E f \in Fetches : S = {f} /\ leaseBar[f] = "new"
  OBVIOUS
<1> HIDE DEF S
<1>3. \A g \in Fetches :
         leaseBar'[g] = IF warm[o] = g \/ g \in S THEN "over" ELSE leaseBar[g]
  BY <1>1
<1> QED
  BY <1>1, <1>2, <1>3, CloseReturns

\* The reuse check closes the session or leaves everything.
LEMMA CheckReturns ==
    ASSUME HandedInv, NEW f \in Fetches, NEW o \in Fetchers, Check(f, o)
    PROVE  Lease!Next \/ UNCHANGED Lease!vars
<1>1. TypeOK /\ Shape /\ pc[f] = "start"
  BY DEF HandedInv, ProfileInv, Check
<1>2. \A p \in Fetchers : warm[p] # f /\ slot[p] # f
  BY <1>1 DEF Shape, Users
<1>3. \A g \in Fetches : g # f => pc'[g] = pc[g] /\ at'[g] = at[g]
  BY <1>1 DEF TypeOK, Check, Goto
<1>4. pc'[f] \in {"reuse", "slot"} /\ UNCHANGED slot
  BY <1>1 DEF TypeOK, Check, Goto
<1>5. CASE UNCHANGED <<session, redis, faults>>
  <2>1. ASSUME NEW g \in Fetches
        PROVE  leaseBar'[g] = leaseBar[g]
    <3>1. Holding(g)' <=> Holding(g)
      BY <1>1, <1>2, <1>3, <1>4, <1>5 DEF Holding, Leased, session
    <3> QED
      BY <1>1, <1>3, <1>4, <3>1, LeaseStays
  <2> QED
    BY <1>4, <1>5, <2>1, LeaseRests DEF redis
<1>6. CASE CloseSession(o)
  <2>1. ASSUME NEW g \in Fetches
        PROVE  leaseBar'[g] = IF warm[o] = g THEN "over" ELSE leaseBar[g]
    <3>1. /\ (\E p \in Fetchers : warm'[p] = g)
                <=> (\E p \in Fetchers : warm[p] = g) /\ warm[o] # g
          /\ warm[o] = g => pc[g] \in {"release", "done"}
      BY <1>6, CloseTakes DEF HandedInv, CloseSession
    <3>2. Holding(g)' <=> Holding(g) /\ warm[o] # g
      BY <1>1, <1>2, <1>3, <1>4, <3>1 DEF Holding, Leased
    <3> QED
      BY <1>1, <1>2, <1>3, <1>4, <3>1, <3>2 DEF leaseBar
  <2> QED
    BY <1>4, <1>6, <2>1, CloseOnlyReturns DEF CloseSession
<1> QED
  BY <1>5, <1>6 DEF Check

\* The steps to the slot and to the key.
LEMMA TakeReturns ==
    ASSUME HandedInv, NEW f \in Fetches,
           TakeSlot(f) \/ SlotRefused(f) \/ TakeLock(f) \/ FailOpen(f) \/ LockTimeout(f)
    PROVE  Lease!Next \/ UNCHANGED Lease!vars
<1>1. TypeOK /\ Shape /\ pc[f] \in {"slot", "lock"} /\ at[f] \in Fetchers
  BY DEF HandedInv, ProfileInv, Shape, TakeSlot, SlotRefused, TakeLock, FailOpen, LockTimeout
<1>2. \A p \in Fetchers : warm[p] # f
  BY <1>1 DEF Shape
<1>3. /\ \A g \in Fetches : g # f => pc'[g] = pc[g]
      /\ UNCHANGED <<at, warm>>
  BY <1>1
     DEF TypeOK, TakeSlot, SlotRefused, TakeLock, FailOpen, LockTimeout, Goto, session
<1>4. \A g \in Fetches : pc[g] = "run" => (Leased(g)' <=> Leased(g))
  <2>1. CASE TakeSlot(f)
    BY <1>1, <2>1 DEF TypeOK, Shape, TakeSlot, Leased
  <2>2. CASE LockTimeout(f)
    <3>1. slot[at[f]] = f
      BY <1>1, <2>2 DEF Shape, Users, LockTimeout
    <3> QED
      BY <1>1, <2>2, <3>1 DEF TypeOK, LockTimeout, Leased
  <2>3. CASE SlotRefused(f) \/ TakeLock(f) \/ FailOpen(f)
    BY <2>3 DEF SlotRefused, TakeLock, FailOpen, Leased
  <2> QED
    BY <2>1, <2>2, <2>3
<1>5. ASSUME NEW g \in Fetches, g # f
      PROVE  leaseBar'[g] = leaseBar[g]
  <2>1. Holding(g)' <=> Holding(g)
    BY <1>3, <1>4, <1>5 DEF Holding
  <2> QED
    BY <1>3, <1>5, <2>1, LeaseStays
<1>6. leaseBar[f] = "new"
  BY <1>1, <1>2 DEF leaseBar, Holding
<1>7. CASE TakeSlot(f)
  <2>1. leaseBar'[f] = "new"
    BY <1>1, <1>2, <1>3, <1>7 DEF TypeOK, leaseBar, Holding, TakeSlot, Goto
  <2> QED
    BY <1>5, <1>6, <1>7, <2>1, LeaseRests DEF TakeSlot, redis
<1>8. CASE SlotRefused(f) \/ LockTimeout(f)
  <2>1. leaseBar'[f] = "over"
    BY <1>1, <1>2, <1>3, <1>8 DEF TypeOK, leaseBar, Holding, SlotRefused, LockTimeout, Goto
  <2>2. Lease!Ends({f})
    BY <1>5, <2>1, LeaseEnds
  <2> QED
    BY <1>6, <1>8, <2>2 DEF Lease!Next, Lease!Pass, SlotRefused, LockTimeout, redis
<1>9. CASE TakeLock(f) \/ FailOpen(f)
  <2>1. leaseBar'[f] = "held"
    BY <1>1, <1>9 DEF TypeOK, leaseBar, Holding, TakeLock, FailOpen, Goto
  <2>2. leaseBar' = [leaseBar EXCEPT ![f] = "held"]
    BY <1>5, <2>1, LeaseMoves
  <2>3. Lease!Take(f) \/ Lease!TakeUnprotected(f)
    BY <1>6, <1>9, <2>2
       DEF Lease!Take, Lease!TakeUnprotected, Lease!Fault, Lease!NoFetch, NoFetch,
           TakeLock, FailOpen, Fault
  <2> QED
    BY <2>3 DEF Lease!Next
<1> QED
  BY <1>7, <1>8, <1>9

\* The start of an operation closes an unfit session or leaves everything: a
\* fetch takes what it holds along.
LEMMA BeginReturns ==
    ASSUME HandedInv, NEW f \in Fetches, Begin(f)
    PROVE  Lease!Next \/ UNCHANGED Lease!vars
<1>1. TypeOK /\ Shape /\ pc[f] \in {"reuse", "ready"} /\ at[f] \in Fetchers
  BY DEF HandedInv, ProfileInv, Shape, Begin
<1>2. /\ \A g \in Fetches : pc'[g] = IF g = f THEN "run" ELSE pc[g]
      /\ UNCHANGED <<at, slot, lost>>
  BY <1>1 DEF TypeOK, Begin, Goto
<1>3. pc[f] = "ready" <=> Leased(f)
  BY <1>1 DEF Shape, Users, Leased
<1>4. \A p \in Fetchers : warm[p] # f
  BY <1>1 DEF Shape
<1>5. CASE UNCHANGED <<session, lock, faults>>
  <2>1. ASSUME NEW g \in Fetches
        PROVE  leaseBar'[g] = leaseBar[g]
    <3>1. Holding(g)' <=> Holding(g)
      BY <1>1, <1>2, <1>3, <1>5 DEF Holding, Leased, session
    <3> QED
      BY <1>1, <1>2, <3>1, LeaseStays
  <2> QED
    BY <1>2, <1>5, <2>1, LeaseRests
<1>6. ASSUME NEW o \in Fetchers,
             warm' = [warm EXCEPT ![o] = NoFetch], GiveUp(warm[o])
      PROVE  Lease!Next \/ UNCHANGED Lease!vars
  <2>1. ASSUME NEW g \in Fetches
        PROVE  leaseBar'[g] = IF warm[o] = g THEN "over" ELSE leaseBar[g]
    <3>1. /\ (\E p \in Fetchers : warm'[p] = g)
                <=> (\E p \in Fetchers : warm[p] = g) /\ warm[o] # g
          /\ warm[o] = g => pc[g] \in {"release", "done"}
      BY <1>6, CloseTakes DEF HandedInv
    <3>2. Holding(g)' <=> Holding(g) /\ warm[o] # g
      BY <1>1, <1>2, <1>3, <1>4, <3>1 DEF Holding, Leased
    <3> QED
      BY <1>1, <1>2, <1>4, <3>1, <3>2 DEF leaseBar
  <2> QED
    BY <1>2, <1>6, <2>1, CloseOnlyReturns
<1> QED
  BY <1>5, <1>6 DEF Begin

\* Its end hands the lease to the session, or closes the session.
LEMMA EndReturns ==
    ASSUME HandedInv, NEW f \in Fetches, End(f)
    PROVE  Lease!Next \/ UNCHANGED Lease!vars
<1>1. TypeOK /\ Shape /\ pc[f] = "run" /\ at[f] \in Fetchers
  BY DEF HandedInv, ProfileInv, Shape, End
<1>2. UNCHANGED <<at, slot>>
  BY DEF End
<1>3. \A p \in Fetchers : warm[p] # f
  BY <1>1 DEF Shape
<1>4. ASSUME NEW o \in Fetchers, o = at[f], Retain(f, o)
      PROVE  Lease!Next \/ UNCHANGED Lease!vars
  <2>1. /\ \A g \in Fetches : pc'[g] = IF g = f THEN "release" ELSE pc[g]
        /\ \A p \in Fetchers : warm'[p] = IF p = o THEN f ELSE warm[p]
        /\ UNCHANGED <<lock, lost, faults>>
    BY <1>1, <1>4 DEF TypeOK, Retain, Goto, redis
  <2>2. slot[o] = f /\ f \notin failopen
    BY <1>4 DEF Retain, Leased
  <2>3. ASSUME NEW g \in Fetches
        PROVE  leaseBar'[g] = IF warm[o] = g THEN "over" ELSE leaseBar[g]
    <3>1. CASE g = f
      BY <1>1, <1>3, <1>4, <2>1, <2>2, <3>1 DEF leaseBar, Holding, Leased
    <3>2. CASE g # f /\ warm[o] = g
      <4>1. pc[g] \in {"release", "done"} /\ \A p \in Fetchers : warm[p] = g => p = o
        BY <1>1, <3>2 DEF Shape
      <4> QED
        BY <2>1, <3>2, <4>1 DEF leaseBar, Holding
    <3>3. CASE g # f /\ warm[o] # g
      <4>1. Holding(g)' <=> Holding(g)
        BY <1>2, <2>1, <3>3 DEF Holding, Leased
      <4> QED
        BY <2>1, <3>3, <4>1, LeaseStays
    <3> QED
      BY <3>1, <3>2, <3>3
  <2>4. lock' = Freed(warm[o])
    <3>1. warm[o] \in Fetches => lock # warm[o]
      BY <1>1, <2>2 DEF HandedInv, Superseded
    <3> QED
      BY <1>1, <2>1, <3>1 DEF TypeOK, Freed
  <2> QED
    BY <2>1, <2>3, <2>4, CloseOnlyReturns DEF GiveUp
<1>5. ASSUME NEW o \in Fetchers, o = at[f],
             CloseSession(o), Goto(f, IF Leased(f) THEN "unlock" ELSE "done")
      PROVE  Lease!Next \/ UNCHANGED Lease!vars
  <2> DEFINE S == IF Leased(f) THEN {} ELSE {f}
  <2>1. /\ \A g \in Fetches : pc'[g] = IF g # f THEN pc[g]
                                       ELSE IF Leased(f) THEN "unlock" ELSE "done"
        /\ UNCHANGED lost
    BY <1>1, <1>5 DEF TypeOK, Goto, CloseSession
  <2>2. ASSUME NEW g \in Fetches
        PROVE  leaseBar'[g] = IF warm[o] = g \/ g \in S THEN "over" ELSE leaseBar[g]
    <3>1. /\ (\E p \in Fetchers : warm'[p] = g)
                <=> (\E p \in Fetchers : warm[p] = g) /\ warm[o] # g
          /\ warm[o] = g => pc[g] \in {"release", "done"}
      BY <1>5, CloseTakes DEF HandedInv, CloseSession
    <3>2. CASE g = f
      BY <1>1, <1>3, <2>1, <3>1, <3>2 DEF leaseBar, Holding
    <3>3. CASE g # f
      <4>1. Holding(g)' <=> Holding(g) /\ warm[o] # g
        BY <1>2, <2>1, <3>1, <3>3 DEF Holding, Leased
      <4> QED
        BY <2>1, <3>1, <3>3, <4>1 DEF leaseBar
    <3> QED
      BY <3>2, <3>3
  <2>3. leaseBar[f] = IF Leased(f) THEN "held" ELSE "new"
    BY <1>1, <1>3 DEF leaseBar, Holding
  <2>4. S \in SUBSET Fetches /\ (S = {} \/ \E g \in Fetches : S = {g} /\ leaseBar[g] = "new")
    BY <2>3
  <2> HIDE DEF S
  <2> QED
    BY <1>2, <1>5, <2>1, <2>2, <2>4, CloseReturns DEF CloseSession
<1> QED
  BY <1>4, <1>5 DEF End

\* The end of a fetch gives up the lease it still has.
LEMMA ReleaseReturns ==
    ASSUME HandedInv, NEW f \in Fetches, Release(f)
    PROVE  Lease!Next \/ UNCHANGED Lease!vars
<1>1. TypeOK /\ Shape /\ pc[f] \in {"unlock", "release"} /\ at[f] \in Fetchers
  BY DEF HandedInv, ProfileInv, Shape, Release
<1>2. slot[at[f]] = f
  BY <1>1 DEF Shape, Users
<1>3. /\ \A g \in Fetches : pc'[g] = IF g = f THEN "done" ELSE pc[g]
      /\ \A g \in Fetches : g # f => (Leased(g)' <=> Leased(g))
      /\ UNCHANGED <<at, warm, lost>>
  BY <1>1, <1>2 DEF TypeOK, Release, Goto, session, Leased
<1>4. ASSUME NEW g \in Fetches, g # f
      PROVE  leaseBar'[g] = leaseBar[g]
  <2>1. Holding(g)' <=> Holding(g)
    BY <1>3, <1>4 DEF Holding
  <2> QED
    BY <1>3, <1>4, <2>1, LeaseStays
<1>5. CASE pc[f] = "unlock"
  <2>1. \A p \in Fetchers : warm[p] # f
    BY <1>1, <1>5 DEF Shape
  <2>2. leaseBar[f] = "held" /\ leaseBar'[f] = "over"
    BY <1>3, <1>5, <2>1 DEF leaseBar, Holding
  <2>3. Lease!Ends({f})
    BY <1>4, <2>2, LeaseEnds
  <2>4. CASE lock' = Freed(f) /\ UNCHANGED faults
    <3>1. Lease!Return(f)
      BY <1>3, <2>2, <2>3, <2>4 DEF Freed, NoFetch, Lease!NoFetch, Lease!Return
    <3> QED
      BY <3>1 DEF Lease!Next
  <2>5. CASE Fault /\ UNCHANGED lock
    <3>1. Lease!Abandon({f}) /\ {f} \in SUBSET Fetches
      BY <1>3, <2>3, <2>5 DEF Fault, Lease!Abandon, Lease!Fault
    <3> QED
      BY <3>1 DEF Lease!Next
  <2> QED
    BY <1>5, <2>4, <2>5 DEF Release, GiveUp
<1>6. CASE pc[f] = "release"
  <2>1. Holding(f)' <=> Holding(f)
    BY <1>3, <1>6 DEF Holding
  <2>2. leaseBar'[f] = leaseBar[f]
    BY <1>3, <1>6, <2>1, LeaseStays
  <2> QED
    BY <1>3, <1>4, <1>6, <2>2, LeaseRests DEF Release
<1> QED
  BY <1>1, <1>5, <1>6

\* The timer gives up the lease of the session.
LEMMA ExpireReturns ==
    ASSUME HandedInv, NEW o \in Fetchers, Expire(o)
    PROVE  Lease!Next \/ UNCHANGED Lease!vars
<1>1. CloseSession(o) /\ UNCHANGED <<pc, at, slot>>
  BY DEF Expire
<1>2. ASSUME NEW g \in Fetches
      PROVE  leaseBar'[g] = IF warm[o] = g THEN "over" ELSE leaseBar[g]
  <2>1. /\ (\E p \in Fetchers : warm'[p] = g)
              <=> (\E p \in Fetchers : warm[p] = g) /\ warm[o] # g
        /\ warm[o] = g => pc[g] \in {"release", "done"}
    BY <1>1, CloseTakes DEF HandedInv, CloseSession
  <2>2. Holding(g)' <=> Holding(g) /\ warm[o] # g
    BY <1>1, <2>1 DEF Holding, Leased
  <2> QED
    BY <1>1, <2>1, <2>2 DEF leaseBar
<1> QED
  BY <1>1, <1>2, CloseOnlyReturns DEF CloseSession

\* A process that dies leaves its leases and their key.
LEMMA CrashAbandons ==
    ASSUME HandedInv, NEW o \in Fetchers, Crash(o)
    PROVE  Lease!Next
<1>1. TypeOK /\ Shape
  BY DEF HandedInv, ProfileInv
<1> DEFINE S == {f \in Fetches : at[f] = o}
<1>2. /\ \A f \in Fetches : pc'[f] = IF at[f] = o THEN "done" ELSE pc[f]
      /\ \A p \in Fetchers : /\ warm'[p] = IF p = o THEN NoFetch ELSE warm[p]
                             /\ slot'[p] = IF p = o THEN NoFetch ELSE slot[p]
      /\ UNCHANGED <<at, lock, lost>>
  BY <1>1 DEF TypeOK, Crash, redis
<1>3. ASSUME NEW g \in Fetches
      PROVE  leaseBar'[g] = IF g \in S THEN "over" ELSE leaseBar[g]
  <2>1. \A p \in Fetchers : warm[p] = g => at[g] = p
    BY <1>1 DEF Shape
  <2>2. CASE at[g] = o
    BY <1>2, <2>1, <2>2 DEF leaseBar, Holding
  <2>3. CASE at[g] # o
    <3>1. Holding(g)' <=> Holding(g)
      BY <1>2, <2>1, <2>3 DEF Holding, Leased
    <3> QED
      BY <1>2, <2>3, <3>1, LeaseStays
  <2> QED
    BY <2>2, <2>3
<1>4. Lease!Ends(S)
  BY <1>3, LeaseEnds
<1>5. S \in SUBSET Fetches
  OBVIOUS
<1> HIDE DEF S
<1>6. Lease!Abandon(S)
  BY <1>2, <1>4 DEF Crash, Fault, Lease!Abandon, Lease!Fault
<1> QED
  BY <1>5, <1>6 DEF Lease!Next

\* What happens to the key and to its renewal.
LEMMA KeyReturns ==
    ASSUME HandedInv,
           \/ \E o \in Fetchers : RenewLost(o) \/ RenewFails(o)
           \/ KeyExpires \/ KeyExpiresEarly \/ UNCHANGED vars
    PROVE  Lease!Next \/ UNCHANGED Lease!vars
<1>1. TypeOK
  BY DEF HandedInv, ProfileInv
<1>2. leaseBar' = leaseBar
  <2>1. UNCHANGED <<pc, at, slot, warm>>
    BY DEF RenewLost, RenewFails, KeyExpires, KeyExpiresEarly, vars, session
  <2>2. \A g \in Fetches : Holding(g)' <=> Holding(g)
    BY <2>1 DEF Holding, Leased
  <2> QED
    BY <2>1, <2>2 DEF leaseBar
<1>3. ASSUME NEW o \in Fetchers, RenewLost(o) \/ RenewFails(o)
      PROVE  Lease!Next
  <2>1. warm[o] \in Fetches
    BY <1>1, <1>3 DEF TypeOK, RenewLost, RenewFails
  <2>2. leaseBar[warm[o]] = "held"
    BY <2>1 DEF leaseBar, Holding
  <2>3. Lease!Expose(warm[o])
    BY <1>2, <1>3, <2>2
       DEF RenewLost, RenewFails, Fault, Lease!Expose, Lease!Fault
  <2> QED
    BY <2>1, <2>3 DEF Lease!Next
<1>4. CASE KeyExpires
  <2>1. lock \in Fetches /\ ~(Holding(lock) /\ lock \notin lost)
    BY <1>1, <1>4 DEF TypeOK, KeyExpires, Attended
  <2>2. lock \notin Lease!In("held") \ lost
    BY <2>1 DEF Lease!In, leaseBar
  <2>3. Lease!Expire
    BY <1>2, <1>4, <2>2 DEF KeyExpires, Lease!Expire, NoFetch, Lease!NoFetch
  <2> QED
    BY <2>3 DEF Lease!Next
<1>5. CASE KeyExpiresEarly
  BY <1>2, <1>5
     DEF KeyExpiresEarly, Fault, NoFetch, Lease!Next, Lease!ExpireEarly, Lease!Fault, Lease!NoFetch
<1>6. CASE UNCHANGED vars
  BY <1>2, <1>6 DEF vars, redis, Lease!vars
<1> QED
  BY <1>3, <1>4, <1>5, <1>6

LEMMA LeaseInit == Init => Lease!Init
<1> SUFFICES ASSUME Init PROVE Lease!Init
  OBVIOUS
<1>1. leaseBar = [f \in Fetches |-> "new"]
  BY DEF Init, leaseBar, Holding
<1> QED
  BY <1>1 DEF Init, Lease!Init, NoFetch, Lease!NoFetch

LEMMA LeaseNext == HandedInv /\ [Next]_vars => [Lease!Next]_(Lease!vars)
<1> SUFFICES ASSUME HandedInv, [Next]_vars
             PROVE  Lease!Next \/ UNCHANGED Lease!vars
  OBVIOUS
<1>1. CASE \E f \in Fetches : \/ \E o \in Fetchers : Check(f, o)
                              \/ Step(f) \/ SlotRefused(f) \/ FailOpen(f) \/ LockTimeout(f)
  BY <1>1, CheckReturns, TakeReturns, BeginReturns, EndReturns, ReleaseReturns DEF Step
<1>2. CASE \E o \in Fetchers : Expire(o) \/ RenewLost(o) \/ RenewFails(o) \/ Crash(o)
  BY <1>2, ExpireReturns, CrashAbandons, KeyReturns
<1>3. CASE KeyExpires \/ KeyExpiresEarly \/ UNCHANGED vars
  BY <1>3, KeyReturns
<1> QED
  BY <1>1, <1>2, <1>3 DEF Next, AllDone

\* Whatever fails, all the ways of a lease between fetch, session and Redis are
\* steps of one lease: taken once, given up once, its key taken from nobody else.
THEOREM ProfileImplementsLease == Spec => ImplementsLease
BY HandedInit, HandedNext, LeaseInit, LeaseNext, PTL DEF Spec, ImplementsLease, Lease!Spec

-----------------------------------------------------------------------------
(* What ProfileLease is worth to its users. *)

LeaseExact ==
    /\ faults \in Nat
    /\ faults = 0 =>
          lost = {} /\ \A f \in Fetches : leaseBar[f] = "held" <=> lock = f

LEMMA LeaseExactInit == Lease!Init => LeaseExact
<1> SUFFICES ASSUME Lease!Init
             PROVE  LeaseExact
  OBVIOUS
<1>1. \A f \in Fetches : leaseBar[f] = "new"
  BY DEF Lease!Init
<1>2. lock \notin Fetches
  BY FetchAssumption DEF Lease!Init, Lease!NoFetch, NoFetch
<1> QED
  BY <1>1, <1>2 DEF Lease!Init, LeaseExact

LEMMA LeaseExactNext == LeaseExact /\ [Lease!Next]_(Lease!vars) => LeaseExact'
<1> SUFFICES ASSUME LeaseExact, [Lease!Next]_(Lease!vars)
             PROVE  LeaseExact'
  OBVIOUS
<1> USE DEF LeaseExact
<1>1. ASSUME NEW f \in Fetches, Lease!Take(f)
      PROVE  LeaseExact'
  <2>1. \A g \in Fetches : leaseBar'[g] = IF g = f THEN "held" ELSE leaseBar[g]
    BY <1>1 DEF Lease!Take, leaseBar
  <2> QED
    BY <1>1, <2>1 DEF Lease!Take, Lease!NoFetch, NoFetch
<1>2. ASSUME NEW f \in Fetches, Lease!Pass(f)
      PROVE  LeaseExact'
  BY <1>2 DEF Lease!Pass, Lease!Ends
<1>3. ASSUME NEW f \in Fetches, Lease!Return(f)
      PROVE  LeaseExact'
  BY <1>3 DEF Lease!Return, Lease!Ends, Lease!In, Lease!NoFetch, NoFetch
<1>4. ASSUME NEW f \in Fetches, Lease!Expose(f)
      PROVE  LeaseExact'
  BY <1>4 DEF Lease!Expose, Lease!Fault
<1>5. ASSUME \/ \E f \in Fetches : Lease!TakeUnprotected(f)
             \/ \E S \in SUBSET Fetches : Lease!Abandon(S)
             \/ Lease!ExpireEarly
      PROVE  LeaseExact'
  <2>1. faults' \in Nat /\ faults' # 0
    BY <1>5 DEF Lease!TakeUnprotected, Lease!Abandon, Lease!ExpireEarly, Lease!Fault
  <2> QED
    BY <2>1
<1>6. CASE Lease!Expire
  BY <1>6 DEF Lease!Expire, Lease!In, Lease!NoFetch, NoFetch
<1>7. CASE UNCHANGED Lease!vars
  BY <1>7 DEF Lease!vars
<1> QED
  BY <1>1, <1>2, <1>3, <1>4, <1>5, <1>6, <1>7 DEF Lease!Next

\* Whoever keeps to ProfileLease has, until something fails, one lease at a time
\* in all processes together.
THEOREM LeaseExcludes == Lease!Spec => []Lease!Exclusive
<1>1. LeaseExact => Lease!Exclusive
  BY DEF LeaseExact, Lease!Exclusive, Lease!In
<1> QED
  BY <1>1, LeaseExactInit, LeaseExactNext, PTL DEF Lease!Spec

\* So the fetchers do, as far as leases go: the lock "prevents two processes (api,
\* monitor, match-runner) from simultaneously opening the same Firefox profile".
THEOREM ProfileLeasesExclude == Spec => []Lease!Exclusive
BY ProfileImplementsLease, LeaseExcludes, PTL DEF ImplementsLease

=============================================================================
