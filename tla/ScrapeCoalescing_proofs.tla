---------------------- MODULE ScrapeCoalescing_proofs ----------------------
(***************************************************************************)
(* The safety of coalesced scrapes, for any number of callers, processes   *)
(* and faults.                                                             *)
(*                                                                         *)
(* Three inductive invariants, each on top of the one before.  LeadInv:    *)
(* in a process only the leader of the flight goes on.  SpendInv: until    *)
(* something fails, whoever goes to the store owns the cooldown, and its   *)
(* owner was not refused.  MissInv: while nobody has spent the cooldown,   *)
(* the caches agree and have nothing for those who missed.  A fourth,      *)
(* AloneInv, holds while not even a wait has timed out: one caller of all  *)
(* processes holds the lock of the flight, and nobody stores behind it.    *)
(* KindInv, apart from them, says what a leader may hand to its followers. *)
(***************************************************************************)
EXTENDS ScrapeCoalescing, TLAPS

\* Callers that are neither sharing nor done go on for their process.
Leading == Reserving \cup {"flight", "poll", "steal", "check", "return"}

OneLeader ==
    \A c \in Callers :
       /\ pc[c] # "start" => at[c] \in Processes
       /\ pc[c] \in Leading => leader[at[c]] = c

LeadInv == TypeOK /\ OneLeader

\* Callers that have taken the cooldown and not yet used it up.
Spending == {"domain", "rollback", "fetch"}

SpendersOwn ==
    trouble # "failed" =>
       /\ Up
       /\ \A c \in Callers : pc[c] \in Spending => cooldown = c

OwnersWereServed ==
    trouble # "failed" =>
       \A c \in Callers :
          cooldown = c => pc[c] \in Spending \cup {"return", "done"} /\ result[c] # "refused"

Unanswered ==
    \A c \in Callers : pc[c] \notin {"return", "done"} => result[c] = "none"

SpendInv == LeadInv /\ SpendersOwn /\ OwnersWereServed /\ Unanswered

\* The next result is still to come: nobody has the cooldown, or its owner is
\* on its way.
Open == cooldown = NoCaller \/ \E c \in Callers : cooldown = c /\ pc[c] \in Spending

\* Wherever the result is cached, it is the same.
CachesAgree ==
    /\ \A p \in Processes : memory[p] = "none" \/ shared = "none" \/ memory[p] = shared
    /\ \A p, q \in Processes : memory[p] = "none" \/ memory[q] = "none" \/ memory[p] = memory[q]

MissesStand ==
    \A c \in Callers : pc[c] \in {"reserve", "domain"} => ~Fits(c, Lookup(at[c]))

MissInv == SpendInv /\ (trouble # "failed" /\ Open => CachesAgree /\ MissesStand)

\* Callers that have the lock of the flight and may still go to the store.
Locked == Reserving \cup {"check"}

AloneInv ==
    /\ SpendInv
    /\ trouble = "none" =>
       \A c \in Callers :
          /\ pc[c] \in Locked => flight = c
          /\ pc[c] \in {"reserve", "domain", "rollback", "retry"} /\ c \notin Galleries
                => ~Fits(c, Lookup(at[c]))

-----------------------------------------------------------------------------
(* Types and leaders. *)

\* At the start nobody has asked for anything.
LEMMA LeadInit == Init => LeadInv
BY ScrapeAssumption
   DEF Init, LeadInv, TypeOK, OneLeader, PC, Leading, Reserving, Up

\* What the cache holds is a value, and stays one when it is kept in L1.
LEMMA LookupType ==
    ASSUME TypeOK, NEW p \in Processes
    PROVE  Lookup(p) \in Value \cup {"none"}
BY DEF TypeOK, Lookup

\* The steps of a caller.
LEMMA LeadStep ==
    ASSUME LeadInv, NEW c \in Callers, Ask(c) \/ Step(c) \/ GiveUp(c)
    PROVE  LeadInv'
<1> USE DEF LeadInv, Leading, Reserving, PC, Value, Answer, Goto, Return, callers,
            processes, keys
<1>0. PICK p \in Processes \cup {NoProcess} : at[c] = p
  BY DEF TypeOK
<1>1. CASE Ask(c)
  <2>1. PICK q \in Processes :
          /\ at' = [at EXCEPT ![c] = q]
          /\ Keep(q)
          /\ IF Fits(c, Lookup(q))
             THEN Return(c, As(c, Lookup(q))) /\ Goto(c, "done")
             ELSE UNCHANGED result /\ Goto(c, "join")
    BY <1>1 DEF Ask
  <2>2. Lookup(q) \in Value \cup {"none"} /\ (Fits(c, Lookup(q)) => Lookup(q) # "none")
    BY LookupType DEF Fits
  <2>3. TypeOK'
    BY <1>1, <2>1, <2>2 DEF TypeOK, Ask, Keep, As
  <2>4. OneLeader'
    BY <1>1, <2>1 DEF TypeOK, OneLeader, Ask
  <2> QED
    BY <2>3, <2>4
<1>2. CASE Join(c)
  <2>1. p \in Processes
    BY <1>0, <1>2, ScrapeAssumption DEF Join, OneLeader
  <2> QED
    BY <1>0, <1>2, <2>1, ScrapeAssumption DEF Join, TypeOK, OneLeader
<1>3. CASE TryFlight(c)
  BY <1>0, <1>3 DEF TryFlight, TypeOK, OneLeader
<1>4. CASE Poll(c) \/ Check(c)
  <2>1. p \in Processes
    BY <1>0, <1>4 DEF Poll, Check, OneLeader
  <2>2. Lookup(p) \in Value \cup {"none"} /\ (Fits(c, Lookup(p)) => Lookup(p) # "none")
    BY <2>1, LookupType DEF Fits
  <2>3. TypeOK'
    BY <1>0, <1>4, <2>1, <2>2 DEF TypeOK, Poll, Check, Keep, As
  <2>4. OneLeader'
    BY <1>0, <1>4 DEF TypeOK, OneLeader, Poll, Check
  <2> QED
    BY <2>3, <2>4
<1>5. CASE Reserve(c) \/ ReserveDomain(c) \/ Rollback(c) \/ RetryAfter(c)
  BY <1>0, <1>5
     DEF TypeOK, OneLeader, Reserve, ReserveDomain, Rollback, RetryAfter, AcquireLocal,
         GoFetch, Refuse, AskRetryAfter
<1>6. CASE Succeed(c)
  <2>1. PICK v \in Parsed(c) : Store(at[c], v) /\ Return(c, As(c, v))
    BY <1>6 DEF Succeed
  <2>2. v \in Value
    BY DEF Parsed
  <2> QED
    BY <1>0, <1>6, <2>1, <2>2 DEF Succeed, Store, As, TypeOK, OneLeader
<1>7. CASE Fail(c) \/ GiveUp(c)
  BY <1>0, <1>7 DEF Fail, GiveUp, Late, TypeOK, OneLeader
<1>8. CASE GiveBack(c)
  <2>1. p \in Processes /\ leader[p] = c
    BY <1>0, <1>8 DEF GiveBack, ReturnTo, OneLeader
  <2>2. TypeOK'
    BY <1>0, <1>8, <2>1 DEF GiveBack, ReturnTo, TypeOK
  <2>3. OneLeader'
    BY <1>0, <1>8, <2>1 DEF GiveBack, ReturnTo, Sharing, TypeOK, OneLeader
  <2> QED
    BY <2>2, <2>3
<1> QED
  BY <1>1, <1>2, <1>3, <1>4, <1>5, <1>6, <1>7, <1>8 DEF Step, Fetch

\* Time and faults.
LEMMA LeadEvent ==
    ASSUME LeadInv,
           \/ \E p \in Processes : LocalExpires(p) \/ Crash(p)
           \/ FlightExpires \/ CooldownExpires \/ SharedExpires
           \/ RedisFails \/ RedisReturns \/ UNCHANGED vars
    PROVE  LeadInv'
<1> USE ScrapeAssumption
    DEF LeadInv, Leading, Reserving, PC, Value, Answer, callers, processes, keys
<1>1. ASSUME NEW p \in Processes, LocalExpires(p)
      PROVE  LeadInv'
  BY <1>1 DEF LocalExpires, TypeOK, OneLeader
<1>2. ASSUME NEW p \in Processes, Crash(p)
      PROVE  LeadInv'
  <2>1. TypeOK'
    BY <1>2 DEF Crash, Fault, TypeOK
  <2>2. OneLeader'
    BY <1>2 DEF Crash, TypeOK, OneLeader
  <2> QED
    BY <2>1, <2>2
<1>3. CASE FlightExpires \/ CooldownExpires \/ SharedExpires
  BY <1>3 DEF FlightExpires, CooldownExpires, SharedExpires, Late, TypeOK, OneLeader
<1>4. CASE RedisFails \/ RedisReturns
  BY <1>4 DEF RedisFails, RedisReturns, Fault, Up, TypeOK, OneLeader
<1>5. CASE UNCHANGED vars
  BY <1>5 DEF vars, TypeOK, OneLeader
<1> QED
  BY <1>1, <1>2, <1>3, <1>4, <1>5

LEMMA LeadNext == LeadInv /\ [Next]_vars => LeadInv'
BY LeadStep, LeadEvent DEF Next, AllDone

\* In a process only the leader of the flight goes on: SingleFlight.do.
THEOREM LeadersOnly == Spec => []LeadInv
BY LeadInit, LeadNext, PTL DEF Spec

\* The variables have their types.
THEOREM TypeCorrect == Spec => []TypeOK
<1>1. LeadInv => TypeOK
  BY DEF LeadInv
<1> QED
  BY <1>1, LeadersOnly, PTL

-----------------------------------------------------------------------------
(* Who owns the cooldown. *)

LEMMA SpendInit == Init => SpendInv
BY LeadInit, ScrapeAssumption
   DEF Init, SpendInv, SpendersOwn, OwnersWereServed, Unanswered, Up, Spending

\* A caller takes the cooldown before it goes on, and gives it back before it is
\* refused.
LEMMA SpendStep ==
    ASSUME SpendInv, NEW c \in Callers, Ask(c) \/ Step(c) \/ GiveUp(c)
    PROVE  SpendersOwn' /\ OwnersWereServed' /\ Unanswered'
<1> USE DEF SpendInv, SpendersOwn, OwnersWereServed, Unanswered, Spending, Goto, Return,
            callers, processes, keys, Up
<1>0. TypeOK /\ (trouble' # "failed" => trouble # "failed")
  BY DEF LeadInv, TypeOK, Step, Fetch, Ask, Join, TryFlight, Poll, Check, Reserve,
         ReserveDomain, Rollback, RetryAfter, Succeed, Fail, GiveBack, ReturnTo, GiveUp, Late
<1>1. CASE Ask(c)
  BY <1>0, <1>1 DEF Ask, TypeOK, As, Answer, Value
<1>2. CASE Join(c)
  BY <1>0, <1>2 DEF Join, TypeOK
<1>3. CASE TryFlight(c)
  BY <1>0, <1>3 DEF TryFlight, TypeOK
<1>4. CASE Poll(c)
  BY <1>0, <1>4 DEF Poll, TypeOK
<1>5. CASE Check(c)
  BY <1>0, <1>5 DEF Check, TypeOK
<1>6. CASE Reserve(c)
  BY <1>0, <1>6, ScrapeAssumption
     DEF Reserve, AcquireLocal, GoFetch, Refuse, AskRetryAfter, TypeOK
<1>7. CASE ReserveDomain(c)
  BY <1>0, <1>7 DEF ReserveDomain, AcquireLocal, GoFetch, Refuse, AskRetryAfter, TypeOK
<1>8. CASE Rollback(c) \/ RetryAfter(c)
  BY <1>0, <1>8, ScrapeAssumption
     DEF Rollback, RetryAfter, AcquireLocal, GoFetch, Refuse, AskRetryAfter, TypeOK
<1>9. CASE Succeed(c)
  <2>1. PICK v \in Parsed(c) : result' = [result EXCEPT ![c] = As(c, v)]
    BY <1>9 DEF Succeed
  <2>2. As(c, v) # "refused"
    BY DEF As, Parsed, Value
  <2> QED
    BY <1>0, <1>9, <2>1, <2>2 DEF Succeed, TypeOK
<1>10. CASE Fail(c)
  BY <1>0, <1>10 DEF Fail, TypeOK
<1>11. CASE GiveUp(c)
  BY <1>0, <1>11 DEF GiveUp, TypeOK
<1>12. CASE GiveBack(c)
  BY <1>0, <1>12 DEF GiveBack, ReturnTo, Sharing, TypeOK
<1> QED
  BY <1>1, <1>2, <1>3, <1>4, <1>5, <1>6, <1>7, <1>8, <1>9, <1>10, <1>11, <1>12
     DEF Step, Fetch

LEMMA SpendEvent ==
    ASSUME SpendInv,
           \/ \E p \in Processes : LocalExpires(p) \/ Crash(p)
           \/ FlightExpires \/ CooldownExpires \/ SharedExpires
           \/ RedisFails \/ RedisReturns \/ UNCHANGED vars
    PROVE  SpendersOwn' /\ OwnersWereServed' /\ Unanswered'
<1> USE DEF SpendInv, SpendersOwn, OwnersWereServed, Unanswered, Spending, callers,
            processes, keys, Up
<1>0. TypeOK
  BY DEF LeadInv
<1>1. ASSUME NEW p \in Processes, LocalExpires(p)
      PROVE  SpendersOwn' /\ OwnersWereServed' /\ Unanswered'
  BY <1>1 DEF LocalExpires
<1>2. ASSUME NEW p \in Processes, Crash(p)
      PROVE  SpendersOwn' /\ OwnersWereServed' /\ Unanswered'
  BY <1>0, <1>2 DEF Crash, Fault, TypeOK
<1>3. CASE FlightExpires \/ SharedExpires
  BY <1>3 DEF FlightExpires, SharedExpires, Late
<1>4. CASE CooldownExpires
  BY <1>4, ScrapeAssumption DEF CooldownExpires, Reserving
<1>5. CASE RedisFails \/ RedisReturns
  BY <1>0, <1>5 DEF RedisFails, RedisReturns, Fault, TypeOK
<1>6. CASE UNCHANGED vars
  BY <1>6 DEF vars
<1> QED
  BY <1>1, <1>2, <1>3, <1>4, <1>5, <1>6

LEMMA SpendNext == SpendInv /\ [Next]_vars => SpendInv'
BY LeadNext, SpendStep, SpendEvent DEF Next, AllDone, SpendInv

LEMMA SpendersOnly == Spec => []SpendInv
BY SpendInit, SpendNext, PTL DEF Spec

\* Two fetches of the page at once need a failure and two processes, although
\* the lock of the flight may expire and its followers give up.
THEOREM FetchesExclude == Spec => []FetchesAreExclusive
<1>1. SpendInv => FetchesAreExclusive
  BY DEF SpendInv, LeadInv, SpendersOwn, OneLeader, Leading, Reserving, Spending,
         FetchesAreExclusive
<1> QED
  BY <1>1, SpendersOnly, PTL

\* A refused call leaves no cooldown behind.
THEOREM NoCooldownStranded == Spec => []NoStrandedCooldown
<1>1. SpendInv => NoStrandedCooldown
  BY DEF SpendInv, OwnersWereServed, NoStrandedCooldown
<1> QED
  BY <1>1, SpendersOnly, PTL

\* The cooldown lets one call through and gives way to the next when that one
\* was refused after all (try_acquire and its rollback).
THEOREM CooldownGuards == Spec => []CooldownsGuard
BY FetchesExclude, NoCooldownStranded, PTL DEF CooldownsGuard

-----------------------------------------------------------------------------
(* What the caches have for a caller that missed. *)

\* Keeping in L1 what was found in Redis changes nothing that is looked up.
LEMMA KeepIsQuiet ==
    ASSUME TypeOK, NEW p \in Processes, Keep(p), UNCHANGED <<shared, redis>>
    PROVE  /\ \A q \in Processes : Lookup(q)' = Lookup(q)
           /\ CachesAgree => CachesAgree'
<1>1. memory' = [memory EXCEPT ![p] = Lookup(p)]
  BY DEF Keep
<1>2. \A q \in Processes : memory'[q] = IF q = p THEN Lookup(p) ELSE memory[q]
  BY <1>1 DEF TypeOK
<1>3. \A q \in Processes : Lookup(q)' = Lookup(q)
  BY <1>2 DEF Lookup, Up
<1> QED
  BY <1>2, <1>3 DEF CachesAgree, Lookup

\* A step of a caller from outside to outside of Spending opens nothing.
LEMMA OpenStays ==
    ASSUME TypeOK, NEW c \in Callers, NEW l \in PC \ Spending,
           pc' = [pc EXCEPT ![c] = l], UNCHANGED cooldown, Open'
    PROVE  Open
<1>1. CASE cooldown = NoCaller
  BY <1>1 DEF Open
<1>2. CASE cooldown # NoCaller
  <2>1. PICK d \in Callers : cooldown = d /\ pc'[d] \in Spending
    BY <1>2 DEF Open
  <2>2. d # c
    BY <2>1 DEF TypeOK
  <2> QED
    BY <2>1, <2>2 DEF TypeOK, Open
<1> QED
  BY <1>1, <1>2

LEMMA MissInit == Init => MissInv
BY SpendInit, ScrapeAssumption DEF Init, MissInv, CachesAgree, MissesStand

LEMMA MissStep ==
    ASSUME MissInv, NEW c \in Callers, Ask(c) \/ Step(c) \/ GiveUp(c),
           trouble' # "failed", Open'
    PROVE  CachesAgree' /\ MissesStand'
<1>0. /\ TypeOK /\ OneLeader /\ SpendersOwn
      /\ (Open => CachesAgree /\ MissesStand)
  BY DEF MissInv, SpendInv, LeadInv, Step, Fetch, Ask, Join, TryFlight, Poll, Check,
         Reserve, ReserveDomain, Rollback, RetryAfter, Succeed, Fail, GiveBack, ReturnTo,
         GiveUp, Late, TypeOK
<1>1. trouble # "failed"
  BY DEF Step, Fetch, Ask, Join, TryFlight, Poll, Check, Reserve, ReserveDomain, Rollback,
         RetryAfter, Succeed, Fail, GiveBack, ReturnTo, GiveUp, Late
<1>2. Up /\ \A d \in Callers : pc[d] \in Spending => cooldown = d
  BY <1>0, <1>1 DEF SpendersOwn
<1> DEFINE Caches == <<memory, shared, redis>>
<1>3. ASSUME UNCHANGED Caches
      PROVE  \A p \in Processes : Lookup(p)' = Lookup(p)
  BY <1>3 DEF Lookup, Up
<1>4. CASE Ask(c)
  <2>1. PICK q \in Processes :
          /\ at' = [at EXCEPT ![c] = q]
          /\ Keep(q)
          /\ pc' = [pc EXCEPT ![c] = "done"] \/ pc' = [pc EXCEPT ![c] = "join"]
    BY <1>4 DEF Ask, Goto
  <2>2. Open
    BY <1>0, <1>4, <2>1, OpenStays DEF Ask, keys, PC, Spending
  <2>3. /\ \A p \in Processes : Lookup(p)' = Lookup(p)
        /\ CachesAgree'
    BY <1>0, <1>4, <2>1, <2>2, KeepIsQuiet DEF Ask, keys
  <2>4. MissesStand'
    BY <1>0, <2>1, <2>2, <2>3 DEF TypeOK, MissesStand, OneLeader, Fits
  <2> QED
    BY <2>3, <2>4
<1>5. CASE Join(c) \/ TryFlight(c) \/ GiveUp(c) \/ RetryAfter(c) \/ Fail(c)
  <2>1. PICK l \in PC \ (Spending \cup {"reserve"}) : pc' = [pc EXCEPT ![c] = l]
    BY <1>2, <1>5
       DEF Join, TryFlight, GiveUp, RetryAfter, Refuse, Fail, Goto, PC, Spending
  <2>2. UNCHANGED <<at, cooldown>> /\ UNCHANGED Caches
    BY <1>5 DEF Join, TryFlight, GiveUp, RetryAfter, Fail, keys, processes
  <2>3. Open
    BY <1>0, <2>1, <2>2, OpenStays
  <2> QED
    BY <1>0, <1>3, <2>1, <2>2, <2>3
       DEF TypeOK, MissesStand, OneLeader, Fits, Spending, CachesAgree
<1>6. CASE Poll(c)
  <2>0. PICK p \in Processes : at[c] = p
    BY <1>0, <1>6 DEF Poll, OneLeader
  <2>1. pc' = [pc EXCEPT ![c] = "return"] \/ pc' = [pc EXCEPT ![c] = "steal"]
    BY <1>6 DEF Poll, Goto
  <2>2. Open
    BY <1>0, <1>6, <2>1, OpenStays DEF Poll, keys, PC, Spending
  <2>3. /\ \A q \in Processes : Lookup(q)' = Lookup(q)
        /\ CachesAgree'
    BY <1>0, <1>6, <2>0, <2>2, KeepIsQuiet DEF Poll, keys
  <2>4. MissesStand'
    BY <1>0, <1>6, <2>1, <2>2, <2>3 DEF TypeOK, MissesStand, OneLeader, Fits, Poll
  <2> QED
    BY <2>3, <2>4
<1>7. CASE Check(c)
  <2>0. PICK p \in Processes : at[c] = p
    BY <1>0, <1>7 DEF Check, OneLeader
  <2>1. \/ pc' = [pc EXCEPT ![c] = "return"]
        \/ pc' = [pc EXCEPT ![c] = "reserve"] /\ ~Fits(c, Lookup(p))
    BY <1>7, <2>0 DEF Check, Goto
  <2>2. Open
    BY <1>0, <1>7, <2>1, OpenStays DEF Check, keys, PC, Spending
  <2>3. /\ \A q \in Processes : Lookup(q)' = Lookup(q)
        /\ CachesAgree'
    BY <1>0, <1>7, <2>0, <2>2, KeepIsQuiet DEF Check, keys
  <2>4. UNCHANGED at
    BY <1>7 DEF Check
  <2>5. MissesStand'
    BY <1>0, <2>0, <2>1, <2>2, <2>3, <2>4 DEF TypeOK, MissesStand, OneLeader, Fits
  <2> QED
    BY <2>3, <2>5
<1>8. CASE Reserve(c)
  <2>1. UNCHANGED at /\ UNCHANGED Caches /\ pc[c] = "reserve"
    BY <1>8 DEF Reserve, processes
  <2>2. \/ pc' = [pc EXCEPT ![c] = "retry"] /\ UNCHANGED cooldown
        \/ pc' = [pc EXCEPT ![c] = "domain"] /\ cooldown = NoCaller
    BY <1>2, <1>8 DEF Reserve, AskRetryAfter, Goto
  <2>3. Open
    BY <1>0, <2>2, OpenStays DEF PC, Spending, Open
  <2> QED
    BY <1>0, <1>3, <2>1, <2>2, <2>3
       DEF TypeOK, MissesStand, OneLeader, Fits, CachesAgree
<1>9. CASE ReserveDomain(c) \/ Rollback(c)
  <2>1. UNCHANGED at /\ UNCHANGED Caches /\ pc[c] \in Spending
    BY <1>9 DEF ReserveDomain, Rollback, processes, keys, Spending
  <2>2. PICK l \in {"fetch", "rollback", "retry"} : pc' = [pc EXCEPT ![c] = l]
    BY <1>2, <1>9 DEF ReserveDomain, Rollback, AskRetryAfter, GoFetch, Goto
  <2>3. Open
    BY <1>2, <2>1 DEF Open
  <2> QED
    BY <1>0, <1>3, <2>1, <2>2, <2>3
       DEF TypeOK, MissesStand, OneLeader, Fits, CachesAgree
<1>10. CASE Succeed(c)
  <2>1. /\ cooldown = c /\ cooldown' = c
        /\ pc' = [pc EXCEPT ![c] = "return"]
    BY <1>2, <1>10 DEF Succeed, Goto, Spending
  <2>2. ~Open'
    BY <1>0, <2>1, ScrapeAssumption DEF Open, Spending, TypeOK
  <2> QED
    BY <2>2
<1>11. CASE GiveBack(c)
  <2>1. UNCHANGED at /\ UNCHANGED Caches /\ UNCHANGED cooldown
    BY <1>11 DEF GiveBack, ReturnTo
  <2>2. \A d \in Callers : pc'[d] = pc[d] \/ pc'[d] = "done"
    BY <1>0, <1>11 DEF GiveBack, ReturnTo, TypeOK
  <2>3. Open
    BY <2>1, <2>2 DEF Open, Spending
  <2> QED
    BY <1>0, <1>3, <2>1, <2>2, <2>3
       DEF TypeOK, MissesStand, OneLeader, Fits, CachesAgree
<1> QED
  BY <1>4, <1>5, <1>6, <1>7, <1>8, <1>9, <1>10, <1>11 DEF Step, Fetch

LEMMA MissEvent ==
    ASSUME MissInv,
           \/ \E p \in Processes : LocalExpires(p) \/ Crash(p)
           \/ FlightExpires \/ CooldownExpires \/ SharedExpires
           \/ RedisFails \/ RedisReturns \/ UNCHANGED vars,
           trouble' # "failed", Open'
    PROVE  CachesAgree' /\ MissesStand'
<1> USE DEF callers, processes, keys
<1>0. TypeOK /\ OneLeader /\ SpendersOwn /\ (trouble # "failed" /\ Open => CachesAgree /\ MissesStand)
  BY DEF MissInv, SpendInv, LeadInv
<1>1. ASSUME NEW p \in Processes, LocalExpires(p)
      PROVE  CachesAgree' /\ MissesStand'
  <2>1. CachesAgree /\ MissesStand
    BY <1>0, <1>1 DEF LocalExpires, Open
  <2>2. \A q \in Processes : memory'[q] = IF q = p THEN "none" ELSE memory[q]
    BY <1>0, <1>1 DEF LocalExpires, TypeOK
  <2>3. \A q \in Processes : Lookup(q)' = Lookup(q) \/ Lookup(q)' = "none"
    BY <1>1, <2>1, <2>2 DEF LocalExpires, Lookup, Up, CachesAgree
  <2> QED
    BY <1>0, <1>1, <2>1, <2>2, <2>3
       DEF LocalExpires, CachesAgree, MissesStand, OneLeader, Fits
<1>2. ASSUME NEW p \in Processes, Crash(p)
      PROVE  FALSE
  BY <1>2 DEF Crash, Fault
<1>3. CASE SharedExpires
  <2>1. CachesAgree /\ MissesStand
    BY <1>0, <1>3 DEF SharedExpires, Open
  <2>2. \A q \in Processes : Lookup(q)' = Lookup(q) \/ Lookup(q)' = "none"
    BY <1>3 DEF SharedExpires, Lookup, Up
  <2> QED
    BY <1>0, <1>3, <2>1, <2>2
       DEF SharedExpires, CachesAgree, MissesStand, OneLeader, Fits
<1>4. CASE CooldownExpires
  <2>1. OnlyOurs
    BY <1>4 DEF CooldownExpires
  <2> QED
    BY <1>4, <2>1
       DEF CooldownExpires, OnlyOurs, CachesAgree, MissesStand, Reserving
<1>5. CASE FlightExpires \/ UNCHANGED vars
  <2>1. UNCHANGED <<at, pc, memory, shared, redis, cooldown>> /\ trouble # "failed"
    BY <1>5 DEF FlightExpires, Late, vars
  <2> QED
    BY <1>0, <2>1 DEF CachesAgree, MissesStand, Fits, Lookup, Up, Open
<1>6. CASE RedisFails \/ RedisReturns
  BY <1>0, <1>6 DEF RedisFails, RedisReturns, Fault, SpendersOwn
<1> QED
  BY <1>1, <1>2, <1>3, <1>4, <1>5, <1>6

LEMMA MissNext == MissInv /\ [Next]_vars => MissInv'
<1>1. ASSUME MissInv, [Next]_vars, trouble' # "failed", Open'
      PROVE  CachesAgree' /\ MissesStand'
  BY <1>1, MissStep, MissEvent DEF Next, AllDone
<1> QED
  BY <1>1, SpendNext DEF MissInv

\* Whoever turns to the store owns the cooldown, so its miss still stands.
LEMMA FetchIsNeeded == MissInv /\ [Next]_vars => [NeedlessFetchStep]_vars
<1> SUFFICES ASSUME MissInv, [Next]_vars, trouble # "failed", NEW c \in Callers,
                    pc[c] # "fetch", pc'[c] = "fetch"
             PROVE  ~Fits(c, Lookup(at[c])) /\ ~Fits(c, shared)
  BY DEF NeedlessFetchStep
<1>0. TypeOK /\ OneLeader /\ SpendersOwn /\ (Open => CachesAgree /\ MissesStand)
  BY DEF MissInv, SpendInv, LeadInv
<1>1. ASSUME NEW d \in Callers, Ask(d) \/ Step(d) \/ GiveUp(d)
      PROVE  pc[c] = "domain"
  <2>1. CASE GiveBack(d)
    BY <1>0, <2>1 DEF GiveBack, ReturnTo, TypeOK
  <2>2. CASE ~GiveBack(d)
    <3>1. c = d
      BY <1>0, <1>1, <2>2
         DEF Step, Fetch, Ask, Join, TryFlight, Poll, Check, Reserve, ReserveDomain, Rollback,
             RetryAfter, Succeed, Fail, GiveUp, Goto, GoFetch, Refuse, AskRetryAfter,
             AcquireLocal, TypeOK
    <3> QED
      BY <1>0, <1>1, <2>2, <3>1
         DEF Step, Fetch, Ask, Join, TryFlight, Poll, Check, Reserve, ReserveDomain, Rollback,
             RetryAfter, Succeed, Fail, GiveUp, Goto, GoFetch, Refuse, AskRetryAfter,
             AcquireLocal, TypeOK, SpendersOwn
  <2> QED
    BY <2>1, <2>2
<1>2. \E d \in Callers : Ask(d) \/ Step(d) \/ GiveUp(d)
  BY <1>0 DEF Next, AllDone, vars, callers, LocalExpires, Crash, FlightExpires,
              CooldownExpires, SharedExpires, RedisFails, RedisReturns, TypeOK
<1>3. cooldown = c /\ Open
  BY <1>0, <1>1, <1>2 DEF SpendersOwn, Spending, Open
<1>4. ~Fits(c, Lookup(at[c]))
  BY <1>0, <1>1, <1>2, <1>3 DEF MissesStand
<1>5. Lookup(at[c]) = shared \/ shared = "none"
  BY <1>0, <1>1, <1>2, <1>3 DEF OneLeader, CachesAgree, Lookup, Up, SpendersOwn
<1> QED
  BY <1>4, <1>5 DEF Fits

\* No page is fetched while the cache, or Redis behind it, has what the call needs.
THEOREM NoFetchNeedless == Spec => NoNeedlessFetch
BY MissInit, MissNext, FetchIsNeeded, PTL DEF Spec, NoNeedlessFetch

-----------------------------------------------------------------------------
(* While no wait and no lock has run out of time. *)

LEMMA AloneInit == Init => AloneInv
BY SpendInit DEF Init, AloneInv, Locked, Reserving

\* While a caller is behind the lock nobody else stores, and what it missed
\* cannot turn up in L1 either: the lock is lost only late or by a failure.
LEMMA AloneStep ==
    ASSUME AloneInv, NEW d \in Callers, Ask(d) \/ Step(d) \/ GiveUp(d),
           trouble' = "none", NEW c \in Callers
    PROVE  /\ pc'[c] \in Locked => flight' = c
           /\ pc'[c] \in {"reserve", "domain", "rollback", "retry"} /\ c \notin Galleries
                => ~Fits(c, Lookup(at[c]))'
<1> USE DEF Goto, callers, processes, keys
<1>0. /\ TypeOK /\ OneLeader /\ SpendersOwn
      /\ trouble = "none" => /\ pc[c] \in Locked => flight = c
                             /\ pc[d] \in Locked => flight = d
                             /\ pc[c] \in {"reserve", "domain", "rollback", "retry"} /\ c \notin Galleries
                                  => ~Fits(c, Lookup(at[c]))
  BY DEF AloneInv, SpendInv, LeadInv
<1>1. trouble = "none" /\ Up /\ ~GiveUp(d)
  <2>1. trouble = "none" /\ ~GiveUp(d)
    BY <1>0 DEF Step, Fetch, Ask, Join, TryFlight, Poll, Check, Reserve, ReserveDomain,
                Rollback, RetryAfter, Succeed, Fail, GiveBack, ReturnTo, GiveUp, Late, TypeOK
  <2> QED
    BY <1>0, <2>1 DEF SpendersOwn
<1> DEFINE Missing == {"reserve", "domain", "rollback", "retry"}
           Caches  == <<memory, shared, redis>>
<1>2. PICK p \in Processes \cup {NoProcess} : at[c] = p
  BY <1>0 DEF TypeOK
<1>3. pc[c] \in Missing => p \in Processes
  BY <1>0, <1>2 DEF OneLeader
<1>4. ASSUME UNCHANGED Caches
      PROVE  \A q \in Processes : Lookup(q)' = Lookup(q)
  BY <1>4 DEF Lookup, Up
<1>5. CASE Ask(d)
  <2>1. PICK q \in Processes :
          /\ at' = [at EXCEPT ![d] = q]
          /\ Keep(q)
          /\ pc' = [pc EXCEPT ![d] = "done"] \/ pc' = [pc EXCEPT ![d] = "join"]
    BY <1>5 DEF Ask
  <2>2. \A r \in Processes : Lookup(r)' = Lookup(r)
    BY <1>0, <1>5, <2>1, KeepIsQuiet DEF Ask
  <2>3. pc'[c] \in Locked => c # d /\ pc[c] \in Locked /\ pc'[c] = pc[c] /\ at'[c] = at[c]
    BY <1>0, <2>1 DEF TypeOK, Locked, Reserving
  <2>4. flight' = flight
    BY <1>5 DEF Ask
  <2> QED
    BY <1>0, <1>1, <1>2, <1>3, <2>2, <2>3, <2>4 DEF Fits, Locked, Reserving
<1>6. CASE Join(d) \/ TryFlight(d) \/ GiveBack(d)
  <2>1. UNCHANGED at /\ UNCHANGED Caches
    BY <1>6 DEF Join, TryFlight, GiveBack, ReturnTo
  <2>2. /\ pc'[c] \in Missing => pc'[c] = pc[c]
        /\ pc'[c] \in Locked =>
              flight' = c \/ (pc[c] \in Locked /\ (flight = c => flight' = c))
    BY <1>0, <1>1, <1>6, ScrapeAssumption
       DEF Join, TryFlight, GiveBack, ReturnTo, TypeOK, Locked, Reserving
  <2> QED
    BY <1>0, <1>1, <1>2, <1>3, <1>4, <2>1, <2>2 DEF Fits
<1>7. CASE Poll(d) \/ Check(d)
  <2>0. PICK q \in Processes : at[d] = q
    BY <1>0, <1>7 DEF Poll, Check, OneLeader
  <2>1. UNCHANGED <<at, flight>> /\ Keep(q) /\ UNCHANGED <<shared, redis>>
    BY <1>7, <2>0 DEF Poll, Check
  <2>2. \A r \in Processes : Lookup(r)' = Lookup(r)
    BY <1>0, <2>1, KeepIsQuiet
  <2>3. /\ pc'[c] \in Missing => pc'[c] = pc[c] \/ (c = d /\ ~Fits(d, Lookup(q)))
        /\ pc'[c] \in Locked => pc[c] \in Locked
    BY <1>0, <1>7, <2>0 DEF Poll, Check, TypeOK, Locked, Reserving
  <2> QED
    BY <1>0, <1>1, <1>2, <1>3, <2>0, <2>1, <2>2, <2>3 DEF Fits
<1>8. CASE Reserve(d) \/ ReserveDomain(d) \/ Rollback(d) \/ RetryAfter(d) \/ Fail(d)
  <2>1. UNCHANGED <<at, flight>> /\ UNCHANGED Caches
    BY <1>8 DEF Reserve, ReserveDomain, Rollback, RetryAfter, Fail
  <2>2. /\ pc'[c] \in Missing => pc[c] \in Missing
        /\ pc'[c] \in Locked => pc[c] \in Locked
    BY <1>0, <1>1, <1>8
       DEF Reserve, ReserveDomain, Rollback, RetryAfter, Fail, Refuse, AskRetryAfter,
           GoFetch, TypeOK, Locked, Reserving
  <2> QED
    BY <1>0, <1>1, <1>2, <1>3, <1>4, <2>1, <2>2 DEF Fits
<1>9. CASE Succeed(d)
  <2>1. /\ UNCHANGED <<at, flight>> /\ pc[d] \in Locked
        /\ pc' = [pc EXCEPT ![d] = "return"]
    BY <1>9 DEF Succeed, Locked, Reserving
  <2>2. pc'[c] \in Locked => c # d /\ pc[c] \in Locked
    BY <1>0, <2>1 DEF TypeOK, Locked, Reserving
  <2>3. pc'[c] \notin Locked
    BY <1>0, <1>1, <2>1, <2>2
  <2> QED
    BY <2>3 DEF Locked, Reserving
<1> QED
  BY <1>1, <1>5, <1>6, <1>7, <1>8, <1>9 DEF Step, Fetch

LEMMA AloneEvent ==
    ASSUME AloneInv,
           \/ \E p \in Processes : LocalExpires(p) \/ Crash(p)
           \/ FlightExpires \/ CooldownExpires \/ SharedExpires
           \/ RedisFails \/ RedisReturns \/ UNCHANGED vars,
           trouble' = "none", NEW c \in Callers
    PROVE  /\ pc'[c] \in Locked => flight' = c
           /\ pc'[c] \in {"reserve", "domain", "rollback", "retry"} /\ c \notin Galleries
                => ~Fits(c, Lookup(at[c]))'
<1> USE DEF callers, processes, keys
<1>0. /\ TypeOK /\ OneLeader /\ SpendersOwn
      /\ trouble = "none" => /\ pc[c] \in Locked => flight = c
                             /\ pc[c] \in {"reserve", "domain", "rollback", "retry"} /\ c \notin Galleries
                                  => ~Fits(c, Lookup(at[c]))
  BY DEF AloneInv, SpendInv, LeadInv
<1>1. CASE UNCHANGED <<pc, at, flight, trouble, redis>>
  <2>1. ASSUME c \notin Galleries, at[c] \in Processes, ~Fits(c, Lookup(at[c]))
        PROVE  ~Fits(c, Lookup(at[c]))'
    <3>1. PICK q \in Processes : at[c] = q
      BY <2>1
    <3>2. Lookup(q) = "none"
      BY <2>1, <3>1 DEF Fits
    <3>3. memory[q] = "none" /\ (Up => shared = "none")
      BY <3>2 DEF Lookup
    <3>4. memory'[q] = "none" /\ (Up' => shared' = "none")
      BY <1>0, <1>1, <3>1, <3>3, ScrapeAssumption
         DEF LocalExpires, Crash, Fault, FlightExpires, CooldownExpires, SharedExpires,
             RedisFails, RedisReturns, vars, TypeOK, Up
    <3> QED
      BY <1>1, <3>1, <3>4 DEF Fits, Lookup
  <2> QED
    BY <1>0, <1>1, <2>1 DEF OneLeader
<1>2. CASE ~UNCHANGED <<pc, at, flight, trouble, redis>>
  <2>1. FlightExpires
    BY <1>0, <1>2 DEF LocalExpires, Crash, Fault, CooldownExpires, SharedExpires,
                      RedisFails, RedisReturns, vars, SpendersOwn
  <2>2. trouble = "none" /\ pc[c] \notin Locked /\ pc' = pc
    <3>1. pc' = pc /\ trouble = "none"
      BY <1>0, <2>1 DEF FlightExpires, Late, TypeOK
    <3>2. ASSUME pc[c] \in Locked PROVE FALSE
      BY <1>0, <2>1, <3>1, <3>2 DEF FlightExpires, Late, Locked
    <3> QED
      BY <3>1, <3>2
  <2> QED
    BY <2>2 DEF Locked, Reserving
<1> QED
  BY <1>1, <1>2

LEMMA AloneNext == AloneInv /\ [Next]_vars => AloneInv'
<1>1. ASSUME AloneInv, [Next]_vars, trouble' = "none", NEW c \in Callers
      PROVE  /\ pc'[c] \in Locked => flight' = c
             /\ pc'[c] \in {"reserve", "domain", "rollback", "retry"} /\ c \notin Galleries
                  => ~Fits(c, Lookup(at[c]))'
  BY <1>1, AloneStep, AloneEvent DEF Next, AllDone
<1> QED
  BY <1>1, SpendNext DEF AloneInv

\* Only a caller that is behind the lock is refused, and what it missed is still
\* not there.
LEMMA RefusalIsNeeded == AloneInv /\ [Next]_vars => [NeedlessRefusalStep]_vars
<1> SUFFICES ASSUME AloneInv, [Next]_vars, trouble = "none", NEW c \in Callers \ Galleries,
                    pc[c] \in Reserving, result'[c] = "refused"
             PROVE  ~Fits(c, Lookup(at[c]))
  BY DEF NeedlessRefusalStep
<1> USE DEF Goto, Return, callers, processes, keys
<1>0. /\ TypeOK /\ SpendersOwn /\ Unanswered /\ result[c] = "none"
      /\ pc[c] \in {"reserve", "domain", "rollback", "retry"} => ~Fits(c, Lookup(at[c]))
  BY DEF AloneInv, SpendInv, LeadInv, Unanswered, Reserving
<1>1. result' # result
  BY <1>0
<1>2. pc[c] # "fetch"
  <2> SUFFICES ASSUME pc[c] = "fetch" PROVE FALSE
    OBVIOUS
  <2>1. ASSUME NEW d \in Callers, Ask(d) \/ Step(d) \/ GiveUp(d)
        PROVE  FALSE
    <3>1. CASE GiveBack(d)
      BY <1>0, <3>1 DEF GiveBack, ReturnTo, Sharing, TypeOK
    <3>2. CASE Succeed(d)
      <4>1. PICK v \in Parsed(d) : result' = [result EXCEPT ![d] = As(d, v)]
        BY <3>2 DEF Succeed
      <4>2. As(d, v) # "refused"
        BY DEF As, Parsed, Value
      <4> QED
        BY <1>0, <4>1, <4>2 DEF TypeOK
    <3>3. CASE ~GiveBack(d) /\ ~Succeed(d)
      BY <1>0, <2>1, <3>3
         DEF Step, Fetch, Ask, Join, TryFlight, Poll, Check, Reserve, ReserveDomain, Rollback,
             RetryAfter, Fail, GiveUp, GoFetch, Refuse, AskRetryAfter, AcquireLocal, TypeOK
    <3> QED
      BY <3>1, <3>2, <3>3
  <2> QED
    BY <1>0, <1>1, <2>1
       DEF Next, AllDone, vars, LocalExpires, Crash, FlightExpires, CooldownExpires,
           SharedExpires, RedisFails, RedisReturns, TypeOK
<1> QED
  BY <1>0, <1>2 DEF Reserving

\* No call that does without images is refused while the cache has an item,
\* unless a lock or a wait ran out of time.
THEOREM NoRefusalNeedless == Spec => NoNeedlessRefusal
BY AloneInit, AloneNext, RefusalIsNeeded, PTL DEF Spec, NoNeedlessRefusal

-----------------------------------------------------------------------------
(* What a call is answered with. *)

\* Of those who serve others, only a call for an offer has one.
OffersServed ==
    \A c \in Callers : pc[c] = "return" /\ result[c] = "offer" => c \in Offers

KindInv == LeadInv /\ OffersServed

LEMMA KindInit == Init => KindInv
BY LeadInit DEF KindInv, OffersServed, Init

\* Whatever a caller gets for itself, by the cache or by its own fetch.
LEMMA OwnAnswer ==
    ASSUME LeadInv, NEW c \in Callers, Ask(c) \/ Step(c) \/ GiveUp(c), ~GiveBack(c)
    PROVE  /\ \A d \in Callers : d # c => result'[d] = result[d] /\ pc'[d] = pc[d]
           /\ result'[c] = "offer" => result[c] = "offer" \/ c \in Offers
           /\ pc'[c] = "return" /\ result'[c] = "offer" => c \in Offers
<1> USE DEF Goto, Return, Value, callers, processes, keys
<1>0. TypeOK
  BY DEF LeadInv
<1>1. CASE Ask(c)
  <2>1. PICK p \in Processes :
          IF Fits(c, Lookup(p))
          THEN Return(c, As(c, Lookup(p))) /\ Goto(c, "done")
          ELSE UNCHANGED result /\ Goto(c, "join")
    BY <1>1 DEF Ask
  <2>2. Lookup(p) # "offer"
    BY <1>0, LookupType
  <2> QED
    BY <1>0, <2>1, <2>2 DEF TypeOK, As
<1>2. CASE Join(c) \/ TryFlight(c) \/ GiveUp(c)
  BY <1>0, <1>2 DEF TypeOK, Join, TryFlight, GiveUp
<1>3. CASE Poll(c) \/ Check(c)
  <2>1. at[c] \in Processes
    BY <1>3 DEF LeadInv, OneLeader, Poll, Check
  <2>2. Lookup(at[c]) # "offer"
    BY <1>0, <2>1, LookupType
  <2> QED
    BY <1>0, <1>3, <2>2 DEF TypeOK, Poll, Check, As
<1>4. CASE Reserve(c) \/ ReserveDomain(c) \/ Rollback(c) \/ RetryAfter(c)
  BY <1>0, <1>4
     DEF TypeOK, Reserve, ReserveDomain, Rollback, RetryAfter, AcquireLocal, GoFetch,
         Refuse, AskRetryAfter
<1>5. CASE Fetch(c)
  BY <1>0, <1>5 DEF TypeOK, Fetch, Succeed, Fail, Parsed, As
<1> QED
  BY <1>1, <1>2, <1>3, <1>4, <1>5 DEF Step

\* A leader gives its own answer to those who share its call.
LEMMA SharedAnswer ==
    ASSUME KindInv, NEW c \in Callers, GiveBack(c)
    PROVE  OffersServed' /\ KindStep
<1>1. /\ TypeOK /\ leader[at[c]] = c
      /\ result[c] = "offer" => c \in Offers
  BY DEF KindInv, OffersServed, LeadInv, OneLeader, Leading, GiveBack, ReturnTo
<1>2. OffersServed'
  BY DEF KindInv, OffersServed, GiveBack, ReturnTo
<1>3. KindStep
  BY <1>1 DEF KindStep, GiveBack, ReturnTo, Sharing
<1> QED
  BY <1>2, <1>3

LEMMA KindNext == KindInv /\ [Next]_vars => KindInv' /\ KindStep
<1> SUFFICES ASSUME KindInv, [Next]_vars
             PROVE  KindInv' /\ KindStep
  OBVIOUS
<1>0. LeadInv /\ LeadInv' /\ TypeOK
  BY LeadNext DEF KindInv, LeadInv
<1>1. ASSUME NEW c \in Callers, Ask(c) \/ Step(c) \/ GiveUp(c)
      PROVE  OffersServed' /\ KindStep
  <2>1. CASE GiveBack(c)
    BY <2>1, SharedAnswer
  <2>2. CASE ~GiveBack(c)
    BY <1>0, <1>1, <2>2, OwnAnswer DEF KindInv, OffersServed, KindStep
  <2> QED
    BY <2>1, <2>2
<1>2. ASSUME NEW p \in Processes, LocalExpires(p) \/ Crash(p)
      PROVE  OffersServed' /\ KindStep
  BY <1>0, <1>2
     DEF KindInv, OffersServed, KindStep, LocalExpires, Crash, TypeOK, callers
<1>3. ASSUME \/ FlightExpires \/ CooldownExpires \/ SharedExpires
             \/ RedisFails \/ RedisReturns \/ UNCHANGED vars
      PROVE  OffersServed' /\ KindStep
  <2>1. UNCHANGED <<pc, result>>
    BY <1>3 DEF FlightExpires, CooldownExpires, SharedExpires, RedisFails, RedisReturns,
                callers, processes, keys, vars
  <2> QED
    BY <2>1 DEF KindInv, OffersServed, KindStep
<1> QED
  BY <1>0, <1>1, <1>2, <1>3 DEF Next, AllDone, KindInv

\* Who asked for the item receives an offer only from the leader, in its own
\* process, of a call for an offer.
THEOREM KindsAreKept == Spec => [][KindStep]_vars
<1>1. KindInv /\ [Next]_vars => [KindStep]_vars
  BY KindNext
<1>2. KindInv /\ [Next]_vars => KindInv'
  BY KindNext
<1> QED
  BY <1>1, <1>2, KindInit, PTL DEF Spec

\* What the cache has is neither fetched again nor refused, and no item is turned
\* into an offer for who asked for the item.
THEOREM CacheUsed == Spec => CacheIsUsed
<1>1. [NeedlessFetchStep]_vars /\ [NeedlessRefusalStep]_vars /\ [KindStep]_vars
        => [CachedStep]_vars
  BY DEF CachedStep
<1> QED
  BY <1>1, NoFetchNeedless, NoRefusalNeedless, KindsAreKept, PTL
     DEF NoNeedlessFetch, NoNeedlessRefusal, CacheIsUsed

=============================================================================
