-------------------------- MODULE ScrapeCoalescing --------------------------
(***************************************************************************)
(* Who fetches a product page, and who is served by somebody else's fetch. *)
(*                                                                         *)
(* Callers of several processes ask for one URL, as an offer, as a full    *)
(* item, or as an item with its gallery.  Three mechanisms of ScrapeGuard  *)
(* stand between them and the store: an in-process flight that shares one  *)
(* call among the threads of a process, a flight lock in Redis that makes  *)
(* the other processes poll the cache, and a cooldown, reserved before     *)
(* every fetch, per URL and per domain.  Without Redis a process falls     *)
(* back on its own cache and its own cooldown ("fail-open").               *)
(*                                                                         *)
(* An action is a step of one caller between two accesses to shared state, *)
(* the expiry of a key, or a fault.  Times are abstract.  By default the   *)
(* lock lives for 180 seconds, a wait for 120, the cooldown for 300 from   *)
(* its reservation, a result for 300 from the end of its fetch; what is    *)
(* assumed is that no fetch is as long as a cooldown.                      *)
(*                                                                         *)
(* The cooldown of the domain and the one a process keeps for itself are   *)
(* outcomes, not variables: other pages of the store share the first, and  *)
(* the second is asked only while Redis is down.                           *)
(***************************************************************************)
EXTENDS Integers, FiniteSets

CONSTANTS Offers,     \* calls of scrape_offer() for one URL
          Items,      \* calls of scrape() for it, without images
          Galleries,  \* calls of scrape() for it with include_images
          Processes,  \* each with the ScrapeGuard its threads share
          MaxFaults   \* bound: Redis failures, crashes, early expiries

Callers == Offers \cup Items \cup Galleries

NoCaller  == "no caller"
NoProcess == "no process"

ASSUME ScrapeAssumption ==
    /\ NoCaller \notin Callers
    /\ Offers \cap (Items \cup Galleries) = {} /\ Items \cap Galleries = {}
    /\ NoProcess \notin Processes
    /\ MaxFaults \in Nat

Value  == {"item", "gallery"}       \* what a fetch stores, and a cache holds
Answer == {"offer"} \cup Value      \* what a caller gets

VARIABLES pc,        \* where a caller is
          at,        \* its process
          result,    \* what it got
          leader,    \* the caller whose call a process has in flight
          memory,    \* the L1 cache of a process
          shared,    \* Redis: the cached result
          flight,    \* Redis: the token of the flight lock
          cooldown,  \* Redis: who reserved the URL
          redis,     \* up or down
          trouble,   \* what has gone wrong: nothing, a wait or a lock, or more
          faults

callers   == <<pc, at, result>>
processes == <<leader, memory>>
keys      == <<shared, flight, cooldown>>
vars      == <<callers, processes, keys, redis, trouble, faults>>

PC == {"start", "join", "share", "flight", "poll", "steal", "check", "reserve",
       "domain", "rollback", "retry", "fetch", "return", "done"}

TypeOK ==
    /\ pc \in [Callers -> PC]
    /\ at \in [Callers -> Processes \cup {NoProcess}]
    /\ result \in [Callers -> Answer \cup {"none", "refused", "failed"}]
    /\ leader \in [Processes -> Callers \cup {NoCaller}]
    /\ memory \in [Processes -> Value \cup {"none"}]
    /\ shared \in Value \cup {"none"}
    /\ flight \in Callers \cup {NoCaller}
    /\ cooldown \in Callers \cup {NoCaller}
    /\ redis \in {"up", "down"}
    /\ trouble \in {"none", "late", "failed"}
    /\ faults \in 0 .. MaxFaults

Init ==
    /\ pc = [c \in Callers |-> "start"]
    /\ at = [c \in Callers |-> NoProcess]
    /\ result = [c \in Callers |-> "none"]
    /\ leader = [p \in Processes |-> NoCaller]
    /\ memory = [p \in Processes |-> "none"]
    /\ shared = "none" /\ flight = NoCaller /\ cooldown = NoCaller
    /\ redis = "up" /\ trouble = "none" /\ faults = 0

-----------------------------------------------------------------------------
\* A lock expires under its holder, or a wait times out.
Late == trouble' = IF trouble = "none" THEN "late" ELSE trouble

Goto(c, label) == pc' = [pc EXCEPT ![c] = label]

Return(c, r) == result' = [result EXCEPT ![c] = r]

Up == redis = "up"

\* HybridCacheBackend.get: L1, then L2; a miss if Redis fails.
Lookup(p) == IF memory[p] # "none" \/ ~Up THEN memory[p] ELSE shared

\* What is found in Redis is kept in L1.
Keep(p) == memory' = [memory EXCEPT ![p] = Lookup(p)]

\* scrape, scrape_offer and _live: an item without gallery does not do for a
\* caller that wants one.
Fits(c, v) == v # "none" /\ (c \in Galleries => v = "gallery")

\* What a caller makes of a full item: an offer is projected from it, and images
\* nobody asked for are dropped.
As(c, v) == IF c \in Offers THEN "offer" ELSE IF c \in Items THEN "item" ELSE v

\* scrape and scrape_offer: the cache first.
Ask(c) ==
    /\ pc[c] = "start"
    /\ \E p \in Processes :
         /\ at' = [at EXCEPT ![c] = p]
         /\ Keep(p)
         /\ IF Fits(c, Lookup(p))
            THEN Return(c, As(c, Lookup(p))) /\ Goto(c, "done")
            ELSE UNCHANGED result /\ Goto(c, "join")
    /\ UNCHANGED <<leader, keys, redis, trouble, faults>>

\* SingleFlight.do: the key is the URL, whatever is asked for.
Join(c) ==
    /\ pc[c] = "join"
    /\ IF leader[at[c]] = NoCaller
       THEN leader' = [leader EXCEPT ![at[c]] = c] /\ Goto(c, "flight")
       ELSE UNCHANGED leader /\ Goto(c, "share")
    /\ UNCHANGED <<at, result, memory, keys, redis, trouble, faults>>

\* DistributedSingleFlight.try_acquire; without Redis the call is made at once.
TryFlight(c) ==
    /\ pc[c] \in {"flight", "steal"}
    /\ \/ ~Up /\ Goto(c, "check") /\ UNCHANGED flight
       \/ Up /\ flight = NoCaller /\ flight' = c /\ Goto(c, "check")
       \/ Up /\ flight # NoCaller /\ Goto(c, "poll") /\ UNCHANGED flight
    /\ UNCHANGED <<at, result, processes, shared, cooldown, redis, trouble, faults>>

\* A follower takes what the cache has; its gallery is not looked for.
Poll(c) ==
    /\ pc[c] = "poll"
    /\ Keep(at[c])
    /\ LET v == Lookup(at[c])
       IN IF v # "none"
          THEN Return(c, IF c \in Offers THEN "offer" ELSE v) /\ Goto(c, "return")
          ELSE UNCHANGED result /\ Goto(c, "steal")
    /\ UNCHANGED <<at, leader, keys, redis, trouble, faults>>

\* wait_seconds have passed: the call is made without the lock.
GiveUp(c) ==
    /\ pc[c] = "poll"
    /\ Late
    /\ Goto(c, "check")
    /\ UNCHANGED <<at, result, processes, keys, redis, faults>>

\* Mutant: the cache is not looked at again.
CheckNothing(c) ==
    /\ pc[c] = "check"
    /\ Goto(c, "reserve")
    /\ UNCHANGED <<at, result, processes, keys, redis, trouble, faults>>

\* _live looks at the cache again.
Check(c) ==
    /\ pc[c] = "check"
    /\ Keep(at[c])
    /\ IF Fits(c, Lookup(at[c]))
       THEN Return(c, As(c, Lookup(at[c]))) /\ Goto(c, "return")
       ELSE UNCHANGED result /\ Goto(c, "reserve")
    /\ UNCHANGED <<at, leader, keys, redis, trouble, faults>>

Refuse(c) == Return(c, "refused") /\ Goto(c, "return")

GoFetch(c) == Goto(c, "fetch") /\ UNCHANGED result

\* _acquire_local: the process has its own record of the cooldowns of the URL and
\* of the domain; either may have been set by this process, and have expired.
AcquireLocal(c) == GoFetch(c) \/ Refuse(c)

AskRetryAfter(c) == Goto(c, "retry") /\ UNCHANGED result

\* Mutant: SET without NX.
ReserveAlways(c) ==
    /\ pc[c] = "reserve"
    /\ \/ ~Up /\ AcquireLocal(c) /\ UNCHANGED cooldown
       \/ Up /\ cooldown' = c /\ Goto(c, "domain") /\ UNCHANGED result
    /\ UNCHANGED <<at, processes, shared, flight, redis, trouble, faults>>

\* try_acquire, SET NX of the URL.
Reserve(c) ==
    /\ pc[c] = "reserve"
    /\ \/ ~Up /\ AcquireLocal(c) /\ UNCHANGED cooldown
       \/ Up /\ cooldown # NoCaller /\ AskRetryAfter(c) /\ UNCHANGED cooldown
       \/ /\ Up /\ cooldown = NoCaller
          /\ cooldown' = c
          /\ Goto(c, "domain")
          /\ UNCHANGED result
    /\ UNCHANGED <<at, processes, shared, flight, redis, trouble, faults>>

\* try_acquire, SET NX of the domain, which any other page of the store may have
\* reserved.
ReserveDomain(c) ==
    /\ pc[c] = "domain"
    /\ \/ ~Up /\ AcquireLocal(c)
       \/ Up /\ GoFetch(c)
       \/ Up /\ Goto(c, "rollback") /\ UNCHANGED result
    /\ UNCHANGED <<at, processes, keys, redis, trouble, faults>>

\* Mutant: the URL is not given back.
RollbackNothing(c) ==
    /\ pc[c] = "rollback"
    /\ AskRetryAfter(c)
    /\ UNCHANGED <<at, processes, keys, redis, trouble, faults>>

\* try_acquire, DEL of the URL: it does not ask whose reservation it is.
Rollback(c) ==
    /\ pc[c] = "rollback"
    /\ \/ ~Up /\ AcquireLocal(c) /\ UNCHANGED cooldown
       \/ Up /\ cooldown' = NoCaller /\ AskRetryAfter(c)
    /\ UNCHANGED <<at, processes, shared, flight, redis, trouble, faults>>

\* PTTL, the seconds a refused caller has to wait; only their answer refuses it.
RetryAfter(c) ==
    /\ pc[c] = "retry"
    /\ IF Up THEN Refuse(c) ELSE AcquireLocal(c)
    /\ UNCHANGED <<at, processes, keys, redis, trouble, faults>>

\* store_success: in L1, and in Redis if it answers.
Store(p, v) ==
    /\ memory' = [memory EXCEPT ![p] = v]
    /\ shared' = IF Up THEN v ELSE shared

\* A gallery may be asked for and not be found.
Parsed(c) == IF c \in Galleries THEN Value ELSE {"item"}

\* Mutant: scrape_offer stores the offer, not the item it was parsed with.
SucceedOffer(c) ==
    /\ pc[c] = "fetch"
    /\ \E v \in Parsed(c) : Store(at[c], As(c, v)) /\ Return(c, As(c, v))
    /\ Goto(c, "return")
    /\ UNCHANGED <<at, leader, flight, cooldown, redis, trouble, faults>>

\* The page is fetched and parsed; the full item is stored, whatever was asked.
Succeed(c) ==
    /\ pc[c] = "fetch"
    /\ \E v \in Parsed(c) : Store(at[c], v) /\ Return(c, As(c, v))
    /\ Goto(c, "return")
    /\ UNCHANGED <<at, leader, flight, cooldown, redis, trouble, faults>>

Fail(c) ==
    /\ pc[c] = "fetch"
    /\ Return(c, "failed") /\ Goto(c, "return")
    /\ UNCHANGED <<at, processes, keys, redis, trouble, faults>>

Sharing(p) == {d \in Callers : at[d] = p /\ pc[d] = "share"}

\* The lock is given back by compare-and-delete, if Redis answers; then, in the
\* process alone, the future is set and forgotten, which serves the callers D.
ReturnTo(c, D) ==
    /\ pc[c] = "return"
    /\ flight' = IF Up /\ flight = c THEN NoCaller ELSE flight
    /\ leader' = [leader EXCEPT ![at[c]] = NoCaller]
    /\ result' = [d \in Callers |-> IF d \in D THEN result[c] ELSE result[d]]
    /\ pc' = [d \in Callers |-> IF d \in D \cup {c} THEN "done" ELSE pc[d]]
    /\ UNCHANGED <<at, memory, shared, cooldown, redis, trouble, faults>>

\* Mutant: an exception is not set on the future.
ReturnResults(c) ==
    ReturnTo(c, IF result[c] \in Answer THEN Sharing(at[c]) ELSE {})

GiveBack(c) == ReturnTo(c, Sharing(at[c]))

-----------------------------------------------------------------------------
(* Time, other traffic and faults. *)

\* From the answer of the cache to the end of the fetch.
Reserving == {"reserve", "domain", "rollback", "retry", "fetch"}

\* The lock expires: an abandoned one, or that of a call longer than its TTL.
FlightExpires ==
    /\ flight # NoCaller
    /\ flight' = NoCaller
    /\ IF pc[flight] \in Reserving \cup {"check", "return"} THEN Late
                                                           ELSE UNCHANGED trouble
    /\ UNCHANGED <<callers, processes, shared, cooldown, redis, faults>>

\* Whoever has reserved the URL has stored a result.
Settled == cooldown # NoCaller /\ result[cooldown] \in Answer

\* What is older than the reservation has expired.
OnlyOurs ==
    \A v \in {shared} \cup {memory[p] : p \in Processes} :
       v \in {"none"} \cup (IF Settled THEN {shared} ELSE {})

\* A cooldown is longer than a fetch, and ends after the results that were there
\* when it began.
CooldownExpires ==
    /\ cooldown # NoCaller
    /\ \A c \in Callers : pc[c] \notin Reserving
    /\ trouble # "failed" => OnlyOurs
    /\ cooldown' = NoCaller
    /\ UNCHANGED <<callers, processes, shared, flight, redis, trouble, faults>>

\* A result is stored after its URL was reserved, and kept as long.
SharedExpires ==
    /\ shared # "none" /\ ~Settled
    /\ shared' = "none"
    /\ UNCHANGED <<callers, processes, flight, cooldown, redis, trouble, faults>>

\* An entry of L1 has the time that is left in Redis, rounded.
LocalExpires(p) ==
    /\ memory[p] # "none"
    /\ memory' = [memory EXCEPT ![p] = "none"]
    /\ UNCHANGED <<callers, leader, keys, redis, trouble, faults>>

Fault == faults < MaxFaults /\ faults' = faults + 1 /\ trouble' = "failed"

RedisFails ==
    /\ Fault
    /\ Up /\ redis' = "down"
    /\ UNCHANGED <<callers, processes, keys>>

\* Redis comes back, with its keys or, restarted, without any.
RedisReturns ==
    /\ ~Up /\ redis' = "up"
    /\ \/ UNCHANGED keys
       \/ shared' = "none" /\ flight' = NoCaller /\ cooldown' = NoCaller
    /\ UNCHANGED <<callers, processes, trouble, faults>>

Crash(p) ==
    LET D == {c \in Callers : at[c] = p /\ pc[c] # "done"}
    IN  /\ Fault
        /\ D # {}
        /\ pc' = [c \in Callers |-> IF c \in D THEN "done" ELSE pc[c]]
        /\ result' = [c \in Callers |-> IF c \in D THEN "failed" ELSE result[c]]
        /\ leader' = [leader EXCEPT ![p] = NoCaller]
        /\ memory' = [memory EXCEPT ![p] = "none"]
        /\ UNCHANGED <<at, keys, redis>>

-----------------------------------------------------------------------------
Fetch(c) == Succeed(c) \/ Fail(c)

Step(c) ==
    \/ Join(c) \/ TryFlight(c) \/ Poll(c) \/ Check(c) \/ Reserve(c)
    \/ ReserveDomain(c) \/ Rollback(c) \/ RetryAfter(c) \/ Fetch(c) \/ GiveBack(c)

AllDone == (\A c \in Callers : pc[c] = "done") /\ UNCHANGED vars

Next ==
    \/ \E c \in Callers : Ask(c) \/ Step(c) \/ GiveUp(c)
    \/ \E p \in Processes : LocalExpires(p) \/ Crash(p)
    \/ FlightExpires \/ CooldownExpires \/ SharedExpires
    \/ RedisFails \/ RedisReturns
    \/ AllDone

Spec == Init /\ [][Next]_vars

\* Threads run, fetches end, the lock expires; no wait is assumed to time out.
FairSpec ==
    /\ Spec
    /\ \A c \in Callers : WF_vars(Step(c))
    /\ WF_vars(FlightExpires)

-----------------------------------------------------------------------------
(* Safety. *)

\* Two calls fetch the page at once only from two processes, and only if Redis
\* or a process has failed.  The flight alone does not give this: its lock
\* expires and its followers give up; the cooldown must hold.
FetchesAreExclusive ==
    \A c, d \in Callers :
       pc[c] = "fetch" /\ pc[d] = "fetch" /\ c # d => trouble = "failed" /\ at[c] # at[d]

NeedlessFetchStep ==
    trouble # "failed" =>
       \A c \in Callers :
          pc[c] # "fetch" /\ pc'[c] = "fetch" =>
             ~Fits(c, Lookup(at[c])) /\ ~Fits(c, shared)

\* No page is fetched while the cache has what the call needs, however long ago
\* the call first looked, nor while Redis has it behind an entry of L1.
NoNeedlessFetch == [][NeedlessFetchStep]_vars

NeedlessRefusalStep ==
    trouble = "none" =>
       \A c \in Callers \ Galleries :
          pc[c] \in Reserving /\ result'[c] = "refused" => ~Fits(c, Lookup(at[c]))

\* "Reuses the result instead of hitting DUPLICATE_REQUEST": no call that does
\* without images is refused while the cache has an item, unless a lock or a wait
\* ran out of time.  (A call for images may be: L1 may hide the richer item.)
NoNeedlessRefusal == [][NeedlessRefusalStep]_vars

\* Who asked for the item is answered with an offer only as the follower of a call
\* for an offer in its own process, never by the cache or by its own fetch.
KindStep ==
    \A c \in Callers \ Offers :
       result[c] # "offer" /\ result'[c] = "offer" =>
          pc[c] = "share" /\ leader[at[c]] \in Offers

CachedStep == NeedlessFetchStep /\ NeedlessRefusalStep /\ KindStep

\* What the cache has is neither fetched again nor refused, and no item is turned
\* into an offer for who asked for the item.
CacheIsUsed == [][CachedStep]_vars

\* "A blocked domain burst does not strand the URL cooldown": a call that was
\* refused leaves no reservation behind.
NoStrandedCooldown ==
    trouble # "failed" => \A c \in Callers : cooldown = c => result[c] # "refused"

\* The cooldown lets one call through to the store, and stands only for a call
\* that it let through.
CooldownsGuard == FetchesAreExclusive /\ NoStrandedCooldown

\* Every call returns, without the help of the wait's timeout: the future is
\* set, the lock given back or expired, and Redis may fail at any step.
EveryCallReturns == <>[](\A c \in Callers : pc[c] \in {"start", "done"})

-----------------------------------------------------------------------------
(* What the documentation says and the code does not do. *)

\* "scrape(...) -> ProductPriceItem": a caller that asks for the full item does
\* not receive an offer.
AnswersFit ==
    \A c \in Callers : result[c] = "offer" => c \in Offers

=============================================================================
