-------------------------- MODULE ProfileOwnership --------------------------
(***************************************************************************)
(* Who may have a browser open on one Firefox profile directory.           *)
(*                                                                         *)
(* The API, the monitor and the match runner are processes that share the  *)
(* profile.  Each has a fetcher: one thread that owns Playwright and does  *)
(* one operation at a time, one warm browser session that outlives the     *)
(* fetch that launched it, and one scheduler slot.  Between processes the  *)
(* profile is protected by a Redis key with a token and a TTL; the lease   *)
(* of the fetch that launched the session is handed over to the session,   *)
(* which renews it until it is closed (ADR-0044).                          *)
(*                                                                         *)
(* A fetch first asks, as an operation of its own, whether a warm session  *)
(* can be reused, and takes a lease only if not; its browser work is a     *)
(* later operation.  An action is an operation of the owner thread or one  *)
(* end of a long one, a step of the scheduler or of the lock, or a fault.  *)
(*                                                                         *)
(* The profile lock is RedisProfileLock.  The token of a lease is the      *)
(* fetch that took it.                                                     *)
(***************************************************************************)
EXTENDS Integers, FiniteSets

CONSTANTS Fetchers,   \* CamoufoxHtmlFetcher objects on one profile directory
          Fetches,    \* calls of fetch() or browser_post()
          MaxFaults   \* bound: crashes, Redis failures, early TTL expiries

NoFetch   == "no fetch"
NoFetcher == "no fetcher"

ASSUME FetchAssumption ==
    /\ NoFetch \notin Fetches
    /\ NoFetcher \notin Fetchers
    /\ MaxFaults \in Nat

VARIABLES pc,        \* where a fetch is
          at,        \* the fetcher it was called on
          told,      \* the session a fetch was told to reuse, by its lease
          busy,      \* the fetch whose operation the owner thread runs
          browser,   \* _warm_session is not None: a browser has the profile open
          warm,      \* slot_lease of the warm session
          slot,      \* the fetch that has the scheduler slot (capacity 1)
          lock,      \* the token the Redis key holds
          failopen,  \* leases granted without Redis
          lost,      \* leases whose renewal has failed (_lost_event)
          faults

session == <<browser, warm>>
redis   == <<lock, failopen, lost>>
vars    == <<pc, at, told, busy, session, slot, redis, faults>>

\* "reuse": told there is a session; "ready": has a lease; "unlock": releases
\* its lease, "release": only its slot, the session has kept the lease.
PC == {"start", "reuse", "slot", "lock", "ready", "run", "unlock", "release",
       "done"}

TypeOK ==
    /\ pc \in [Fetches -> PC]
    /\ at \in [Fetches -> Fetchers \cup {NoFetcher}]
    /\ told \in [Fetches -> Fetches \cup {NoFetch}]
    /\ busy \in [Fetchers -> Fetches \cup {NoFetch}]
    /\ browser \in [Fetchers -> BOOLEAN]
    /\ warm \in [Fetchers -> Fetches \cup {NoFetch}]
    /\ slot \in [Fetchers -> Fetches \cup {NoFetch}]
    /\ lock \in Fetches \cup {NoFetch}
    /\ failopen \in SUBSET Fetches
    /\ lost \in SUBSET Fetches
    /\ faults \in 0 .. MaxFaults

Init ==
    /\ pc       = [f \in Fetches |-> "start"]
    /\ at       = [f \in Fetches |-> NoFetcher]
    /\ told     = [f \in Fetches |-> NoFetch]
    /\ busy     = [o \in Fetchers |-> NoFetch]
    /\ browser  = [o \in Fetchers |-> FALSE]
    /\ warm     = [o \in Fetchers |-> NoFetch]
    /\ slot     = [o \in Fetchers |-> NoFetch]
    /\ lock     = NoFetch
    /\ failopen = {}
    /\ lost     = {}
    /\ faults   = 0

-----------------------------------------------------------------------------
Goto(f, label) == pc' = [pc EXCEPT ![f] = label]

Fault == faults < MaxFaults /\ faults' = faults + 1

\* A fetch called with a lease has the slot from there to the end.
Leased(f) == at[f] \in Fetchers /\ slot[at[f]] = f

\* Mutant: DEL without comparing the token.
Deleted(f) == IF f = NoFetch THEN lock ELSE NoFetch

\* _RELEASE_LUA: delete the key if it holds the token.
Freed(f) == IF lock = f THEN NoFetch ELSE lock

\* RedisProfileLock.release: without Redis the key is left to its TTL.
GiveUp(f) ==
    \/ lock' = Freed(f) /\ UNCHANGED faults
    \/ Fault /\ f \in Fetches /\ lock = f /\ UNCHANGED lock

\* _close_warm_session_unlocked: the browser first, then the lease of the
\* session, if it has one.
CloseSession(o) ==
    /\ browser' = [browser EXCEPT ![o] = FALSE]
    /\ warm' = [warm EXCEPT ![o] = NoFetch]
    /\ GiveUp(warm[o])
    /\ UNCHANGED <<failopen, lost>>

\* _has_reusable_warm_session, on the owner thread.  A session whose lease is
\* lost, or that another URL or the fetch limit makes unfit, is closed.
Check(f, o) ==
    /\ pc[f] = "start" /\ busy[o] = NoFetch
    /\ at' = [at EXCEPT ![f] = o]
    /\ \/ /\ browser[o] /\ warm[o] \notin lost
          /\ told' = [told EXCEPT ![f] = warm[o]]
          /\ Goto(f, "reuse")
          /\ UNCHANGED <<session, redis, faults>>
       \/ CloseSession(o) /\ Goto(f, "slot") /\ UNCHANGED told
    /\ UNCHANGED <<busy, slot>>

TakeSlot(f) ==
    /\ pc[f] = "slot" /\ slot[at[f]] = NoFetch
    /\ slot' = [slot EXCEPT ![at[f]] = f]
    /\ Goto(f, "lock")
    /\ UNCHANGED <<at, told, busy, session, redis, faults>>

\* The queue is full or the wait too long.
SlotRefused(f) ==
    /\ pc[f] = "slot" /\ slot[at[f]] # NoFetch
    /\ Goto(f, "done")
    /\ UNCHANGED <<at, told, busy, session, slot, redis, faults>>

\* Mutant: the token names the process, not the lease.
TakeLockAsProcess(f) ==
    /\ pc[f] = "lock" /\ lock = NoFetch
    /\ lock' = at[f]
    /\ Goto(f, "ready")
    /\ UNCHANGED <<at, told, busy, session, slot, failopen, lost, faults>>

\* SET NX succeeds.
TakeLock(f) ==
    /\ pc[f] = "lock" /\ lock = NoFetch
    /\ lock' = f
    /\ Goto(f, "ready")
    /\ UNCHANGED <<at, told, busy, session, slot, failopen, lost, faults>>

\* Redis is unavailable: the lease is granted all the same.
FailOpen(f) ==
    /\ Fault
    /\ pc[f] = "lock"
    /\ failopen' = failopen \cup {f}
    /\ Goto(f, "ready")
    /\ UNCHANGED <<at, told, busy, session, slot, lock, lost>>

\* Mutant: the slot is not returned when the profile lock times out.
LockTimeoutKeeping(f) ==
    /\ pc[f] = "lock" /\ lock # NoFetch
    /\ Goto(f, "done")
    /\ UNCHANGED <<at, told, busy, session, slot, redis, faults>>

LockTimeout(f) ==
    /\ pc[f] = "lock" /\ lock # NoFetch
    /\ slot' = [slot EXCEPT ![at[f]] = NoFetch]
    /\ Goto(f, "done")
    /\ UNCHANGED <<at, told, busy, session, redis, faults>>

\* The session is as fit as it was when f asked for it, if it still is that one.
AsTold(f, o) == told[f] # NoFetch /\ warm[o] = told[f]

\* The operation starts with _acquire_browser: a fit session is used, an unfit
\* one closed; without one a browser is launched, which may fail.
Begin(f) ==
    /\ pc[f] \in {"reuse", "ready"}
    /\ \E o \in Fetchers :
         /\ o = at[f] /\ busy[o] = NoFetch
         /\ busy' = [busy EXCEPT ![o] = f]
         /\ \/ browser[o] /\ UNCHANGED <<session, lock, faults>>
            \/ \E launched \in BOOLEAN :
                 /\ ~(browser[o] /\ AsTold(f, o))
                 /\ browser' = [browser EXCEPT ![o] = launched]
                 /\ warm' = [warm EXCEPT ![o] = NoFetch]
                 /\ GiveUp(warm[o])
    /\ Goto(f, "run")
    /\ UNCHANGED <<at, told, slot, failopen, lost>>

\* Mutant: a browser launched without a lease stays open.
EndKeeping(f) ==
    /\ pc[f] = "run"
    /\ \E o \in Fetchers :
         /\ o = at[f]
         /\ busy' = [busy EXCEPT ![o] = NoFetch]
         /\ IF slot[o] = f /\ f \notin failopen
            THEN warm' = [warm EXCEPT ![o] = IF browser[o] THEN f ELSE NoFetch]
            ELSE UNCHANGED warm
    /\ Goto(f, IF Leased(f) THEN "release" ELSE "done")
    /\ UNCHANGED <<at, told, browser, slot, redis, faults>>

\* Mutant: the fetch releases the lease although the session has kept it.
RetainAndUnlock(f, o) ==
    /\ browser[o] /\ Leased(f) /\ f \notin failopen
    /\ warm' = [warm EXCEPT ![o] = f]
    /\ Goto(f, "unlock")
    /\ UNCHANGED <<browser, redis, faults>>

\* The session takes over the lease of the fetch.
Retain(f, o) ==
    /\ browser[o] /\ Leased(f) /\ f \notin failopen
    /\ warm' = [warm EXCEPT ![o] = f]
    /\ Goto(f, "release")
    /\ UNCHANGED <<browser, redis, faults>>

\* The operation ends, well or with an error, some of which close the session.
\* What remains is handed the lease, or closed if there is none to hand over.
End(f) ==
    /\ pc[f] = "run"
    /\ \E o \in Fetchers :
         /\ o = at[f]
         /\ busy' = [busy EXCEPT ![o] = NoFetch]
         /\ \/ Retain(f, o)
            \/ CloseSession(o) /\ Goto(f, IF Leased(f) THEN "unlock" ELSE "done")
    /\ UNCHANGED <<at, told, slot>>

\* BrowserScheduler.release.
Release(f) ==
    /\ pc[f] \in {"unlock", "release"}
    /\ IF pc[f] = "unlock" THEN GiveUp(f) ELSE UNCHANGED <<lock, faults>>
    /\ slot' = [slot EXCEPT ![at[f]] = NoFetch]
    /\ Goto(f, "done")
    /\ UNCHANGED <<at, told, busy, session, failopen, lost>>

\* Mutant: a session that holds a lease never expires.
ExpireUnleased(o) == browser[o] /\ warm[o] = NoFetch

\* The idle timer is armed when the session takes over a lease.
IdleTooLong(o) == browser[o] /\ warm[o] # NoFetch

\* _expire_warm_session.  A fetch that was told to reuse the session has touched
\* it and is in the owner's queue long before the timer fires.
Expire(o) ==
    /\ busy[o] = NoFetch /\ IdleTooLong(o)
    /\ \A f \in Fetches : ~(at[f] = o /\ pc[f] = "reuse")
    /\ CloseSession(o)
    /\ UNCHANGED <<pc, at, told, busy, slot>>

\* _renew_loop finds another token, or no key.
RenewLost(o) ==
    /\ warm[o] # NoFetch /\ lock # warm[o]
    /\ lost' = lost \cup {warm[o]}
    /\ UNCHANGED <<pc, at, told, busy, session, slot, lock, failopen, faults>>

\* _renew_loop cannot reach Redis and stops.
RenewFails(o) ==
    /\ Fault
    /\ warm[o] # NoFetch /\ warm[o] \notin lost
    /\ lost' = lost \cup {warm[o]}
    /\ UNCHANGED <<pc, at, told, busy, session, slot, lock, failopen>>

\* Whose lease it is: the fetch's, until the session has taken it over.
Holding(f) ==
    \/ pc[f] \in {"ready", "unlock"}
    \/ pc[f] = "run" /\ Leased(f)
    \/ \E o \in Fetchers : warm[o] = f

\* The TTL is longer than an operation, and renewed after it.
Attended(f) == Holding(f) /\ f \notin lost

KeyExpires ==
    /\ lock # NoFetch /\ ~Attended(lock)
    /\ lock' = NoFetch
    /\ UNCHANGED <<pc, at, told, busy, session, slot, failopen, lost, faults>>

\* A fetch longer than the TTL, a paused process, a Redis that lost its data.
KeyExpiresEarly ==
    /\ Fault
    /\ lock # NoFetch /\ Attended(lock)
    /\ lock' = NoFetch
    /\ UNCHANGED <<pc, at, told, busy, session, slot, failopen, lost>>

\* The process of o dies, its browser with it, and is started again.
Crash(o) ==
    /\ Fault
    /\ browser[o] \/ \E f \in Fetches : at[f] = o /\ pc[f] # "done"
    /\ pc' = [f \in Fetches |-> IF at[f] = o THEN "done" ELSE pc[f]]
    /\ busy' = [busy EXCEPT ![o] = NoFetch]
    /\ browser' = [browser EXCEPT ![o] = FALSE]
    /\ warm' = [warm EXCEPT ![o] = NoFetch]
    /\ slot' = [slot EXCEPT ![o] = NoFetch]
    /\ UNCHANGED <<at, told, redis>>

Step(f) == TakeSlot(f) \/ TakeLock(f) \/ Begin(f) \/ End(f) \/ Release(f)

AllDone == (\A f \in Fetches : pc[f] = "done") /\ UNCHANGED vars

Next ==
    \/ \E f \in Fetches : \/ \E o \in Fetchers : Check(f, o)
                          \/ Step(f) \/ SlotRefused(f) \/ FailOpen(f) \/ LockTimeout(f)
    \/ \E o \in Fetchers : Expire(o) \/ RenewLost(o) \/ RenewFails(o) \/ Crash(o)
    \/ KeyExpires \/ KeyExpiresEarly
    \/ AllDone

Spec == Init /\ [][Next]_vars

\* Threads run, timers fire and keys expire; no timeout is relied on to end a
\* wait for the slot or for the lock.
FairSpec ==
    /\ Spec
    /\ \A f \in Fetches : WF_vars(Step(f))
    /\ \A o \in Fetchers : WF_vars(Expire(o))
    /\ WF_vars(KeyExpires)

-----------------------------------------------------------------------------
(* Safety. *)

\* Without faults the Redis key names exactly the lease somebody holds: nobody
\* uses a profile lease that Redis has given away, and no key outlives its
\* lease, through all hand-overs from fetch to session.
LockNamesTheHolder ==
    faults = 0 => \A f \in Fetches : Holding(f) <=> lock = f

\* Between operations a browser is open only under a lease that is renewed: "do
\* not leave a persistent browser on an unprotected profile".
IdleBrowserIsLeased ==
    \A o \in Fetchers :
       browser[o] /\ busy[o] = NoFetch => warm[o] \in Fetches \ failopen

\* The slot is of a fetch that still uses it, and comes back exactly once.
SlotHasItsUser ==
    \A o \in Fetchers, f \in Fetches :
       slot[o] = f <=>
          /\ at[f] = o
          /\ \/ pc[f] \in {"lock", "ready", "unlock", "release"}
             \/ pc[f] = "run" /\ Leased(f)

\* The records that the paths through fetch must keep in step: the Redis key, the
\* lease of the warm session, and the slot of the scheduler.
OwnersAgree == LockNamesTheHolder /\ IdleBrowserIsLeased /\ SlotHasItsUser

\* Two fetchers have the profile open, without faults, only if one of them has
\* launched its browser in a fetch that took no lease.
ExclusiveUnderLease ==
    faults = 0 =>
       \A o, p \in Fetchers : o # p /\ browser[o] /\ browser[p] =>
          \E x \in {o, p} : warm[x] = NoFetch /\ ~Leased(busy[x])

\* Whatever faults: the key is taken from a lease only by its holder giving it
\* up, unless renewal had failed or the key expired early.
NotEvictedStep ==
    \A f \in Fetches :
       lock = f /\ lock' # f /\ Attended(f) =>
          ~Holding(f)' \/ faults' # faults
NotEvicted == [][NotEvictedStep]_vars

\* The lease of a fetch, wherever it is kept.
leaseBar == [f \in Fetches |-> IF Holding(f) THEN "held"
                              ELSE IF pc[f] \in {"release", "done"} THEN "over" ELSE "new"]

Lease == INSTANCE ProfileLease WITH lease <- leaseBar, key <- lock, exposed <- lost

\* The paths on which a lease passes from fetch to session and back to Redis,
\* with whatever fails between, are taking and giving up one lease: none is held
\* twice or given up twice, and none takes the key from another.
ImplementsLease == Lease!Spec

\* Every fetch ends although nobody gives up waiting: an idle session is closed
\* and its lease passes on, also after a crash.
EveryFetchEnds == \A f \in Fetches : pc[f] # "start" ~> pc[f] = "done"

-----------------------------------------------------------------------------
(* What the documentation says and the code does not do. *)

\* "This prevents two processes from simultaneously opening the same Firefox
\* profile."
ProfileIsExclusive ==
    faults = 0 =>
       \A o, p \in Fetchers : browser[o] /\ browser[p] => o = p

=============================================================================
