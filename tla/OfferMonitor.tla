---------------------------- MODULE OfferMonitor ----------------------------
(***************************************************************************)
(* When the offer of a listing is looked at again, and what becomes of its *)
(* promotion.                                                              *)
(*                                                                         *)
(* Sweeps of the monitor (a worker process, or an administrator's request) *)
(* claim the listings that are due, look at the page of each and commit    *)
(* once, at the end of the batch.  Refreshes (a user's request, or a match *)
(* run) do the same to listings they choose.  PostgreSQL keeps the rows:   *)
(* a sweep takes those it can lock, a refresh waits for a lock, and locks  *)
(* are held until the transaction ends.                                    *)
(*                                                                         *)
(* A transaction works on objects of its session, not on rows.  A refresh  *)
(* reads its listings before it locks them, and locking does not read them *)
(* again; what it writes are the columns it changed.  No column that       *)
(* matters here is assigned twice by a refresh, so all its writes are in   *)
(* Commit.                                                                 *)
(*                                                                         *)
(* Times are numbers, the clock ticks at any moment, and Never stands for  *)
(* NULL: a time that does not come.                                        *)
(***************************************************************************)
EXTENDS Integers, Sequences, FiniteSets

CONSTANTS Listings,
          Sweepers,    \* processes that sweep, again and again
          Refreshes,   \* calls of refresh(), each made once
          Requested,   \* the sets of listings that they ask for
          Batch,       \* offer_monitor_batch_size
          Regular,     \* offer_refresh_interval_hours
          Jitter,      \* offer_monitor_jitter_seconds
          RetryBase,   \* offer_monitor_retry_base_seconds
          RetryMax,    \* offer_monitor_retry_max_seconds
          Grace,       \* offer_promotion_grace_seconds
          Lease,       \* offer_monitor_lease_seconds
          Expiries,    \* when the promotions that the pages announce end
          Never,
          MaxTime,     \* bound: the clock
          MaxFaults    \* bound: crashes and database errors

Procs == Sweepers \cup Refreshes

NoProc    == "no process"
NoListing == "no listing"

ASSUME MonitorAssumption ==
    /\ Sweepers \cap Refreshes = {} /\ NoProc \notin Procs
    /\ NoListing \notin Listings /\ Requested \subseteq SUBSET Listings
    /\ {Batch, Regular, RetryBase, RetryMax, Lease} \subseteq Nat \ {0}
    /\ RetryBase <= RetryMax
    /\ {Jitter, Grace, Never, MaxTime, MaxFaults} \subseteq Nat
    /\ Expiries \subseteq 1 .. Never
    /\ MaxTime + Regular + Jitter < Never /\ MaxTime + RetryMax < Never
    /\ MaxTime + Lease < Never

Time == 0 .. Never

\* The columns of a store listing.
Row == [status  : {"active", "removed"},
        watch   : {"on", "off"},                   \* monitoring_enabled
        promo   : {"none", "active", "expired"},
        expires : Time,                            \* promotion_expires_at
        next    : Time,                            \* next_check_at
        fails   : Nat,                             \* consecutive_failures
        worker  : Procs \cup {NoProc},             \* check_worker_id
        lease   : Time]                            \* check_claim_expires_at

VARIABLES now,
          row,      \* the committed listings
          lock,     \* the transaction that has the row locked
          pc,       \* where a process is
          at,       \* the listing it waits for or looks at
          batch,    \* the listings of its transaction
          todo,     \* those it has not come to yet
          moment,   \* when a sweep began
          read,     \* a listing as the transaction read it
          copy,     \* the listing in the session
          news,     \* the promotion events it has recorded
          faults

process == <<pc, at, batch, todo, moment, read, copy, news>>
vars    == <<now, row, lock, process, faults>>

New == [status |-> "active", watch |-> "on", promo |-> "none", expires |-> Never,
        next |-> 0, fails |-> 0, worker |-> NoProc, lease |-> Never]

TypeOK ==
    /\ now \in 0 .. MaxTime
    /\ row \in [Listings -> Row]
    /\ lock \in [Listings -> Procs \cup {NoProc}]
    /\ pc \in [Procs -> {"idle", "next", "wait", "crawl", "done"}]
    /\ at \in [Procs -> Listings \cup {NoListing}]
    /\ batch \in [Procs -> SUBSET Listings]
    /\ todo \in [Procs -> SUBSET Listings]
    /\ moment \in [Procs -> 0 .. MaxTime]
    /\ read \in [Procs -> [Listings -> Row]]
    /\ copy \in [Procs -> [Listings -> Row]]
    /\ news \in [Procs -> [Listings -> Seq({"activated", "expired"})]]
    /\ faults \in 0 .. MaxFaults

\* Listings are created due at once.
Init ==
    /\ now = 0
    /\ row = [l \in Listings |-> New]
    /\ lock = [l \in Listings |-> NoProc]
    /\ pc = [p \in Procs |-> "idle"]
    /\ at = [p \in Procs |-> NoListing]
    /\ batch = [p \in Procs |-> {}]
    /\ todo = [p \in Procs |-> {}]
    /\ moment = [p \in Procs |-> 0]
    /\ read = [p \in Procs |-> [l \in Listings |-> New]]
    /\ copy = [p \in Procs |-> [l \in Listings |-> New]]
    /\ news = [p \in Procs |-> [l \in Listings |-> <<>>]]
    /\ faults = 0

-----------------------------------------------------------------------------
(* What a check does to a listing.                                         *)

Least(a, b) == IF a <= b THEN a ELSE b

Released(r) == [r EXCEPT !.worker = NoProc, !.lease = Never]

PromoDue(r, t) == r.promo = "active" /\ r.expires <= t

Due(r, t) ==
    /\ r.watch = "on" /\ r.status = "active"
    /\ r.lease = Never \/ r.lease <= t
    /\ r.next <= t \/ PromoDue(r, t)

\* Mutant: the previous status is not asked for.
NewsAlways(old, new) ==
    CASE new.promo = "active"  -> <<"activated">>
      [] new.promo = "expired" -> <<"expired">>
      [] OTHER -> <<>>

\* The event that a change of the promotion's status records.
News(old, new) ==
    CASE old.promo # "active" /\ new.promo = "active"  -> <<"activated">>
      [] old.promo = "active" /\ new.promo = "expired" -> <<"expired">>
      [] OTHER -> <<>>

\* Mutant: a page without a promotion ends the one before.
UnseenEnds(r, t) == IF r.promo = "active" THEN [r EXCEPT !.promo = "expired"] ELSE r

\* The page announces no promotion, one of another variant, or one until e.
Unseen(r, t) == IF PromoDue(r, t) THEN [r EXCEPT !.promo = "expired"] ELSE r
Ignored(r) == r
Seen(r, e, t) ==
    [r EXCEPT !.expires = e, !.promo = IF e <= t THEN "expired" ELSE "active"]

Observed(r, t) ==
    {Unseen(r, t), Ignored(r)} \cup {Seen(r, e, t) : e \in Expiries}

\* Mutant: the regular check is forgotten while a promotion runs.
NextCheckPromo(r, t, jitter) ==
    IF r.promo = "active" THEN r.expires + Grace ELSE t + Regular + jitter

NextCheck(r, t, jitter) ==
    IF r.promo = "active" /\ r.expires > t
    THEN Least(t + Regular + jitter, r.expires + Grace)
    ELSE t + Regular + jitter

\* min(RetryMax, RetryBase * 2^(fails - 1)), which is never below RetryBase.
RetryDelay(fails) ==
    LET d == RetryBase * 2 ^ (fails - 1)
    IN  IF d \in RetryBase .. RetryMax THEN d ELSE RetryMax

\* Mutant: the listing has no next check, but is still monitored.
MarkRemovedWatched(r) == Released([r EXCEPT !.next = Never])

MarkRemoved(r) == Released([r EXCEPT !.watch = "off", !.next = Never])

Watched(r, t, jitter) ==
    Released([r EXCEPT !.watch = "on", !.next = NextCheck(r, t, jitter)])

\* mark_check_success: the listings that a successful look can leave.
Succeeded(r, t) ==
    LET ok == [r EXCEPT !.fails = 0]
    IN  IF r.status = "removed"
        THEN {MarkRemoved(ok)}
        ELSE {Watched(o, t, jitter) : o \in Observed(ok, t), jitter \in 0 .. Jitter}

\* Mutant: a failed check keeps the claim.
FailedClaimed(r, t) ==
    [r EXCEPT !.fails = @ + 1, !.next = t + RetryDelay(r.fails + 1)]

Failed(r, t) ==
    Released([r EXCEPT !.fails = @ + 1, !.next = t + RetryDelay(r.fails + 1)])

\* The page is gone, or is no product's.
Gone(r) == MarkRemoved([r EXCEPT !.status = "removed"])

Outcomes(r, t) == Succeeded(r, t) \cup {Failed(r, t), Gone(r)}

\* apply_wall_clock_promo_expiry
WallClock(r, t) ==
    IF PromoDue(r, t) THEN [r EXCEPT !.promo = "expired", !.next = t] ELSE r

-----------------------------------------------------------------------------
(* Transactions.                                                           *)

\* The columns that the session changed, over the row as it is now.
Merged(p, l) ==
    LET Column(f) == IF copy[p][l][f] # read[p][l][f] THEN copy[p][l][f] ELSE row[l][f]
    IN  [status |-> Column("status"), watch |-> Column("watch"), promo |-> Column("promo"),
         expires |-> Column("expires"), next |-> Column("next"), fails |-> Column("fails"),
         worker |-> Column("worker"), lease |-> Column("lease")]

\* p's transaction is over: its locks and its session go.
End(p) ==
    /\ lock' = [l \in Listings |-> IF lock[l] = p THEN NoProc ELSE lock[l]]
    /\ pc' = [pc EXCEPT ![p] = IF p \in Sweepers THEN "idle" ELSE "done"]
    /\ at' = [at EXCEPT ![p] = NoListing]
    /\ batch' = [batch EXCEPT ![p] = {}]
    /\ todo' = [todo EXCEPT ![p] = {}]
    /\ moment' = [moment EXCEPT ![p] = 0]
    /\ read' = [read EXCEPT ![p] = [l \in Listings |-> New]]
    /\ copy' = [copy EXCEPT ![p] = [l \in Listings |-> New]]
    /\ news' = [news EXCEPT ![p] = [l \in Listings |-> <<>>]]

\* p has the listings B in its session, as the rows are now.
Loads(p, B) ==
    /\ pc' = [pc EXCEPT ![p] = "next"]
    /\ batch' = [batch EXCEPT ![p] = B]
    /\ todo' = [todo EXCEPT ![p] = B]
    /\ read' = [read EXCEPT ![p] = [l \in Listings |-> IF l \in B THEN row[l] ELSE New]]

Commit(p) ==
    /\ pc[p] = "next" /\ todo[p] = {}
    /\ row' = [l \in Listings |-> IF l \in batch[p] THEN Merged(p, l) ELSE row[l]]
    /\ End(p)
    /\ UNCHANGED <<now, faults>>

Rollback(p) == End(p) /\ UNCHANGED <<now, row>>

\* A crash, an error of the database, an exception that nothing catches, two
\* first heartbeats that insert the same row.
Abort(p) ==
    /\ pc[p] \in {"next", "wait", "crawl"} /\ faults < MaxFaults
    /\ faults' = faults + 1
    /\ Rollback(p)

\* The crawl of the listing is over, or raised.
Finish(p) ==
    /\ pc[p] = "crawl"
    /\ LET l == at[p] IN
       \E r \in Outcomes(copy[p][l], now) :
           /\ copy' = [copy EXCEPT ![p][l] = r]
           /\ news' = [news EXCEPT ![p][l] = @ \o News(copy[p][l], r)]
    /\ pc' = [pc EXCEPT ![p] = "next"]
    /\ at' = [at EXCEPT ![p] = NoListing]
    /\ UNCHANGED <<now, row, lock, batch, todo, moment, read, faults>>

\* p crawls l, which it has locked, on behalf of itself.
Crawls(p, l, r) ==
    /\ copy' = [copy EXCEPT ![p][l] = [r EXCEPT !.worker = p, !.lease = Never]]
    /\ pc' = [pc EXCEPT ![p] = "crawl"]
    /\ at' = [at EXCEPT ![p] = l]
    /\ todo' = [todo EXCEPT ![p] = @ \ {l}]

-----------------------------------------------------------------------------
(* A sweep.                                                                *)

Priority(r) ==
    IF PromoDue(r, now) \/ (r.promo = "expired" /\ r.expires # Never) THEN 1
    ELSE IF r.fails > 0 THEN 2 ELSE 3

Before(a, b) ==
    \/ Priority(a) < Priority(b)
    \/ Priority(a) = Priority(b) /\ a.next < b.next

\* FOR UPDATE SKIP LOCKED
Available == {l \in Listings : lock[l] = NoProc /\ Due(row[l], now)}

Claim(s) ==
    /\ pc[s] = "idle" /\ Available # {}
    /\ \E B \in SUBSET Available :
           /\ Cardinality(B) = Least(Batch, Cardinality(Available))
           /\ \A l \in B, k \in Available \ B : ~Before(row[k], row[l])
           /\ Loads(s, B)
           /\ lock' = [l \in Listings |-> IF l \in B THEN s ELSE lock[l]]
           /\ copy' = [copy EXCEPT ![s] =
                  [l \in Listings |->
                      IF l \in B THEN [row[l] EXCEPT !.worker = s, !.lease = now + Lease]
                                 ELSE New]]
    /\ moment' = [moment EXCEPT ![s] = now]
    /\ UNCHANGED <<now, row, at, news, faults>>

EmptySweep(s) == pc[s] = "idle" /\ Available = {} /\ UNCHANGED vars

\* Mutant: nothing expires a promotion by the clock.
LookNoClock(s) ==
    /\ pc[s] = "next"
    /\ \E l \in todo[s] : Crawls(s, l, copy[s][l])
    /\ UNCHANGED <<now, row, lock, batch, moment, read, news, faults>>

\* The promotion is expired by the clock of the sweep's beginning; the claim
\* is the sweep's own, so the refresh does not defer to it.
Look(s) ==
    /\ pc[s] = "next"
    /\ \E l \in todo[s] :
           LET r == WallClock(copy[s][l], moment[s]) IN
           /\ Crawls(s, l, r)
           /\ news' = [news EXCEPT ![s][l] = @ \o News(copy[s][l], r)]
    /\ UNCHANGED <<now, row, lock, batch, moment, read, faults>>

-----------------------------------------------------------------------------
(* A refresh.                                                              *)

Load(c) ==
    /\ pc[c] = "idle"
    /\ \E B \in Requested :
           /\ Loads(c, B)
           /\ copy' = [copy EXCEPT ![c] = read'[c]]
    /\ UNCHANGED <<now, row, lock, at, moment, news, faults>>

Choose(c) ==
    /\ pc[c] = "next"
    /\ \E l \in todo[c] : at' = [at EXCEPT ![c] = l]
    /\ pc' = [pc EXCEPT ![c] = "wait"]
    /\ UNCHANGED <<now, row, lock, batch, todo, moment, read, copy, news, faults>>

\* Mutant: the row is read without FOR UPDATE.
LockNothing(c) ==
    /\ pc[c] = "wait"
    /\ Crawls(c, at[c], copy[c][at[c]])
    /\ UNCHANGED <<now, row, lock, batch, moment, read, news, faults>>

\* The row is locked, the object in the session is what it was.
Lock(c) ==
    /\ pc[c] = "wait" /\ lock[at[c]] = NoProc
    /\ lock' = [lock EXCEPT ![at[c]] = c]
    /\ LET l == at[c]
           r == copy[c][l] IN
       IF r.lease # Never /\ r.lease > now /\ r.worker # c
       THEN /\ pc' = [pc EXCEPT ![c] = "next"]               \* deferred
            /\ at' = [at EXCEPT ![c] = NoListing]
            /\ todo' = [todo EXCEPT ![c] = @ \ {l}]
            /\ UNCHANGED copy
       ELSE Crawls(c, l, r)
    /\ UNCHANGED <<now, row, batch, moment, read, news, faults>>

\* statement_timeout, or a deadlock that PostgreSQL breaks.
GiveUp(c) ==
    /\ pc[c] = "wait" /\ lock[at[c]] # NoProc
    /\ Rollback(c)
    /\ UNCHANGED faults

-----------------------------------------------------------------------------
Tick ==
    /\ now < MaxTime
    /\ now' = now + 1
    /\ UNCHANGED <<row, lock, process, faults>>

SweepStep(s) == Claim(s) \/ Look(s) \/ Finish(s) \/ Commit(s)
CallStep(c)  == Choose(c) \/ Lock(c) \/ GiveUp(c) \/ Finish(c) \/ Commit(c)

Next ==
    \/ Tick
    \/ \E s \in Sweepers : SweepStep(s) \/ EmptySweep(s)
    \/ \E c \in Refreshes : Load(c) \/ CallStep(c)
    \/ \E p \in Procs : Abort(p)

\* The worker sweeps for ever, crawls and statements have time limits, and
\* nobody is obliged to call refresh.
Fairness ==
    /\ \A s \in Sweepers : WF_vars(SweepStep(s))
    /\ \A c \in Refreshes : WF_vars(CallStep(c))

Spec == Init /\ [][Next]_vars /\ Fairness

-----------------------------------------------------------------------------
(* Properties.                                                             *)

\* ADR 0030: two processes never look at the page of one listing at a time.
CrawlsAreExclusive ==
    \A p, q \in Procs :
        pc[p] = "crawl" /\ pc[q] = "crawl" /\ at[p] = at[q] => p = q

\* However a check ends, its claim is given back in the same transaction: no
\* other transaction ever sees one, so none has to wait for a lease.
ClaimsStayPrivate ==
    \A l \in Listings : row[l].worker = NoProc /\ row[l].lease = Never

\* Row locks do what leases are documented to do.
ChecksAreExclusive == CrawlsAreExclusive /\ ClaimsStayPrivate

\* A listing is watched exactly while it is active, and then has a next check:
\* whatever sweeps and stale refreshes write over each other, none is lost to
\* the scheduler, and none that is gone comes back.
WatchedIsScheduled ==
    \A l \in Listings :
        /\ row[l].status = "active" <=> row[l].watch = "on"
        /\ row[l].watch = "on" => row[l].next # Never

\* A promotion is marked expired only once its end has passed.
ExpiredHasEnded ==
    \A l \in Listings : row[l].promo = "expired" => row[l].expires <= now

\* A sweep marks a promotion expired only once its end has passed, though the
\* clock it began with is minutes old and refreshes come between its batches.
SweepsExpireEndedStep ==
    \A s \in Sweepers, l \in Listings :
        lock[l] = s /\ row[l].promo # "expired" /\ row'[l].promo = "expired"
            => row'[l].expires <= now

\* Sweeps keep to the end that the store announced.
SweepsExpireEnded == [][SweepsExpireEndedStep]_vars

\* The events a sweep is about to commit continue the history: an activation of
\* a promotion that was not active, or the end of one that was.
EventsContinueHistory ==
    \A s \in Sweepers, l \in Listings :
        news[s][l] # <<>> =>
            (Head(news[s][l]) = "expired" <=> row[l].promo = "active")

\* A listing that is due is looked at, whatever batches it is left out of and
\* however many transactions fail or take it first.
DueIsChecked ==
    \A l \in Listings : Due(row[l], now) ~> ~Due(row[l], now)

=============================================================================
