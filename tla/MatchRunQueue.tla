--------------------------- MODULE MatchRunQueue ---------------------------
(***************************************************************************)
(* The durable queue of product match runs.                                *)
(*                                                                         *)
(* API requests create runs in PostgreSQL (MatchRunService.start); worker  *)
(* processes sweep the table, terminalise exhausted runs, claim due runs   *)
(* under a lease, search the target stores of a run one row at a time and  *)
(* finish the run.  A heartbeat thread renews the lease, a watchdog thread *)
(* expires it and kills the process when the worker makes no progress.     *)
(*                                                                         *)
(* Every database transaction is one action.  Two of them begin with a     *)
(* read that takes no row lock and act on it later: the reconcile pass and *)
(* MatchRunService.start; these are two actions each.                      *)
(*                                                                         *)
(* Time is abstract: a lease is absent, live or expired.  It may expire    *)
(* whenever nobody renews it; expiring under a healthy worker (a paused    *)
(* process, a slow database) is one of the faults MaxFaults bounds.        *)
(***************************************************************************)
EXTENDS Integers, FiniteSets

CONSTANTS Products,     \* canonical products
          Stores,       \* stores a run may target
          Workers,      \* worker process incarnations (one worker_id each)
          Clients,      \* concurrent POST /products/{id}/match-runs requests
          MaxRuns,      \* bound: rows of product_match_runs
          MaxAttempts,  \* match_run_max_attempts
          Batch,        \* match_run_batch_size
          Concurrency,  \* match_store_concurrency
          MaxFaults     \* bound: crashes, stalls, early expiries, lost writes

ASSUME StoresFinite == IsFiniteSet(Stores)
ASSUME BoundsAssumption ==
    /\ MaxRuns \in Nat \ {0}
    /\ MaxAttempts \in Nat \ {0}
    /\ Batch \in Nat \ {0}
    /\ Concurrency \in Nat \ {0}
    /\ MaxFaults \in Nat

Runs == 1 .. MaxRuns    \* numbered by started_at, the order of the claim

NoRun     == 0
NoWorker  == "no worker"
NoProduct == "no product"

ASSUME Distinguished == NoWorker \notin Workers /\ NoProduct \notin Products

RunStatus      == {"absent", "pending", "running", "completed", "failed"}
ActiveStatus   == {"pending", "running"}
TerminalStatus == {"completed", "failed"}
Lease          == {"none", "live", "expired"}

\* "refreshed" stands for the refresh_* statuses that no counter counts.
TerminalRow == {"match", "no_match", "error", "refreshed", "refresh_failed"}
RowStatus   == {"none", "pending", "running"} \cup TerminalRow

\* The columns MatchRunLiveView reports.
Report == [total : Nat, completed : Nat, matches : Nat, noMatch : Nat,
           errors : Nat]

\* What one execution of a run (process_claimed_run) keeps in memory.
Job == [run       : Runs \cup {NoRun},
        gen       : Nat,              \* claim_attempts, the fencing token
        skip      : SUBSET Stores,    \* terminal_store_keys read at the start
        refresh   : SUBSET Stores,    \* known stores still to refresh
        todo      : SUBSET Stores,    \* stores still to search
        inflight  : SUBSET Stores,    \* stores being searched
        failed    : BOOLEAN,          \* a store thread raised
        matched   : SUBSET Stores,    \* response.matches
        unmatched : SUBSET Stores,    \* response.unmatched_stores
        errs      : SUBSET Stores]    \* response.errors

NoJob == [run |-> NoRun, gen |-> 0, skip |-> {}, refresh |-> {}, todo |-> {},
          inflight |-> {}, failed |-> FALSE, matched |-> {}, unmatched |-> {},
          errs |-> {}]

PC == {"idle", "reconcile", "claim", "process",
       "resolve", "refresh", "discover", "failing", "dead"}
Executing == {"resolve", "refresh", "discover", "failing"}

VARIABLES
    \* the database
    status, product, holder, attempts, lease, row, report, notif, nextRun,
    \* worker processes: main thread, heartbeat and watchdog threads
    pc, queue, snap, job, hb, stalled, fired,
    \* API requests
    seen, want,
    faults

db      == <<status, product, holder, attempts, lease, row, report, notif,
             nextRun>>
main    == <<pc, queue, snap, job>>
threads == <<hb, stalled, fired>>
clients == <<seen, want>>
vars    == <<db, main, threads, clients, faults>>

TypeOK ==
    /\ status   \in [Runs -> RunStatus]
    /\ product  \in [Runs -> Products \cup {NoProduct}]
    /\ holder   \in [Runs -> Workers \cup {NoWorker}]
    /\ attempts \in [Runs -> Nat]
    /\ lease    \in [Runs -> Lease]
    /\ row      \in [Runs -> [Stores -> RowStatus]]
    /\ report   \in [Runs -> Report]
    /\ notif    \in SUBSET (Runs \X TerminalStatus)
    /\ nextRun  \in 1 .. (MaxRuns + 1)
    /\ pc       \in [Workers -> PC]
    /\ queue    \in [Workers -> SUBSET Runs]
    /\ snap     \in [Workers -> SUBSET Runs]
    /\ job      \in [Workers -> Job]
    /\ hb       \in [Workers -> BOOLEAN]
    /\ stalled  \in [Workers -> BOOLEAN]
    /\ fired    \in [Workers -> BOOLEAN]
    /\ seen     \in [Clients -> Runs \cup {NoRun}]
    /\ want     \in [Clients -> Products \cup {NoProduct}]
    /\ faults   \in 0 .. MaxFaults

Init ==
    /\ status   = [r \in Runs |-> "absent"]
    /\ product  = [r \in Runs |-> NoProduct]
    /\ holder   = [r \in Runs |-> NoWorker]
    /\ attempts = [r \in Runs |-> 0]
    /\ lease    = [r \in Runs |-> "none"]
    /\ row      = [r \in Runs |-> [s \in Stores |-> "none"]]
    /\ report   = [r \in Runs |-> [total |-> 0, completed |-> 0, matches |-> 0,
                                   noMatch |-> 0, errors |-> 0]]
    /\ notif    = {}
    /\ nextRun  = 1
    /\ pc       = [w \in Workers |-> "idle"]
    /\ queue    = [w \in Workers |-> {}]
    /\ snap     = [w \in Workers |-> {}]
    /\ job      = [w \in Workers |-> NoJob]
    /\ hb       = [w \in Workers |-> FALSE]
    /\ stalled  = [w \in Workers |-> FALSE]
    /\ fired    = [w \in Workers |-> FALSE]
    /\ seen     = [c \in Clients |-> NoRun]
    /\ want     = [c \in Clients |-> NoProduct]
    /\ faults   = 0

-----------------------------------------------------------------------------
(* Predicates and updates of the run table. *)

StaleRunning(r) == status[r] = "running" /\ lease[r] # "live"

EffectivelyActive(r) ==
    \/ status[r] = "pending"
    \/ status[r] = "running" /\ lease[r] = "live"

\* Mutants: running rows are never due; the lease is not looked at.
DuePendingOnly(r) == status[r] = "pending" /\ lease[r] # "live"
DueIgnoringLease(r) == status[r] \in ActiveStatus

Due(r) == status[r] \in ActiveStatus /\ lease[r] # "live"

\* Mutant: the fence asks only whether the run is running.
LockClaimStatusOnly(r, w, g) == status[r] = "running"

\* lock_claim: the row is still running for this worker and this generation.
LockClaim(r, w, g) ==
    status[r] = "running" /\ holder[r] = w /\ attempts[r] = g

Fenced(w) ==
    job[w].run # NoRun /\ LockClaim(job[w].run, w, job[w].gen)

ActiveOf(p) == {r \in Runs : product[r] = p /\ status[r] \in ActiveStatus}

\* Mutant: terminal_store_keys finds nothing.
TerminalStoresForgotten(r) == {}

TerminalStores(r) == {s \in Stores : row[r][s] \in TerminalRow}

\* Mutant: off by one.
CountRowsOffByOne(rows, S) == Cardinality({s \in Stores : rows[s] \in S}) - 1

CountRows(rows, S) == Cardinality({s \in Stores : rows[s] \in S})

Larger(a, b) == IF a >= b THEN a ELSE b

\* Mutant: the user is not told.
FinalizeFailedSilently(R, N) ==
    /\ status' = [r \in Runs |-> IF r \in N THEN "pending"
                                 ELSE IF r \in R THEN "failed" ELSE status[r]]
    /\ holder' = [r \in Runs |-> IF r \in R THEN NoWorker ELSE holder[r]]
    /\ lease'  = [r \in Runs |-> IF r \in R THEN "none" ELSE lease[r]]
    /\ UNCHANGED notif

\* finalize_failed without an expected worker, that is without a fence, of the
\* runs R; the runs N are inserted as pending in the same transaction.
FinalizeFailed(R, N) ==
    /\ status' = [r \in Runs |-> IF r \in N THEN "pending"
                                 ELSE IF r \in R THEN "failed" ELSE status[r]]
    /\ holder' = [r \in Runs |-> IF r \in R THEN NoWorker ELSE holder[r]]
    /\ lease'  = [r \in Runs |-> IF r \in R THEN "none" ELSE lease[r]]
    /\ notif'  = notif \cup (R \X {"failed"})

\* Mutant: failed refreshes are not errors.
RecountWithoutRefresh(old, rows) ==
    [old EXCEPT !.completed = CountRows(rows, TerminalRow),
                !.matches   = CountRows(rows, {"match"}),
                !.noMatch   = CountRows(rows, {"no_match"}),
                !.errors    = CountRows(rows, {"error"})]

\* The aggregates apply_store_outcome recomputes from the store rows.
Recount(old, rows) ==
    [old EXCEPT !.completed = CountRows(rows, TerminalRow),
                !.matches   = CountRows(rows, {"match"}),
                !.noMatch   = CountRows(rows, {"no_match"}),
                !.errors    = CountRows(rows, {"error", "refresh_failed"})]

\* apply_store_outcome once the fence has been passed.
ApplyOutcome(r, s, outcome) ==
    IF row[r][s] \in TerminalRow
    THEN UNCHANGED <<row, report>>
    ELSE /\ row'    = [row EXCEPT ![r][s] = outcome]
         /\ report' = [report EXCEPT ![r] = Recount(@, row'[r])]

-----------------------------------------------------------------------------
(* POST /products/{id}/match-runs: MatchRunService.start. *)

\* get_status_active_for_product takes no lock.  An effectively active run is
\* returned as it is, which changes nothing; otherwise the request goes on to
\* write, remembering the stale run it read (or that it read none).
StartRead(c) ==
    /\ want[c] = NoProduct
    /\ nextRun <= MaxRuns
    /\ \E p \in Products :
         /\ \A r \in ActiveOf(p) : ~EffectivelyActive(r)
         /\ want' = [want EXCEPT ![c] = p]
         /\ \E r \in ActiveOf(p) \cup {NoRun} :
              /\ r = NoRun => ActiveOf(p) = {}
              /\ seen' = [seen EXCEPT ![c] = r]
    /\ UNCHANGED <<db, main, threads, faults>>

\* Mutant: no partial unique index.
IndexHolderNone(p, R) == {}

\* uq_product_match_runs_active_product: the row an insert for p runs into once
\* the runs in R have been ended.
IndexHolder(p, R) == ActiveOf(p) \ R

\* finalize_failed of what was read, then the insert under the partial unique
\* index; on IntegrityError the active row is looked up again, returned if it is
\* effectively active and finalised too if it is stale.  One transaction.
StartWrite(c) ==
    LET p      == want[c]
        read   == {seen[c]} \ {NoRun}
        winner == IndexHolder(p, read)
        killed == read \cup {r \in winner : StaleRunning(r)}
        create == winner \subseteq killed
    IN  /\ p # NoProduct
        /\ nextRun <= MaxRuns
        /\ FinalizeFailed(killed, IF create THEN {nextRun} ELSE {})
        /\ IF create
           THEN /\ product' = [product EXCEPT ![nextRun] = p]
                /\ nextRun' = nextRun + 1
           ELSE UNCHANGED <<product, nextRun>>
        /\ want' = [want EXCEPT ![c] = NoProduct]
        /\ seen' = [seen EXCEPT ![c] = NoRun]
        /\ UNCHANGED <<attempts, row, report, main, threads, faults>>

-----------------------------------------------------------------------------
(* sweep_once: reconcile, claim, process. *)

CanStep(w) == pc[w] # "dead" /\ ~stalled[w]

Exhausted == {r \in Runs : StaleRunning(r) /\ attempts[r] >= MaxAttempts}

\* list_stale_running: the rows are read, not locked.
SweepRead(w) ==
    /\ CanStep(w)
    /\ pc[w] = "idle"
    /\ snap' = [snap EXCEPT ![w] = Exhausted]
    /\ pc' = [pc EXCEPT ![w] = IF Exhausted = {} THEN "claim" ELSE "reconcile"]
    /\ UNCHANGED <<db, queue, job, threads, clients, faults>>

\* reconcile_exhausted_stale_runs finalises the rows it read, unfenced.
ReconcileWrite(w) ==
    /\ CanStep(w)
    /\ pc[w] = "reconcile"
    /\ FinalizeFailed(snap[w], {})
    /\ snap' = [snap EXCEPT ![w] = {}]
    /\ pc' = [pc EXCEPT ![w] = "claim"]
    /\ UNCHANGED <<product, attempts, row, report, nextRun, queue, job,
                   threads, clients, faults>>

DueRuns == {r \in Runs : Due(r)}

Oldest(R) == {r \in R : Cardinality({q \in R : q < r}) < Batch}

NextAttempt(r) == attempts[r] + 1

\* claim_due_match_runs: the oldest due rows among those no other transaction
\* has locked (SKIP LOCKED), so any subset of the due rows may be passed over.
ClaimSome(w) ==
    /\ CanStep(w)
    /\ pc[w] = "claim"
    /\ \E unlocked \in SUBSET DueRuns :
         LET claimed == Oldest(unlocked)
         IN /\ claimed # {}
            /\ status'   = [r \in Runs |-> IF r \in claimed THEN "running"
                                           ELSE status[r]]
            /\ attempts' = [r \in Runs |-> IF r \in claimed THEN NextAttempt(r)
                                           ELSE attempts[r]]
            /\ holder'   = [r \in Runs |-> IF r \in claimed THEN w
                                           ELSE holder[r]]
            /\ lease'    = [r \in Runs |-> IF r \in claimed THEN "live"
                                           ELSE lease[r]]
            /\ queue'    = [queue EXCEPT ![w] = claimed]
    /\ pc' = [pc EXCEPT ![w] = "process"]
    /\ UNCHANGED <<product, row, report, notif, nextRun, snap, job, threads,
                   clients, faults>>

ClaimNone(w) ==
    /\ CanStep(w)
    /\ pc[w] = "claim"
    /\ pc' = [pc EXCEPT ![w] = "idle"]
    /\ UNCHANGED <<db, queue, snap, job, threads, clients, faults>>

\* process_claimed_run up to the commit that releases the row lock: the row is
\* loaded again, its attempts become the fencing token, the stores answered by
\* earlier attempts are read, progress is armed and the heartbeat started.
Begin(w) ==
    /\ CanStep(w)
    /\ pc[w] = "process"
    /\ \E r \in queue[w] :
         /\ \A q \in queue[w] : r <= q
         /\ queue' = [queue EXCEPT ![w] = @ \ {r}]
         /\ IF LockClaim(r, w, attempts[r])
            THEN /\ job' = [job EXCEPT ![w] =
                              [NoJob EXCEPT !.run  = r, !.gen = attempts[r],
                                            !.skip = TerminalStores(r)]]
                 /\ pc' = [pc EXCEPT ![w] = "resolve"]
                 /\ hb' = [hb EXCEPT ![w] = TRUE]
            ELSE /\ pc' = [pc EXCEPT ![w] =
                             IF queue[w] = {r} THEN "idle" ELSE "process"]
                 /\ UNCHANGED <<job, hb>>
    /\ UNCHANGED <<db, snap, stalled, fired, clients, faults>>

\* The end of process_claimed_run.  It has expunged the session, so a run that
\* is still in the batch is detached and sweep_once stops with an exception.
EndProcess(w) ==
    /\ pc'    = [pc EXCEPT ![w] = "idle"]
    /\ queue' = [queue EXCEPT ![w] = {}]
    /\ job'   = [job EXCEPT ![w] = NoJob]
    /\ hb'    = [hb EXCEPT ![w] = FALSE]

-----------------------------------------------------------------------------
(* One execution: match_from_item with the callbacks of process_claimed_run. *)

SetJob(w, j) == job' = [job EXCEPT ![w] = j]

Failing(w) == pc' = [pc EXCEPT ![w] = "failing"]

\* Mutant: the rows of earlier attempts are reset too.
RecordTargetsAfresh(r, targets) ==
    row' = [row EXCEPT ![r] = [s \in Stores |->
              IF s \in targets THEN "pending" ELSE row[r][s]]]

\* record_targets: only rows without an answer go back to pending.
RecordTargets(r, targets) ==
    row' = [row EXCEPT ![r] = [s \in Stores |->
              IF s \in targets /\ row[r][s] \notin TerminalRow
              THEN "pending" ELSE row[r][s]]]

\* _execute_match_for_run: a first attempt resolves the targets, a later one
\* takes the rows the run already has.
TargetSets(r) ==
    LET known == {s \in Stores : row[r][s] # "none"}
    IN  IF known # {} THEN {known} ELSE (SUBSET Stores) \ {{}}

\* on_targets_resolved: record_targets under the fence; the stores with an
\* active listing are refreshed, the others searched.
ResolveTargets(w) ==
    /\ CanStep(w)
    /\ pc[w] = "resolve"
    /\ IF ~Fenced(w)
       THEN Failing(w) /\ UNCHANGED <<row, report, job>>
       ELSE LET r == job[w].run
            IN \E targets \in TargetSets(r), listed \in SUBSET Stores :
                 /\ RecordTargets(r, targets)
                 /\ report' = [report EXCEPT ![r] =
                      [report[r] EXCEPT !.total = Cardinality(targets)]]
                 /\ SetJob(w, [job[w] EXCEPT
                      !.refresh = (targets \cap listed) \ job[w].skip,
                      !.todo    = targets \ (listed \cup job[w].skip),
                      !.matched = {s \in Stores : row[r][s] = "match"}])
                 /\ pc' = [pc EXCEPT ![w] = "refresh"]
    /\ UNCHANGED <<status, product, holder, attempts, lease, notif, nextRun,
                   queue, snap, threads, clients, faults>>

\* A known store: its listings are refreshed and the outcome commits with them.
RefreshStore(w) ==
    /\ CanStep(w)
    /\ pc[w] = "refresh"
    /\ \E s \in job[w].refresh, outcome \in {"refreshed", "refresh_failed"} :
         IF Fenced(w)
         THEN /\ ApplyOutcome(job[w].run, s, outcome)
              /\ SetJob(w, [job[w] EXCEPT !.refresh = @ \ {s}])
              /\ UNCHANGED pc
         ELSE /\ Failing(w)
              /\ UNCHANGED <<row, report, job>>
    /\ UNCHANGED <<status, product, holder, attempts, lease, notif, nextRun,
                   queue, snap, threads, clients, faults>>

RefreshDone(w) ==
    /\ CanStep(w)
    /\ pc[w] = "refresh"
    /\ job[w].refresh = {}
    /\ pc' = [pc EXCEPT ![w] = "discover"]
    /\ UNCHANGED <<db, queue, snap, job, threads, clients, faults>>

\* record_store_started.
RecordStarted(r, s) ==
    row' = [row EXCEPT ![r][s] = IF @ \in TerminalRow THEN @ ELSE "running"]

\* on_store_started.  A serial wave stops at the first exception; the pool of a
\* parallel wave still runs what was submitted to it.
StartStore(w) ==
    /\ CanStep(w)
    /\ pc[w] = "discover"
    /\ job[w].failed => Concurrency > 1
    /\ Cardinality(job[w].inflight) < Concurrency
    /\ \E s \in job[w].todo :
         IF Fenced(w)
         THEN LET r == job[w].run
              IN /\ RecordStarted(r, s)
                 /\ SetJob(w, [job[w] EXCEPT !.todo     = @ \ {s},
                                             !.inflight = @ \cup {s}])
         ELSE /\ SetJob(w, [job[w] EXCEPT !.todo = @ \ {s}, !.failed = TRUE])
              /\ UNCHANGED row
    /\ UNCHANGED <<status, product, holder, attempts, lease, report, notif,
                   nextRun, pc, queue, snap, threads, clients, faults>>

\* What the searches of a store can add to the response: a match; unmatched
\* alone; unmatched and an error (search and scrape failures append to both
\* lists); or an error alone (unsupported store, store wall timeout).
Answers ==
    {[row |-> "match",    m |-> TRUE,  u |-> FALSE, e |-> FALSE],
     [row |-> "no_match", m |-> FALSE, u |-> TRUE,  e |-> FALSE],
     [row |-> "error",    m |-> FALSE, u |-> TRUE,  e |-> TRUE],
     [row |-> "error",    m |-> FALSE, u |-> FALSE, e |-> TRUE]}

\* on_store_outcome: recorded if the fence still holds, dropped silently if not.
FinishStore(w) ==
    /\ CanStep(w)
    /\ pc[w] = "discover"
    /\ \E s \in job[w].inflight, a \in Answers :
         /\ SetJob(w, [job[w] EXCEPT
              !.inflight  = @ \ {s},
              !.matched   = @ \cup {t \in {s} : a.m},
              !.unmatched = @ \cup {t \in {s} : a.u},
              !.errs      = @ \cup {t \in {s} : a.e}])
         /\ IF Fenced(w)
            THEN ApplyOutcome(job[w].run, s, a.row)
            ELSE UNCHANGED <<row, report>>
    /\ UNCHANGED <<status, product, holder, attempts, lease, notif, nextRun,
                   pc, queue, snap, threads, clients, faults>>

\* A store thread raises: the run budget is spent, or a write failed.
StoreRaises(w) ==
    /\ CanStep(w)
    /\ pc[w] = "discover"
    /\ \E s \in job[w].inflight :
         SetJob(w, [job[w] EXCEPT !.inflight = @ \ {s}, !.failed = TRUE])
    /\ UNCHANGED <<db, pc, queue, snap, threads, clients, faults>>

\* The exception reaches process_claimed_run once the store threads are done;
\* anything outside the store threads may raise at any time.
Raise(w) ==
    /\ CanStep(w)
    /\ \/ pc[w] \in {"resolve", "refresh"}
       \/ pc[w] = "discover" /\ job[w].inflight = {}
    /\ Failing(w)
    /\ UNCHANGED <<db, queue, snap, job, threads, clients, faults>>

\* Mutant: an exception of a store thread is swallowed.
StoresDoneOrFailed(w) == job[w].todo = {} /\ job[w].inflight = {}

StoresDone(w) ==
    job[w].todo = {} /\ job[w].inflight = {} /\ ~job[w].failed

\* The report of a completed run: the larger of what the rows and what this
\* execution's response count.
CompletedReport(old, j) ==
    LET matches == Larger(old.matches, Cardinality(j.matched))
        noMatch == Larger(old.noMatch, Cardinality(j.unmatched))
        errors  == Larger(old.errors, Cardinality(j.errs))
        total   == Larger(old.total,
                          Larger(matches + noMatch + errors, old.completed))
    IN  [total |-> total, matches |-> matches, noMatch |-> noMatch,
         errors |-> errors,
         completed |-> IF old.completed = 0 THEN total ELSE old.completed]

FinalizeCompleted(r, final) ==
    /\ status' = [status EXCEPT ![r] = "completed"]
    /\ holder' = [holder EXCEPT ![r] = NoWorker]
    /\ lease'  = [lease EXCEPT ![r] = "none"]
    /\ notif'  = notif \cup {<<r, "completed">>}
    /\ report' = [report EXCEPT ![r] =
         [final EXCEPT !.completed =
            Larger(@, Cardinality(TerminalStores(r)))]]

\* before_persist takes the row lock and keeps it: the catalogue, the report
\* and the terminal status commit together.
Persist(w) ==
    /\ CanStep(w)
    /\ pc[w] = "discover"
    /\ StoresDone(w)
    /\ IF ~Fenced(w)
       THEN /\ Failing(w)
            /\ UNCHANGED <<status, holder, lease, report, notif, queue, job, hb>>
       ELSE LET r == job[w].run
            IN /\ FinalizeCompleted(r, CompletedReport(report[r], job[w]))
               /\ EndProcess(w)
    /\ UNCHANGED <<product, attempts, row, nextRun, snap, stalled, fired,
                   clients, faults>>

\* The except clauses: rollback, then finalize_failed under the fence.
FinalizeFailure(w) ==
    /\ CanStep(w)
    /\ pc[w] = "failing"
    /\ FinalizeFailed(IF Fenced(w) THEN {job[w].run} ELSE {}, {})
    /\ EndProcess(w)
    /\ UNCHANGED <<product, attempts, row, report, nextRun, snap, stalled,
                   fired, clients, faults>>

-----------------------------------------------------------------------------
(* Heartbeat, watchdog, faults and time. *)

\* heartbeat_claim; the thread ends when the claim is lost.
Heartbeat(w) ==
    /\ pc[w] # "dead"
    /\ hb[w]
    /\ IF Fenced(w)
       THEN lease' = [lease EXCEPT ![job[w].run] = "live"] /\ UNCHANGED hb
       ELSE hb' = [hb EXCEPT ![w] = FALSE] /\ UNCHANGED lease
    /\ UNCHANGED <<status, product, holder, attempts, row, report, notif,
                   nextRun, main, stalled, fired, clients, faults>>

\* Mutant: a lease heartbeat counts as progress.
WithoutProgressOrHeartbeat(w) == pc[w] \in Executing /\ stalled[w] /\ ~hb[w]

\* The tracker is armed and no store step has moved for stale_seconds.
WithoutProgress(w) == pc[w] \in Executing /\ stalled[w]

\* _expire_active_run_lease writes the row whoever holds it, and may fail.
ExpireLease(r) ==
    \/ status[r] = "running" /\ lease' = [lease EXCEPT ![r] = "expired"]
    \/ UNCHANGED lease

\* MatchHangWatchdog.check_once.
WatchdogFire(w) ==
    /\ WithoutProgress(w) /\ ~fired[w]
    /\ fired' = [fired EXCEPT ![w] = TRUE]
    /\ ExpireLease(job[w].run)
    /\ UNCHANGED <<status, product, holder, attempts, row, report, notif,
                   nextRun, main, hb, stalled, clients, faults>>

Die(w) ==
    /\ pc'    = [pc EXCEPT ![w] = "dead"]
    /\ queue' = [queue EXCEPT ![w] = {}]
    /\ snap'  = [snap EXCEPT ![w] = {}]
    /\ job'   = [job EXCEPT ![w] = NoJob]
    /\ hb'    = [hb EXCEPT ![w] = FALSE]

\* os._exit(78).
WatchdogExit(w) ==
    /\ fired[w] /\ pc[w] # "dead"
    /\ Die(w)
    /\ UNCHANGED <<db, stalled, fired, clients, faults>>

Fault == faults < MaxFaults /\ faults' = faults + 1

Crash(w) ==
    /\ Fault
    /\ pc[w] # "dead"
    /\ Die(w)
    /\ UNCHANGED <<db, stalled, fired, clients>>

\* The search hangs; it may come back, even while the watchdog is firing.
Stall(w) ==
    /\ Fault
    /\ pc[w] \in Executing /\ ~stalled[w]
    /\ stalled' = [stalled EXCEPT ![w] = TRUE]
    /\ UNCHANGED <<db, main, hb, fired, clients>>

Resume(w) ==
    /\ pc[w] # "dead" /\ stalled[w]
    /\ stalled' = [stalled EXCEPT ![w] = FALSE]
    /\ UNCHANGED <<db, main, hb, fired, clients, faults>>

\* finalize_failed itself raises: the row stays running, the heartbeat ends.
FinalizeLost(w) ==
    /\ Fault
    /\ CanStep(w)
    /\ pc[w] = "failing"
    /\ EndProcess(w)
    /\ UNCHANGED <<db, snap, stalled, fired, clients>>

\* Somebody renews the lease, or has only just claimed the run.
Attended(r) ==
    \E w \in Workers :
       /\ holder[r] = w
       /\ \/ pc[w] = "process" /\ r \in queue[w]
          \/ hb[w] /\ job[w].run = r /\ job[w].gen = attempts[r]

LeaseExpires(r) ==
    /\ lease[r] = "live" /\ ~Attended(r)
    /\ lease' = [lease EXCEPT ![r] = "expired"]
    /\ UNCHANGED <<status, product, holder, attempts, row, report, notif,
                   nextRun, main, threads, clients, faults>>

LeaseExpiresEarly(r) ==
    /\ Fault
    /\ lease[r] = "live" /\ Attended(r)
    /\ lease' = [lease EXCEPT ![r] = "expired"]
    /\ UNCHANGED <<status, product, holder, attempts, row, report, notif,
                   nextRun, main, threads, clients>>

-----------------------------------------------------------------------------
Sweep(w) ==
    \/ SweepRead(w) \/ ReconcileWrite(w) \/ ClaimSome(w) \/ ClaimNone(w)
    \/ Begin(w)

Execute(w) ==
    \/ ResolveTargets(w) \/ RefreshStore(w) \/ RefreshDone(w)
    \/ StartStore(w) \/ FinishStore(w) \/ StoreRaises(w) \/ Raise(w)
    \/ Persist(w) \/ FinalizeFailure(w)

Watchdog(w) == WatchdogFire(w) \/ WatchdogExit(w)

Next ==
    \/ \E c \in Clients : StartRead(c) \/ StartWrite(c)
    \/ \E w \in Workers : \/ Sweep(w) \/ Execute(w) \/ Heartbeat(w)
                          \/ Watchdog(w) \/ Crash(w) \/ Stall(w) \/ Resume(w)
                          \/ FinalizeLost(w)
    \/ \E r \in Runs : LeaseExpires(r) \/ LeaseExpiresEarly(r)

Spec == Init /\ [][Next]_vars

\* Every process keeps sweeping and executing, a row is not locked by somebody
\* else at every sweep, the watchdog thread runs, and time passes.
Fairness ==
    /\ \A w \in Workers : /\ WF_vars(Sweep(w))
                          /\ WF_vars(Execute(w))
                          /\ SF_vars(ClaimSome(w))
                          /\ WF_vars(Watchdog(w))
    /\ \A r \in Runs : WF_vars(LeaseExpires(r))

FairSpec == Spec /\ Fairness

-----------------------------------------------------------------------------
(* Safety. *)

\* The partial unique index and the IntegrityError path of start: whatever the
\* races between requests, a product has at most one pending or running run.
OneActivePerProduct ==
    \A r1, r2 \in Runs :
       /\ status[r1] \in ActiveStatus /\ status[r2] \in ActiveStatus
       /\ product[r1] = product[r2]
       => r1 = r2

\* The fencing token (worker_id + attempts): two executions of one run, a
\* zombie's and its successor's, never carry the same generation.
DistinctGenerations ==
    \A w1, w2 \in Workers :
       /\ pc[w1] \in Executing /\ pc[w2] \in Executing
       /\ job[w1].run = job[w2].run /\ job[w1].gen = job[w2].gen
       => w1 = w2

HolderWrites ==
    \A r \in Runs :
       row'[r] # row[r] \/ report'[r] # report[r] =>
          \E w \in Workers :
             /\ status[r] = "running" /\ holder[r] = w
             /\ job[w].run = r /\ job[w].gen = attempts[r]
             /\ pc'[w] # pc[w] \/ job'[w] # job[w]

\* A zombie never writes: the store rows and the report of a run change only by
\* a step of the worker that holds its current claim.  In particular a run that
\* has ended keeps the report it ended with.
OnlyTheHolderWrites == [][HolderWrites]_vars

KeepAnswers ==
    \A r \in Runs, s \in Stores :
       row[r][s] \in TerminalRow => row'[r][s] = row[r][s]

\* apply_store_outcome and record_targets: the answer of a store survives every
\* later attempt and every late thread.
AnswersAreKept == [][KeepAnswers]_vars

\* A reclaimed run resumes: the holder of the claim never has a store left to
\* do that an earlier attempt already answered.
NoStoreRepeated ==
    \A w \in Workers :
       pc[w] \in Executing /\ Fenced(w) =>
          \A s \in job[w].refresh \cup job[w].todo \cup job[w].inflight :
             row[job[w].run][s] \notin TerminalRow

\* A run is completed only when every target store has an answer, although
\* on_store_outcome drops answers silently when the claim is lost.
CompletedIsAnswered ==
    \A r \in Runs :
       status[r] = "completed" =>
          \A s \in Stores : row[r][s] \notin {"pending", "running"}

\* Whatever attempts crash, overlap or are fenced off, together they search every
\* store of the run once: none is asked again and none is forgotten.
AnswersAddUp == NoStoreRepeated /\ CompletedIsAnswered

\* The report a client polls counts the store rows, in every attempt and at the
\* end (what completion does to no_matches and stores_total apart).
ReportAgreesWithRows ==
    \A r \in Runs :
       /\ report[r].matches   = CountRows(row[r], {"match"})
       /\ report[r].errors    = CountRows(row[r], {"error", "refresh_failed"})
       /\ report[r].completed = CountRows(row[r], TerminalRow)
       /\ <<r, "completed">> \notin notif =>
             report[r].noMatch = CountRows(row[r], {"no_match"})

\* _notify_terminal: nobody is told of the end of a run that is still active,
\* and the end a run has is one its user was told of.
NotifiedOnce ==
    \A r \in Runs :
       /\ status[r] \notin TerminalStatus =>
             \A t \in TerminalStatus : <<r, t>> \notin notif
       /\ status[r] \in TerminalStatus => <<r, status[r]>> \in notif

\* What the requests of one product are promised, however they race: one run
\* at a time, and the news of its end.
RequestsAreServed == OneActivePerProduct /\ NotifiedOnce

KeepClaim ==
    \A r \in Runs :
       status[r] = "running" /\ lease[r] = "live" =>
          \/ holder'[r] = holder[r] /\ attempts'[r] = attempts[r]
          \/ status'[r] \in TerminalStatus

\* A live lease protects the claim: as long as it lasts the run has the same
\* holder and generation, unless the run ends.
LiveLeaseProtects == [][KeepClaim]_vars

(* Facts the proofs strengthen the invariants with. *)

\* Rows not yet inserted are absent, and nobody remembers one.
Fresh ==
    /\ \A r \in Runs : r >= nextRun => status[r] = "absent"
    /\ \A c \in Clients : seen[c] < nextRun
    /\ \A w \in Workers : \A r \in snap[w] : r < nextRun

\* An execution has a generation some claim gave, and if that is the last one
\* then nobody else holds the run.
ClaimOwned ==
    \A w \in Workers :
       pc[w] \in Executing =>
          /\ job[w].run # NoRun
          /\ job[w].gen <= attempts[job[w].run]
          /\ job[w].gen = attempts[job[w].run] =>
                holder[job[w].run] \in {w, NoWorker}

(* Liveness. *)

\* Whatever the crashes, hangs and lost writes, a run that was requested ends:
\* the product is never blocked for ever.
EveryRunEnds ==
    \A r \in Runs : status[r] \in ActiveStatus ~> status[r] \in TerminalStatus

\* A search that hangs for good costs its process, although the heartbeat keeps
\* the lease alive, and also after somebody else has taken the run over: no
\* zombie stays behind to occupy a worker.
HungExecutionEnds ==
    \A w \in Workers :
       pc[w] \in Executing /\ stalled[w] ~> pc[w] = "dead" \/ ~stalled[w]

-----------------------------------------------------------------------------
(* What the documentation says and the code does not do. *)

\* A run that has ended stays as it ended.
TerminalIsFinal ==
    [][\A r \in Runs :
          status[r] \in TerminalStatus => status'[r] = status[r]]_vars

\* A store that failed is not reported as a store without a match.
ErrorsAreNotNoMatch ==
    \A r \in Runs :
       report[r].noMatch = CountRows(row[r], {"no_match"})

=============================================================================
