------------------------ MODULE MatchRunQueue_proofs ------------------------
(***************************************************************************)
(* The types and the safety properties of MatchRunQueue, and that it       *)
(* implements its contract, for every value of the constants.              *)
(***************************************************************************)
EXTENDS MatchRunQueue, MatchRunRefinement, FiniteSetTheorems, TLAPS

USE DEF Runs, NoRun

\* A set of stores is finite, so it has a size.
LEMMA StoreCount ==
    ASSUME NEW S \in SUBSET Stores
    PROVE  Cardinality(S) \in Nat
BY StoresFinite, FS_Subset, FS_CardinalityType

\* apply_store_outcome leaves a well-formed report.
LEMMA RecountType ==
    ASSUME NEW old \in Report, NEW rows
    PROVE  Recount(old, rows) \in Report
<1>1. \A S : CountRows(rows, S) \in Nat
  BY StoreCount DEF CountRows
<1> QED BY <1>1 DEF Recount, Report

\* Recording an outcome (apply_store_outcome) keeps the rows and the report typed.
LEMMA ApplyOutcomeType ==
    ASSUME TypeOK, NEW r \in Runs, NEW s \in Stores, NEW o \in RowStatus,
           ApplyOutcome(r, s, o)
    PROVE  /\ row' \in [Runs -> [Stores -> RowStatus]]
           /\ report' \in [Runs -> Report]
<1>1. CASE row[r][s] \in TerminalRow
  BY <1>1 DEF ApplyOutcome, TypeOK
<1>2. CASE row[r][s] \notin TerminalRow
  <2>1. row' = [row EXCEPT ![r][s] = o]
    BY <1>2 DEF ApplyOutcome
  <2>2. report' = [report EXCEPT ![r] = Recount(report[r], row'[r])]
    BY <1>2 DEF ApplyOutcome
  <2>3. Recount(report[r], row'[r]) \in Report
    BY RecountType DEF TypeOK
  <2> QED BY <2>1, <2>2, <2>3 DEF TypeOK
<1> QED BY <1>1, <1>2

\* finalize_failed keeps the runs and the notices typed.
LEMMA FinalizeFailedType ==
    ASSUME TypeOK, NEW R \in SUBSET Runs, NEW N \in SUBSET Runs,
           FinalizeFailed(R, N)
    PROVE  /\ status' \in [Runs -> RunStatus]
           /\ holder' \in [Runs -> Workers \cup {NoWorker}]
           /\ lease' \in [Runs -> Lease]
           /\ notif' \in SUBSET (Runs \X TerminalStatus)
BY DEF FinalizeFailed, TypeOK, RunStatus, Lease, TerminalStatus

\* The empty tables are typed.
LEMMA InitType == Init => TypeOK
BY BoundsAssumption
   DEF Init, TypeOK, RunStatus, Lease, RowStatus, Report, PC, Job, NoJob


\* A worker that executes nothing is in a typed state.
LEMMA NoJobType == NoJob \in Job
BY DEF NoJob, Job

\* The counters a completed run is given are numbers of stores.
LEMMA CompletedReportType ==
    ASSUME NEW old \in Report, NEW j \in Job
    PROVE  CompletedReport(old, j) \in Report
<1>1. /\ Cardinality(j.matched) \in Nat
      /\ Cardinality(j.unmatched) \in Nat
      /\ Cardinality(j.errs) \in Nat
  BY StoreCount DEF Job
<1> QED BY <1>1 DEF CompletedReport, Larger, Report

\* The updates the execution steps make to what they keep in memory.
LEMMA JobUpdateType ==
    ASSUME NEW j \in Job, NEW A \in SUBSET Stores, NEW B \in SUBSET Stores,
           NEW C \in SUBSET Stores, NEW D \in SUBSET Stores
    PROVE  /\ [j EXCEPT !.refresh = A] \in Job
           /\ [j EXCEPT !.refresh = A, !.todo = B, !.matched = C] \in Job
           /\ [j EXCEPT !.todo = A, !.inflight = B] \in Job
           /\ [j EXCEPT !.todo = A, !.failed = TRUE] \in Job
           /\ [j EXCEPT !.inflight = A, !.failed = TRUE] \in Job
           /\ [j EXCEPT !.inflight = A, !.matched = B, !.unmatched = C,
                        !.errs = D] \in Job
BY DEF Job

\* A worker that leaves its run, by end or by crash, stays typed.
LEMMA EndProcessType ==
    ASSUME TypeOK, NEW w \in Workers, EndProcess(w)
    PROVE  /\ pc' \in [Workers -> PC]
           /\ queue' \in [Workers -> SUBSET Runs]
           /\ job' \in [Workers -> Job]
           /\ hb' \in [Workers -> BOOLEAN]
BY NoJobType DEF TypeOK, EndProcess, PC

\* Every action keeps the types: one step per action.
LEMMA NextType == TypeOK /\ [Next]_vars => TypeOK'
<1> SUFFICES ASSUME TypeOK, [Next]_vars PROVE TypeOK'
  OBVIOUS
<1> USE DEF TypeOK, db, main, threads, clients, vars
<1>1. CASE UNCHANGED vars
  BY <1>1
<1>2. ASSUME NEW c \in Clients, StartRead(c) PROVE TypeOK'
  BY <1>2 DEF StartRead, ActiveOf
<1>3. ASSUME NEW c \in Clients, StartWrite(c) PROVE TypeOK'
  <2>1. PICK killed \in SUBSET Runs, N \in SUBSET Runs : FinalizeFailed(killed, N)
    BY <1>3 DEF StartWrite, IndexHolder, ActiveOf
  <2>2. /\ status' \in [Runs -> RunStatus]
        /\ holder' \in [Runs -> Workers \cup {NoWorker}]
        /\ lease' \in [Runs -> Lease]
        /\ notif' \in SUBSET (Runs \X TerminalStatus)
    BY <2>1, FinalizeFailedType
  <2>3. /\ product' \in [Runs -> Products \cup {NoProduct}]
        /\ nextRun' \in 1 .. (MaxRuns + 1)
    <3>1. \/ /\ product' = [product EXCEPT ![nextRun] = want[c]]
             /\ nextRun' = nextRun + 1
             /\ nextRun <= MaxRuns
             /\ want[c] \in Products
          \/ UNCHANGED <<product, nextRun>>
      BY <1>3 DEF StartWrite
    <3> QED BY <3>1, BoundsAssumption
  <2>4. /\ want' \in [Clients -> Products \cup {NoProduct}]
        /\ seen' \in [Clients -> Runs \cup {NoRun}]
    BY <1>3 DEF StartWrite
  <2> QED BY <1>3, <2>2, <2>3, <2>4 DEF StartWrite
<1>4. ASSUME NEW w \in Workers, SweepRead(w) PROVE TypeOK'
  BY <1>4 DEF SweepRead, Exhausted, PC
<1>5. ASSUME NEW w \in Workers, ReconcileWrite(w) PROVE TypeOK'
  BY <1>5, FinalizeFailedType DEF ReconcileWrite, PC
<1>6. ASSUME NEW w \in Workers, ClaimSome(w) PROVE TypeOK'
  <2>1. PICK claimed \in SUBSET Runs :
          /\ status'   = [r \in Runs |-> IF r \in claimed THEN "running"
                                         ELSE status[r]]
          /\ attempts' = [r \in Runs |-> IF r \in claimed THEN NextAttempt(r)
                                         ELSE attempts[r]]
          /\ holder'   = [r \in Runs |-> IF r \in claimed THEN w
                                         ELSE holder[r]]
          /\ lease'    = [r \in Runs |-> IF r \in claimed THEN "live"
                                         ELSE lease[r]]
          /\ queue'    = [queue EXCEPT ![w] = claimed]
    BY <1>6 DEF ClaimSome, Oldest, DueRuns
  <2>2. /\ status' \in [Runs -> RunStatus]
        /\ holder' \in [Runs -> Workers \cup {NoWorker}]
        /\ lease' \in [Runs -> Lease]
        /\ queue' \in [Workers -> SUBSET Runs]
    BY <2>1 DEF RunStatus, Lease
  <2>3. attempts' \in [Runs -> Nat]
    BY <2>1 DEF NextAttempt
  <2>4. pc' \in [Workers -> PC]
    BY <1>6 DEF ClaimSome, PC
  <2> QED BY <1>6, <2>2, <2>3, <2>4 DEF ClaimSome
<1>7. ASSUME NEW w \in Workers, ClaimNone(w) PROVE TypeOK'
  BY <1>7 DEF ClaimNone, PC
<1>8. ASSUME NEW w \in Workers, Begin(w) PROVE TypeOK'
  <2>1. PICK r \in queue[w] :
          /\ queue' = [queue EXCEPT ![w] = @ \ {r}]
          /\ \/ /\ job' = [job EXCEPT ![w] =
                           [NoJob EXCEPT !.run  = r, !.gen = attempts[r],
                                         !.skip = TerminalStores(r)]]
                /\ pc' = [pc EXCEPT ![w] = "resolve"]
                /\ hb' = [hb EXCEPT ![w] = TRUE]
             \/ /\ pc' = [pc EXCEPT ![w] =
                           IF queue[w] = {r} THEN "idle" ELSE "process"]
                /\ UNCHANGED <<job, hb>>
    BY <1>8 DEF Begin
  <2>2. [NoJob EXCEPT !.run  = r, !.gen = attempts[r],
                      !.skip = TerminalStores(r)] \in Job
    BY DEF Job, NoJob, TerminalStores
  <2>3. job' \in [Workers -> Job]
    BY <2>1, <2>2
  <2>4. /\ pc' \in [Workers -> PC]
        /\ hb' \in [Workers -> BOOLEAN]
        /\ queue' \in [Workers -> SUBSET Runs]
    BY <2>1 DEF PC
  <2> QED BY <1>8, <2>3, <2>4 DEF Begin
<1>9. ASSUME NEW w \in Workers, ResolveTargets(w) PROVE TypeOK'
  <2>1. CASE ~Fenced(w)
    BY <1>9, <2>1 DEF ResolveTargets, Failing, PC
  <2>2. CASE Fenced(w)
    <3> DEFINE r == job[w].run
    <3>1. r \in Runs
      BY <2>2 DEF Fenced, Job
    <3>2. PICK targets \in SUBSET Stores, listed \in SUBSET Stores :
            /\ RecordTargets(r, targets)
            /\ report' = [report EXCEPT ![r] =
                 [report[r] EXCEPT !.total = Cardinality(targets)]]
            /\ SetJob(w, [job[w] EXCEPT
                 !.refresh = (targets \cap listed) \ job[w].skip,
                 !.todo    = targets \ (listed \cup job[w].skip),
                 !.matched = {s \in Stores : row[r][s] = "match"}])
            /\ pc' = [pc EXCEPT ![w] = "refresh"]
      BY <1>9, <2>2 DEF ResolveTargets, TargetSets
    <3>3. row' \in [Runs -> [Stores -> RowStatus]]
      BY <3>1, <3>2 DEF RecordTargets, RowStatus
    <3>4. Cardinality(targets) \in Nat
      BY StoreCount
    <3>5. report' \in [Runs -> Report]
      <4>1. \A rep \in Report, n \in Nat : [rep EXCEPT !.total = n] \in Report
        BY DEF Report
      <4> QED BY <3>1, <3>2, <3>4, <4>1
    <3>6. [job[w] EXCEPT
             !.refresh = (targets \cap listed) \ job[w].skip,
             !.todo    = targets \ (listed \cup job[w].skip),
             !.matched = {s \in Stores : row[r][s] = "match"}] \in Job
      <4>1. job[w] \in Job
        OBVIOUS
      <4>2. /\ (targets \cap listed) \ job[w].skip \in SUBSET Stores
            /\ targets \ (listed \cup job[w].skip) \in SUBSET Stores
            /\ {s \in Stores : row[r][s] = "match"} \in SUBSET Stores
        OBVIOUS
      <4> QED BY <4>1, <4>2, JobUpdateType
    <3>7. job' \in [Workers -> Job]
      BY <3>2, <3>6 DEF SetJob
    <3>8. pc' \in [Workers -> PC]
      BY <3>2 DEF PC
    <3> QED BY <1>9, <3>3, <3>5, <3>7, <3>8 DEF ResolveTargets
  <2> QED BY <2>1, <2>2
<1>10. ASSUME NEW w \in Workers, RefreshStore(w) PROVE TypeOK'
  <2>1. CASE ~Fenced(w)
    BY <1>10, <2>1 DEF RefreshStore, Failing, PC
  <2>2. CASE Fenced(w)
    <3>1. PICK s \in job[w].refresh, o \in {"refreshed", "refresh_failed"} :
            /\ ApplyOutcome(job[w].run, s, o)
            /\ SetJob(w, [job[w] EXCEPT !.refresh = @ \ {s}])
      BY <1>10, <2>2 DEF RefreshStore
    <3>2. job[w].run \in Runs /\ s \in Stores
      BY <2>2 DEF Fenced, Job
    <3>3. /\ row' \in [Runs -> [Stores -> RowStatus]]
          /\ report' \in [Runs -> Report]
      BY <3>1, <3>2, ApplyOutcomeType DEF RowStatus, TerminalRow
    <3>4. [job[w] EXCEPT !.refresh = @ \ {s}] \in Job
      <4>1. job[w] \in Job
        OBVIOUS
      <4>2. job[w].refresh \ {s} \in SUBSET Stores
        BY <4>1 DEF Job
      <4> QED BY <4>1, <4>2, JobUpdateType
    <3>5. job' \in [Workers -> Job]
      BY <3>1, <3>4 DEF SetJob
    <3> QED BY <1>10, <2>2, <3>3, <3>5 DEF RefreshStore
  <2> QED BY <2>1, <2>2
<1>11. ASSUME NEW w \in Workers, RefreshDone(w) PROVE TypeOK'
  BY <1>11 DEF RefreshDone, PC
<1>12. ASSUME NEW w \in Workers, StartStore(w) PROVE TypeOK'
  <2>1. PICK s \in job[w].todo :
          \/ /\ Fenced(w)
             /\ RecordStarted(job[w].run, s)
             /\ SetJob(w, [job[w] EXCEPT !.todo     = @ \ {s},
                                         !.inflight = @ \cup {s}])
          \/ /\ SetJob(w, [job[w] EXCEPT !.todo = @ \ {s}, !.failed = TRUE])
             /\ UNCHANGED row
    BY <1>12 DEF StartStore
  <2>2. s \in Stores
    BY DEF Job
  <2>3. /\ [job[w] EXCEPT !.todo = @ \ {s}, !.inflight = @ \cup {s}] \in Job
        /\ [job[w] EXCEPT !.todo = @ \ {s}, !.failed = TRUE] \in Job
    <3>1. job[w] \in Job
      OBVIOUS
    <3>2. /\ job[w].todo \ {s} \in SUBSET Stores
          /\ job[w].inflight \cup {s} \in SUBSET Stores
      BY <2>2, <3>1 DEF Job
    <3> QED BY <3>1, <3>2, JobUpdateType
  <2>4. job' \in [Workers -> Job]
    BY <2>1, <2>3 DEF SetJob
  <2>5. row' \in [Runs -> [Stores -> RowStatus]]
    <3>1. CASE UNCHANGED row
      BY <3>1
    <3>2. CASE Fenced(w) /\ RecordStarted(job[w].run, s)
      <4>1. job[w].run \in Runs
        BY <3>2 DEF Fenced, Job
      <4>2. PICK o \in RowStatus : row' = [row EXCEPT ![job[w].run][s] = o]
        BY <2>2, <3>2, <4>1 DEF RecordStarted, RowStatus
      <4> QED BY <2>2, <4>1, <4>2
    <3> QED BY <2>1, <3>1, <3>2
  <2> QED BY <1>12, <2>4, <2>5 DEF StartStore
<1>13. ASSUME NEW w \in Workers, FinishStore(w) PROVE TypeOK'
  <2>1. PICK s \in job[w].inflight, a \in Answers :
          /\ SetJob(w, [job[w] EXCEPT
               !.inflight  = @ \ {s},
               !.matched   = @ \cup {t \in {s} : a.m},
               !.unmatched = @ \cup {t \in {s} : a.u},
               !.errs      = @ \cup {t \in {s} : a.e}])
          /\ IF Fenced(w) THEN ApplyOutcome(job[w].run, s, a.row)
                          ELSE UNCHANGED <<row, report>>
    BY <1>13 DEF FinishStore
  <2>2. s \in Stores
    BY DEF Job
  <2>3. [job[w] EXCEPT !.inflight  = @ \ {s},
                       !.matched   = @ \cup {t \in {s} : a.m},
                       !.unmatched = @ \cup {t \in {s} : a.u},
                       !.errs      = @ \cup {t \in {s} : a.e}] \in Job
    <3>1. job[w] \in Job
      OBVIOUS
    <3>2. /\ job[w].inflight \ {s} \in SUBSET Stores
          /\ job[w].matched \cup {t \in {s} : a.m} \in SUBSET Stores
          /\ job[w].unmatched \cup {t \in {s} : a.u} \in SUBSET Stores
          /\ job[w].errs \cup {t \in {s} : a.e} \in SUBSET Stores
      BY <2>2, <3>1 DEF Job
    <3> QED BY <3>1, <3>2, JobUpdateType
  <2>4. job' \in [Workers -> Job]
    BY <2>1, <2>3 DEF SetJob
  <2>5. a.row \in RowStatus
    BY DEF Answers, RowStatus, TerminalRow
  <2>6. Fenced(w) => job[w].run \in Runs
    BY DEF Fenced, Job
  <2>7. /\ row' \in [Runs -> [Stores -> RowStatus]]
        /\ report' \in [Runs -> Report]
    BY <2>1, <2>2, <2>5, <2>6, ApplyOutcomeType
  <2> QED BY <1>13, <2>4, <2>7 DEF FinishStore
<1>14. ASSUME NEW w \in Workers, StoreRaises(w) PROVE TypeOK'
  <2>1. PICK s \in job[w].inflight :
          SetJob(w, [job[w] EXCEPT !.inflight = @ \ {s}, !.failed = TRUE])
    BY <1>14 DEF StoreRaises
  <2>2. [job[w] EXCEPT !.inflight = @ \ {s}, !.failed = TRUE] \in Job
    <3>1. job[w] \in Job
      OBVIOUS
    <3>2. job[w].inflight \ {s} \in SUBSET Stores
      BY <3>1 DEF Job
    <3> QED BY <3>1, <3>2, JobUpdateType
  <2>3. job' \in [Workers -> Job]
    BY <2>1, <2>2 DEF SetJob
  <2> QED BY <1>14, <2>3 DEF StoreRaises
<1>15. ASSUME NEW w \in Workers, Raise(w) PROVE TypeOK'
  BY <1>15 DEF Raise, Failing, PC
<1>16. ASSUME NEW w \in Workers, Persist(w) PROVE TypeOK'
  <2>1. CASE ~Fenced(w)
    BY <1>16, <2>1 DEF Persist, Failing, PC
  <2>2. CASE Fenced(w)
    <3> DEFINE r == job[w].run
               final == CompletedReport(report[r], job[w])
    <3>1. r \in Runs
      BY <2>2 DEF Fenced, Job
    <3>2. FinalizeCompleted(r, final) /\ EndProcess(w)
      BY <1>16, <2>2 DEF Persist
    <3>3. final \in Report
      BY <3>1, CompletedReportType
    <3>4. Cardinality(TerminalStores(r)) \in Nat
      BY StoreCount DEF TerminalStores
    <3>5. Larger(final.completed, Cardinality(TerminalStores(r))) \in Nat
      BY <3>3, <3>4 DEF Larger, Report
    <3>6. report' \in [Runs -> Report]
      <4> HIDE DEF final
      <4>1. [final EXCEPT !.completed =
               Larger(final.completed, Cardinality(TerminalStores(r)))] \in Report
        BY <3>3, <3>5 DEF Report
      <4> QED BY <3>1, <3>2, <4>1 DEF FinalizeCompleted
    <3>7. /\ status' \in [Runs -> RunStatus]
          /\ holder' \in [Runs -> Workers \cup {NoWorker}]
          /\ lease' \in [Runs -> Lease]
          /\ notif' \in SUBSET (Runs \X TerminalStatus)
      BY <3>1, <3>2 DEF FinalizeCompleted, RunStatus, Lease, TerminalStatus
    <3>8. /\ pc' \in [Workers -> PC]
          /\ queue' \in [Workers -> SUBSET Runs]
          /\ job' \in [Workers -> Job]
          /\ hb' \in [Workers -> BOOLEAN]
      BY <3>2, EndProcessType
    <3> QED BY <1>16, <3>6, <3>7, <3>8 DEF Persist
  <2> QED BY <2>1, <2>2
<1>17. ASSUME NEW w \in Workers, FinalizeFailure(w) PROVE TypeOK'
  <2>1. PICK R \in SUBSET Runs : FinalizeFailed(R, {})
    BY <1>17 DEF FinalizeFailure, Fenced, Job
  <2>2. /\ status' \in [Runs -> RunStatus]
        /\ holder' \in [Runs -> Workers \cup {NoWorker}]
        /\ lease' \in [Runs -> Lease]
        /\ notif' \in SUBSET (Runs \X TerminalStatus)
    BY <2>1, FinalizeFailedType
  <2>3. /\ pc' \in [Workers -> PC]
        /\ queue' \in [Workers -> SUBSET Runs]
        /\ job' \in [Workers -> Job]
        /\ hb' \in [Workers -> BOOLEAN]
    BY <1>17, EndProcessType DEF FinalizeFailure
  <2> QED BY <1>17, <2>2, <2>3 DEF FinalizeFailure
<1>18. ASSUME NEW w \in Workers, Heartbeat(w) PROVE TypeOK'
  BY <1>18 DEF Heartbeat, Lease
<1>19. ASSUME NEW w \in Workers, WatchdogFire(w) PROVE TypeOK'
  BY <1>19 DEF WatchdogFire, ExpireLease, Lease
<1>20. ASSUME NEW w \in Workers, WatchdogExit(w) PROVE TypeOK'
  BY <1>20, NoJobType DEF WatchdogExit, Die, PC
<1>21. ASSUME NEW w \in Workers, Crash(w) PROVE TypeOK'
  BY <1>21, NoJobType, BoundsAssumption DEF Crash, Fault, Die, PC
<1>22. ASSUME NEW w \in Workers, Stall(w) PROVE TypeOK'
  BY <1>22, BoundsAssumption DEF Stall, Fault
<1>23. ASSUME NEW w \in Workers, Resume(w) PROVE TypeOK'
  BY <1>23 DEF Resume
<1>24. ASSUME NEW w \in Workers, FinalizeLost(w) PROVE TypeOK'
  BY <1>24, NoJobType, BoundsAssumption DEF FinalizeLost, Fault, EndProcess, PC
<1>25. ASSUME NEW r \in Runs, LeaseExpires(r) PROVE TypeOK'
  BY <1>25 DEF LeaseExpires, Lease
<1>26. ASSUME NEW r \in Runs, LeaseExpiresEarly(r) PROVE TypeOK'
  BY <1>26, BoundsAssumption DEF LeaseExpiresEarly, Fault, Lease
<1> QED
  BY <1>1, <1>2, <1>3, <1>4, <1>5, <1>6, <1>7, <1>8, <1>9, <1>10, <1>11, <1>12,
     <1>13, <1>14, <1>15, <1>16, <1>17, <1>18, <1>19, <1>20, <1>21, <1>22,
     <1>23, <1>24, <1>25, <1>26
     DEF Next, Sweep, Execute, Watchdog

\* The variables of the queue keep their types in every reachable state.
THEOREM TypeCorrect == Spec => []TypeOK
<1>1. Init => TypeOK
  BY InitType
<1>2. TypeOK /\ [Next]_vars => TypeOK'
  BY NextType
<1> QED BY <1>1, <1>2, PTL DEF Spec

-----------------------------------------------------------------------------
(* Requests: one active run per product, one notice per end. *)

\* What the table shows to a request: the rows, their products and notices.
table == <<status, product, notif, nextRun, seen, snap>>

RequestInv == OneActivePerProduct /\ NotifiedOnce /\ Fresh

\* Only these actions change the table; every other one leaves it as it is.
LEMMA TableFrame ==
    ASSUME [Next]_vars
    PROVE  \/ \E c \in Clients : StartRead(c) \/ StartWrite(c)
           \/ \E w \in Workers : \/ SweepRead(w) \/ ReconcileWrite(w)
                                 \/ ClaimSome(w) \/ WatchdogExit(w)
                                 \/ Persist(w) \/ FinalizeFailure(w) \/ Crash(w)
           \/ UNCHANGED table
<1> USE DEF table, db, main, threads, clients, vars
<1>1. CASE UNCHANGED vars
  BY <1>1
<1>2. ASSUME NEW w \in Workers, ClaimNone(w) \/ Begin(w)
      PROVE  UNCHANGED table
  BY <1>2 DEF ClaimNone, Begin
<1>3. ASSUME NEW w \in Workers, ResolveTargets(w) \/ RefreshStore(w)
      PROVE  UNCHANGED table
  BY <1>3 DEF ResolveTargets, RefreshStore
<1>4. ASSUME NEW w \in Workers, RefreshDone(w) \/ StartStore(w)
      PROVE  UNCHANGED table
  BY <1>4 DEF RefreshDone, StartStore
<1>5. ASSUME NEW w \in Workers, FinishStore(w) \/ StoreRaises(w) \/ Raise(w)
      PROVE  UNCHANGED table
  BY <1>5 DEF FinishStore, StoreRaises, Raise
<1>6. ASSUME NEW w \in Workers, Heartbeat(w) \/ WatchdogFire(w) \/ Stall(w)
      PROVE  UNCHANGED table
  BY <1>6 DEF Heartbeat, WatchdogFire, Stall
<1>7. ASSUME NEW w \in Workers, Resume(w) \/ FinalizeLost(w)
      PROVE  UNCHANGED table
  BY <1>7 DEF Resume, FinalizeLost, EndProcess
<1>8. ASSUME NEW r \in Runs, LeaseExpires(r) \/ LeaseExpiresEarly(r)
      PROVE  UNCHANGED table
  BY <1>8 DEF LeaseExpires, LeaseExpiresEarly
<1> QED
  BY <1>1, <1>2, <1>3, <1>4, <1>5, <1>6, <1>7, <1>8
     DEF Next, Sweep, Execute, Watchdog

\* Without runs there are no notices and no active run.
LEMMA RequestInit == Init => RequestInv
BY BoundsAssumption
   DEF Init, RequestInv, OneActivePerProduct, NotifiedOnce, Fresh, ActiveStatus,
       TerminalStatus

\* finalize_failed of existing runs, with nothing inserted.
LEMMA FinalizeKeepsRequests ==
    ASSUME TypeOK, RequestInv, NEW R \in SUBSET Runs,
           \A r \in R : r < nextRun,
           FinalizeFailed(R, {}), UNCHANGED <<product, nextRun, seen>>,
           \A w \in Workers : snap'[w] \subseteq snap[w]
    PROVE  RequestInv'
<1>1. OneActivePerProduct'
  BY DEF RequestInv, OneActivePerProduct, FinalizeFailed, TypeOK, ActiveStatus
<1>2. NotifiedOnce'
  BY DEF RequestInv, NotifiedOnce, FinalizeFailed, TypeOK, TerminalStatus
<1>3. Fresh'
  BY DEF RequestInv, Fresh, FinalizeFailed, TypeOK
<1> QED BY <1>1, <1>2, <1>3 DEF RequestInv

\* The insert under the partial unique index, or the loss of the race for it.
LEMMA StartKeepsRequests ==
    ASSUME TypeOK, RequestInv, NEW c \in Clients, StartWrite(c)
    PROVE  RequestInv'
<1> DEFINE p      == want[c]
           read   == {seen[c]} \ {NoRun}
           winner == IndexHolder(p, read)
           killed == read \cup {r \in winner : StaleRunning(r)}
           create == winner \subseteq killed
<1>1. /\ p \in Products
      /\ nextRun \in Runs
      /\ FinalizeFailed(killed, IF create THEN {nextRun} ELSE {})
      /\ IF create THEN /\ product' = [product EXCEPT ![nextRun] = p]
                        /\ nextRun' = nextRun + 1
                   ELSE UNCHANGED <<product, nextRun>>
      /\ seen' = [seen EXCEPT ![c] = NoRun]
      /\ UNCHANGED snap
  <2>1. want[c] \in Products /\ nextRun \in Runs
    BY DEF StartWrite, TypeOK
  <2> QED BY <2>1 DEF StartWrite, main
<1>2. /\ killed \in SUBSET Runs
      /\ \A r \in killed : r < nextRun
  <2>1. read \in SUBSET Runs /\ \A r \in read : r < nextRun
    BY DEF TypeOK, RequestInv, Fresh
  <2>2. \A r \in winner : r \in Runs /\ r < nextRun
    BY <1>1 DEF IndexHolder, ActiveOf, RequestInv, Fresh, ActiveStatus, TypeOK
  <2> QED BY <2>1, <2>2
<1>3. CASE ~create
  <2>1. FinalizeFailed(killed, {}) /\ UNCHANGED <<product, nextRun>>
    BY <1>1, <1>3
  <2>2. OneActivePerProduct'
    BY <2>1 DEF RequestInv, OneActivePerProduct, FinalizeFailed, TypeOK,
                ActiveStatus
  <2>3. NotifiedOnce'
    BY <1>2, <2>1 DEF RequestInv, NotifiedOnce, FinalizeFailed, TypeOK,
                      TerminalStatus
  <2>4. Fresh'
    <3>1. \A r \in Runs : r >= nextRun => status'[r] = "absent"
      <4>1. \A r \in Runs : r \notin killed => status'[r] = status[r]
        BY <2>1 DEF FinalizeFailed
      <4> HIDE DEF killed
      <4> QED BY <1>2, <4>1 DEF RequestInv, Fresh, TypeOK
    <3>2. \A d \in Clients : seen'[d] < nextRun
      BY <1>1 DEF RequestInv, Fresh, TypeOK
    <3> QED BY <1>1, <2>1, <3>1, <3>2 DEF RequestInv, Fresh
  <2> QED BY <2>2, <2>3, <2>4 DEF RequestInv
<1>4. CASE create
  <2>1. /\ FinalizeFailed(killed, {nextRun})
        /\ product' = [product EXCEPT ![nextRun] = p]
        /\ nextRun' = nextRun + 1
    BY <1>1, <1>4
  <2>2. \A r \in ActiveOf(p) : r \in killed
    BY <1>4 DEF IndexHolder
  <2> HIDE DEF killed, read, winner, create, p
  <2>3. \A r \in Runs \ {nextRun} :
           /\ status'[r] = IF r \in killed THEN "failed" ELSE status[r]
           /\ product'[r] = product[r]
    BY <2>1 DEF FinalizeFailed, TypeOK
  <2>4. status'[nextRun] = "pending" /\ product'[nextRun] = p
    BY <1>1, <2>1 DEF FinalizeFailed, TypeOK
  <2>5. OneActivePerProduct'
    <3>1. \A r \in Runs \ {nextRun} :
             status'[r] \in ActiveStatus => product'[r] # p
      BY <2>2, <2>3 DEF ActiveOf, ActiveStatus
    <3>2. \A r \in Runs \ {nextRun} :
             status'[r] \in ActiveStatus =>
                status[r] \in ActiveStatus /\ product'[r] = product[r]
      BY <2>3 DEF ActiveStatus
    <3> QED BY <2>4, <3>1, <3>2 DEF RequestInv, OneActivePerProduct
  <2>6. NotifiedOnce'
    <3>1. notif' = notif \cup (killed \X {"failed"})
      BY <2>1 DEF FinalizeFailed
    <3>2. nextRun \notin killed /\ status[nextRun] = "absent"
      BY <1>1, <1>2 DEF RequestInv, Fresh, TypeOK
    <3>3. \A t \in TerminalStatus : <<nextRun, t>> \notin notif'
      BY <1>1, <3>1, <3>2 DEF RequestInv, NotifiedOnce, TerminalStatus
    <3>4. ASSUME NEW r \in Runs \ {nextRun}
          PROVE  /\ status'[r] \notin TerminalStatus =>
                       \A t \in TerminalStatus : <<r, t>> \notin notif'
                 /\ status'[r] \in TerminalStatus => <<r, status'[r]>> \in notif'
      BY <2>3, <3>1 DEF RequestInv, NotifiedOnce, TerminalStatus
    <3> QED BY <2>4, <3>3, <3>4 DEF NotifiedOnce, TerminalStatus
  <2>7. Fresh'
    <3>1. \A r \in Runs : r >= nextRun' => status'[r] = "absent"
      BY <1>1, <1>2, <2>1, <2>3 DEF RequestInv, Fresh, TypeOK
    <3>2. \A d \in Clients : seen'[d] < nextRun'
      BY <1>1, <2>1 DEF RequestInv, Fresh, TypeOK
    <3>3. \A w \in Workers : \A r \in snap'[w] : r < nextRun'
      BY <1>1, <2>1 DEF RequestInv, Fresh, TypeOK
    <3> QED BY <3>1, <3>2, <3>3 DEF Fresh
  <2> QED BY <2>5, <2>6, <2>7 DEF RequestInv
<1> QED BY <1>3, <1>4

\* Every step keeps the request invariant: one step per action that touches it.
LEMMA RequestNext == TypeOK /\ RequestInv /\ [Next]_vars => RequestInv'
<1> SUFFICES ASSUME TypeOK, RequestInv, [Next]_vars PROVE RequestInv'
  OBVIOUS
<1>1. CASE UNCHANGED table
  BY <1>1 DEF table, RequestInv, OneActivePerProduct, NotifiedOnce, Fresh
<1>2. ASSUME NEW c \in Clients, StartRead(c) PROVE RequestInv'
  <2>1. PICK r \in Runs \cup {NoRun} :
          /\ r # NoRun => r < nextRun
          /\ seen' = [seen EXCEPT ![c] = r]
    <3>1. PICK p \in Products :
            \E r \in ActiveOf(p) \cup {NoRun} : seen' = [seen EXCEPT ![c] = r]
      BY <1>2 DEF StartRead
    <3>2. \A q \in ActiveOf(p) : q \in Runs /\ q < nextRun
      BY DEF ActiveOf, RequestInv, Fresh, TypeOK, ActiveStatus
    <3> QED BY <3>1, <3>2
  <2>2. UNCHANGED <<status, product, notif, nextRun, snap>>
    BY <1>2 DEF StartRead, db, main
  <2>3. OneActivePerProduct' /\ NotifiedOnce'
    BY <2>2 DEF RequestInv, OneActivePerProduct, NotifiedOnce
  <2>4. Fresh'
    BY <2>1, <2>2 DEF RequestInv, Fresh, TypeOK
  <2> QED BY <2>3, <2>4 DEF RequestInv
<1>3. ASSUME NEW c \in Clients, StartWrite(c) PROVE RequestInv'
  BY <1>3, StartKeepsRequests
<1>4. ASSUME NEW w \in Workers, SweepRead(w) PROVE RequestInv'
  <2>1. UNCHANGED <<status, product, notif, nextRun, seen>>
    BY <1>4 DEF SweepRead, db, clients
  <2>2. /\ snap' = [snap EXCEPT ![w] = Exhausted]
        /\ \A r \in Exhausted : r < nextRun
    BY <1>4 DEF SweepRead, Exhausted, StaleRunning, RequestInv, Fresh, TypeOK
  <2>3. OneActivePerProduct' /\ NotifiedOnce'
    BY <2>1 DEF RequestInv, OneActivePerProduct, NotifiedOnce
  <2>4. Fresh'
    BY <2>1, <2>2 DEF RequestInv, Fresh, TypeOK
  <2> QED BY <2>3, <2>4 DEF RequestInv
<1>5. ASSUME NEW w \in Workers, ReconcileWrite(w) PROVE RequestInv'
  <2>1. /\ FinalizeFailed(snap[w], {})
        /\ UNCHANGED <<product, nextRun, seen>>
        /\ snap' = [snap EXCEPT ![w] = {}]
    BY <1>5 DEF ReconcileWrite, clients
  <2>2. /\ snap[w] \in SUBSET Runs
        /\ \A r \in snap[w] : r < nextRun
    BY DEF RequestInv, Fresh, TypeOK
  <2>3. \A v \in Workers : snap'[v] \subseteq snap[v]
    BY <2>1 DEF TypeOK
  <2> QED BY <2>1, <2>2, <2>3, FinalizeKeepsRequests
<1>6. ASSUME NEW w \in Workers, ClaimSome(w) PROVE RequestInv'
  <2>1. PICK claimed \in SUBSET Runs :
          /\ \A r \in claimed : status[r] \in ActiveStatus
          /\ status' = [r \in Runs |-> IF r \in claimed THEN "running"
                                       ELSE status[r]]
    BY <1>6 DEF ClaimSome, Oldest, DueRuns, Due
  <2>2. UNCHANGED <<product, notif, nextRun, seen, snap>>
    BY <1>6 DEF ClaimSome, clients
  <2>3. \A r \in Runs :
           \/ status'[r] = status[r]
           \/ status[r] \in ActiveStatus /\ status'[r] = "running"
    BY <2>1
  <2>4. OneActivePerProduct'
    BY <2>2, <2>3 DEF RequestInv, OneActivePerProduct, ActiveStatus
  <2>5. NotifiedOnce'
    BY <2>2, <2>3 DEF RequestInv, NotifiedOnce, ActiveStatus, TerminalStatus
  <2>6. Fresh'
    BY <2>2, <2>3 DEF RequestInv, Fresh, ActiveStatus
  <2> QED BY <2>4, <2>5, <2>6 DEF RequestInv
<1>7. ASSUME NEW w \in Workers, WatchdogExit(w) \/ Crash(w) PROVE RequestInv'
  <2>1. /\ UNCHANGED <<status, product, notif, nextRun, seen>>
        /\ snap' = [snap EXCEPT ![w] = {}]
    BY <1>7 DEF WatchdogExit, Crash, Die, db, clients
  <2>2. OneActivePerProduct' /\ NotifiedOnce'
    BY <2>1 DEF RequestInv, OneActivePerProduct, NotifiedOnce
  <2>3. Fresh'
    BY <2>1 DEF RequestInv, Fresh, TypeOK
  <2> QED BY <2>2, <2>3 DEF RequestInv
<1>8. ASSUME NEW w \in Workers, Persist(w) PROVE RequestInv'
  <2>1. CASE ~Fenced(w)
    <3>1. UNCHANGED table
      BY <1>8, <2>1 DEF Persist, table, clients
    <3> QED BY <1>1, <3>1
  <2>2. CASE Fenced(w)
    <3>1. PICK r \in Runs :
            /\ status[r] = "running"
            /\ status' = [status EXCEPT ![r] = "completed"]
            /\ notif' = notif \cup {<<r, "completed">>}
      BY <1>8, <2>2 DEF Persist, Fenced, LockClaim, FinalizeCompleted, TypeOK, Job
    <3>2. UNCHANGED <<product, nextRun, seen, snap>>
      BY <1>8 DEF Persist, clients
    <3>3. OneActivePerProduct'
      BY <3>1, <3>2 DEF RequestInv, OneActivePerProduct, ActiveStatus, TypeOK
    <3>4. NotifiedOnce'
      BY <3>1, <3>2 DEF RequestInv, NotifiedOnce, TerminalStatus, TypeOK
    <3>5. Fresh'
      BY <3>1, <3>2 DEF RequestInv, Fresh, TypeOK
    <3> QED BY <3>3, <3>4, <3>5 DEF RequestInv
  <2> QED BY <2>1, <2>2
<1>9. ASSUME NEW w \in Workers, FinalizeFailure(w) PROVE RequestInv'
  <2>1. PICK R \in SUBSET Runs :
          /\ \A r \in R : status[r] = "running"
          /\ FinalizeFailed(R, {})
    BY <1>9 DEF FinalizeFailure, Fenced, LockClaim, TypeOK, Job
  <2>2. UNCHANGED <<product, nextRun, seen, snap>>
    BY <1>9 DEF FinalizeFailure, clients
  <2>3. \A r \in R : r < nextRun
    BY <2>1 DEF RequestInv, Fresh, TypeOK
  <2> QED BY <2>1, <2>2, <2>3, FinalizeKeepsRequests
<1> QED
  BY <1>1, <1>2, <1>3, <1>4, <1>5, <1>6, <1>7, <1>8, <1>9, TableFrame

\* However requests race, a product has at most one active run; and a run that
\* is active has told nobody of its end, one that has ended has.
THEOREM RequestsCorrect == Spec => []RequestsAreServed
<1>1. Init => RequestInv
  BY RequestInit
<1>2. TypeOK /\ RequestInv /\ [Next]_vars => RequestInv'
  BY RequestNext
<1>3. RequestInv => RequestsAreServed
  BY DEF RequestInv, RequestsAreServed
<1> QED BY <1>1, <1>2, <1>3, TypeCorrect, PTL DEF Spec

-----------------------------------------------------------------------------
(* Fencing: two executions never carry one generation. *)

FenceInv == ClaimOwned /\ DistinctGenerations

\* Executions go on or end, and claims are at most given up.
Continues ==
    /\ \A v \in Workers :
          pc'[v] \in Executing =>
             /\ pc[v] \in Executing
             /\ job'[v].run = job[v].run
             /\ job'[v].gen = job[v].gen
    /\ UNCHANGED attempts
    /\ \A r \in Runs : holder'[r] \in {holder[r], NoWorker}

\* A step that neither claims a run nor starts an execution keeps the
\* claims apart.
LEMMA ContinuesKeepsFence ==
    ASSUME TypeOK, FenceInv, Continues
    PROVE  FenceInv'
<1>1. ClaimOwned'
  <2> SUFFICES ASSUME NEW w \in Workers, pc'[w] \in Executing
               PROVE  /\ job'[w].run # NoRun
                      /\ job'[w].gen <= attempts'[job'[w].run]
                      /\ job'[w].gen = attempts'[job'[w].run] =>
                            holder'[job'[w].run] \in {w, NoWorker}
    BY DEF ClaimOwned, Executing
  <2>1. /\ pc[w] \in Executing
        /\ job'[w].run = job[w].run
        /\ job'[w].gen = job[w].gen
        /\ attempts' = attempts
    BY DEF Continues
  <2>2. job[w].run # NoRun /\ job[w].run \in Runs
    BY <2>1 DEF FenceInv, ClaimOwned, TypeOK, Job
  <2>3. holder'[job[w].run] \in {holder[job[w].run], NoWorker}
    BY <2>2 DEF Continues
  <2> QED BY <2>1, <2>2, <2>3 DEF FenceInv, ClaimOwned
<1>2. DistinctGenerations'
  BY DEF Continues, FenceInv, DistinctGenerations
<1> QED BY <1>1, <1>2 DEF FenceInv

\* A step of w's own code that leaves the run and the generation alone.
LEMMA OwnStepContinues ==
    ASSUME TypeOK, NEW w \in Workers,
           \/ pc'[w] \notin Executing
           \/ /\ pc[w] \in Executing
              /\ job'[w].run = job[w].run
              /\ job'[w].gen = job[w].gen,
           \A v \in Workers \ {w} : pc'[v] = pc[v] /\ job'[v] = job[v],
           UNCHANGED attempts,
           \A r \in Runs : holder'[r] \in {holder[r], NoWorker}
    PROVE  Continues
BY DEF Continues

\* What the steps of an execution do to pc and job.
LEMMA ExecuteStep ==
    ASSUME TypeOK, NEW w \in Workers, Execute(w)
    PROVE  /\ pc[w] \in Executing
           /\ \A v \in Workers \ {w} : pc'[v] = pc[v] /\ job'[v] = job[v]
           /\ \/ pc'[w] \notin Executing
              \/ job'[w].run = job[w].run /\ job'[w].gen = job[w].gen
           /\ UNCHANGED attempts
           /\ \A r \in Runs : holder'[r] \in {holder[r], NoWorker}
<1> USE DEF Executing, TypeOK, db, threads, clients
<1>0. job[w] \in Job
  OBVIOUS
<1>1. CASE ResolveTargets(w)
  <2>1. /\ pc[w] = "resolve"
        /\ \E x \in PC : pc' = [pc EXCEPT ![w] = x]
        /\ UNCHANGED <<attempts, holder>>
    BY <1>1 DEF ResolveTargets, Failing, PC
  <2>2. \/ job' = job
        \/ \E A, B, C \in SUBSET Stores :
              job' = [job EXCEPT ![w] = [job[w] EXCEPT !.refresh = A, !.todo = B,
                                                       !.matched = C]]
    <3>1. CASE ~Fenced(w)
      BY <1>1, <3>1 DEF ResolveTargets
    <3>2. CASE Fenced(w)
      <4>1. PICK targets, listed \in SUBSET Stores :
              SetJob(w, [job[w] EXCEPT
                 !.refresh = (targets \cap listed) \ job[w].skip,
                 !.todo    = targets \ (listed \cup job[w].skip),
                 !.matched = {s \in Stores : row[job[w].run][s] = "match"}])
        BY <1>1, <3>2 DEF ResolveTargets, TargetSets
      <4> DEFINE A == (targets \cap listed) \ job[w].skip
                 B == targets \ (listed \cup job[w].skip)
                 C == {s \in Stores : row[job[w].run][s] = "match"}
      <4>2. A \in SUBSET Stores /\ B \in SUBSET Stores /\ C \in SUBSET Stores
        OBVIOUS
      <4>3. job' = [job EXCEPT ![w] = [job[w] EXCEPT !.refresh = A, !.todo = B,
                                                     !.matched = C]]
        BY <4>1 DEF SetJob
      <4> HIDE DEF A, B, C
      <4> QED BY <4>2, <4>3
    <3> QED BY <3>1, <3>2
  <2>3. \E j : /\ job' = [job EXCEPT ![w] = j]
               /\ j.run = job[w].run /\ j.gen = job[w].gen
    <3>1. CASE job' = job
      <4>1. job' = [job EXCEPT ![w] = job[w]]
        BY <3>1
      <4> QED BY <4>1
    <3>2. CASE job' # job
      <4>1. PICK A, B, C \in SUBSET Stores :
              job' = [job EXCEPT ![w] = [job[w] EXCEPT !.refresh = A, !.todo = B,
                                                       !.matched = C]]
        BY <2>2, <3>2
      <4> DEFINE j == [job[w] EXCEPT !.refresh = A, !.todo = B, !.matched = C]
      <4>2. j.run = job[w].run /\ j.gen = job[w].gen
        BY <1>0 DEF Job
      <4> HIDE DEF j
      <4> QED BY <4>1, <4>2 DEF j
    <3> QED BY <3>1, <3>2
  <2> QED BY <2>1, <2>3
<1>2. CASE RefreshStore(w)
  BY <1>0, <1>2 DEF RefreshStore, Failing, SetJob, Job
<1>3. CASE RefreshDone(w)
  BY <1>3 DEF RefreshDone
<1>4. CASE StartStore(w)
  <2>1. pc[w] = "discover" /\ UNCHANGED <<pc, attempts, holder>>
    BY <1>4 DEF StartStore
  <2>2. \E A, B \in SUBSET Stores :
          \/ job' = [job EXCEPT ![w] = [job[w] EXCEPT !.todo = A, !.inflight = B]]
          \/ job' = [job EXCEPT ![w] = [job[w] EXCEPT !.todo = A, !.failed = TRUE]]
    <3>1. PICK s \in job[w].todo :
            \/ SetJob(w, [job[w] EXCEPT !.todo     = @ \ {s},
                                        !.inflight = @ \cup {s}])
            \/ SetJob(w, [job[w] EXCEPT !.todo = @ \ {s}, !.failed = TRUE])
      BY <1>4 DEF StartStore
    <3>2. /\ job[w].todo \ {s} \in SUBSET Stores
          /\ job[w].inflight \cup {s} \in SUBSET Stores
      BY <1>0 DEF Job
    <3> DEFINE A == job[w].todo \ {s}
               B == job[w].inflight \cup {s}
    <3>3. \/ job' = [job EXCEPT ![w] = [job[w] EXCEPT !.todo = A, !.inflight = B]]
          \/ job' = [job EXCEPT ![w] = [job[w] EXCEPT !.todo = A, !.failed = TRUE]]
      BY <3>1 DEF SetJob
    <3> HIDE DEF A, B
    <3> QED BY <3>2, <3>3 DEF A, B
  <2>3. \E j : /\ job' = [job EXCEPT ![w] = j]
               /\ j.run = job[w].run /\ j.gen = job[w].gen
    <3>1. PICK A, B \in SUBSET Stores :
            \/ job' = [job EXCEPT ![w] = [job[w] EXCEPT !.todo = A, !.inflight = B]]
            \/ job' = [job EXCEPT ![w] = [job[w] EXCEPT !.todo = A, !.failed = TRUE]]
      BY <2>2
    <3> DEFINE j1 == [job[w] EXCEPT !.todo = A, !.inflight = B]
               j2 == [job[w] EXCEPT !.todo = A, !.failed = TRUE]
    <3>2. /\ j1.run = job[w].run /\ j1.gen = job[w].gen
          /\ j2.run = job[w].run /\ j2.gen = job[w].gen
      BY <1>0 DEF Job
    <3>3. job' = [job EXCEPT ![w] = j1] \/ job' = [job EXCEPT ![w] = j2]
      BY <3>1
    <3> HIDE DEF j1, j2
    <3> QED BY <3>2, <3>3
  <2> QED BY <2>1, <2>3
<1>5. CASE FinishStore(w)
  BY <1>0, <1>5 DEF FinishStore, SetJob, Job
<1>6. CASE StoreRaises(w)
  BY <1>0, <1>6 DEF StoreRaises, SetJob, Job
<1>7. CASE Raise(w)
  BY <1>7 DEF Raise, Failing
<1>8. CASE Persist(w)
  BY <1>8 DEF Persist, Failing, EndProcess, FinalizeCompleted
<1>9. CASE FinalizeFailure(w)
  BY <1>9 DEF FinalizeFailure, EndProcess, FinalizeFailed
<1> QED
  BY <1>1, <1>2, <1>3, <1>4, <1>5, <1>6, <1>7, <1>8, <1>9 DEF Execute

\* Without claims no two executions share a generation.
LEMMA FenceInit == Init => FenceInv
BY DEF Init, FenceInv, ClaimOwned, DistinctGenerations, Executing

\* Every step keeps the fence; only a claim and a start of an execution do more
\* than go on or give up.
LEMMA FenceNext == TypeOK /\ FenceInv /\ [Next]_vars => FenceInv'
<1> SUFFICES ASSUME TypeOK, FenceInv, [Next]_vars PROVE FenceInv'
  OBVIOUS
<1>1. CASE UNCHANGED <<pc, job, attempts, holder>>
  BY <1>1 DEF FenceInv, ClaimOwned, DistinctGenerations, Executing
<1>2. CASE \/ UNCHANGED vars
           \/ \E c \in Clients : StartRead(c)
           \/ \E w \in Workers : Heartbeat(w) \/ WatchdogFire(w)
           \/ \E w \in Workers : Stall(w) \/ Resume(w)
           \/ \E r \in Runs : LeaseExpires(r) \/ LeaseExpiresEarly(r)
  BY <1>1, <1>2
     DEF vars, db, main, StartRead, Heartbeat, WatchdogFire, Stall, Resume,
         LeaseExpires, LeaseExpiresEarly
<1>3. ASSUME NEW c \in Clients, StartWrite(c) PROVE FenceInv'
  <2>1. PICK R, N : FinalizeFailed(R, N)
    BY <1>3 DEF StartWrite
  <2>2. Continues
    BY <1>3, <2>1 DEF StartWrite, FinalizeFailed, Continues, main, TypeOK
  <2> QED BY <2>2, ContinuesKeepsFence
<1>4. ASSUME NEW w \in Workers,
             SweepRead(w) \/ ReconcileWrite(w) \/ ClaimNone(w)
      PROVE  FenceInv'
  <2>1. /\ pc'[w] \notin Executing
        /\ \A v \in Workers \ {w} : pc'[v] = pc[v] /\ job'[v] = job[v]
        /\ UNCHANGED attempts
        /\ \A r \in Runs : holder'[r] \in {holder[r], NoWorker}
    BY <1>4 DEF SweepRead, ReconcileWrite, ClaimNone, FinalizeFailed, db, TypeOK,
                Executing
  <2> QED BY <2>1, OwnStepContinues, ContinuesKeepsFence
<1>5. ASSUME NEW w \in Workers, ClaimSome(w) PROVE FenceInv'
  <2>1. PICK claimed \in SUBSET Runs :
          /\ attempts' = [r \in Runs |-> IF r \in claimed THEN attempts[r] + 1
                                         ELSE attempts[r]]
          /\ holder'   = [r \in Runs |-> IF r \in claimed THEN w
                                         ELSE holder[r]]
    BY <1>5 DEF ClaimSome, Oldest, DueRuns, NextAttempt
  <2>2. /\ pc' = [pc EXCEPT ![w] = "process"]
        /\ UNCHANGED job
    BY <1>5 DEF ClaimSome
  <2>3. \A v \in Workers :
           pc'[v] \in Executing => pc[v] \in Executing /\ job'[v] = job[v]
    BY <2>2 DEF TypeOK, Executing
  <2>4. ClaimOwned'
    <3> SUFFICES ASSUME NEW v \in Workers, pc'[v] \in Executing
                 PROVE  /\ job'[v].run # NoRun
                        /\ job'[v].gen <= attempts'[job'[v].run]
                        /\ job'[v].gen = attempts'[job'[v].run] =>
                              holder'[job'[v].run] \in {v, NoWorker}
      BY DEF ClaimOwned, Executing
    <3>1. pc[v] \in Executing /\ job'[v] = job[v]
      BY <2>3
    <3>2. /\ job[v].run \in Runs
          /\ job[v].gen \in Nat
          /\ attempts[job[v].run] \in Nat
      BY <3>1 DEF FenceInv, ClaimOwned, TypeOK, Job
    <3> QED BY <2>1, <3>1, <3>2 DEF FenceInv, ClaimOwned
  <2>5. DistinctGenerations'
    BY <2>3 DEF FenceInv, DistinctGenerations
  <2> QED BY <2>4, <2>5 DEF FenceInv
<1>6. ASSUME NEW w \in Workers, Begin(w) PROVE FenceInv'
  <2>1. PICK r \in queue[w] :
          \/ /\ LockClaim(r, w, attempts[r])
             /\ job' = [job EXCEPT ![w] =
                          [NoJob EXCEPT !.run  = r, !.gen = attempts[r],
                                        !.skip = TerminalStores(r)]]
             /\ pc' = [pc EXCEPT ![w] = "resolve"]
          \/ /\ pc' = [pc EXCEPT ![w] =
                         IF queue[w] = {r} THEN "idle" ELSE "process"]
             /\ UNCHANGED job
    BY <1>6 DEF Begin
  <2>2. r \in Runs /\ UNCHANGED <<attempts, holder>>
    BY <1>6 DEF Begin, db, TypeOK
  <2>3. CASE pc'[w] \notin Executing /\ UNCHANGED job
    <3>1. \A v \in Workers \ {w} : pc'[v] = pc[v] /\ job'[v] = job[v]
      BY <2>1, <2>3 DEF TypeOK
    <3> QED BY <2>2, <2>3, <3>1, OwnStepContinues, ContinuesKeepsFence
  <2>4. CASE /\ LockClaim(r, w, attempts[r])
             /\ job' = [job EXCEPT ![w] =
                          [NoJob EXCEPT !.run  = r, !.gen = attempts[r],
                                        !.skip = TerminalStores(r)]]
             /\ pc' = [pc EXCEPT ![w] = "resolve"]
    <3>1. job'[w].run = r /\ job'[w].gen = attempts[r]
      BY <2>4 DEF NoJob, TypeOK
    <3>2. \A v \in Workers \ {w} : pc'[v] = pc[v] /\ job'[v] = job[v]
      BY <2>4 DEF TypeOK
    <3>3. holder[r] = w /\ r # NoRun /\ w # NoWorker
      BY <2>2, <2>4, Distinguished DEF LockClaim
    <3>4. \A v \in Workers \ {w} :
             pc'[v] \in Executing /\ job'[v].run = r => job'[v].gen # attempts[r]
      BY <3>2, <3>3 DEF FenceInv, ClaimOwned, Executing
    <3>5. ClaimOwned'
      <4> SUFFICES ASSUME NEW v \in Workers, pc'[v] \in Executing
                   PROVE  /\ job'[v].run # NoRun
                          /\ job'[v].gen <= attempts[job'[v].run]
                          /\ job'[v].gen = attempts[job'[v].run] =>
                                holder[job'[v].run] \in {v, NoWorker}
        BY <2>2 DEF ClaimOwned, Executing
      <4>1. CASE v = w
        <5>1. attempts[r] \in Nat
          BY <2>2 DEF TypeOK
        <5> QED BY <3>1, <3>3, <4>1, <5>1
      <4>2. CASE v # w
        BY <3>2, <4>2 DEF FenceInv, ClaimOwned
      <4> QED BY <4>1, <4>2
    <3>6. DistinctGenerations'
      <4> SUFFICES ASSUME NEW u \in Workers, NEW v \in Workers,
                          pc'[u] \in Executing, pc'[v] \in Executing,
                          job'[u].run = job'[v].run, job'[u].gen = job'[v].gen
                   PROVE  u = v
        BY DEF DistinctGenerations, Executing
      <4>1. CASE u = w \/ v = w
        BY <3>1, <3>4, <4>1
      <4>2. CASE u # w /\ v # w
        BY <3>2, <4>2 DEF FenceInv, DistinctGenerations
      <4> QED BY <4>1, <4>2
    <3> QED BY <3>5, <3>6 DEF FenceInv
  <2>5. pc'[w] \in Executing \/ ~UNCHANGED job =>
           /\ LockClaim(r, w, attempts[r])
           /\ job' = [job EXCEPT ![w] =
                        [NoJob EXCEPT !.run  = r, !.gen = attempts[r],
                                      !.skip = TerminalStores(r)]]
           /\ pc' = [pc EXCEPT ![w] = "resolve"]
    BY <2>1 DEF TypeOK, Executing
  <2> QED BY <2>3, <2>4, <2>5
<1>7. ASSUME NEW w \in Workers, Execute(w) PROVE FenceInv'
  BY <1>7, ExecuteStep, OwnStepContinues, ContinuesKeepsFence
<1>8. ASSUME NEW w \in Workers, WatchdogExit(w) \/ Crash(w) \/ FinalizeLost(w)
      PROVE  FenceInv'
  <2>1. /\ pc'[w] \notin Executing
        /\ \A v \in Workers \ {w} : pc'[v] = pc[v] /\ job'[v] = job[v]
        /\ UNCHANGED attempts
        /\ \A r \in Runs : holder'[r] \in {holder[r], NoWorker}
    BY <1>8 DEF WatchdogExit, Crash, FinalizeLost, Die, EndProcess, db, TypeOK,
                Executing
  <2> QED BY <2>1, OwnStepContinues, ContinuesKeepsFence
<1> QED
  BY <1>2, <1>3, <1>4, <1>5, <1>6, <1>7, <1>8 DEF Next, Sweep, Watchdog

\* The fencing token works: two executions of one run never carry the same
\* generation, so at most one of them passes lock_claim.
THEOREM FenceCorrect == Spec => []DistinctGenerations
<1>1. Init => FenceInv
  BY FenceInit
<1>2. TypeOK /\ FenceInv /\ [Next]_vars => FenceInv'
  BY FenceNext
<1>3. FenceInv => DistinctGenerations
  BY DEF FenceInv
<1> QED BY <1>1, <1>2, <1>3, TypeCorrect, PTL DEF Spec

-----------------------------------------------------------------------------
(* The store rows and the report: who writes them, and what survives. *)

\* Only an execution touches the rows and the report.
LEMMA RowsFrame ==
    ASSUME [Next]_vars, \A w \in Workers : ~Execute(w)
    PROVE  UNCHANGED <<row, report>>
<1> USE DEF db, main, threads, clients, vars
<1>1. CASE UNCHANGED vars
  BY <1>1
<1>2. ASSUME NEW c \in Clients, StartRead(c) \/ StartWrite(c)
      PROVE  UNCHANGED <<row, report>>
  BY <1>2 DEF StartRead, StartWrite
<1>3. ASSUME NEW w \in Workers, Sweep(w) PROVE UNCHANGED <<row, report>>
  BY <1>3 DEF Sweep, SweepRead, ReconcileWrite, ClaimSome, ClaimNone, Begin
<1>4. ASSUME NEW w \in Workers, Heartbeat(w) \/ Watchdog(w)
      PROVE  UNCHANGED <<row, report>>
  BY <1>4 DEF Heartbeat, Watchdog, WatchdogFire, WatchdogExit
<1>5. ASSUME NEW w \in Workers,
             Crash(w) \/ Stall(w) \/ Resume(w) \/ FinalizeLost(w)
      PROVE  UNCHANGED <<row, report>>
  BY <1>5 DEF Crash, Stall, Resume, FinalizeLost
<1>6. ASSUME NEW r \in Runs, LeaseExpires(r) \/ LeaseExpiresEarly(r)
      PROVE  UNCHANGED <<row, report>>
  BY <1>6 DEF LeaseExpires, LeaseExpiresEarly
<1> QED BY <1>1, <1>2, <1>3, <1>4, <1>5, <1>6 DEF Next

\* What an execution does to the rows: nothing, or a write to its own run,
\* under the fence, that leaves an answered store alone and moves w on.
LEMMA ExecuteWrites ==
    ASSUME TypeOK, NEW w \in Workers, Execute(w)
    PROVE  \/ UNCHANGED <<row, report>>
           \/ /\ Fenced(w)
              /\ \A r \in Runs \ {job[w].run} :
                    row'[r] = row[r] /\ report'[r] = report[r]
              /\ \A s \in Stores :
                    row[job[w].run][s] \in TerminalRow =>
                       row'[job[w].run][s] = row[job[w].run][s]
              /\ pc'[w] # pc[w] \/ job'[w] # job[w]
<1> DEFINE run  == job[w].run
           Own  == \A r \in Runs \ {run} :
                      row'[r] = row[r] /\ report'[r] = report[r]
           Keep == \A s \in Stores :
                      row[run][s] \in TerminalRow => row'[run][s] = row[run][s]
           Move == pc'[w] # pc[w] \/ job'[w] # job[w]
<1>0. job[w] \in Job /\ pc[w] \in PC
  BY DEF TypeOK
<1>1. CASE ~Fenced(w) \/ RefreshDone(w) \/ StoreRaises(w) \/ Raise(w)
           \/ FinalizeFailure(w)
  BY <1>1 DEF Execute, ResolveTargets, RefreshStore, RefreshDone, StartStore,
              FinishStore, StoreRaises, Raise, Persist, FinalizeFailure, db
<1>2. Fenced(w) => run \in Runs
  BY <1>0 DEF Fenced, Job
<1>3. ASSUME NEW s \in Stores, NEW o, Fenced(w), ApplyOutcome(run, s, o)
      PROVE  Own /\ Keep
  <2>1. CASE UNCHANGED <<row, report>>
    BY <2>1
  <2>2. CASE ~UNCHANGED <<row, report>>
    <3>1. PICK n : /\ row[run][s] \notin TerminalRow
                   /\ row' = [row EXCEPT ![run][s] = o]
                   /\ report' = [report EXCEPT ![run] = n]
      BY <1>3, <2>2 DEF ApplyOutcome
    <3>2. run \in Runs /\ row \in [Runs -> [Stores -> RowStatus]]
      BY <1>2, <1>3 DEF TypeOK
    <3>3. \A r \in Runs \ {run} : row'[r] = row[r]
      BY <3>1, <3>2
    <3>4. \A t \in Stores \ {s} : row'[run][t] = row[run][t]
      BY <3>1, <3>2
    <3>5. \A r \in Runs \ {run} : report'[r] = report[r]
      BY <3>1 DEF TypeOK
    <3> HIDE DEF run
    <3> QED BY <3>1, <3>3, <3>4, <3>5
  <2> QED BY <2>1, <2>2
<1>4. CASE Fenced(w) /\ ResolveTargets(w)
  <2>1. PICK T, n :
          /\ RecordTargets(run, T)
          /\ report' = [report EXCEPT ![run] = n]
          /\ pc' = [pc EXCEPT ![w] = "refresh"]
    BY <1>4 DEF ResolveTargets
  <2>2. Own /\ Keep
    BY <1>2, <1>4, <2>1 DEF RecordTargets, TypeOK
  <2>3. Move
    BY <1>4, <2>1 DEF ResolveTargets, TypeOK
  <2> QED BY <1>4, <2>2, <2>3
<1>5. CASE Fenced(w) /\ RefreshStore(w)
  <2>1. PICK s \in job[w].refresh, o \in {"refreshed", "refresh_failed"} :
          /\ ApplyOutcome(run, s, o)
          /\ SetJob(w, [job[w] EXCEPT !.refresh = @ \ {s}])
    BY <1>5 DEF RefreshStore
  <2>2. Own /\ Keep
    BY <1>0, <1>3, <1>5, <2>1 DEF Job
  <2>3. job'[w].refresh # job[w].refresh
    BY <1>0, <2>1 DEF SetJob, Job, TypeOK
  <2> QED BY <1>5, <2>2, <2>3
<1>6. CASE Fenced(w) /\ StartStore(w)
  <2>1. PICK s \in job[w].todo :
          /\ RecordStarted(run, s)
          /\ SetJob(w, [job[w] EXCEPT !.todo     = @ \ {s},
                                      !.inflight = @ \cup {s}])
    BY <1>6 DEF StartStore
  <2>2. s \in Stores /\ UNCHANGED report
    BY <1>0, <1>6 DEF StartStore, Job
  <2>3. Own /\ Keep
    BY <1>2, <1>6, <2>1, <2>2 DEF RecordStarted, TypeOK
  <2>4. job'[w].todo # job[w].todo
    BY <1>0, <2>1 DEF SetJob, Job, TypeOK
  <2> QED BY <1>6, <2>3, <2>4
<1>7. CASE Fenced(w) /\ FinishStore(w)
  <2>1. PICK s \in job[w].inflight, a \in Answers :
          /\ ApplyOutcome(run, s, a.row)
          /\ SetJob(w, [job[w] EXCEPT
               !.inflight  = @ \ {s},
               !.matched   = @ \cup {t \in {s} : a.m},
               !.unmatched = @ \cup {t \in {s} : a.u},
               !.errs      = @ \cup {t \in {s} : a.e}])
    BY <1>7 DEF FinishStore
  <2>2. Own /\ Keep
    BY <1>0, <1>3, <1>7, <2>1 DEF Job
  <2>3. job'[w].inflight # job[w].inflight
    BY <1>0, <2>1 DEF SetJob, Job, TypeOK
  <2> QED BY <1>7, <2>2, <2>3
<1>8. CASE Fenced(w) /\ Persist(w)
  <2>1. PICK n :
          /\ report' = [report EXCEPT ![run] = n]
          /\ UNCHANGED row
          /\ pc[w] = "discover"
          /\ pc' = [pc EXCEPT ![w] = "idle"]
    BY <1>8 DEF Persist, FinalizeCompleted, EndProcess
  <2>2. Own /\ Keep
    BY <1>2, <1>8, <2>1 DEF TypeOK
  <2>3. Move
    BY <2>1 DEF TypeOK
  <2> QED BY <1>8, <2>2, <2>3
<1> QED BY <1>1, <1>4, <1>5, <1>6, <1>7, <1>8 DEF Execute

\* Every step that changes rows or a report is a step of the claim holder.
LEMMA HolderWritesNext == TypeOK /\ [Next]_vars => HolderWrites
<1> SUFFICES ASSUME TypeOK, [Next]_vars, NEW r \in Runs,
                    row'[r] # row[r] \/ report'[r] # report[r]
             PROVE  \E w \in Workers :
                       /\ status[r] = "running" /\ holder[r] = w
                       /\ job[w].run = r /\ job[w].gen = attempts[r]
                       /\ pc'[w] # pc[w] \/ job'[w] # job[w]
  BY DEF HolderWrites
<1>1. PICK w \in Workers : Execute(w)
  BY RowsFrame
<1> QED BY <1>1, ExecuteWrites DEF Fenced, LockClaim

\* No step changes a row that carries an answer.
LEMMA KeepAnswersNext == TypeOK /\ [Next]_vars => KeepAnswers
<1> SUFFICES ASSUME TypeOK, [Next]_vars, NEW r \in Runs, NEW s \in Stores,
                    row[r][s] \in TerminalRow
             PROVE  row'[r][s] = row[r][s]
  BY DEF KeepAnswers
<1>1. CASE \A w \in Workers : ~Execute(w)
  BY <1>1, RowsFrame
<1>2. ASSUME NEW w \in Workers, Execute(w) PROVE row'[r][s] = row[r][s]
  <2>1. CASE UNCHANGED row
    BY <2>1
  <2>2. CASE r = job[w].run
    BY <1>2, <2>2, ExecuteWrites
  <2>3. CASE r # job[w].run
    BY <1>2, <2>3, ExecuteWrites
  <2> QED BY <2>2, <2>3
<1> QED BY <1>1, <1>2

\* A zombie never writes: the rows and the report of a run change only by a
\* step of the worker that holds its current claim.
THEOREM HolderWritesCorrect == Spec => OnlyTheHolderWrites
<1>1. TypeOK /\ [Next]_vars => [HolderWrites]_vars
  BY HolderWritesNext
<1> QED BY <1>1, TypeCorrect, PTL DEF Spec, OnlyTheHolderWrites

\* The answer of a store survives every later attempt and every late thread.
THEOREM AnswersKept == Spec => AnswersAreKept
<1>1. TypeOK /\ [Next]_vars => [KeepAnswers]_vars
  BY KeepAnswersNext
<1> QED BY <1>1, TypeCorrect, PTL DEF Spec, AnswersAreKept

-----------------------------------------------------------------------------
(* Leases. *)

LEMMA FinalizeKeepsClaim ==
    ASSUME TypeOK, NEW R, NEW N, FinalizeFailed(R, N), UNCHANGED attempts,
           \A r \in N \cap Runs : status[r] # "running"
    PROVE  KeepClaim
BY DEF FinalizeFailed, KeepClaim, TypeOK, TerminalStatus

\* No step takes a run away from a holder whose lease is live.
LEMMA KeepClaimNext == TypeOK /\ RequestInv /\ [Next]_vars => KeepClaim
<1> SUFFICES ASSUME TypeOK, RequestInv, [Next]_vars PROVE KeepClaim
  OBVIOUS
<1> USE DEF db, main, threads, clients, vars
<1>1. CASE UNCHANGED <<holder, attempts>>
  BY <1>1 DEF KeepClaim
<1>2. ASSUME NEW c \in Clients, StartWrite(c) PROVE KeepClaim
  <2>1. \E R : FinalizeFailed(R, {}) \/ FinalizeFailed(R, {nextRun})
    BY <1>2 DEF StartWrite
  <2>2. UNCHANGED attempts
    BY <1>2 DEF StartWrite
  <2>3. \A r \in {nextRun} \cap Runs : status[r] # "running"
    BY DEF RequestInv, Fresh, TypeOK
  <2> QED BY <2>1, <2>2, <2>3, FinalizeKeepsClaim
<1>3. ASSUME NEW w \in Workers, ReconcileWrite(w) PROVE KeepClaim
  <2>1. FinalizeFailed(snap[w], {}) /\ UNCHANGED attempts
    BY <1>3 DEF ReconcileWrite
  <2> QED BY <2>1, FinalizeKeepsClaim
<1>4. ASSUME NEW w \in Workers, FinalizeFailure(w) PROVE KeepClaim
  <2>1. PICK R : FinalizeFailed(R, {}) /\ UNCHANGED attempts
    BY <1>4 DEF FinalizeFailure
  <2> QED BY <2>1, FinalizeKeepsClaim
<1>5. ASSUME NEW w \in Workers, ClaimSome(w) PROVE KeepClaim
  <2>1. PICK claimed \in SUBSET Runs :
          /\ \A r \in claimed : lease[r] # "live"
          /\ attempts' = [r \in Runs |-> IF r \in claimed THEN NextAttempt(r)
                                         ELSE attempts[r]]
          /\ holder'   = [r \in Runs |-> IF r \in claimed THEN w
                                         ELSE holder[r]]
    BY <1>5 DEF ClaimSome, Oldest, DueRuns, Due
  <2> QED BY <2>1 DEF KeepClaim
<1>6. ASSUME NEW w \in Workers, Persist(w) PROVE KeepClaim
  <2>1. CASE ~Fenced(w)
    BY <1>1, <1>6, <2>1 DEF Persist
  <2>2. CASE Fenced(w)
    <3>1. /\ status' = [status EXCEPT ![job[w].run] = "completed"]
          /\ holder' = [holder EXCEPT ![job[w].run] = NoWorker]
          /\ UNCHANGED attempts
      BY <1>6, <2>2 DEF Persist, FinalizeCompleted
    <3> QED BY <3>1 DEF KeepClaim, TypeOK, TerminalStatus
  <2> QED BY <2>1, <2>2
<1>7. ASSUME NEW w \in Workers,
             SweepRead(w) \/ ClaimNone(w) \/ Begin(w) \/ Heartbeat(w)
             \/ WatchdogFire(w) \/ WatchdogExit(w)
      PROVE  UNCHANGED <<holder, attempts>>
  BY <1>7 DEF SweepRead, ClaimNone, Begin, Heartbeat, WatchdogFire, WatchdogExit
<1>8. ASSUME NEW w \in Workers,
             ResolveTargets(w) \/ RefreshStore(w) \/ RefreshDone(w)
             \/ StartStore(w) \/ FinishStore(w) \/ StoreRaises(w) \/ Raise(w)
      PROVE  UNCHANGED <<holder, attempts>>
  BY <1>8 DEF ResolveTargets, RefreshStore, RefreshDone, StartStore, FinishStore,
              StoreRaises, Raise
<1>9. ASSUME NEW w \in Workers,
             Crash(w) \/ Stall(w) \/ Resume(w) \/ FinalizeLost(w)
      PROVE  UNCHANGED <<holder, attempts>>
  BY <1>9 DEF Crash, Stall, Resume, FinalizeLost
<1>10. ASSUME NEW r \in Runs, LeaseExpires(r) \/ LeaseExpiresEarly(r)
       PROVE  UNCHANGED <<holder, attempts>>
  BY <1>10 DEF LeaseExpires, LeaseExpiresEarly
<1>11. ASSUME NEW c \in Clients, StartRead(c)
       PROVE  UNCHANGED <<holder, attempts>>
  BY <1>11 DEF StartRead
<1> QED
  BY <1>1, <1>2, <1>3, <1>4, <1>5, <1>6, <1>7, <1>8, <1>9, <1>10, <1>11
     DEF Next, Sweep, Execute, Watchdog

\* As long as a lease lasts its run keeps its holder and its generation, unless
\* the run ends.
THEOREM LeaseProtects == Spec => LiveLeaseProtects
<1>1. Init => RequestInv
  BY RequestInit
<1>2. TypeOK /\ RequestInv /\ [Next]_vars => RequestInv'
  BY RequestNext
<1>3. TypeOK /\ RequestInv /\ [Next]_vars => [KeepClaim]_vars
  BY KeepClaimNext
<1> QED BY <1>1, <1>2, <1>3, TypeCorrect, PTL DEF Spec, LiveLeaseProtects

-----------------------------------------------------------------------------
(* What an execution still has to do, and what it has gathered. *)

Left(j) == j.refresh \cup j.todo \cup j.inflight

Lacking(rows) == {s \in Stores : rows[s] \in {"pending", "running"}}

Answered(rows) == {s \in Stores : rows[s] \in TerminalRow}

\* The memory of an execution at a step of it agrees with the rows of its run:
\* what it has left is asked for and not answered, it has everything left that
\* lacks an answer, and has gathered only what the rows say.
Working(rows, j, step) ==
    /\ \A s \in Left(j) : rows[s] \in {"pending", "running"}
    /\ \A s \in Stores : /\ s \in j.refresh => s \notin j.todo
                         /\ s \in j.inflight => s \notin j.refresh \cup j.todo
    /\ \A s \in j.matched : rows[s] = "match"
    /\ \A s \in j.errs : rows[s] \in {"error", "refresh_failed"}
    /\ step = "resolve" => j.skip = Answered(rows) /\ Left(j) = {} /\ j.errs = {}
    /\ step \in {"refresh", "discover"} =>
          /\ ~j.failed => Lacking(rows) \subseteq Left(j)
          /\ \E s \in Stores : rows[s] # "none"
    /\ step = "discover" => j.refresh = {}

Works(w) ==
    pc[w] \in Executing /\ Fenced(w) => Working(row[job[w].run], job[w], pc[w])

WorkInv == CompletedIsAnswered /\ \A w \in Workers : Works(w)

\* The row of a store has one answer.
LEMMA RowKinds ==
    /\ {"match", "no_match", "error", "refreshed", "refresh_failed"} = TerminalRow
    /\ "none" \notin TerminalRow /\ "pending" \notin TerminalRow
    /\ "running" \notin TerminalRow
    /\ RowStatus = {"none", "pending", "running"} \cup TerminalRow
BY DEF TerminalRow, RowStatus

\* An execution begins with nothing to do and what earlier ones have answered.
LEMMA WorkingBegins ==
    ASSUME NEW rows, NEW j, NEW r, NEW g,
           j = [NoJob EXCEPT !.run = r, !.gen = g, !.skip = Answered(rows)]
    PROVE  Working(rows, j, "resolve")
BY DEF Working, NoJob, Left

\* record_targets gives it the targets that have no answer.
LEMMA WorkingResolves ==
    ASSUME NEW rows \in [Stores -> RowStatus], NEW j \in Job, Working(rows, j, "resolve"),
           NEW T \in SUBSET Stores, NEW L \in SUBSET Stores, T # {},
           {s \in Stores : rows[s] # "none"} = {} \/ {s \in Stores : rows[s] # "none"} = T,
           NEW n \in [Stores -> RowStatus],
           \A s \in Stores : n[s] = IF s \in T /\ rows[s] \notin TerminalRow
                                    THEN "pending" ELSE rows[s],
           NEW k \in Job, k.refresh = (T \cap L) \ j.skip, k.todo = T \ (L \cup j.skip),
           k.inflight = {}, k.errs = {}, k.failed = j.failed,
           k.matched = {s \in Stores : rows[s] = "match"}
    PROVE  Working(n, k, "refresh")
<1>1. j.skip = Answered(rows)
  BY DEF Working
<1>2. \A s \in Stores : s \in Answered(rows) <=> rows[s] \in TerminalRow
  BY DEF Answered
<1>3. \A s \in Stores : s \in Left(k) <=> s \in T /\ rows[s] \notin TerminalRow
  BY <1>1, <1>2 DEF Left
<1>4. Left(k) \subseteq Stores
  BY DEF Left, Job
<1>5. \A s \in Left(k) : n[s] = "pending"
  BY <1>3, <1>4
<1>6. \A s \in Stores : /\ s \in k.refresh => s \notin k.todo
                        /\ s \notin k.inflight
  OBVIOUS
<1>7. \A s \in k.matched : n[s] = "match"
  BY RowKinds
<1>8. Lacking(n) \subseteq Left(k)
  <2> SUFFICES ASSUME NEW s \in Stores, n[s] \in {"pending", "running"} PROVE s \in Left(k)
    BY DEF Lacking
  <2>1. CASE s \in T /\ rows[s] \notin TerminalRow
    BY <1>3, <2>1
  <2>2. CASE s \notin T
    <3>1. rows[s] # "none"
      BY <2>2
    <3> QED
      BY <2>2, <3>1
  <2>3. CASE rows[s] \in TerminalRow
    BY <2>3, RowKinds
  <2> QED
    BY <2>1, <2>2, <2>3
<1>9. \E s \in Stores : n[s] # "none"
  <2>1. PICK s \in T : TRUE
    OBVIOUS
  <2>2. n[s] # "none"
    BY <2>1, RowKinds
  <2> QED
    BY <2>1, <2>2
<1> QED
  BY <1>5, <1>6, <1>7, <1>8, <1>9 DEF Working

\* A store is answered that was left to do, and is not left any more.
LEMMA WorkingAnswers ==
    ASSUME NEW rows \in [Stores -> RowStatus], NEW j \in Job, NEW step,
           step \in {"refresh", "discover"}, Working(rows, j, step),
           NEW s \in Left(j), s \in Stores, NEW o \in TerminalRow,
           NEW n, \A t \in Stores : n[t] = IF t = s THEN o ELSE rows[t],
           NEW k \in Job, Left(k) = Left(j) \ {s}, k.failed = j.failed,
           k.refresh \subseteq j.refresh, k.todo \subseteq j.todo,
           k.inflight \subseteq j.inflight,
           \A t \in k.matched : t \in j.matched \/ (t = s /\ o = "match"),
           \A t \in k.errs : t \in j.errs \/ (t = s /\ o \in {"error", "refresh_failed"})
    PROVE  Working(n, k, step)
<1>1. \A t \in Left(k) : n[t] \in {"pending", "running"}
  <2>1. \A t \in Left(k) : t \in Stores /\ t # s
    BY DEF Left, Job
  <2> QED
    BY <2>1 DEF Working
<1>2. \A t \in Stores : /\ t \in k.refresh => t \notin k.todo
                        /\ t \in k.inflight => t \notin k.refresh \cup k.todo
  BY DEF Working
<1>3. rows[s] \notin TerminalRow
  BY RowKinds DEF Working
<1>4. \A t \in k.matched : n[t] = "match"
  BY <1>3, RowKinds DEF Working, Job
<1>5. \A t \in k.errs : n[t] \in {"error", "refresh_failed"}
  BY <1>3, RowKinds DEF Working, Job
<1>6. ~k.failed => Lacking(n) \subseteq Left(k)
  BY RowKinds DEF Working, Lacking
<1>7. n[s] # "none"
  BY RowKinds
<1>8. step = "discover" => k.refresh = {}
  BY DEF Working
<1>9. step # "resolve"
  OBVIOUS
<1> QED
  BY <1>1, <1>2, <1>4, <1>5, <1>6, <1>7, <1>8, <1>9 DEF Working

\* A store is taken up, or given up because its thread raised.
LEMMA WorkingGoesOn ==
    ASSUME NEW rows \in [Stores -> RowStatus], NEW j \in Job, Working(rows, j, "discover"),
           NEW n, \A t \in Stores : n[t] = rows[t] \/ (t \in Left(j) /\ n[t] = "running"),
           NEW k \in Job, k.refresh = j.refresh, k.matched = j.matched, k.errs = j.errs,
           k.todo \subseteq j.todo,
           \A t \in k.inflight : t \in j.inflight \/ (t \in j.todo /\ t \notin k.todo),
           k.failed \/ (Left(k) = Left(j) /\ k.failed = j.failed)
    PROVE  Working(n, k, "discover")
<1>0. Left(k) \subseteq Left(j) /\ Left(j) \subseteq Stores
  BY DEF Left, Job
<1>1. \A t \in Left(k) : n[t] \in {"pending", "running"}
  BY <1>0, RowKinds DEF Working
<1>2. \A t \in Stores : /\ t \in k.refresh => t \notin k.todo
                        /\ t \in k.inflight => t \notin k.refresh \cup k.todo
  BY DEF Working
<1>3. \A t \in k.matched : n[t] = "match"
  BY RowKinds DEF Working, Job
<1>4. \A t \in k.errs : n[t] \in {"error", "refresh_failed"}
  BY RowKinds DEF Working, Job
<1>5. ~k.failed => Lacking(n) \subseteq Left(k)
  BY RowKinds DEF Working, Lacking
<1>6. \E t \in Stores : n[t] # "none"
  BY DEF Working
<1> QED
  BY <1>1, <1>2, <1>3, <1>4, <1>5, <1>6 DEF Working

\* A claim that is held was held before, unless its holder has just made it.
LEMMA ClaimsAreMade ==
    ASSUME TypeOK, [Next]_vars, NEW w \in Workers, ~ClaimSome(w), NEW r \in Runs, NEW g,
           LockClaim(r, w, g)'
    PROVE  LockClaim(r, w, g)
<1> USE DEF db, main, threads, clients, vars, LockClaim
<1>0. w # NoWorker
  BY Distinguished
<1>1. CASE UNCHANGED <<status, holder, attempts>>
  BY <1>1
<1>2. ASSUME NEW R, NEW N, FinalizeFailed(R, N), UNCHANGED attempts
      PROVE  LockClaim(r, w, g)
  BY <1>0, <1>2 DEF FinalizeFailed
<1>3. ASSUME NEW c \in Clients, StartWrite(c) PROVE LockClaim(r, w, g)
  <2>1. UNCHANGED attempts /\ \E R, N : FinalizeFailed(R, N)
    BY <1>3 DEF StartWrite
  <2> QED
    BY <1>2, <2>1
<1>4. ASSUME NEW v \in Workers, ReconcileWrite(v) \/ FinalizeFailure(v)
      PROVE  LockClaim(r, w, g)
  <2>1. UNCHANGED attempts /\ \E R, N : FinalizeFailed(R, N)
    BY <1>4 DEF ReconcileWrite, FinalizeFailure
  <2> QED
    BY <1>2, <2>1
<1>5. ASSUME NEW v \in Workers, ClaimSome(v) PROVE LockClaim(r, w, g)
  <2>1. v # w
    BY <1>5
  <2>2. PICK claimed :
          /\ status'   = [q \in Runs |-> IF q \in claimed THEN "running"
                                         ELSE status[q]]
          /\ attempts' = [q \in Runs |-> IF q \in claimed THEN NextAttempt(q)
                                         ELSE attempts[q]]
          /\ holder'   = [q \in Runs |-> IF q \in claimed THEN v
                                         ELSE holder[q]]
    BY <1>5 DEF ClaimSome
  <2> QED
    BY <2>1, <2>2
<1>6. ASSUME NEW v \in Workers, Persist(v) PROVE LockClaim(r, w, g)
  <2>1. CASE ~Fenced(v)
    BY <1>1, <1>6, <2>1 DEF Persist
  <2>2. CASE Fenced(v)
    <3>1. /\ status' = [status EXCEPT ![job[v].run] = "completed"]
          /\ holder' = [holder EXCEPT ![job[v].run] = NoWorker]
          /\ UNCHANGED attempts
      BY <1>6, <2>2 DEF Persist, FinalizeCompleted
    <3> QED
      BY <1>0, <3>1 DEF TypeOK
  <2> QED
    BY <2>1, <2>2
<1>7. ASSUME NEW v \in Workers,
             SweepRead(v) \/ ClaimNone(v) \/ Begin(v) \/ Heartbeat(v) \/ Watchdog(v)
      PROVE  UNCHANGED <<status, holder, attempts>>
  BY <1>7 DEF SweepRead, ClaimNone, Begin, Heartbeat, Watchdog, WatchdogFire, WatchdogExit
<1>8. ASSUME NEW v \in Workers,
             \/ ResolveTargets(v) \/ RefreshStore(v) \/ RefreshDone(v)
             \/ StartStore(v) \/ FinishStore(v) \/ StoreRaises(v) \/ Raise(v)
      PROVE  UNCHANGED <<status, holder, attempts>>
  BY <1>8 DEF ResolveTargets, RefreshStore, RefreshDone, StartStore, FinishStore,
              StoreRaises, Raise
<1>9. ASSUME NEW v \in Workers, Crash(v) \/ Stall(v) \/ Resume(v) \/ FinalizeLost(v)
      PROVE  UNCHANGED <<status, holder, attempts>>
  BY <1>9 DEF Crash, Stall, Resume, FinalizeLost
<1>10. ASSUME NEW q \in Runs, LeaseExpires(q) \/ LeaseExpiresEarly(q)
       PROVE  UNCHANGED <<status, holder, attempts>>
  BY <1>10 DEF LeaseExpires, LeaseExpiresEarly
<1>11. ASSUME NEW c \in Clients, StartRead(c) PROVE UNCHANGED <<status, holder, attempts>>
  BY <1>11 DEF StartRead
<1> QED
  BY <1>1, <1>3, <1>4, <1>5, <1>6, <1>7, <1>8, <1>9, <1>10, <1>11
     DEF Next, Sweep, Execute

\* Nobody moves an execution but itself.
LEMMA OthersStay ==
    ASSUME TypeOK, [Next]_vars, NEW w \in Workers, ~Execute(w), ~Begin(w),
           pc'[w] \in Executing
    PROVE  pc'[w] = pc[w] /\ job'[w] = job[w] /\ ~ClaimSome(w)
<1> USE DEF db, main, threads, clients, vars
<1>1. CASE UNCHANGED <<pc, job>>
  BY <1>1 DEF ClaimSome, TypeOK, Executing
<1>2. ASSUME NEW c \in Clients, StartRead(c) \/ StartWrite(c) PROVE UNCHANGED <<pc, job>>
  BY <1>2 DEF StartRead, StartWrite
<1>3. ASSUME NEW v \in Workers,
             SweepRead(v) \/ ReconcileWrite(v) \/ ClaimSome(v) \/ ClaimNone(v)
      PROVE  v # w /\ pc'[w] = pc[w] /\ job'[w] = job[w]
  BY <1>3 DEF SweepRead, ReconcileWrite, ClaimSome, ClaimNone, TypeOK, Executing
<1>4. ASSUME NEW v \in Workers, Begin(v) PROVE pc'[w] = pc[w] /\ job'[w] = job[w]
  <2>1. v # w
    BY <1>4
  <2>2. UNCHANGED job \/ \E j : job' = [job EXCEPT ![v] = j]
    BY <1>4 DEF Begin
  <2>3. \E q : pc' = [pc EXCEPT ![v] = q]
    BY <1>4 DEF Begin
  <2> QED  BY <2>1, <2>2, <2>3 DEF TypeOK
<1>5. ASSUME NEW v \in Workers, Execute(v) PROVE pc'[w] = pc[w] /\ job'[w] = job[w]
  BY <1>5, ExecuteStep
<1>6. ASSUME NEW v \in Workers, WatchdogExit(v) \/ Crash(v) \/ FinalizeLost(v)
      PROVE  v # w /\ pc'[w] = pc[w] /\ job'[w] = job[w]
  BY <1>6 DEF WatchdogExit, Crash, FinalizeLost, Die, EndProcess, TypeOK, Executing
<1>7. ASSUME NEW v \in Workers, Heartbeat(v) \/ WatchdogFire(v) \/ Stall(v) \/ Resume(v)
      PROVE  UNCHANGED <<pc, job>>
  BY <1>7 DEF Heartbeat, WatchdogFire, Stall, Resume
<1>8. ASSUME NEW r \in Runs, LeaseExpires(r) \/ LeaseExpiresEarly(r)
      PROVE  UNCHANGED <<pc, job>>
  BY <1>8 DEF LeaseExpires, LeaseExpiresEarly
<1>9. pc'[w] = pc[w] => ~ClaimSome(w)
  BY DEF ClaimSome, Executing
<1> QED
  BY <1>1, <1>2, <1>3, <1>4, <1>5, <1>6, <1>7, <1>8, <1>9 DEF Next, Sweep, Watchdog

\* A claim is told by the row and by what the execution remembers of it.
LEMMA SameFence ==
    ASSUME NEW w \in Workers, UNCHANGED <<status, holder, attempts>>,
           job'[w].run = job[w].run, job'[w].gen = job[w].gen
    PROVE  Fenced(w)' <=> Fenced(w)
BY DEF Fenced, LockClaim

\* Each step of an execution keeps its memory and the rows in agreement.
LEMMA ExecuteKeepsWorks ==
    ASSUME TypeOK, TypeOK', NEW w \in Workers, Works(w), Execute(w)
    PROVE  Works(w)'
<1> DEFINE run  == job[w].run
           rows == row[run]
<1>1. /\ job[w] \in Job /\ job'[w] \in Job
      /\ Fenced(w) => /\ run \in Runs
                      /\ rows \in [Stores -> RowStatus]
                      /\ row'[run] \in [Stores -> RowStatus]
  BY DEF TypeOK, Fenced, Job
<1>2. CASE pc'[w] \notin Executing
  BY <1>2 DEF Works
<1>3. CASE pc'[w] \in Executing
  <2>1. /\ UNCHANGED <<status, holder, attempts>>
        /\ job'[w].run = run /\ job'[w].gen = job[w].gen
        /\ pc[w] \in Executing
    <3>1. CASE (Persist(w) /\ Fenced(w)) \/ FinalizeFailure(w)
      <4>1. pc'[w] = "idle"
        BY <3>1 DEF Persist, FinalizeFailure, EndProcess, TypeOK
      <4> QED
        BY <1>3, <4>1 DEF Executing
    <3>2. CASE ~(Persist(w) /\ Fenced(w)) /\ ~FinalizeFailure(w)
      <4>1. UNCHANGED <<status, holder, attempts>>
        BY <3>2 DEF Execute, ResolveTargets, RefreshStore, RefreshDone, StartStore,
                    FinishStore, StoreRaises, Raise, Persist, db
      <4> QED
        BY <1>3, <4>1, ExecuteStep
    <3> QED
      BY <3>1, <3>2
  <2>2. Fenced(w)' <=> Fenced(w)
    BY <2>1, SameFence
  <2>3. CASE ~Fenced(w)
    BY <2>2, <2>3 DEF Works
  <2>4. CASE Fenced(w)
    <3> DEFINE Goal == Working(row'[run], job'[w], pc'[w])
    <3>1. SUFFICES Goal
      BY <2>1 DEF Works
    <3>2. Working(rows, job[w], pc[w])
      BY <2>1, <2>4 DEF Works
    <3>3. CASE ResolveTargets(w)
      <4>1. PICK T \in TargetSets(run), L \in SUBSET Stores :
              /\ RecordTargets(run, T)
              /\ SetJob(w, [job[w] EXCEPT
                   !.refresh = (T \cap L) \ job[w].skip,
                   !.todo    = T \ (L \cup job[w].skip),
                   !.matched = {s \in Stores : row[run][s] = "match"}])
              /\ pc' = [pc EXCEPT ![w] = "refresh"]
        BY <2>4, <3>3 DEF ResolveTargets
      <4> DEFINE known == {s \in Stores : rows[s] # "none"}
      <4>2. /\ T \in SUBSET Stores /\ T # {}
            /\ known = {} \/ known = T
        <5>1. TargetSets(run) = IF known # {} THEN {known} ELSE (SUBSET Stores) \ {{}}
          BY DEF TargetSets
        <5>2. known \in SUBSET Stores
          OBVIOUS
        <5>3. T \in IF known # {} THEN {known} ELSE (SUBSET Stores) \ {{}}
          BY <4>1, <5>1
        <5> HIDE DEF known
        <5>4. CASE known # {}
          BY <5>2, <5>3, <5>4
        <5>5. CASE known = {}
          BY <5>3, <5>5
        <5> QED
          BY <5>4, <5>5
      <4>3. \A s \in Stores : row'[run][s] = IF s \in T /\ rows[s] \notin TerminalRow
                                             THEN "pending" ELSE rows[s]
        BY <1>1, <2>4, <4>1 DEF RecordTargets, TypeOK
      <4>4. pc[w] = "resolve" /\ pc'[w] = "refresh"
        BY <3>3, <4>1 DEF ResolveTargets, TypeOK
      <4>5. Left(job[w]) = {} /\ job[w].errs = {}
        BY <3>2, <4>4 DEF Working
      <4>6. /\ job'[w].refresh = (T \cap L) \ job[w].skip
            /\ job'[w].todo = T \ (L \cup job[w].skip)
            /\ job'[w].matched = {s \in Stores : rows[s] = "match"}
            /\ job'[w].inflight = job[w].inflight /\ job'[w].errs = job[w].errs
            /\ job'[w].failed = job[w].failed
        BY <1>1, <4>1 DEF SetJob, Job, TypeOK
      <4>7. job[w].inflight = {}
        BY <4>5 DEF Left
      <4>8. Working(rows, job[w], "resolve")
        BY <3>2, <4>4
      <4>9. rows \in [Stores -> RowStatus] /\ row'[run] \in [Stores -> RowStatus]
        BY <1>1, <2>4
      <4> DEFINE n == row'[run]
                 j == job[w]
                 k == job'[w]
      <4> HIDE DEF run, rows, n, j, k
      <4>10. /\ n \in [Stores -> RowStatus] /\ rows \in [Stores -> RowStatus]
             /\ j \in Job /\ k \in Job /\ Working(rows, j, "resolve")
             /\ \A s \in Stores : n[s] = IF s \in T /\ rows[s] \notin TerminalRow
                                         THEN "pending" ELSE rows[s]
             /\ k.refresh = (T \cap L) \ j.skip /\ k.todo = T \ (L \cup j.skip)
             /\ k.inflight = {} /\ k.errs = {} /\ k.failed = j.failed
             /\ k.matched = {s \in Stores : rows[s] = "match"}
        BY <1>1, <4>3, <4>5, <4>6, <4>7, <4>8, <4>9 DEF n, j, k
      <4>11. {s \in Stores : rows[s] # "none"} = {} \/ {s \in Stores : rows[s] # "none"} = T
        BY <4>2
      <4>12. Working(n, k, "refresh")
        BY <4>2, <4>10, <4>11, WorkingResolves
      <4> QED
        BY <4>4, <4>12 DEF n, k
    <3>4. ASSUME NEW s \in Left(job[w]), NEW o \in TerminalRow, ApplyOutcome(run, s, o)
          PROVE  s \in Stores /\ \A t \in Stores : row'[run][t] = IF t = s THEN o ELSE rows[t]
      <4>1. s \in Stores /\ rows[s] \notin TerminalRow
        BY <1>1, <3>2, RowKinds DEF Left, Job, Working
      <4>2. row' = [row EXCEPT ![run][s] = o]
        BY <3>4, <4>1 DEF ApplyOutcome
      <4> QED
        BY <1>1, <2>4, <4>1, <4>2 DEF TypeOK
    <3>5. CASE RefreshStore(w)
      <4>1. PICK s \in job[w].refresh, o \in {"refreshed", "refresh_failed"} :
              /\ ApplyOutcome(run, s, o)
              /\ SetJob(w, [job[w] EXCEPT !.refresh = @ \ {s}])
              /\ UNCHANGED pc
        BY <2>4, <3>5 DEF RefreshStore
      <4>2. pc[w] = "refresh" /\ pc'[w] = "refresh"
        BY <3>5, <4>1 DEF RefreshStore
      <4>3. /\ job'[w].refresh = job[w].refresh \ {s}
            /\ job'[w].todo = job[w].todo /\ job'[w].inflight = job[w].inflight
            /\ job'[w].matched = job[w].matched /\ job'[w].errs = job[w].errs
            /\ job'[w].failed = job[w].failed
        BY <1>1, <4>1 DEF SetJob, Job, TypeOK
      <4>4. s \in Left(job[w]) /\ o \in TerminalRow
        BY <4>1 DEF Left, TerminalRow
      <4>5. s \in Stores /\ \A t \in Stores : row'[run][t] = IF t = s THEN o ELSE rows[t]
        BY <3>4, <4>1, <4>4
      <4>6. Left(job'[w]) = Left(job[w]) \ {s}
        BY <3>2, <4>1, <4>3, <4>5 DEF Left, Working
      <4> HIDE DEF run, rows
      <4> QED
        BY <1>1, <2>4, <3>2, <4>2, <4>3, <4>4, <4>5, <4>6, WorkingAnswers
    <3>6. CASE RefreshDone(w)
      <4>1. /\ pc[w] = "refresh" /\ pc'[w] = "discover"
            /\ row'[run] = rows /\ job'[w] = job[w] /\ job[w].refresh = {}
        BY <3>6 DEF RefreshDone, db, TypeOK
      <4> HIDE DEF run, rows
      <4> QED
        BY <3>2, <4>1 DEF Working
    <3>7. CASE StartStore(w)
      <4>1. PICK s \in job[w].todo :
              /\ RecordStarted(run, s)
              /\ SetJob(w, [job[w] EXCEPT !.todo     = @ \ {s},
                                          !.inflight = @ \cup {s}])
        BY <2>4, <3>7 DEF StartStore
      <4>2. pc[w] = "discover" /\ pc'[w] = "discover"
        BY <3>7 DEF StartStore
      <4>3. s \in Stores /\ s \in Left(job[w])
        BY <1>1, <4>1 DEF Left, Job
      <4>4. \A t \in Stores : \/ row'[run][t] = rows[t]
                              \/ t \in Left(job[w]) /\ row'[run][t] = "running"
        BY <1>1, <2>4, <4>1, <4>3 DEF RecordStarted, TypeOK
      <4>5. /\ job'[w].todo = job[w].todo \ {s}
            /\ job'[w].inflight = job[w].inflight \cup {s}
            /\ job'[w].refresh = job[w].refresh
            /\ job'[w].matched = job[w].matched /\ job'[w].errs = job[w].errs
            /\ job'[w].failed = job[w].failed
        BY <1>1, <4>1 DEF SetJob, Job, TypeOK
      <4>6. Left(job'[w]) = Left(job[w])
        BY <4>1, <4>5 DEF Left
      <4> HIDE DEF run, rows
      <4> QED
        BY <1>1, <2>4, <3>2, <4>1, <4>2, <4>4, <4>5, <4>6, WorkingGoesOn
    <3>8. CASE FinishStore(w)
      <4>1. PICK s \in job[w].inflight, a \in Answers :
              /\ ApplyOutcome(run, s, a.row)
              /\ SetJob(w, [job[w] EXCEPT
                   !.inflight  = @ \ {s},
                   !.matched   = @ \cup {t \in {s} : a.m},
                   !.unmatched = @ \cup {t \in {s} : a.u},
                   !.errs      = @ \cup {t \in {s} : a.e}])
        BY <2>4, <3>8 DEF FinishStore
      <4>2. pc[w] = "discover" /\ pc'[w] = "discover"
        BY <3>8 DEF FinishStore
      <4>3. /\ job'[w].inflight = job[w].inflight \ {s}
            /\ job'[w].todo = job[w].todo /\ job'[w].refresh = job[w].refresh
            /\ job'[w].matched = job[w].matched \cup {t \in {s} : a.m}
            /\ job'[w].errs = job[w].errs \cup {t \in {s} : a.e}
            /\ job'[w].failed = job[w].failed
        BY <1>1, <4>1 DEF SetJob, Job, TypeOK
      <4>4. s \in Left(job[w])
        BY <4>1 DEF Left
      <4>5. /\ a.row \in TerminalRow
            /\ a.m => a.row = "match"
            /\ a.e => a.row = "error"
        BY <4>1 DEF Answers, TerminalRow
      <4>6. s \in Stores /\ \A t \in Stores : row'[run][t] = IF t = s THEN a.row ELSE rows[t]
        BY <3>4, <4>1, <4>4, <4>5
      <4>7. Left(job'[w]) = Left(job[w]) \ {s}
        BY <3>2, <4>1, <4>3, <4>6 DEF Left, Working
      <4>8. /\ \A t \in job'[w].matched : t \in job[w].matched \/ (t = s /\ a.row = "match")
            /\ \A t \in job'[w].errs :
                  t \in job[w].errs \/ (t = s /\ a.row \in {"error", "refresh_failed"})
        BY <4>3, <4>5
      <4> DEFINE o == a.row
      <4> HIDE DEF run, rows, o
      <4> QED
        BY <1>1, <2>4, <3>2, <4>2, <4>3, <4>4, <4>5, <4>6, <4>7, <4>8, WorkingAnswers DEF o
    <3>9. CASE StoreRaises(w)
      <4>1. PICK s \in job[w].inflight :
              SetJob(w, [job[w] EXCEPT !.inflight = @ \ {s}, !.failed = TRUE])
        BY <3>9 DEF StoreRaises
      <4>2. /\ pc[w] = "discover" /\ pc'[w] = "discover"
            /\ row'[run] = rows
        BY <3>9 DEF StoreRaises, db
      <4>3. /\ job'[w].inflight = job[w].inflight \ {s}
            /\ job'[w].todo = job[w].todo /\ job'[w].refresh = job[w].refresh
            /\ job'[w].matched = job[w].matched /\ job'[w].errs = job[w].errs
            /\ job'[w].failed = TRUE
        BY <1>1, <4>1 DEF SetJob, Job, TypeOK
      <4> HIDE DEF run, rows
      <4> QED
        BY <1>1, <2>4, <3>2, <4>2, <4>3, WorkingGoesOn
    <3>10. CASE Raise(w)
      <4>1. /\ pc'[w] = "failing"
            /\ row'[run] = rows /\ job'[w] = job[w]
        BY <3>10 DEF Raise, Failing, db, TypeOK
      <4> HIDE DEF run, rows
      <4> QED
        BY <3>2, <4>1 DEF Working
    <3>11. CASE Persist(w) \/ FinalizeFailure(w)
      <4>1. pc'[w] = "idle"
        BY <2>4, <3>11 DEF Persist, FinalizeFailure, EndProcess, TypeOK
      <4> QED
        BY <1>3, <4>1 DEF Executing
    <3> QED
      BY <3>3, <3>5, <3>6, <3>7, <3>8, <3>9, <3>10, <3>11 DEF Execute
  <2> QED
    BY <2>3, <2>4
<1> QED
  BY <1>2, <1>3

\* A new execution agrees with the rows it has just read.
LEMMA BeginMakesWorks ==
    ASSUME TypeOK, NEW w \in Workers, Begin(w), Works(w), pc'[w] \in Executing
    PROVE  Works(w)'
<1>1. pc[w] = "process"
  BY DEF Begin
<1>2. PICK r \in Runs :
        /\ job' = [job EXCEPT ![w] = [NoJob EXCEPT !.run  = r, !.gen = attempts[r],
                                                   !.skip = TerminalStores(r)]]
        /\ pc' = [pc EXCEPT ![w] = "resolve"]
  <2>1. PICK r \in queue[w] :
          \/ /\ job' = [job EXCEPT ![w] = [NoJob EXCEPT !.run  = r, !.gen = attempts[r],
                                                        !.skip = TerminalStores(r)]]
             /\ pc' = [pc EXCEPT ![w] = "resolve"]
          \/ pc' = [pc EXCEPT ![w] = IF queue[w] = {r} THEN "idle" ELSE "process"]
    BY DEF Begin
  <2>2. r \in Runs
    BY <2>1 DEF TypeOK
  <2>3. pc' # [pc EXCEPT ![w] = IF queue[w] = {r} THEN "idle" ELSE "process"]
    BY DEF TypeOK, Executing
  <2> QED
    BY <2>1, <2>2, <2>3
<1>3. TerminalStores(r) = Answered(row[r])
  BY DEF TerminalStores, Answered
<1>4. /\ job'[w] = [NoJob EXCEPT !.run = r, !.gen = attempts[r], !.skip = Answered(row[r])]
      /\ pc'[w] = "resolve"
      /\ UNCHANGED row
  BY <1>2, <1>3 DEF TypeOK, Begin, db
<1>5. job'[w].run = r
  BY <1>4 DEF NoJob
<1>6. Working(row[r], job'[w], "resolve")
  BY <1>4, WorkingBegins
<1> QED
  BY <1>4, <1>5, <1>6 DEF Works

\* What somebody else does leaves an execution that holds its claim in
\* agreement: the rows of its run are its own to write.
LEMMA OthersKeepWorks ==
    ASSUME TypeOK, [Next]_vars, NEW w \in Workers, ~Execute(w), ~Begin(w), Works(w),
           pc'[w] \in Executing, Fenced(w)'
    PROVE  Works(w)'
<1>1. pc'[w] = pc[w] /\ job'[w] = job[w] /\ ~ClaimSome(w)
  BY OthersStay
<1>2. job[w].run \in Runs /\ LockClaim(job[w].run, w, job[w].gen)'
  BY <1>1 DEF Fenced, TypeOK, Job
<1>3. LockClaim(job[w].run, w, job[w].gen)
  BY <1>1, <1>2, ClaimsAreMade
<1>4. Fenced(w)
  BY <1>2, <1>3 DEF Fenced
<1>5. row'[job[w].run] = row[job[w].run]
  <2>1. SUFFICES ASSUME row'[job[w].run] # row[job[w].run] PROVE FALSE
    OBVIOUS
  <2>2. PICK v \in Workers : /\ holder[job[w].run] = v
                             /\ pc'[v] # pc[v] \/ job'[v] # job[v]
    BY <1>2, <2>1, HolderWritesNext DEF HolderWrites
  <2>3. v = w
    BY <1>3, <2>2 DEF LockClaim
  <2> QED
    BY <1>1, <2>2, <2>3
<1> QED
  BY <1>1, <1>4, <1>5 DEF Works

\* Runs are completed by the execution that holds their claim.
LEMMA Completions ==
    ASSUME TypeOK, [Next]_vars, NEW r \in Runs, status'[r] = "completed"
    PROVE  \/ status[r] = "completed"
           \/ \E w \in Workers : Persist(w) /\ Fenced(w) /\ job[w].run = r
<1> USE DEF db, main, threads, clients, vars
<1>1. CASE UNCHANGED status
  BY <1>1
<1>2. ASSUME NEW R, NEW N, FinalizeFailed(R, N) PROVE status[r] = "completed"
  BY <1>2 DEF FinalizeFailed
<1>3. ASSUME NEW c \in Clients, StartWrite(c) PROVE status[r] = "completed"
  BY <1>2, <1>3 DEF StartWrite
<1>4. ASSUME NEW w \in Workers, ReconcileWrite(w) \/ FinalizeFailure(w)
      PROVE  status[r] = "completed"
  BY <1>2, <1>4 DEF ReconcileWrite, FinalizeFailure
<1>5. ASSUME NEW w \in Workers, ClaimSome(w) PROVE status[r] = "completed"
  <2>1. PICK claimed :
          status' = [q \in Runs |-> IF q \in claimed THEN "running" ELSE status[q]]
    BY <1>5 DEF ClaimSome
  <2> QED
    BY <2>1
<1>6. ASSUME NEW w \in Workers, Persist(w)
      PROVE  status[r] = "completed" \/ (Fenced(w) /\ job[w].run = r)
  <2>1. CASE ~Fenced(w)
    <3>1. UNCHANGED status
      BY <1>6, <2>1 DEF Persist
    <3> QED
      BY <3>1
  <2>2. CASE Fenced(w)
    <3>1. status' = [status EXCEPT ![job[w].run] = "completed"]
      BY <1>6, <2>2 DEF Persist, FinalizeCompleted
    <3>2. status[r] = "completed" \/ job[w].run = r
      BY <3>1 DEF TypeOK
    <3> QED
      BY <2>2, <3>2
  <2> QED
    BY <2>1, <2>2
<1>7. ASSUME NEW w \in Workers,
             SweepRead(w) \/ ClaimNone(w) \/ Begin(w) \/ Heartbeat(w) \/ Watchdog(w)
      PROVE  UNCHANGED status
  BY <1>7 DEF SweepRead, ClaimNone, Begin, Heartbeat, Watchdog, WatchdogFire, WatchdogExit
<1>8. ASSUME NEW w \in Workers,
             \/ ResolveTargets(w) \/ RefreshStore(w) \/ RefreshDone(w)
             \/ StartStore(w) \/ FinishStore(w) \/ StoreRaises(w) \/ Raise(w)
      PROVE  UNCHANGED status
  BY <1>8 DEF ResolveTargets, RefreshStore, RefreshDone, StartStore, FinishStore,
              StoreRaises, Raise
<1>9. ASSUME NEW w \in Workers, Crash(w) \/ Stall(w) \/ Resume(w) \/ FinalizeLost(w)
      PROVE  UNCHANGED status
  BY <1>9 DEF Crash, Stall, Resume, FinalizeLost
<1>10. ASSUME NEW q \in Runs, LeaseExpires(q) \/ LeaseExpiresEarly(q)
       PROVE  UNCHANGED status
  BY <1>10 DEF LeaseExpires, LeaseExpiresEarly
<1>11. ASSUME NEW c \in Clients, StartRead(c) PROVE UNCHANGED status
  BY <1>11 DEF StartRead
<1> QED
  BY <1>1, <1>3, <1>4, <1>5, <1>6, <1>7, <1>8, <1>9, <1>10, <1>11
     DEF Next, Sweep, Execute

\* The execution that completes a run has every answer.
LEMMA CompletionHasAnswers ==
    ASSUME TypeOK, NEW w \in Workers, Works(w), Persist(w), Fenced(w)
    PROVE  /\ Lacking(row[job[w].run]) = {}
           /\ \E s \in Stores : row[job[w].run][s] # "none"
           /\ \A s \in job[w].matched : row[job[w].run][s] = "match"
           /\ \A s \in job[w].errs : row[job[w].run][s] \in {"error", "refresh_failed"}
<1>1. pc[w] = "discover" /\ StoresDone(w)
  BY DEF Persist
<1>2. Working(row[job[w].run], job[w], "discover")
  BY <1>1 DEF Works, Executing
<1>3. ~job[w].failed /\ Left(job[w]) = {}
  BY <1>1, <1>2 DEF StoresDone, Left, Working
<1> QED
  BY <1>2, <1>3 DEF Working

LEMMA WorkInit == Init => WorkInv
BY DEF Init, WorkInv, Works, CompletedIsAnswered, Executing

\* Every step keeps the memory of the executions and the rows in agreement.
LEMMA WorkNext == TypeOK /\ TypeOK' /\ WorkInv /\ [Next]_vars => WorkInv'
<1> SUFFICES ASSUME TypeOK, TypeOK', WorkInv, [Next]_vars PROVE WorkInv'
  OBVIOUS
<1>1. ASSUME NEW w \in Workers PROVE Works(w)'
  <2>1. Works(w)
    BY DEF WorkInv
  <2>2. CASE Execute(w)
    BY <2>1, <2>2, ExecuteKeepsWorks
  <2>3. CASE ~(pc'[w] \in Executing /\ Fenced(w)')
    BY <2>3 DEF Works
  <2>4. CASE Begin(w) /\ pc'[w] \in Executing
    BY <2>1, <2>4, BeginMakesWorks
  <2> QED
    BY <2>1, <2>2, <2>3, <2>4, OthersKeepWorks
<1>2. CompletedIsAnswered'
  <2> SUFFICES ASSUME NEW r \in Runs, status'[r] = "completed", NEW s \in Stores
               PROVE  row'[r][s] \notin {"pending", "running"}
    BY DEF CompletedIsAnswered
  <2>1. CASE status[r] = "completed"
    <3>1. row'[r] = row[r]
      BY <2>1, HolderWritesNext DEF HolderWrites
    <3> QED
      BY <2>1, <3>1 DEF WorkInv, CompletedIsAnswered
  <2>2. CASE status[r] # "completed"
    <3>1. PICK w \in Workers : Persist(w) /\ Fenced(w) /\ job[w].run = r
      BY <2>2, Completions
    <3>2. row' = row
      BY <3>1 DEF Persist
    <3>3. Lacking(row[r]) = {}
      BY <3>1, CompletionHasAnswers DEF WorkInv
    <3> QED
      BY <3>2, <3>3 DEF Lacking
  <2> QED
    BY <2>1, <2>2
<1> QED
  BY <1>1, <1>2 DEF WorkInv

\* An execution that holds its claim has never a store left that is answered.
THEOREM NothingRepeated == Spec => []NoStoreRepeated
<1>1. Init => WorkInv
  BY WorkInit
<1>2. TypeOK /\ TypeOK' /\ WorkInv /\ [Next]_vars => WorkInv'
  BY WorkNext
<1>3. WorkInv => NoStoreRepeated
  BY RowKinds DEF WorkInv, Works, Working, NoStoreRepeated, Left
<1> QED BY <1>1, <1>2, <1>3, TypeCorrect, PTL DEF Spec

\* A run is completed only when each of its target stores has an answer.
THEOREM CompletionAnswers == Spec => []CompletedIsAnswered
<1>1. Init => WorkInv
  BY WorkInit
<1>2. TypeOK /\ TypeOK' /\ WorkInv /\ [Next]_vars => WorkInv'
  BY WorkNext
<1>3. WorkInv => CompletedIsAnswered
  BY DEF WorkInv
<1> QED BY <1>1, <1>2, <1>3, TypeCorrect, PTL DEF Spec

\* The attempts of a run add up to one search of every store it asks for.
THEOREM AnswersAddUpCorrect == Spec => []AnswersAddUp
BY NothingRepeated, CompletionAnswers, PTL DEF AnswersAddUp

-----------------------------------------------------------------------------
(* The report. *)

\* Rows that agree on an answer are counted alike.
LEMMA SameCount ==
    ASSUME NEW old, NEW new, NEW S,
           \A s \in Stores : old[s] \in S <=> new[s] \in S
    PROVE  CountRows(new, S) = CountRows(old, S)
<1>1. {s \in Stores : new[s] \in S} = {s \in Stores : old[s] \in S}
  OBVIOUS
<1> QED
  BY <1>1 DEF CountRows

\* A count is at least the size of what is counted.
LEMMA CountBounds ==
    ASSUME NEW rows, NEW S, NEW A \in SUBSET Stores, \A s \in A : rows[s] \in S
    PROVE  /\ CountRows(rows, S) \in Nat
           /\ Cardinality(A) \in Nat
           /\ Cardinality(A) <= CountRows(rows, S)
           /\ A # {} => CountRows(rows, S) # 0
<1> DEFINE B == {s \in Stores : rows[s] \in S}
<1>1. A \subseteq B
  OBVIOUS
<1>2. IsFiniteSet(B)
  BY StoresFinite, FS_Subset
<1>3. /\ IsFiniteSet(A)
      /\ Cardinality(A) <= Cardinality(B)
  BY <1>1, <1>2, FS_Subset
<1>4. Cardinality(A) \in Nat /\ Cardinality(B) \in Nat
  BY <1>2, <1>3, FS_CardinalityType
<1>5. A # {} => Cardinality(B) # 0
  BY <1>1, <1>2, FS_EmptySet
<1> QED
  BY <1>3, <1>4, <1>5 DEF CountRows

\* What the report of a run says of its rows, its user told or not.
Counted(rep, rows, told) ==
    /\ rep.matches   = CountRows(rows, {"match"})
    /\ rep.errors    = CountRows(rows, {"error", "refresh_failed"})
    /\ rep.completed = CountRows(rows, TerminalRow)
    /\ ~told => rep.noMatch = CountRows(rows, {"no_match"})

ReportInv == \A r \in Runs : Counted(report[r], row[r], <<r, "completed">> \in notif)

\* Nobody takes a notice back.
LEMMA NoticesStay == ASSUME [Next]_vars PROVE notif \subseteq notif'
<1>1. ASSUME NEW R, NEW N, FinalizeFailed(R, N) PROVE notif \subseteq notif'
  BY <1>1 DEF FinalizeFailed
<1>2. CASE UNCHANGED table
  BY <1>2 DEF table
<1>3. ASSUME NEW c \in Clients, StartRead(c) PROVE notif \subseteq notif'
  BY <1>3 DEF StartRead, db
<1>4. ASSUME NEW c \in Clients, StartWrite(c) PROVE notif \subseteq notif'
  BY <1>1, <1>4 DEF StartWrite
<1>5. ASSUME NEW w \in Workers, ReconcileWrite(w) \/ FinalizeFailure(w)
      PROVE  notif \subseteq notif'
  BY <1>1, <1>5 DEF ReconcileWrite, FinalizeFailure
<1>6. ASSUME NEW w \in Workers,
             SweepRead(w) \/ ClaimSome(w) \/ WatchdogExit(w) \/ Crash(w)
      PROVE  notif \subseteq notif'
  BY <1>6 DEF SweepRead, ClaimSome, WatchdogExit, Crash, db
<1>7. ASSUME NEW w \in Workers, Persist(w) PROVE notif \subseteq notif'
  BY <1>7 DEF Persist, FinalizeCompleted
<1> QED
  BY <1>2, <1>3, <1>4, <1>5, <1>6, <1>7, TableFrame

\* Rows go back to pending or on to running without an answer in between.
LEMMA CountsStay ==
    ASSUME NEW old, NEW new, NEW rep, NEW next, NEW told, NEW toldNext,
           \A s \in Stores : \/ new[s] = old[s]
                             \/ /\ old[s] \notin TerminalRow
                                /\ new[s] \notin TerminalRow,
           next.matches = rep.matches, next.errors = rep.errors,
           next.completed = rep.completed, next.noMatch = rep.noMatch,
           Counted(rep, old, told), ~toldNext => ~told
    PROVE  Counted(next, new, toldNext)
<1>1. \A s \in Stores : /\ old[s] \in {"match"} <=> new[s] \in {"match"}
                        /\ old[s] \in {"no_match"} <=> new[s] \in {"no_match"}
                        /\ old[s] \in {"error", "refresh_failed"} <=>
                              new[s] \in {"error", "refresh_failed"}
                        /\ old[s] \in TerminalRow <=> new[s] \in TerminalRow
  BY RowKinds
<1>2. /\ CountRows(new, {"match"}) = CountRows(old, {"match"})
      /\ CountRows(new, {"no_match"}) = CountRows(old, {"no_match"})
      /\ CountRows(new, {"error", "refresh_failed"})
            = CountRows(old, {"error", "refresh_failed"})
      /\ CountRows(new, TerminalRow) = CountRows(old, TerminalRow)
  BY <1>1, SameCount
<1> QED
  BY <1>2 DEF Counted

\* apply_store_outcome counts the rows again.
LEMMA RecountCounts ==
    ASSUME NEW rep \in Report, NEW rows, NEW told
    PROVE  Counted(Recount(rep, rows), rows, told)
BY DEF Counted, Recount, Report

\* The report a run is completed with counts its rows: the response has found
\* nothing that they do not say.
LEMMA CompletionCounts ==
    ASSUME NEW rep \in Report, NEW j \in Job, NEW rows \in [Stores -> RowStatus],
           NEW told, Counted(rep, rows, told), Lacking(rows) = {},
           \E s \in Stores : rows[s] # "none",
           \A s \in j.matched : rows[s] = "match",
           \A s \in j.errs : rows[s] \in {"error", "refresh_failed"},
           NEW final,
           final.matches = CompletedReport(rep, j).matches,
           final.errors = CompletedReport(rep, j).errors,
           final.completed = Larger(CompletedReport(rep, j).completed,
                                    CountRows(rows, TerminalRow))
    PROVE  /\ final.matches = rep.matches
           /\ final.errors = rep.errors
           /\ final.completed = rep.completed
<1>1. /\ Cardinality(j.matched) \in Nat
      /\ Cardinality(j.matched) <= rep.matches
  BY CountBounds DEF Counted, Job
<1>2. /\ Cardinality(j.errs) \in Nat
      /\ Cardinality(j.errs) <= rep.errors
  BY CountBounds DEF Counted, Job
<1>3. rep.completed # 0
  <2>1. PICK s \in Stores : rows[s] \in TerminalRow
    BY RowKinds DEF Lacking
  <2>2. CountRows(rows, TerminalRow) # 0
    <3>1. {s} \in SUBSET Stores /\ {s} # {} /\ \A t \in {s} : rows[t] \in TerminalRow
      BY <2>1
    <3> QED
      BY <3>1, CountBounds
  <2> QED
    BY <2>2 DEF Counted
<1>4. /\ rep.matches \in Nat /\ rep.errors \in Nat /\ rep.completed \in Nat
      /\ rep.completed = CountRows(rows, TerminalRow)
  BY DEF Report, Counted
<1>5. /\ Larger(rep.matches, Cardinality(j.matched)) = rep.matches
      /\ Larger(rep.errors, Cardinality(j.errs)) = rep.errors
      /\ Larger(rep.completed, rep.completed) = rep.completed
  BY <1>1, <1>2, <1>4 DEF Larger
<1> DEFINE m == Larger(rep.matches, Cardinality(j.matched))
           n == Larger(rep.noMatch, Cardinality(j.unmatched))
           e == Larger(rep.errors, Cardinality(j.errs))
           t == Larger(rep.total, Larger(m + n + e, rep.completed))
           c == IF rep.completed = 0 THEN t ELSE rep.completed
<1>6. CompletedReport(rep, j) = [total |-> t, matches |-> m, noMatch |-> n, errors |-> e,
                                 completed |-> c]
  BY DEF CompletedReport
<1>7. m = rep.matches /\ e = rep.errors /\ c = rep.completed
  BY <1>3, <1>5
<1> HIDE DEF m, n, e, t, c
<1>8. /\ final.matches = m /\ final.errors = e
      /\ final.completed = Larger(c, CountRows(rows, TerminalRow))
  BY <1>6
<1> QED
  BY <1>4, <1>5, <1>7, <1>8

LEMMA ReportInit == Init => ReportInv
<1> SUFFICES ASSUME Init, NEW r \in Runs
             PROVE  Counted(report[r], row[r], <<r, "completed">> \in notif)
  BY DEF ReportInv
<1>1. ASSUME NEW S, "none" \notin S PROVE CountRows(row[r], S) = 0
  <2>1. {s \in Stores : row[r][s] \in S} = {}
    BY <1>1 DEF Init
  <2> QED
    BY <2>1, FS_EmptySet DEF CountRows
<1>2. /\ report[r].matches = 0 /\ report[r].errors = 0 /\ report[r].completed = 0
      /\ report[r].noMatch = 0
  BY DEF Init
<1>3. /\ CountRows(row[r], {"match"}) = 0 /\ CountRows(row[r], {"no_match"}) = 0
      /\ CountRows(row[r], {"error", "refresh_failed"}) = 0
      /\ CountRows(row[r], TerminalRow) = 0
  BY <1>1, RowKinds
<1> QED
  BY <1>2, <1>3 DEF Counted

\* An execution keeps the report of its run in step with the rows.
LEMMA ExecuteCounts ==
    ASSUME TypeOK, ReportInv, NEW w \in Workers, Works(w), Execute(w), Fenced(w),
           notif \subseteq notif', NEW r \in Runs, r = job[w].run
    PROVE  Counted(report'[r], row'[r], <<r, "completed">> \in notif')
<1> DEFINE Told == <<r, "completed">> \in notif
           Goal == Counted(report'[r], row'[r], <<r, "completed">> \in notif')
<1>1. /\ job[w] \in Job /\ report[r] \in Report /\ row[r] \in [Stores -> RowStatus]
      /\ Counted(report[r], row[r], Told)
      /\ (<<r, "completed">> \notin notif') => ~Told
  BY DEF TypeOK, ReportInv
<1>2. CASE UNCHANGED <<row, report>>
  BY <1>1, <1>2 DEF Counted
<1>0. ASSUME \A s \in Stores : \/ row'[r][s] = row[r][s]
                               \/ /\ row[r][s] \notin TerminalRow
                                  /\ row'[r][s] \notin TerminalRow,
             report'[r].matches = report[r].matches,
             report'[r].errors = report[r].errors,
             report'[r].completed = report[r].completed,
             report'[r].noMatch = report[r].noMatch
      PROVE  Goal
  <2> DEFINE old == row[r]
             new == row'[r]
             rep == report[r]
             next == report'[r]
             toldNext == <<r, "completed">> \in notif'
  <2>1. /\ \A s \in Stores : \/ new[s] = old[s]
                             \/ old[s] \notin TerminalRow /\ new[s] \notin TerminalRow
        /\ next.matches = rep.matches /\ next.errors = rep.errors
        /\ next.completed = rep.completed /\ next.noMatch = rep.noMatch
        /\ Counted(rep, old, Told) /\ (~toldNext => ~Told)
    BY <1>0, <1>1
  <2>2. SUFFICES Counted(next, new, toldNext)
    OBVIOUS
  <2> HIDE DEF old, new, rep, next, toldNext, Told
  <2> QED
    BY <2>1, CountsStay, ZenonT(30)
<1>3. CASE RefreshDone(w) \/ StoreRaises(w) \/ Raise(w) \/ FinalizeFailure(w)
  BY <1>2, <1>3 DEF RefreshDone, StoreRaises, Raise, FinalizeFailure, db
<1>4. ASSUME NEW s \in Stores, NEW o, ApplyOutcome(r, s, o) PROVE Goal
  <2>1. CASE UNCHANGED <<row, report>>
    BY <1>2, <2>1
  <2>2. CASE ~UNCHANGED <<row, report>>
    <3>1. report' = [report EXCEPT ![r] = Recount(report[r], row'[r])]
      BY <1>4, <2>2 DEF ApplyOutcome
    <3>2. report'[r] = Recount(report[r], row'[r])
      BY <3>1 DEF TypeOK
    <3> QED
      BY <1>1, <3>2, RecountCounts
  <2> QED
    BY <2>1, <2>2
<1>5. CASE ResolveTargets(w)
  <2>1. PICK T : /\ RecordTargets(r, T)
                 /\ report' = [report EXCEPT ![r] =
                                 [report[r] EXCEPT !.total = Cardinality(T)]]
    BY <1>5 DEF ResolveTargets
  <2>2. \A s \in Stores : \/ row'[r][s] = row[r][s]
                          \/ row[r][s] \notin TerminalRow /\ row'[r][s] \notin TerminalRow
    BY <2>1, RowKinds DEF RecordTargets, TypeOK
  <2>3. report'[r] = [report[r] EXCEPT !.total = Cardinality(T)]
    BY <2>1 DEF TypeOK
  <2>4. /\ report'[r].matches = report[r].matches /\ report'[r].errors = report[r].errors
        /\ report'[r].completed = report[r].completed
        /\ report'[r].noMatch = report[r].noMatch
    BY <1>1, <2>3 DEF Report
  <2> QED
    BY <1>0, <2>2, <2>4
<1>6. CASE RefreshStore(w)
  <2>1. PICK s \in job[w].refresh, o \in {"refreshed", "refresh_failed"} :
          ApplyOutcome(r, s, o)
    BY <1>6 DEF RefreshStore
  <2>2. s \in Stores
    BY <1>1 DEF Job
  <2> QED
    BY <1>4, <2>1, <2>2
<1>7. CASE StartStore(w)
  <2>1. PICK s \in job[w].todo : RecordStarted(r, s)
    BY <1>7 DEF StartStore
  <2>2. \A t \in Stores : \/ row'[r][t] = row[r][t]
                          \/ row[r][t] \notin TerminalRow /\ row'[r][t] \notin TerminalRow
    BY <2>1, RowKinds DEF RecordStarted, TypeOK
  <2>3. UNCHANGED report
    BY <1>7 DEF StartStore
  <2> QED
    BY <1>0, <2>2, <2>3
<1>8. CASE FinishStore(w)
  <2>1. PICK s \in job[w].inflight, a \in Answers : ApplyOutcome(r, s, a.row)
    BY <1>8 DEF FinishStore
  <2>2. s \in Stores
    BY <1>1 DEF Job
  <2> QED
    BY <1>4, <2>1, <2>2
<1>9. CASE Persist(w)
  <2>1. /\ UNCHANGED row
        /\ report' = [report EXCEPT ![r] =
             [CompletedReport(report[r], job[w]) EXCEPT
                !.completed = Larger(@, Cardinality(TerminalStores(r)))]]
        /\ <<r, "completed">> \in notif'
    BY <1>9 DEF Persist, FinalizeCompleted
  <2>2. Cardinality(TerminalStores(r)) = CountRows(row[r], TerminalRow)
    BY DEF TerminalStores, CountRows
  <2>3. report'[r] = [CompletedReport(report[r], job[w]) EXCEPT
                        !.completed = Larger(@, CountRows(row[r], TerminalRow))]
    BY <2>1, <2>2 DEF TypeOK
  <2>4. /\ Lacking(row[r]) = {}
        /\ \E s \in Stores : row[r][s] # "none"
        /\ \A s \in job[w].matched : row[r][s] = "match"
        /\ \A s \in job[w].errs : row[r][s] \in {"error", "refresh_failed"}
    BY <1>9, CompletionHasAnswers
  <2>5. /\ report'[r].matches = CompletedReport(report[r], job[w]).matches
        /\ report'[r].errors = CompletedReport(report[r], job[w]).errors
        /\ report'[r].completed = Larger(CompletedReport(report[r], job[w]).completed,
                                         CountRows(row[r], TerminalRow))
    <3>1. PICK t, m, n, e, c : CompletedReport(report[r], job[w]) =
            [total |-> t, matches |-> m, noMatch |-> n, errors |-> e, completed |-> c]
      BY Zenon DEF CompletedReport
    <3> QED
      BY <2>3, <3>1
  <2>6. /\ report'[r].matches = report[r].matches
        /\ report'[r].errors = report[r].errors
        /\ report'[r].completed = report[r].completed
    <3> DEFINE rep == report[r]
               rows == row[r]
               j == job[w]
               final == report'[r]
    <3> HIDE DEF rep, rows, j, final, Told
    <3>1. /\ rep \in Report /\ j \in Job /\ rows \in [Stores -> RowStatus]
          /\ Counted(rep, rows, Told)
          /\ final.matches = CompletedReport(rep, j).matches
          /\ final.errors = CompletedReport(rep, j).errors
          /\ final.completed = Larger(CompletedReport(rep, j).completed,
                                      CountRows(rows, TerminalRow))
          /\ Lacking(rows) = {} /\ \E s \in Stores : rows[s] # "none"
          /\ \A s \in j.matched : rows[s] = "match"
          /\ \A s \in j.errs : rows[s] \in {"error", "refresh_failed"}
      BY <1>1, <2>4, <2>5 DEF rep, rows, j, final
    <3>2. /\ final.matches = rep.matches /\ final.errors = rep.errors
          /\ final.completed = rep.completed
      BY <3>1, CompletionCounts, SMTT(30)
    <3> QED
      BY <3>2 DEF final, rep
  <2> QED
    BY <1>1, <2>1, <2>6 DEF Counted
<1> QED
  BY <1>3, <1>5, <1>6, <1>7, <1>8, <1>9 DEF Execute

\* Every step keeps the reports in step with the rows.
LEMMA ReportNext ==
    TypeOK /\ WorkInv /\ ReportInv /\ [Next]_vars => ReportInv'
<1> SUFFICES ASSUME TypeOK, WorkInv, ReportInv, [Next]_vars, NEW r \in Runs
             PROVE  Counted(report'[r], row'[r], <<r, "completed">> \in notif')
  BY DEF ReportInv
<1>1. notif \subseteq notif'
  BY NoticesStay
<1>2. CASE row'[r] = row[r] /\ report'[r] = report[r]
  <2>1. Counted(report[r], row[r], <<r, "completed">> \in notif)
    BY DEF ReportInv
  <2> QED
    BY <1>1, <1>2, <2>1 DEF Counted
<1>3. CASE ~(row'[r] = row[r] /\ report'[r] = report[r])
  <2>1. PICK w \in Workers : Execute(w)
    BY <1>3, RowsFrame
  <2>2. Fenced(w) /\ r = job[w].run
    BY <1>3, <2>1, ExecuteWrites
  <2>3. Works(w)
    BY DEF WorkInv
  <2> QED
    BY <1>1, <2>1, <2>2, <2>3, ExecuteCounts
<1> QED
  BY <1>2, <1>3

\* The report a client polls counts the store rows, in every attempt and at the
\* end.
THEOREM ReportAgrees == Spec => []ReportAgreesWithRows
<1>1. Init => WorkInv /\ ReportInv
  BY WorkInit, ReportInit
<1>2. TypeOK /\ TypeOK' /\ WorkInv /\ ReportInv /\ [Next]_vars => WorkInv' /\ ReportInv'
  BY WorkNext, ReportNext
<1>3. ReportInv => ReportAgreesWithRows
  BY DEF ReportInv, Counted, ReportAgreesWithRows
<1> QED BY <1>1, <1>2, <1>3, TypeCorrect, PTL DEF Spec

-----------------------------------------------------------------------------
(* The queue implements its contract. *)

\* What is below nextRun has been inserted.
Inserted == \A r \in Runs : r < nextRun => status[r] # "absent"

\* No row goes away.
LEMMA RowsRemain ==
    ASSUME TypeOK, [Next]_vars, NEW r \in Runs, status[r] # "absent"
    PROVE  status'[r] # "absent"
<1>1. ASSUME NEW R, NEW N, FinalizeFailed(R, N) PROVE status'[r] # "absent"
  BY <1>1 DEF FinalizeFailed
<1>2. CASE UNCHANGED table
  BY <1>2 DEF table
<1>3. ASSUME NEW c \in Clients, StartRead(c) PROVE UNCHANGED status
  BY <1>3 DEF StartRead, db
<1>4. ASSUME NEW c \in Clients, StartWrite(c) PROVE status'[r] # "absent"
  BY <1>1, <1>4 DEF StartWrite
<1>5. ASSUME NEW w \in Workers, ReconcileWrite(w) \/ FinalizeFailure(w)
      PROVE  status'[r] # "absent"
  BY <1>1, <1>5 DEF ReconcileWrite, FinalizeFailure
<1>6. ASSUME NEW w \in Workers, SweepRead(w) \/ WatchdogExit(w) \/ Crash(w)
      PROVE  UNCHANGED status
  BY <1>6 DEF SweepRead, WatchdogExit, Crash, db
<1>7. ASSUME NEW w \in Workers, ClaimSome(w) PROVE status'[r] # "absent"
  <2>1. PICK claimed :
          status' = [q \in Runs |-> IF q \in claimed THEN "running" ELSE status[q]]
    BY <1>7 DEF ClaimSome
  <2> QED
    BY <2>1
<1>8. ASSUME NEW w \in Workers, Persist(w) PROVE status'[r] # "absent"
  <2>1. UNCHANGED status \/ \E q : status' = [status EXCEPT ![q] = "completed"]
    BY <1>8 DEF Persist, FinalizeCompleted
  <2> QED
    BY <2>1 DEF TypeOK
<1> QED
  BY <1>2, <1>3, <1>4, <1>5, <1>6, <1>7, <1>8, TableFrame

\* The next row is inserted by the request that takes its number.
LEMMA InsertedNext == TypeOK /\ Inserted /\ [Next]_vars => Inserted'
<1> SUFFICES ASSUME TypeOK, Inserted, [Next]_vars, NEW r \in Runs, r < nextRun'
             PROVE  status'[r] # "absent"
  BY DEF Inserted
<1>1. CASE r < nextRun
  BY <1>1, RowsRemain DEF Inserted
<1>2. CASE ~(r < nextRun)
  <2>1. nextRun' # nextRun
    BY <1>2
  <2>2. PICK c \in Clients : StartWrite(c)
    <3>1. \A w \in Workers :
            (\/ SweepRead(w) \/ ReconcileWrite(w) \/ ClaimSome(w) \/ WatchdogExit(w)
             \/ Persist(w) \/ FinalizeFailure(w) \/ Crash(w)) => UNCHANGED nextRun
      BY DEF SweepRead, ReconcileWrite, ClaimSome, WatchdogExit, Persist, FinalizeFailure,
             Crash, db
    <3>2. \A c \in Clients : StartRead(c) => UNCHANGED nextRun
      BY DEF StartRead, db
    <3>3. ~UNCHANGED table
      BY <2>1 DEF table
    <3> QED
      BY <2>1, <3>1, <3>2, <3>3, TableFrame
  <2>3. /\ nextRun' = nextRun + 1
        /\ \E R : FinalizeFailed(R, {nextRun})
    BY <2>1, <2>2 DEF StartWrite
  <2>4. r = nextRun
    BY <1>2, <2>3 DEF TypeOK
  <2> QED
    BY <2>3, <2>4 DEF FinalizeFailed
<1> QED
  BY <1>1, <1>2

\* What the contract does not see.
LEMMA Invisible ==
    ASSUME UNCHANGED <<product, row, notif>>,
           \A r \in Runs : \/ status'[r] = status[r]
                           \/ status[r] \in ActiveStatus /\ status'[r] \in ActiveStatus
    PROVE  UNCHANGED Contract!vars
<1>1. phaseBar' = phaseBar
  BY DEF phaseBar
<1>2. askedBar' = askedBar /\ answerBar' = answerBar
  BY DEF askedBar, answerBar
<1> QED
  BY <1>1, <1>2 DEF Contract!vars

\* finalize_failed without an insert interrupts the runs it ends.
LEMMA FinalizeInterrupts ==
    ASSUME TypeOK, NEW R \in SUBSET Runs, FinalizeFailed(R, {}),
           \A r \in R : status[r] # "absent", UNCHANGED <<product, row>>
    PROVE  Contract!Interrupt(R)
<1>1. phaseBar' = Contract!Interrupted(R)
  BY DEF phaseBar, Contract!Interrupted, Contract!Runs, FinalizeFailed, ActiveStatus
<1>2. \A q \in R : phaseBar[q] # "absent"
  BY DEF phaseBar
<1>3. askedBar' = askedBar /\ answerBar' = answerBar
  BY DEF askedBar, answerBar
<1>4. notif' = notif \cup (R \X {"failed"})
  BY DEF FinalizeFailed
<1> QED
  BY <1>1, <1>2, <1>3, <1>4 DEF Contract!Interrupt

\* A request opens its run and ends those in its way, or only ends them.
LEMMA StartRequests ==
    ASSUME TypeOK, RequestInv, Inserted, NEW c \in Clients, StartWrite(c)
    PROVE  Contract!Next
<1> DEFINE p      == want[c]
           read   == {seen[c]} \ {NoRun}
           winner == IndexHolder(p, read)
           killed == read \cup {r \in winner : StaleRunning(r)}
           create == winner \subseteq killed
<1>1. /\ p \in Products
      /\ nextRun \in Runs
      /\ FinalizeFailed(killed, IF create THEN {nextRun} ELSE {})
      /\ IF create THEN product' = [product EXCEPT ![nextRun] = p]
                   ELSE UNCHANGED product
      /\ UNCHANGED row
  <2>1. want[c] \in Products /\ nextRun \in Runs
    BY DEF StartWrite, TypeOK
  <2> QED
    BY <2>1 DEF StartWrite
<1>2. /\ killed \in SUBSET Runs
      /\ \A r \in killed : status[r] # "absent"
  <2>1. read \in SUBSET Runs /\ \A r \in read : status[r] # "absent"
    BY DEF TypeOK, RequestInv, Fresh, Inserted
  <2>2. \A r \in winner : r \in Runs /\ status[r] # "absent"
    BY DEF IndexHolder, ActiveOf, ActiveStatus
  <2> QED
    BY <2>1, <2>2
<1>3. CASE ~create
  <2>1. FinalizeFailed(killed, {}) /\ UNCHANGED product
    BY <1>1, <1>3
  <2> HIDE DEF killed
  <2>2. Contract!Interrupt(killed)
    BY <1>1, <1>2, <2>1, FinalizeInterrupts
  <2> QED
    BY <1>2, <2>2 DEF Contract!Next, Contract!Runs
<1>4. CASE create
  <2>1. /\ FinalizeFailed(killed, {nextRun})
        /\ product' = [product EXCEPT ![nextRun] = p]
    BY <1>1, <1>4
  <2>2. \A r \in ActiveOf(p) : r \in killed
    BY <1>4 DEF IndexHolder
  <2> HIDE DEF killed, read, winner, create, p
  <2>3. status[nextRun] = "absent"
    BY <1>1 DEF RequestInv, Fresh, TypeOK
  <2>4. /\ phaseBar[nextRun] = "absent"
        /\ \A q \in killed : phaseBar[q] # "absent"
        /\ \A q \in Runs \ killed : ~(phaseBar[q] = "open" /\ product[q] = p)
    <3>1. \A q \in Runs : phaseBar[q] = "open" => status[q] \in ActiveStatus
      BY DEF phaseBar, TypeOK, RunStatus
    <3>2. \A q \in killed : phaseBar[q] # "absent"
      BY <1>2 DEF phaseBar
    <3>3. phaseBar[nextRun] = "absent"
      BY <1>1, <2>3 DEF phaseBar, ActiveStatus
    <3> QED
      BY <2>2, <3>1, <3>2, <3>3 DEF ActiveOf
  <2>5. phaseBar' = [Contract!Interrupted(killed) EXCEPT ![nextRun] = "open"]
    BY <1>1, <2>1 DEF phaseBar, Contract!Interrupted, Contract!Runs, FinalizeFailed,
                      ActiveStatus
  <2>6. /\ product' = [product EXCEPT ![nextRun] = p]
        /\ notif' = notif \cup (killed \X {"failed"})
        /\ askedBar' = askedBar /\ answerBar' = answerBar
    BY <1>1, <2>1 DEF FinalizeFailed, askedBar, answerBar
  <2>7. Contract!Request(nextRun, p, killed)
    BY <2>4, <2>5, <2>6 DEF Contract!Request, Contract!Runs
  <2> QED
    BY <1>1, <1>2, <2>7 DEF Contract!Next, Contract!Runs
<1> QED
  BY <1>3, <1>4

\* The stores of a run are asked for once.
LEMMA ResolveAsks ==
    ASSUME TypeOK, NEW w \in Workers, ResolveTargets(w), Fenced(w)
    PROVE  Contract!Next \/ UNCHANGED Contract!vars
<1> DEFINE run   == job[w].run
           known == {s \in Stores : row[run][s] # "none"}
<1>1. run \in Runs /\ status[run] = "running" /\ row[run] \in [Stores -> RowStatus]
  BY DEF Fenced, LockClaim, TypeOK, Job
<1>2. PICK T \in TargetSets(run) : RecordTargets(run, T)
  BY DEF ResolveTargets
<1>3. UNCHANGED <<status, product, notif>>
  BY DEF ResolveTargets
<1>4. TargetSets(run) = IF known # {} THEN {known} ELSE (SUBSET Stores) \ {{}}
  BY DEF TargetSets
<1>5. T \in SUBSET Stores /\ (known = T \/ known = {})
  <2>1. known \in SUBSET Stores
    OBVIOUS
  <2>2. T \in IF known # {} THEN {known} ELSE (SUBSET Stores) \ {{}}
    BY <1>2, <1>4
  <2> HIDE DEF known
  <2> QED
    BY <2>1, <2>2
<1>6. /\ \A s \in Stores : row'[run][s] = IF s \in T /\ row[run][s] \notin TerminalRow
                                          THEN "pending" ELSE row[run][s]
      /\ \A r \in Runs \ {run} : row'[r] = row[r]
  BY <1>1, <1>2 DEF RecordTargets, TypeOK
<1>7. {s \in Stores : row'[run][s] # "none"} = T
  <2>1. \A s \in Stores : row'[run][s] # "none" <=> s \in T
    <3>1. \A s \in Stores : s \in known <=> row[run][s] # "none"
      OBVIOUS
    <3> HIDE DEF known
    <3> QED
      BY <1>5, <1>6, <3>1, RowKinds
  <2> QED
    BY <1>5, <2>1
<1>8. answerBar' = answerBar
  <2>1. \A r \in Runs, s \in Stores :
           (IF row'[r][s] \in TerminalRow THEN row'[r][s] ELSE "none")
              = (IF row[r][s] \in TerminalRow THEN row[r][s] ELSE "none")
    BY <1>6, RowKinds
  <2> QED
    BY <2>1 DEF answerBar
<1>9. phaseBar' = phaseBar /\ phaseBar[run] = "open"
  BY <1>1, <1>3 DEF phaseBar, ActiveStatus
<1>10. askedBar' = [askedBar EXCEPT ![run] = T]
  <2>1. askedBar' = [r \in Runs |-> {s \in Stores : row'[r][s] # "none"}]
    BY DEF askedBar
  <2>2. \A r \in Runs \ {run} : {s \in Stores : row'[r][s] # "none"}
                                   = {s \in Stores : row[r][s] # "none"}
    BY <1>6
  <2> QED
    BY <1>1, <1>7, <2>1, <2>2 DEF askedBar
<1>11. askedBar[run] = known
  BY <1>1 DEF askedBar
<1>12. CASE known = {}
  <2>1. Contract!Ask(run, T)
    BY <1>3, <1>8, <1>9, <1>10, <1>11, <1>12 DEF Contract!Ask
  <2> QED
    BY <1>1, <1>5, <2>1 DEF Contract!Next, Contract!Runs
<1>13. CASE known = T
  <2>1. askedBar' = askedBar
    BY <1>1, <1>10, <1>11, <1>13 DEF askedBar
  <2> QED
    BY <1>3, <1>8, <1>9, <2>1 DEF Contract!vars
<1> QED
  BY <1>5, <1>12, <1>13

\* The answer of a store is given once.
LEMMA OutcomeAnswers ==
    ASSUME TypeOK, NEW r \in Runs, status[r] = "running", NEW s \in Stores,
           NEW o \in TerminalRow, row[r][s] \in {"pending", "running"},
           ApplyOutcome(r, s, o), UNCHANGED <<status, product, notif>>
    PROVE  Contract!Next
<1>1. row' = [row EXCEPT ![r][s] = o]
  BY RowKinds DEF ApplyOutcome
<1>2. /\ row'[r][s] = o
      /\ \A q \in Runs, t \in Stores : <<q, t>> # <<r, s>> => row'[q][t] = row[q][t]
  BY <1>1 DEF TypeOK
<1>3. phaseBar' = phaseBar /\ phaseBar[r] = "open"
  BY DEF phaseBar, ActiveStatus
<1>4. askedBar' = askedBar /\ s \in askedBar[r]
  <2>1. \A q \in Runs, t \in Stores : row'[q][t] # "none" <=> row[q][t] # "none"
    BY <1>2, RowKinds
  <2>2. \A q \in Runs : {t \in Stores : row'[q][t] # "none"}
                           = {t \in Stores : row[q][t] # "none"}
    BY <2>1
  <2>3. askedBar' = askedBar
    BY <2>2 DEF askedBar
  <2>4. s \in askedBar[r]
    BY DEF askedBar
  <2> QED
    BY <2>3, <2>4
<1>5. answerBar[r][s] = "none"
  BY RowKinds DEF answerBar
<1>6. answerBar' = [answerBar EXCEPT ![r][s] = o]
  <2>1. \A q \in Runs, t \in Stores :
           (IF row'[q][t] \in TerminalRow THEN row'[q][t] ELSE "none")
              = IF <<q, t>> = <<r, s>> THEN o
                ELSE IF row[q][t] \in TerminalRow THEN row[q][t] ELSE "none"
    BY <1>2
  <2>2. \A q \in Runs : q # r =>
           [t \in Stores |-> IF row'[q][t] \in TerminalRow THEN row'[q][t] ELSE "none"]
              = [t \in Stores |-> IF row[q][t] \in TerminalRow THEN row[q][t] ELSE "none"]
    BY <2>1
  <2>3. [t \in Stores |-> IF row'[r][t] \in TerminalRow THEN row'[r][t] ELSE "none"]
           = [[t \in Stores |-> IF row[r][t] \in TerminalRow THEN row[r][t] ELSE "none"]
                EXCEPT ![s] = o]
    BY <2>1
  <2> QED
    BY <2>2, <2>3 DEF answerBar
<1>7. Contract!Answer(r, s, o)
  BY <1>3, <1>4, <1>5, <1>6 DEF Contract!Answer
<1> QED
  BY <1>7 DEF Contract!Next, Contract!Runs

\* A store that is taken up stays asked for and without an answer.
LEMMA StartIsInvisible ==
    ASSUME TypeOK, NEW r \in Runs, NEW s \in Stores, row[r][s] \in {"pending", "running"},
           RecordStarted(r, s), UNCHANGED <<status, product, notif>>
    PROVE  UNCHANGED Contract!vars
<1>1. row' = [row EXCEPT ![r][s] = "running"]
  BY RowKinds DEF RecordStarted, TypeOK
<1>2. \A q \in Runs, t \in Stores :
         \/ row'[q][t] = row[q][t]
         \/ row[q][t] \in {"pending", "running"} /\ row'[q][t] = "running"
  BY <1>1 DEF TypeOK
<1>3. phaseBar' = phaseBar
  BY DEF phaseBar
<1>4. askedBar' = askedBar
  <2>1. \A q \in Runs : {t \in Stores : row'[q][t] # "none"}
                           = {t \in Stores : row[q][t] # "none"}
    BY <1>2
  <2> QED
    BY <2>1 DEF askedBar
<1>5. answerBar' = answerBar
  <2>1. \A q \in Runs, t \in Stores :
           (IF row'[q][t] \in TerminalRow THEN row'[q][t] ELSE "none")
              = (IF row[q][t] \in TerminalRow THEN row[q][t] ELSE "none")
    BY <1>2, RowKinds
  <2> QED
    BY <2>1 DEF answerBar
<1> QED
  BY <1>3, <1>4, <1>5 DEF Contract!vars

\* A run is completed when every store that was asked for is answered.
LEMMA PersistCompletes ==
    ASSUME TypeOK, NEW w \in Workers, Works(w), Persist(w), Fenced(w)
    PROVE  Contract!Next
<1> DEFINE r == job[w].run
<1>1. r \in Runs /\ status[r] = "running" /\ row[r] \in [Stores -> RowStatus]
  BY DEF Fenced, LockClaim, TypeOK, Job
<1>2. /\ status' = [status EXCEPT ![r] = "completed"]
      /\ notif' = notif \cup {<<r, "completed">>}
      /\ UNCHANGED <<product, row>>
  BY DEF Persist, FinalizeCompleted
<1>3. Lacking(row[r]) = {}
  BY CompletionHasAnswers
<1> HIDE DEF r
<1>4. phaseBar[r] = "open" /\ phaseBar' = [phaseBar EXCEPT ![r] = "completed"]
  BY <1>1, <1>2 DEF phaseBar, ActiveStatus, TypeOK
<1>5. askedBar' = askedBar /\ answerBar' = answerBar
  BY <1>2 DEF askedBar, answerBar
<1>6. \A s \in askedBar[r] : answerBar[r][s] # "none"
  BY <1>1, <1>3, RowKinds DEF askedBar, answerBar, Lacking
<1>7. Contract!Complete(r)
  BY <1>2, <1>4, <1>5, <1>6 DEF Contract!Complete
<1> QED
  BY <1>1, <1>7 DEF Contract!Next, Contract!Runs

\* The steps of an execution.
LEMMA ExecuteImplements ==
    ASSUME TypeOK, NEW w \in Workers, Works(w), Execute(w)
    PROVE  Contract!Next \/ UNCHANGED Contract!vars
<1> DEFINE run == job[w].run
           Goal == Contract!Next \/ UNCHANGED Contract!vars
<1>1. CASE UNCHANGED <<status, product, row, notif>>
  BY <1>1, Invisible
<1>2. CASE RefreshDone(w) \/ StoreRaises(w) \/ Raise(w)
  BY <1>1, <1>2 DEF RefreshDone, StoreRaises, Raise, db
<1>3. CASE FinalizeFailure(w)
  <2> DEFINE R == IF Fenced(w) THEN {run} ELSE {}
  <2>1. R \in SUBSET Runs /\ \A r \in R : status[r] # "absent"
    <3>1. job[w] \in Job
      BY DEF TypeOK
    <3>2. Fenced(w) => run \in Runs /\ status[run] = "running"
      BY <3>1 DEF Fenced, LockClaim, Job
    <3> QED
      BY <3>2
  <2>2. FinalizeFailed(R, {}) /\ UNCHANGED <<product, row>>
    BY <1>3 DEF FinalizeFailure
  <2> HIDE DEF R
  <2>3. Contract!Interrupt(R)
    BY <2>1, <2>2, FinalizeInterrupts
  <2> QED
    BY <2>1, <2>3 DEF Contract!Next, Contract!Runs
<1>4. CASE ~Fenced(w) /\ ~FinalizeFailure(w)
  <2>1. UNCHANGED <<status, product, row, notif>>
    BY <1>2, <1>4 DEF Execute, ResolveTargets, RefreshStore, RefreshDone, StartStore,
                      FinishStore, StoreRaises, Raise, Persist, db
  <2> QED
    BY <1>1, <2>1
<1>5. CASE Fenced(w)
  <2>1. run \in Runs /\ status[run] = "running" /\ job[w] \in Job
    BY <1>5 DEF Fenced, LockClaim, TypeOK, Job
  <2>2. ASSUME pc[w] \in Executing, NEW s \in Left(job[w])
        PROVE  s \in Stores /\ row[run][s] \in {"pending", "running"}
    BY <1>5, <2>1, <2>2 DEF Works, Working, Left, Job
  <2>3. CASE ResolveTargets(w)
    BY <1>5, <2>3, ResolveAsks
  <2>4. CASE RefreshStore(w)
    <3>1. PICK s \in job[w].refresh, o \in {"refreshed", "refresh_failed"} :
            ApplyOutcome(run, s, o)
      BY <1>5, <2>4 DEF RefreshStore
    <3>2. s \in Left(job[w]) /\ o \in TerminalRow /\ pc[w] \in Executing
      BY <2>4, <3>1 DEF Left, TerminalRow, RefreshStore, Executing
    <3>3. UNCHANGED <<status, product, notif>>
      BY <2>4 DEF RefreshStore
    <3> QED
      BY <2>1, <2>2, <3>1, <3>2, <3>3, OutcomeAnswers
  <2>5. CASE StartStore(w)
    <3>1. PICK s \in job[w].todo : RecordStarted(run, s)
      BY <1>5, <2>5 DEF StartStore
    <3>2. s \in Left(job[w]) /\ pc[w] \in Executing
      BY <2>5, <3>1 DEF Left, StartStore, Executing
    <3>3. UNCHANGED <<status, product, notif>>
      BY <2>5 DEF StartStore
    <3> QED
      BY <2>1, <2>2, <3>1, <3>2, <3>3, StartIsInvisible
  <2>6. CASE FinishStore(w)
    <3>1. PICK s \in job[w].inflight, a \in Answers : ApplyOutcome(run, s, a.row)
      BY <1>5, <2>6 DEF FinishStore
    <3>2. s \in Left(job[w]) /\ a.row \in TerminalRow /\ pc[w] \in Executing
      BY <2>6, <3>1 DEF Left, Answers, TerminalRow, FinishStore, Executing
    <3>3. UNCHANGED <<status, product, notif>>
      BY <2>6 DEF FinishStore
    <3> QED
      BY <2>1, <2>2, <3>1, <3>2, <3>3, OutcomeAnswers
  <2>7. CASE Persist(w)
    BY <1>5, <2>7, PersistCompletes
  <2> QED
    BY <1>2, <1>3, <2>3, <2>4, <2>5, <2>6, <2>7 DEF Execute
<1> QED
  BY <1>3, <1>4, <1>5

\* Nothing is requested at first.
LEMMA ContractInit == Init => Contract!Init /\ Inserted
<1> SUFFICES ASSUME Init PROVE Contract!Init /\ Inserted
  OBVIOUS
<1>1. phaseBar = [r \in Runs |-> "absent"]
  BY DEF Init, phaseBar, ActiveStatus
<1>2. askedBar = [r \in Runs |-> {}]
  BY DEF Init, askedBar
<1>3. answerBar = [r \in Runs |-> [s \in Stores |-> "none"]]
  BY RowKinds DEF Init, answerBar
<1>4. product = [r \in Runs |-> NoProduct] /\ notif = {}
  BY DEF Init
<1>5. Inserted
  BY DEF Init, Inserted
<1> QED
  BY <1>1, <1>2, <1>3, <1>4, <1>5 DEF Contract!Init, Contract!Runs

\* Every step of the queue is a step of the contract or invisible to it.
LEMMA ContractNext ==
    TypeOK /\ RequestInv /\ Inserted /\ WorkInv /\ [Next]_vars
       => [Contract!Next]_(Contract!vars)
<1> SUFFICES ASSUME TypeOK, RequestInv, Inserted, WorkInv, [Next]_vars
             PROVE  Contract!Next \/ UNCHANGED Contract!vars
  OBVIOUS
<1> USE DEF db, main, threads, clients, vars
<1>1. CASE UNCHANGED <<status, product, row, notif>>
  BY <1>1, Invisible
<1>2. ASSUME NEW c \in Clients, StartRead(c) \/ StartWrite(c)
      PROVE  Contract!Next \/ UNCHANGED Contract!vars
  <2>1. CASE StartRead(c)
    BY <1>1, <2>1 DEF StartRead
  <2>2. CASE StartWrite(c)
    BY <2>2, StartRequests
  <2> QED
    BY <1>2, <2>1, <2>2
<1>3. ASSUME NEW w \in Workers, ReconcileWrite(w)
      PROVE  Contract!Next \/ UNCHANGED Contract!vars
  <2>1. /\ FinalizeFailed(snap[w], {})
        /\ UNCHANGED <<product, row>>
    BY <1>3 DEF ReconcileWrite
  <2>2. /\ snap[w] \in SUBSET Runs
        /\ \A r \in snap[w] : status[r] # "absent"
    BY DEF RequestInv, Fresh, Inserted, TypeOK
  <2>3. Contract!Interrupt(snap[w])
    BY <2>1, <2>2, FinalizeInterrupts
  <2> QED
    BY <2>2, <2>3 DEF Contract!Next, Contract!Runs
<1>4. ASSUME NEW w \in Workers, ClaimSome(w) PROVE UNCHANGED Contract!vars
  <2>1. PICK claimed \in SUBSET Runs :
          /\ \A r \in claimed : status[r] \in ActiveStatus
          /\ status' = [r \in Runs |-> IF r \in claimed THEN "running"
                                       ELSE status[r]]
    BY <1>4 DEF ClaimSome, Oldest, DueRuns, Due
  <2>2. \A r \in Runs : \/ status'[r] = status[r]
                        \/ status[r] \in ActiveStatus /\ status'[r] \in ActiveStatus
    BY <2>1 DEF ActiveStatus
  <2>3. UNCHANGED <<product, row, notif>>
    BY <1>4 DEF ClaimSome
  <2> QED
    BY <2>2, <2>3, Invisible
<1>5. ASSUME NEW w \in Workers, Execute(w)
      PROVE  Contract!Next \/ UNCHANGED Contract!vars
  BY <1>5, ExecuteImplements DEF WorkInv
<1>6. ASSUME NEW w \in Workers,
             SweepRead(w) \/ ClaimNone(w) \/ Begin(w) \/ Heartbeat(w) \/ Watchdog(w)
      PROVE  UNCHANGED <<status, product, row, notif>>
  BY <1>6 DEF SweepRead, ClaimNone, Begin, Heartbeat, Watchdog, WatchdogFire, WatchdogExit
<1>7. ASSUME NEW w \in Workers, Crash(w) \/ Stall(w) \/ Resume(w) \/ FinalizeLost(w)
      PROVE  UNCHANGED <<status, product, row, notif>>
  BY <1>7 DEF Crash, Stall, Resume, FinalizeLost
<1>8. ASSUME NEW r \in Runs, LeaseExpires(r) \/ LeaseExpiresEarly(r)
      PROVE  UNCHANGED <<status, product, row, notif>>
  BY <1>8 DEF LeaseExpires, LeaseExpiresEarly
<1> QED
  BY <1>1, <1>2, <1>3, <1>4, <1>5, <1>6, <1>7, <1>8 DEF Next, Sweep

\* What workers, leases, retries and crashes do to a run is what the contract
\* allows.
THEOREM QueueImplementsContract == Spec => ImplementsContract
<1>1. Init => WorkInv /\ RequestInv /\ Inserted /\ Contract!Init
  BY WorkInit, RequestInit, ContractInit
<1>2. TypeOK /\ TypeOK' /\ WorkInv /\ RequestInv /\ Inserted /\ [Next]_vars
         => WorkInv' /\ RequestInv' /\ Inserted'
  BY WorkNext, RequestNext, InsertedNext
<1>3. TypeOK /\ RequestInv /\ Inserted /\ WorkInv /\ [Next]_vars
         => [Contract!Next]_(Contract!vars)
  BY ContractNext
<1> QED
  BY <1>1, <1>2, <1>3, TypeCorrect, PTL DEF Spec, ImplementsContract, Contract!Spec

=============================================================================
