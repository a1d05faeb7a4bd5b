---------------------------- MODULE ExchangeRates ----------------------------
(***************************************************************************)
(* The current exchange rates, and the schedule of their refreshes.        *)
(*                                                                         *)
(* Every process with a scheduler thread sweeps: if the refresh is due, it *)
(* asks the providers, compares what they say with the rates in the table, *)
(* stores what it accepts, marks old rates stale and sets the time of the  *)
(* next refresh, all in one transaction.  An administrator's request does  *)
(* the same without asking whether a refresh is due.  Nothing keeps two    *)
(* refreshes apart but the row locks of PostgreSQL, which last until the   *)
(* transaction ends.                                                       *)
(*                                                                         *)
(* A transaction sees what was committed when its statement began; a       *)
(* statement that waited for a row looks at it again (READ COMMITTED).     *)
(***************************************************************************)
EXTENDS Integers

CONSTANTS RateCount,   \* rates, numbered in the order in which they are stored
          Sweepers,    \* processes with a scheduler thread
          Requests,    \* calls of POST /refresh, each made once
          Quotes,      \* what the providers may answer; some may not answer
          Low, High,   \* MAGNITUDE_BANDS
          MaxChange,   \* exchange_rate_outlier_max_change_pct
          StaleAfter,  \* exchange_rate_stale_after_seconds
          Interval,    \* exchange_rate_refresh_interval_seconds
          Jitter,      \* the tenth of it that is random
          MaxTime,     \* bound: the clock
          MaxFaults    \* bound: crashes and database errors

Rates == 1 .. RateCount
Procs == Sweepers \cup Requests

NoProc == "no process"
NoTime == -1

ASSUME ExchangeAssumption ==
    /\ {RateCount, StaleAfter, Jitter, MaxTime, MaxFaults} \subseteq Nat
    /\ {Low, High, Interval} \subseteq Nat \ {0}
    /\ MaxChange \in Nat
    /\ Sweepers \cap Requests = {} /\ NoProc \notin Procs
    /\ \A quote \in Quotes : DOMAIN quote \subseteq Rates /\ quote \in [DOMAIN quote -> Nat]

NoRate == [value |-> 0, at |-> 0, status |-> "none"]

\* The columns of a row of exchange_rate_latest; NoRate is a row that is absent.
Rate == {NoRate} \cup [value : Low .. High, at : Nat, status : {"fresh", "stale"}]

\* What a provider has said, before anybody looked at it.
Fetched == {NoRate} \cup [value : Nat, at : Nat, status : {"fresh"}]

VARIABLES now,
          rate,      \* the committed rows
          observed,  \* the values committed to exchange_rate_observations
          next,      \* next_refresh_at; NoTime before there is a scheduler row
          lock,      \* the transaction that has the row locked
          pc,        \* where a process is
          known,     \* last_known_map: the values it compares with, 0 for none
          draft,     \* rates it has fetched; of a row it has locked, its version
          todo,      \* rows its statements have not come to yet
          moment,    \* when it began to mark rows stale
          found,     \* its session holds the scheduler row
          plan,      \* the next_refresh_at it is going to write
          faults

process == <<pc, known, draft, todo, moment, found, plan>>
vars == <<now, rate, observed, next, lock, process, faults>>

TypeOK ==
    /\ now \in 0 .. MaxTime
    /\ rate \in [Rates -> Rate]
    /\ observed \in [Rates -> SUBSET (Low .. High)]
    /\ next \in Nat \cup {NoTime}
    /\ lock \in [Rates -> Procs \cup {NoProc}]
    /\ pc \in [Procs -> {"idle", "fetch", "compare", "store", "mark", "plan", "gone"}]
    /\ known \in [Procs -> [Rates -> {0} \cup Low .. High]]
    /\ draft \in [Procs -> [Rates -> Rate \cup Fetched]]
    /\ todo \in [Procs -> SUBSET Rates]
    /\ moment \in [Procs -> 0 .. MaxTime]
    /\ found \in [Procs -> BOOLEAN]
    /\ plan \in [Procs -> Nat]
    /\ faults \in 0 .. MaxFaults

Init ==
    /\ now = 0
    /\ rate = [r \in Rates |-> NoRate]
    /\ observed = [r \in Rates |-> {}]
    /\ next = NoTime
    /\ lock = [r \in Rates |-> NoProc]
    /\ pc = [p \in Procs |-> "idle"]
    /\ known = [p \in Procs |-> [r \in Rates |-> 0]]
    /\ draft = [p \in Procs |-> [r \in Rates |-> NoRate]]
    /\ todo = [p \in Procs |-> {}]
    /\ moment = [p \in Procs |-> 0]
    /\ found = [p \in Procs |-> FALSE]
    /\ plan = [p \in Procs |-> 0]
    /\ faults = 0

-----------------------------------------------------------------------------
(* Rates and rows. *)

Distance(a, b) == IF a <= b THEN b - a ELSE a - b

\* check_max_change.
Near(new, last) == 100 * Distance(new, last) <= MaxChange * last

\* Mutant: only the upper end of the band is looked at.
AcceptsBelow(new, last) ==
    /\ new <= High
    /\ last # 0 => Near(new, last)

\* Mutant: a rate is not compared with the last known one.
AcceptsAny(new, last) == new \in Low .. High

\* validate_rate.
Accepts(new, last) ==
    /\ new \in Low .. High
    /\ last # 0 => Near(new, last)

\* The WHERE clause of mark_stale.
Aged(x, time) == x.status = "fresh" /\ time - x.at > StaleAfter

\* A row as the transaction of p sees it.
View(p, r) == IF lock[r] = p THEN draft[p][r] ELSE rate[r]

Free(p, r) == lock[r] \in {p, NoProc}

IsNext(p, r) == r \in todo[p] /\ \A q \in todo[p] : r <= q

Overdue == next <= now

-----------------------------------------------------------------------------
Goto(p, label) == pc' = [pc EXCEPT ![p] = label]

Unlocked(p) == [r \in Rates |-> IF lock[r] = p THEN NoProc ELSE lock[r]]

\* The session is closed: its locks and its memory are gone.
Close(p) ==
    /\ Goto(p, IF p \in Sweepers THEN "idle" ELSE "gone")
    /\ lock'   = Unlocked(p)
    /\ known'  = [known EXCEPT ![p] = [r \in Rates |-> 0]]
    /\ draft'  = [draft EXCEPT ![p] = [r \in Rates |-> NoRate]]
    /\ todo'   = [todo EXCEPT ![p] = {}]
    /\ moment' = [moment EXCEPT ![p] = 0]
    /\ found'  = [found EXCEPT ![p] = FALSE]
    /\ plan'   = [plan EXCEPT ![p] = 0]

Rollback(p) == Close(p) /\ UNCHANGED <<rate, observed, next>>

\* refresh_if_due of a sweep: whether it is due is read without a lock.
Due(p) ==
    /\ p \in Sweepers /\ pc[p] = "idle" /\ Overdue
    /\ Goto(p, "fetch")
    /\ found' = [found EXCEPT ![p] = next # NoTime]
    /\ UNCHANGED <<now, rate, observed, next, lock, known, draft, todo, moment, plan, faults>>

\* A sweep that finds nothing due leaves everything as it is.
Skip(p) == p \in Sweepers /\ pc[p] = "idle" /\ ~Overdue /\ UNCHANGED vars

Ask(p) ==
    /\ p \in Requests /\ pc[p] = "idle"
    /\ Goto(p, "fetch")
    /\ UNCHANGED <<now, rate, observed, next, lock, known, draft, todo, moment, found,
                   plan, faults>>

\* The providers answer, or do not.
Fetch(p) ==
    /\ pc[p] = "fetch"
    /\ \E quote \in Quotes :
          draft' = [draft EXCEPT ![p] = [r \in Rates |->
                       IF r \in DOMAIN quote
                       THEN [value |-> quote[r], at |-> now, status |-> "fresh"]
                       ELSE NoRate]]
    /\ Goto(p, "compare")
    /\ UNCHANGED <<now, rate, observed, next, lock, known, todo, moment, found, plan, faults>>

\* get_last_known_map and validate_batch.
Compare(p) ==
    /\ pc[p] = "compare"
    /\ known' = [known EXCEPT ![p] = [r \in Rates |-> rate[r].value]]
    /\ todo' = [todo EXCEPT ![p] = {r \in Rates : /\ draft[p][r] # NoRate
                                                  /\ Accepts(draft[p][r].value, rate[r].value)}]
    /\ Goto(p, "store")
    /\ UNCHANGED <<now, rate, observed, next, lock, draft, moment, found, plan, faults>>

\* upsert_latest of one rate, without a condition on what is in the row by now.
Store(p, r) ==
    /\ pc[p] = "store" /\ IsNext(p, r) /\ Free(p, r)
    /\ lock' = [lock EXCEPT ![r] = p]
    /\ todo' = [todo EXCEPT ![p] = @ \ {r}]
    /\ UNCHANGED <<now, rate, observed, next, pc, known, draft, moment, found, plan, faults>>

\* mark_stale begins: it finds the rows that are old as it sees them.
BeginMark(p) ==
    /\ pc[p] = "store" /\ todo[p] = {}
    /\ todo' = [todo EXCEPT ![p] = {r \in Rates : Aged(View(p, r), now)}]
    /\ moment' = [moment EXCEPT ![p] = now]
    /\ Goto(p, "mark")
    /\ UNCHANGED <<now, rate, observed, next, lock, known, draft, found, plan, faults>>

\* Mutant: the row is not looked at again after the wait for its lock.
MarkBlindly(p, r) ==
    /\ pc[p] = "mark" /\ r \in todo[p] /\ Free(p, r)
    /\ draft' = [draft EXCEPT ![p][r] = [View(p, r) EXCEPT !.status = "stale"]]
    /\ lock' = [lock EXCEPT ![r] = p]
    /\ todo' = [todo EXCEPT ![p] = @ \ {r}]
    /\ UNCHANGED <<now, rate, observed, next, pc, known, moment, found, plan, faults>>

\* It locks each, looks at it again and marks it.  A row that is not old any
\* more stays as it is, but locked.
Mark(p, r) ==
    /\ pc[p] = "mark" /\ r \in todo[p] /\ Free(p, r)
    /\ draft' = [draft EXCEPT ![p][r] =
                    IF Aged(View(p, r), moment[p])
                    THEN [View(p, r) EXCEPT !.status = "stale"] ELSE View(p, r)]
    /\ lock' = [lock EXCEPT ![r] = p]
    /\ todo' = [todo EXCEPT ![p] = @ \ {r}]
    /\ UNCHANGED <<now, rate, observed, next, pc, known, moment, found, plan, faults>>

\* The next refresh is computed, then the scheduler row is looked for.
Plan(p) ==
    /\ pc[p] = "mark" /\ todo[p] = {}
    /\ \E j \in 0 .. Jitter : plan' = [plan EXCEPT ![p] = now + Interval + j]
    /\ found' = [found EXCEPT ![p] = @ \/ next # NoTime]
    /\ Goto(p, "plan")
    /\ UNCHANGED <<now, rate, observed, next, lock, known, draft, todo, moment, faults>>

\* What is in the tables after p has committed.
Stored(p) ==
    /\ rate' = [r \in Rates |-> View(p, r)]
    /\ observed' = [r \in Rates |->
          IF lock[r] = p THEN observed[r] \cup {draft[p][r].value} ELSE observed[r]]

\* Mutant: only a refresh that stored something moves the schedule.
CommitOnSuccess(p) ==
    /\ pc[p] = "plan"
    /\ found[p] \/ next = NoTime
    /\ Stored(p)
    /\ next' = IF \E r \in Rates : lock[r] = p THEN plan[p] ELSE next
    /\ Close(p)
    /\ UNCHANGED <<now, faults>>

\* The scheduler row is written and the transaction commits.  No transaction
\* waits for anything after it has locked that row, so the two are one step.
Commit(p) ==
    /\ pc[p] = "plan"
    /\ found[p] \/ next = NoTime
    /\ Stored(p)
    /\ next' = plan[p]
    /\ Close(p)
    /\ UNCHANGED <<now, faults>>

\* Another refresh has inserted the scheduler row meanwhile.
Conflict(p) ==
    /\ pc[p] = "plan"
    /\ ~found[p] /\ next # NoTime
    /\ Rollback(p)
    /\ UNCHANGED <<now, faults>>

\* The rows that the statement of p may be waiting for.
Wanted(p) ==
    CASE pc[p] = "store" -> {r \in Rates : IsNext(p, r)}
      [] pc[p] = "mark"  -> todo[p]
      [] OTHER           -> {}

\* PostgreSQL ends a deadlock by failing one of those in it.
Victim(p) ==
    /\ \E S \in SUBSET Procs :
          /\ p \in S
          /\ \A q \in S : \E r \in Wanted(q) : lock[r] \in S \ {q}
    /\ Rollback(p)
    /\ UNCHANGED <<now, faults>>

\* A crash, a database error, or the end of the process.
Fail(p) ==
    /\ pc[p] \notin {"idle", "gone"} /\ faults < MaxFaults
    /\ faults' = faults + 1
    /\ Rollback(p)
    /\ UNCHANGED now

Tick ==
    /\ now < MaxTime
    /\ now' = now + 1
    /\ UNCHANGED <<rate, observed, next, lock, process, faults>>

Work(p) == Fetch(p) \/ Compare(p) \/ BeginMark(p) \/ Plan(p) \/ Commit(p) \/ Conflict(p)

Lock(p, r) == Store(p, r) \/ Mark(p, r)

Next ==
    \/ \E p \in Procs :
          \/ Due(p) \/ Skip(p) \/ Ask(p) \/ Work(p) \/ Victim(p) \/ Fail(p)
          \/ \E r \in Rates : Lock(p, r)
    \/ Tick

\* Sweepers sweep for ever, providers answer or fail in time, PostgreSQL grants
\* a lock to those who wait for it and ends deadlocks.  Nobody has to ask, and
\* nothing makes time pass.
Fairness ==
    /\ \A p \in Sweepers : WF_vars(Due(p))
    /\ \A p \in Procs : WF_vars(Work(p))
    /\ \A p \in Procs : \A r \in Rates : SF_vars(Lock(p, r))
    /\ WF_vars(\E p \in Procs : Victim(p))

Spec == Init /\ [][Next]_vars /\ Fairness

-----------------------------------------------------------------------------
(* Safety. *)

\* A rate in the table is one that some refresh has recorded.
ValuesWereObserved ==
    \A r \in Rates : rate[r] # NoRate => rate[r].value \in observed[r]

\* A rate is marked stale only when it is old, also if a refresh replaces it
\* while mark_stale waits for its row.
StaleIsOld ==
    \A r \in Rates : rate[r].status = "stale" => now - rate[r].at > StaleAfter

\* However late a refresh is when it writes the schedule, the next one is not
\* further away than an interval.
ScheduleInReach == next <= now + Interval + Jitter

TableIsHonest == ValuesWereObserved /\ StaleIsOld /\ ScheduleInReach

\* A rate is recorded only if it is near one recorded before it, or its refresh
\* saw none.
JumpStep ==
    \A r \in Rates : \A v \in observed'[r] \ observed[r] :
       \/ \E u \in observed[r] : Near(v, u)
       \/ \E p \in Procs : lock[r] = p /\ known[p][r] = 0

\* What the table says of a rate is true, and no rate comes out of nowhere
\* ("reject silent outlier - do NOT invent replacement"), whatever refreshes
\* replace, mark and compare while another waits.
RatesAreHonest == []TableIsHonest /\ [][JumpStep]_vars

(* Liveness. *)

\* A refresh that is due is made, whatever crashes, conflicts and deadlocks.
DueIsRefreshed == Overdue ~> ~Overdue

(* What the code does not promise. *)

\* Two refreshes that compare with the same rate may store, one after the other,
\* two that are further apart than the limit.
StepsAreSmall ==
    [][\A r \in Rates : rate[r] # NoRate => Near(rate'[r].value, rate[r].value)]_vars

\* A refresh that fetched earlier may store later.
RatesGetNewer == [][\A r \in Rates : rate[r].at <= rate'[r].at]_vars

=============================================================================
