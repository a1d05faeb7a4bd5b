------------------------ MODULE ExchangeRates_proofs ------------------------
(***************************************************************************)
(* The safety of ExchangeRates for any number of rates and of refreshes,   *)
(* and for any answers of the providers.                                   *)
(*                                                                         *)
(* A transaction carries two things past the moment at which it read them: *)
(* the rates it compared with and the rates it will write.  Backed says    *)
(* what a comparison is still worth when its result is committed, Fit what *)
(* a version of a row must be for anybody to commit it.                    *)
(***************************************************************************)
EXTENDS ExchangeRates, TLAPS

USE DEF Rates

\* A version of a row that may be committed.
Fit(x) ==
    /\ x \in Rate /\ x # NoRate
    /\ x.at <= now
    /\ x.status = "stale" => now - x.at > StaleAfter

\* A value is recorded already, or is near to one, or was the first its refresh
\* heard of.
Backed(p, r) ==
    \/ draft[p][r].value \in observed[r]
    \/ known[p][r] = 0
    \/ Near(draft[p][r].value, known[p][r])

\* What the memory of p says of r is worth.
Prepared(p, r) ==
    /\ known[p][r] = 0 \/ known[p][r] \in observed[r]
    /\ pc[p] = "compare" => draft[p][r] \in Fetched /\ draft[p][r].at <= now
    /\ lock[r] = p \/ (pc[p] = "store" /\ r \in todo[p])
          => Fit(draft[p][r]) /\ Backed(p, r)
    /\ lock[r] = p => pc[p] \in {"store", "mark", "plan"}
    /\ pc[p] = "mark" /\ r \in todo[p] => lock[r] = p \/ rate[r] # NoRate

Timely(p) ==
    /\ moment[p] <= now
    /\ pc[p] = "plan" => plan[p] <= now + Interval + Jitter

RowsAreFit == \A r \in Rates : rate[r] # NoRate => Fit(rate[r]) /\ rate[r].value \in observed[r]

RefreshInv ==
    /\ TypeOK
    /\ \A p \in Procs : Timely(p) /\ \A r \in Rates : Prepared(p, r)
    /\ RowsAreFit
    /\ ScheduleInReach

\* Numbers and records: what the other proofs use without opening them.
LEMMA Records ==
    /\ NoRate.value = 0 /\ NoRate.at = 0 /\ NoRate.status = "none"
    /\ \A x \in Rate : /\ x.value \in {0} \cup Low .. High
                       /\ x.at \in Nat
                       /\ x.status \in {"none", "fresh", "stale"}
                       /\ x # NoRate => x.value \in Low .. High /\ x.status # "none"
    /\ \A x \in Fetched : x.value \in Nat /\ x.at \in Nat
    /\ \A x \in Fetched : x # NoRate => x.status = "fresh"
    /\ \A x \in Fetched : x # NoRate /\ x.value \in Low .. High => x \in Rate
    /\ \A x \in Rate : x # NoRate => [x EXCEPT !.status = "stale"] \in Rate \ {NoRate}
BY ExchangeAssumption DEF Rate, Fetched, NoRate

LEMMA Bounds ==
    /\ RateCount \in Nat /\ StaleAfter \in Nat /\ Interval \in Nat /\ Jitter \in Nat
    /\ MaxTime \in Nat /\ MaxFaults \in Nat
    /\ NoTime \in Int /\ NoTime < 0
BY ExchangeAssumption DEF NoTime

LEMMA RefreshInit == Init => RefreshInv
<1> SUFFICES ASSUME Init PROVE RefreshInv
  OBVIOUS
<1>1. TypeOK
  BY ExchangeAssumption DEF Init, TypeOK, Rate, Fetched, NoRate, NoTime
<1>2. \A p \in Procs : Timely(p) /\ \A r \in Rates : Prepared(p, r)
  BY ExchangeAssumption DEF Init, Timely, Prepared
<1>3. RowsAreFit /\ ScheduleInReach
  BY ExchangeAssumption DEF Init, RowsAreFit, ScheduleInReach, NoTime
<1> QED
  BY <1>1, <1>2, <1>3 DEF RefreshInv

\* A process that goes on without touching rows or locks.
LEMMA Onwards ==
    ASSUME RefreshInv, NEW p \in Procs, Due(p) \/ Skip(p) \/ Ask(p)
    PROVE  RefreshInv' /\ JumpStep
<1> USE DEF RefreshInv
<1>1. TypeOK'
  BY DEF TypeOK, Due, Skip, Ask, Goto, vars, process
<1>2. /\ UNCHANGED <<now, rate, observed, next, lock, known, draft, todo, moment, plan>>
      /\ pc' = pc \/ (pc[p] = "idle" /\ pc' = [pc EXCEPT ![p] = "fetch"])
  BY DEF Due, Skip, Ask, Goto, vars, process
<1>3. \A q \in Procs : Timely(q)' /\ \A r \in Rates : Prepared(q, r)'
  BY <1>2 DEF TypeOK, Timely, Prepared, Fit, Backed
<1>4. RowsAreFit' /\ ScheduleInReach' /\ JumpStep
  BY <1>2 DEF RowsAreFit, ScheduleInReach, JumpStep, Fit
<1> QED
  BY <1>1, <1>3, <1>4

LEMMA FetchKeeps ==
    ASSUME RefreshInv, NEW p \in Procs, Fetch(p)
    PROVE  RefreshInv' /\ JumpStep
<1> USE DEF RefreshInv
<1>1. PICK quote \in Quotes :
         draft' = [draft EXCEPT ![p] = [r \in Rates |->
                     IF r \in DOMAIN quote
                     THEN [value |-> quote[r], at |-> now, status |-> "fresh"]
                     ELSE NoRate]]
  BY DEF Fetch
<1>2. quote \in [DOMAIN quote -> Nat] /\ DOMAIN quote \subseteq Rates
  BY ExchangeAssumption
<1>3. \A r \in Rates : draft'[p][r] \in Fetched /\ draft'[p][r].at <= now
  BY <1>1, <1>2, Records, ExchangeAssumption DEF TypeOK, Fetched
<1>4. draft' \in [Procs -> [Rates -> Rate \cup Fetched]]
      /\ \A q \in Procs \ {p} : draft'[q] = draft[q]
  BY <1>1, <1>3 DEF TypeOK
<1>5. /\ pc[p] = "fetch" /\ pc' = [pc EXCEPT ![p] = "compare"]
      /\ UNCHANGED <<now, rate, observed, next, lock, known, todo, moment, found, plan, faults>>
  BY DEF Fetch, Goto
<1>6. TypeOK'
  BY <1>4, <1>5 DEF TypeOK
<1>7. \A q \in Procs : Timely(q)' /\ \A r \in Rates : Prepared(q, r)'
  <2>1. ASSUME NEW q \in Procs \ {p} PROVE Timely(q)' /\ \A r \in Rates : Prepared(q, r)'
    BY <1>4, <1>5 DEF TypeOK, Timely, Prepared, Fit, Backed
  <2>2. Timely(p)' /\ \A r \in Rates : Prepared(p, r)'
    BY <1>3, <1>5 DEF TypeOK, Timely, Prepared
  <2> QED
    BY <2>1, <2>2
<1>8. RowsAreFit' /\ ScheduleInReach' /\ JumpStep
  BY <1>5 DEF RowsAreFit, ScheduleInReach, JumpStep, Fit
<1> QED
  BY <1>6, <1>7, <1>8

\* What the comparison accepts is fit to be stored, and backed by what the table
\* had at that moment.
LEMMA CompareKeeps ==
    ASSUME RefreshInv, NEW p \in Procs, Compare(p)
    PROVE  RefreshInv' /\ JumpStep
<1> USE DEF RefreshInv
<1>1. /\ pc[p] = "compare" /\ pc' = [pc EXCEPT ![p] = "store"]
      /\ known' = [known EXCEPT ![p] = [r \in Rates |-> rate[r].value]]
      /\ UNCHANGED <<now, rate, observed, next, lock, draft, moment, found, plan, faults>>
      /\ todo' = [todo EXCEPT ![p] = {r \in Rates : /\ draft[p][r] # NoRate
                                                    /\ Accepts(draft[p][r].value, rate[r].value)}]
  BY DEF Compare, Goto
<1>2. TypeOK'
  BY <1>1, Records, ExchangeAssumption DEF TypeOK
<1>3. ASSUME NEW r \in Rates PROVE Prepared(p, r)'
  <2>1. lock[r] # p
    BY <1>1 DEF Prepared
  <2>2. known'[p][r] = 0 \/ known'[p][r] \in observed[r]
    BY <1>1, Records DEF TypeOK, RowsAreFit
  <2>3. ASSUME r \in todo'[p] PROVE Fit(draft[p][r]) /\ Backed(p, r)'
    <3>1. /\ draft[p][r] # NoRate /\ Accepts(draft[p][r].value, known'[p][r])
          /\ draft[p][r] \in Fetched /\ draft[p][r].at <= now
      BY <1>1, <2>3 DEF TypeOK, Prepared
    <3>2. Fit(draft[p][r])
      BY <3>1, Records DEF Fit, Accepts
    <3>3. Backed(p, r)'
      BY <1>1, <3>1 DEF Accepts, Backed
    <3> QED
      BY <3>2, <3>3
  <2> QED
    BY <1>1, <2>1, <2>2, <2>3 DEF TypeOK, Prepared, Fit
<1>4. \A q \in Procs : Timely(q)' /\ \A r \in Rates : Prepared(q, r)'
  <2>1. ASSUME NEW q \in Procs \ {p} PROVE \A r \in Rates : Prepared(q, r)'
    BY <1>1 DEF TypeOK, Prepared, Fit, Backed
  <2> QED
    BY <1>1, <1>3, <2>1 DEF TypeOK, Timely
<1>5. RowsAreFit' /\ ScheduleInReach' /\ JumpStep
  BY <1>1 DEF RowsAreFit, ScheduleInReach, JumpStep, Fit
<1> QED
  BY <1>2, <1>4, <1>5

LEMMA StoreKeeps ==
    ASSUME RefreshInv, NEW p \in Procs, NEW s \in Rates, Store(p, s)
    PROVE  RefreshInv' /\ JumpStep
<1> USE DEF RefreshInv
<1>1. /\ pc[p] = "store" /\ s \in todo[p] /\ lock[s] \in {p, NoProc}
      /\ lock' = [lock EXCEPT ![s] = p]
      /\ todo' = [todo EXCEPT ![p] = @ \ {s}]
      /\ UNCHANGED <<now, rate, observed, next, pc, known, draft, moment, found, plan, faults>>
  BY DEF Store, IsNext, Free
<1>2. TypeOK'
  BY <1>1 DEF TypeOK
<1>3. \A q \in Procs : Timely(q)'
  BY <1>1 DEF Timely
<1>4. ASSUME NEW q \in Procs, NEW r \in Rates PROVE Prepared(q, r)'
  <2>1. lock'[r] = q => lock[r] = q \/ (q = p /\ r = s)
    BY <1>1 DEF TypeOK
  <2>2. r \in todo'[q] => r \in todo[q]
    BY <1>1 DEF TypeOK
  <2>3. lock[r] = q => lock'[r] = q \/ lock[r] = p
    BY <1>1, ExchangeAssumption DEF TypeOK
  <2> QED
    BY <1>1, <2>1, <2>2, <2>3 DEF Prepared, Fit, Backed
<1>5. RowsAreFit' /\ ScheduleInReach' /\ JumpStep
  BY <1>1 DEF RowsAreFit, ScheduleInReach, JumpStep, Fit
<1> QED
  BY <1>2, <1>3, <1>4, <1>5

\* A row that mark_stale finds is there, and stays there while it waits.
LEMMA BeginMarkKeeps ==
    ASSUME RefreshInv, NEW p \in Procs, BeginMark(p)
    PROVE  RefreshInv' /\ JumpStep
<1> USE DEF RefreshInv
<1>1. /\ pc[p] = "store" /\ pc' = [pc EXCEPT ![p] = "mark"]
      /\ todo' = [todo EXCEPT ![p] = {r \in Rates : Aged(View(p, r), now)}]
      /\ moment' = [moment EXCEPT ![p] = now]
      /\ UNCHANGED <<now, rate, observed, next, lock, known, draft, found, plan, faults>>
  BY DEF BeginMark, Goto
<1>2. TypeOK'
  BY <1>1 DEF TypeOK
<1>3. \A q \in Procs : Timely(q)'
  BY <1>1, ExchangeAssumption DEF Timely, TypeOK
<1>4. ASSUME NEW q \in Procs, NEW r \in Rates PROVE Prepared(q, r)'
  <2>1. CASE q = p
    <3>1. r \in todo'[p] => lock[r] = p \/ rate[r] # NoRate
      BY <1>1, Records DEF TypeOK, Aged, View
    <3> QED
      BY <1>1, <2>1, <3>1 DEF TypeOK, Prepared, Fit, Backed
  <2>2. CASE q # p
    BY <1>1, <2>2 DEF TypeOK, Prepared, Fit, Backed
  <2> QED
    BY <2>1, <2>2
<1>5. RowsAreFit' /\ ScheduleInReach' /\ JumpStep
  BY <1>1 DEF RowsAreFit, ScheduleInReach, JumpStep, Fit
<1> QED
  BY <1>2, <1>3, <1>4, <1>5

\* The row is looked at again under its lock: what is marked is old by then.
LEMMA MarkKeeps ==
    ASSUME RefreshInv, NEW p \in Procs, NEW s \in Rates, Mark(p, s)
    PROVE  RefreshInv' /\ JumpStep
<1> USE DEF RefreshInv
<1> DEFINE old == View(p, s)
           new == IF Aged(old, moment[p]) THEN [old EXCEPT !.status = "stale"] ELSE old
<1>1. /\ pc[p] = "mark" /\ s \in todo[p] /\ lock[s] \in {p, NoProc}
      /\ draft' = [draft EXCEPT ![p][s] = new]
      /\ lock' = [lock EXCEPT ![s] = p]
      /\ todo' = [todo EXCEPT ![p] = @ \ {s}]
      /\ UNCHANGED <<now, rate, observed, next, pc, known, moment, found, plan, faults>>
  BY DEF Mark, Free
<1>2. Fit(old) /\ (old.value \in observed[s] \/ known[p][s] = 0 \/ Near(old.value, known[p][s]))
  BY <1>1 DEF View, Prepared, Backed, RowsAreFit
<1>3. new \in Rate /\ Fit(new) /\ new.value = old.value
  <2>1. CASE Aged(old, moment[p])
    <3>1. new = [old EXCEPT !.status = "stale"] /\ old \in Rate /\ old # NoRate
      BY <1>2, <2>1 DEF Fit
    <3>2. new \in Rate /\ new # NoRate
      BY <3>1, Records
    <3>3. new.status = "stale" /\ new.at = old.at /\ new.value = old.value
      BY <3>1 DEF Rate
    <3>4. now - old.at > StaleAfter /\ old.at <= now
      <4>1. /\ old.at \in Nat /\ old.at <= now /\ moment[p] - old.at > StaleAfter
            /\ moment[p] <= now /\ moment[p] \in Nat /\ now \in Nat
        BY <1>2, <2>1, <3>1, Records, Bounds DEF Aged, Timely, TypeOK, Fit
      <4> HIDE DEF old
      <4> QED
        BY <4>1, Bounds
    <3> HIDE DEF new, old
    <3> QED
      BY <3>2, <3>3, <3>4 DEF Fit
  <2>2. CASE ~Aged(old, moment[p])
    BY <1>2, <2>2 DEF Fit
  <2> QED
    BY <2>1, <2>2
<1> HIDE DEF new, old
<1>4. /\ draft' \in [Procs -> [Rates -> Rate \cup Fetched]]
      /\ draft'[p][s] = new
      /\ \A q \in Procs, r \in Rates : q # p \/ r # s => draft'[q][r] = draft[q][r]
  BY <1>1, <1>3 DEF TypeOK
<1>5. TypeOK'
  BY <1>1, <1>4 DEF TypeOK
<1>6. \A q \in Procs : Timely(q)'
  BY <1>1 DEF Timely
<1>7. ASSUME NEW q \in Procs, NEW r \in Rates PROVE Prepared(q, r)'
  <2>1. CASE q = p /\ r = s
    <3>1. Fit(draft[p][s])'
      BY <1>1, <1>3, <1>4 DEF Fit
    <3>2. Backed(p, s)'
      BY <1>1, <1>2, <1>3, <1>4 DEF Backed
    <3> QED
      BY <1>1, <2>1, <3>1, <3>2 DEF TypeOK, Prepared
  <2>2. CASE q # p \/ r # s
    <3>1. draft'[q][r] = draft[q][r]
      BY <1>4, <2>2
    <3>2. lock'[r] = q => lock[r] = q
      BY <1>1, <2>2 DEF TypeOK
    <3>3. r \in todo'[q] => r \in todo[q]
      BY <1>1 DEF TypeOK
    <3>4. lock[r] = q => lock'[r] = q
      BY <1>1, <2>2, ExchangeAssumption DEF TypeOK
    <3> QED
      BY <1>1, <3>1, <3>2, <3>3, <3>4 DEF Prepared, Fit, Backed
  <2> QED
    BY <2>1, <2>2
<1>8. RowsAreFit' /\ ScheduleInReach' /\ JumpStep
  BY <1>1 DEF RowsAreFit, ScheduleInReach, JumpStep, Fit
<1> QED
  BY <1>5, <1>6, <1>7, <1>8

LEMMA PlanKeeps ==
    ASSUME RefreshInv, NEW p \in Procs, Plan(p)
    PROVE  RefreshInv' /\ JumpStep
<1> USE DEF RefreshInv
<1>1. PICK j \in 0 .. Jitter : plan' = [plan EXCEPT ![p] = now + Interval + j]
  BY DEF Plan
<1>2. /\ pc[p] = "mark" /\ pc' = [pc EXCEPT ![p] = "plan"]
      /\ found' = [found EXCEPT ![p] = @ \/ next # NoTime]
      /\ UNCHANGED <<now, rate, observed, next, lock, known, draft, todo, moment, faults>>
  BY DEF Plan, Goto
<1>3. Interval \in Nat /\ Jitter \in Nat /\ now \in Nat
  BY ExchangeAssumption DEF TypeOK
<1>4. TypeOK'
  BY <1>1, <1>2, <1>3 DEF TypeOK
<1>5. \A q \in Procs : Timely(q)'
  BY <1>1, <1>2, <1>3 DEF TypeOK, Timely
<1>6. \A q \in Procs : \A r \in Rates : Prepared(q, r)'
  BY <1>2 DEF TypeOK, Prepared, Fit, Backed
<1>7. RowsAreFit' /\ ScheduleInReach' /\ JumpStep
  BY <1>2 DEF RowsAreFit, ScheduleInReach, JumpStep, Fit
<1> QED
  BY <1>4, <1>5, <1>6, <1>7

\* The end of a transaction: p forgets everything, the others keep what they
\* have, as long as no row disappears and no observation is lost.
LEMMA CloseKeeps ==
    ASSUME RefreshInv, NEW p \in Procs, Close(p), now' = now, faults' \in 0 .. MaxFaults,
           rate' \in [Rates -> Rate], observed' \in [Rates -> SUBSET (Low .. High)],
           next' \in Nat \cup {NoTime},
           \A r \in Rates : rate[r] # NoRate => rate'[r] # NoRate,
           \A r \in Rates : observed[r] \subseteq observed'[r]
    PROVE  TypeOK' /\ \A q \in Procs : Timely(q)' /\ \A r \in Rates : Prepared(q, r)'
<1> USE DEF RefreshInv
<1> DEFINE label == IF p \in Sweepers THEN "idle" ELSE "gone"
<1>1. /\ pc' = [pc EXCEPT ![p] = label] /\ lock' = Unlocked(p)
      /\ known'  = [known EXCEPT ![p] = [r \in Rates |-> 0]]
      /\ draft'  = [draft EXCEPT ![p] = [r \in Rates |-> NoRate]]
      /\ todo'   = [todo EXCEPT ![p] = {}]
      /\ moment' = [moment EXCEPT ![p] = 0]
      /\ found'  = [found EXCEPT ![p] = FALSE]
      /\ plan'   = [plan EXCEPT ![p] = 0]
  BY DEF Close, Goto
<1>2. label \in {"idle", "gone"}
  OBVIOUS
<1> HIDE DEF label
<1>3. lock' \in [Rates -> Procs \cup {NoProc}]
  BY <1>1 DEF TypeOK, Unlocked
<1>4. TypeOK'
  <2>1. NoRate \in Rate /\ 0 \in 0 .. MaxTime
    BY Bounds DEF Rate
  <2>2. pc' \in [Procs -> {"idle", "fetch", "compare", "store", "mark", "plan", "gone"}]
    BY <1>1, <1>2 DEF TypeOK
  <2>3. /\ known' \in [Procs -> [Rates -> {0} \cup Low .. High]]
        /\ draft' \in [Procs -> [Rates -> Rate \cup Fetched]]
    BY <1>1, <2>1 DEF TypeOK
  <2>4. /\ todo' \in [Procs -> SUBSET Rates] /\ moment' \in [Procs -> 0 .. MaxTime]
        /\ found' \in [Procs -> BOOLEAN] /\ plan' \in [Procs -> Nat]
    BY <1>1, <2>1 DEF TypeOK
  <2> QED
    BY <1>3, <2>2, <2>3, <2>4 DEF TypeOK
<1>5. ASSUME NEW q \in Procs PROVE Timely(q)'
  <2>1. Timely(q)
    OBVIOUS
  <2> QED
    BY <1>1, <1>2, <2>1, ExchangeAssumption DEF Timely, TypeOK
<1>6. ASSUME NEW q \in Procs, NEW r \in Rates PROVE Prepared(q, r)'
  <2>1. CASE q = p
    <3>1. lock'[r] # p
      BY <1>1, ExchangeAssumption DEF Unlocked, TypeOK
    <3> QED
      BY <1>1, <1>2, <2>1, <3>1 DEF Prepared, TypeOK
  <2>2. CASE q # p
    <3>1. lock'[r] = q <=> lock[r] = q
      BY <1>1, <2>2, ExchangeAssumption DEF Unlocked, TypeOK
    <3>2. /\ pc'[q] = pc[q] /\ known'[q] = known[q] /\ draft'[q] = draft[q]
          /\ todo'[q] = todo[q]
      BY <1>1, <2>2 DEF TypeOK
    <3> QED
      BY <3>1, <3>2 DEF Prepared, Fit, Backed
  <2> QED
    BY <2>1, <2>2
<1> QED
  BY <1>4, <1>5, <1>6

LEMMA RollbackKeeps ==
    ASSUME RefreshInv, NEW p \in Procs, Conflict(p) \/ Victim(p) \/ Fail(p)
    PROVE  RefreshInv' /\ JumpStep
<1> USE DEF RefreshInv
<1>1. Close(p) /\ UNCHANGED <<now, rate, observed, next>> /\ faults' \in 0 .. MaxFaults
  BY ExchangeAssumption DEF Conflict, Victim, Fail, Rollback, TypeOK
<1>2. TypeOK' /\ \A q \in Procs : Timely(q)' /\ \A r \in Rates : Prepared(q, r)'
  BY <1>1, CloseKeeps DEF TypeOK
<1>3. RowsAreFit' /\ ScheduleInReach' /\ JumpStep
  BY <1>1 DEF RowsAreFit, ScheduleInReach, JumpStep, Fit
<1> QED
  BY <1>2, <1>3

\* A commit: what it stores was fit and backed, although others may have
\* committed since it compared.
LEMMA CommitKeeps ==
    ASSUME RefreshInv, NEW p \in Procs, Commit(p)
    PROVE  RefreshInv' /\ JumpStep
<1> USE DEF RefreshInv
<1>1. /\ pc[p] = "plan" /\ Close(p) /\ now' = now /\ faults' = faults /\ next' = plan[p]
      /\ rate' = [r \in Rates |-> View(p, r)]
      /\ observed' = [r \in Rates |->
            IF lock[r] = p THEN observed[r] \cup {draft[p][r].value} ELSE observed[r]]
  BY DEF Commit, Stored
<1>2. ASSUME NEW r \in Rates
      PROVE  /\ rate'[r] \in Rate /\ (rate[r] # NoRate => rate'[r] # NoRate)
             /\ observed'[r] \subseteq Low .. High /\ observed[r] \subseteq observed'[r]
             /\ rate'[r] # NoRate => Fit(rate'[r]) /\ rate'[r].value \in observed'[r]
             /\ \A v \in observed'[r] \ observed[r] :
                   lock[r] = p /\ ((\E u \in observed[r] : Near(v, u)) \/ known[p][r] = 0)
  <2>1. CASE lock[r] = p
    <3>1. Fit(draft[p][r]) /\ Backed(p, r) /\ (known[p][r] = 0 \/ known[p][r] \in observed[r])
      BY <2>1 DEF Prepared
    <3>2. rate'[r] = draft[p][r] /\ observed'[r] = observed[r] \cup {draft[p][r].value}
      BY <1>1, <2>1 DEF View
    <3>3. draft[p][r].value \in Low .. High
      BY <3>1, Records DEF Fit
    <3> QED
      BY <2>1, <3>1, <3>2, <3>3 DEF TypeOK, Fit, Backed
  <2>2. CASE lock[r] # p
    BY <1>1, <2>2 DEF View, TypeOK, RowsAreFit
  <2> QED
    BY <2>1, <2>2
<1>3. rate' \in [Rates -> Rate] /\ observed' \in [Rates -> SUBSET (Low .. High)]
  BY <1>1, <1>2
<1>4. next' \in Nat \cup {NoTime} /\ next' <= now + Interval + Jitter
  BY <1>1 DEF TypeOK, Timely
<1>5. TypeOK' /\ \A q \in Procs : Timely(q)' /\ \A r \in Rates : Prepared(q, r)'
  BY <1>1, <1>2, <1>3, <1>4, CloseKeeps DEF TypeOK
<1>6. RowsAreFit' /\ ScheduleInReach'
  BY <1>1, <1>2, <1>4 DEF RowsAreFit, ScheduleInReach, Fit
<1>7. JumpStep
  BY <1>2 DEF JumpStep
<1> QED
  BY <1>5, <1>6, <1>7

\* Old rates grow older; nothing else depends on the clock.
LEMMA TickKeeps ==
    ASSUME RefreshInv, Tick
    PROVE  RefreshInv' /\ JumpStep
<1> USE DEF RefreshInv
<1>1. /\ now' = now + 1 /\ now \in Nat /\ now' \in 0 .. MaxTime
      /\ UNCHANGED <<rate, observed, next, lock, process, faults>>
  BY ExchangeAssumption DEF Tick, TypeOK
<1>2. ASSUME NEW x, Fit(x) PROVE Fit(x)'
  <2>1. x.at \in Nat /\ StaleAfter \in Nat
    BY <1>2, Records, ExchangeAssumption DEF Fit
  <2> QED
    BY <1>1, <1>2, <2>1 DEF Fit
<1>3. TypeOK'
  BY <1>1, ExchangeAssumption DEF TypeOK, process
<1>4. ASSUME NEW q \in Procs PROVE Timely(q)'
  <2>1. Timely(q) /\ moment[q] \in Nat /\ plan[q] \in Nat /\ Interval \in Nat /\ Jitter \in Nat
    BY ExchangeAssumption DEF TypeOK
  <2> QED
    BY <1>1, <2>1 DEF Timely, process
<1>5. ASSUME NEW q \in Procs, NEW r \in Rates PROVE Prepared(q, r)'
  <2>1. Fit(draft[q][r]) => Fit(draft[q][r])'
    BY <1>1, <1>2 DEF process, Fit
  <2>2. draft[q][r] \in Fetched /\ draft[q][r].at <= now => draft[q][r].at <= now'
    BY <1>1, Records
  <2> QED
    BY <1>1, <2>1, <2>2 DEF Prepared, Backed, process
<1>6. RowsAreFit'
  <2>1. \A r \in Rates : Fit(rate[r]) => Fit(rate[r])'
    BY <1>1, <1>2 DEF Fit
  <2> QED
    BY <1>1, <2>1 DEF RowsAreFit
<1>7. ScheduleInReach'
  <2>1. next \in Int /\ next' = next
    BY <1>1, Bounds DEF TypeOK
  <2> QED
    BY <1>1, <2>1, Bounds DEF ScheduleInReach
<1>8. JumpStep
  BY <1>1 DEF JumpStep
<1> QED
  BY <1>3, <1>4, <1>5, <1>6, <1>7, <1>8

LEMMA RefreshNext == RefreshInv /\ [Next]_vars => RefreshInv' /\ [JumpStep]_vars
<1> SUFFICES ASSUME RefreshInv, [Next]_vars
             PROVE  RefreshInv' /\ JumpStep
  OBVIOUS
<1>1. CASE UNCHANGED vars
  BY <1>1 DEF vars, process, RefreshInv, TypeOK, Timely, Prepared, Fit, Backed, RowsAreFit,
              ScheduleInReach, JumpStep, View
<1>2. CASE Next
  BY <1>2, Onwards, FetchKeeps, CompareKeeps, StoreKeeps, BeginMarkKeeps, MarkKeeps, PlanKeeps,
     RollbackKeeps, CommitKeeps, TickKeeps DEF Next, Work, Lock
<1> QED
  BY <1>1, <1>2

\* The variables keep their types; in particular no rate outside its band is
\* stored.
THEOREM ExchangeTypeCorrect == Spec => []TypeOK
<1>1. RefreshInv => TypeOK
  BY DEF RefreshInv
<1> QED
  BY <1>1, RefreshInit, RefreshNext, PTL DEF Spec

\* Rates are recorded, old when they are stale, and near to what was known, for
\* any number of refreshes that cross.
THEOREM RatesHonest == Spec => RatesAreHonest
<1>1. RefreshInv => TableIsHonest
  BY Records DEF RefreshInv, RowsAreFit, Fit, TableIsHonest, ValuesWereObserved, StaleIsOld
<1> QED
  BY <1>1, RefreshInit, RefreshNext, PTL DEF Spec, RatesAreHonest

=============================================================================
