--------------------------- MODULE CircuitBreaker ---------------------------
(***************************************************************************)
(* The circuit that stops a process from starting a browser that does not  *)
(* start (BrowserCircuitBreaker), and from searching a store that blocks   *)
(* it (StoreCapabilityCircuit, the same automaton with another threshold). *)
(*                                                                         *)
(* Callers are threads: fetchers that launch browsers, searches.  A caller *)
(* asks allow(), perhaps claim_trial(), makes its attempt, and reports how *)
(* it went.  Each call is atomic under the lock of the circuit; between    *)
(* them other callers act, so a report may reach a circuit that has moved  *)
(* on since the attempt was allowed.                                       *)
(*                                                                         *)
(* Time is what has elapsed: the cooldown, or the TTL of a trial.  The     *)
(* circuit does not act on it by itself; it looks when it is next asked.   *)
(***************************************************************************)
EXTENDS Integers, FiniteSets

CONSTANTS Callers,    \* threads of one process
          Threshold,  \* failures that open the circuit
          MaxFaults   \* bound: probes that do not say how the target is

NoCaller == "no caller"

ASSUME CircuitAssumption ==
    /\ NoCaller \notin Callers
    /\ Threshold \in Nat \ {0}
    /\ MaxFaults \in Nat

VARIABLES state,    \* healthy (closed), unavailable (open), degraded (half-open)
          failures, \* _failures, counted up to the threshold
          clock,    \* since _opened_at: none, or the cooldown is running, elapsed
          trial,    \* the caller whose token is _active_trial
          late,     \* callers whose trial has outlived its TTL
          pc,       \* where a caller is
          target,   \* what attempts go to: up or down
          faults

circuit == <<state, failures, clock, trial>>
vars    == <<circuit, late, pc, target, faults>>

\* "refused": allow() was false; "try": attempts without a token, "probe": with.
PC == {"idle", "refused", "try", "probe"}

TypeOK ==
    /\ state \in {"healthy", "unavailable", "degraded"}
    /\ failures \in 0 .. Threshold
    /\ clock \in {"none", "running", "elapsed"}
    /\ trial \in Callers \cup {NoCaller}
    /\ late \in SUBSET Callers
    /\ pc \in [Callers -> PC]
    /\ target \in {"up", "down"}
    /\ faults \in 0 .. MaxFaults

Init ==
    /\ state = "healthy" /\ failures = 0
    /\ clock = "none"
    /\ trial = NoCaller /\ late = {}
    /\ pc = [c \in Callers |-> "idle"]
    /\ target = "up" /\ faults = 0

-----------------------------------------------------------------------------
Goto(c, label) == pc' = [pc EXCEPT ![c] = label]

\* _maybe_half_open_unlocked: the state that allow and claim_trial look at.
Current == IF state = "unavailable" /\ clock = "elapsed" THEN "degraded" ELSE state

\* Mutant: a probe that never answers is waited for.
NeverExpired == FALSE

Expired == trial \in late

\* _reap_expired_trial_unlocked: an expired trial is forgotten, and the
\* half-open circuit it belonged to opens again, with a new cooldown.
ReapWith(cooldown) ==
    /\ trial' = NoCaller
    /\ IF Current = "degraded"
       THEN state' = "unavailable" /\ clock' = cooldown
       ELSE UNCHANGED <<state, clock>>
    /\ UNCHANGED failures

\* Mutant: the old cooldown counts.
ReapAtOnce == ReapWith(clock)

Reap == ReapWith("running")

\* What every question does first.
Refresh ==
    \/ Expired /\ Reap
    \/ ~Expired /\ state' = Current /\ UNCHANGED <<failures, clock, trial>>

Allow(c) ==
    /\ pc[c] = "idle"
    /\ Refresh
    /\ Goto(c, IF state' = "healthy" THEN "try" ELSE "refused")
    /\ UNCHANGED <<late, target, faults>>

\* claim_trial gives the token to one caller.
ClaimTrial(c) ==
    /\ pc[c] = "refused"
    /\ ~Expired /\ Current = "degraded" /\ trial = NoCaller
    /\ state' = "degraded"
    /\ trial' = c
    /\ late' = late \ {c}
    /\ Goto(c, "probe")
    /\ UNCHANGED <<failures, clock, target, faults>>

\* The others fail fast: the circuit is open again, closed by now, or probed.
FailFast(c) ==
    /\ pc[c] = "refused"
    /\ Refresh
    /\ state' # "degraded" \/ trial' # NoCaller
    /\ Goto(c, "idle")
    /\ UNCHANGED <<late, target, faults>>

CloseWith(count) == state' = "healthy" /\ failures' = count /\ clock' = "none"

\* Mutant: a success makes up for one failure.
CloseDecaying == CloseWith(failures - 1)

Close == CloseWith(0)

Open == state' = "unavailable" /\ clock' = "running"

\* Mutant: any token completes the active trial.
CompleteAnyTrial(c, success) ==
    /\ trial' = NoCaller
    /\ IF success THEN Close ELSE Open /\ UNCHANGED failures

\* complete_trial: a token that is no longer the active one says nothing.
CompleteTrial(c, success) ==
    \/ /\ trial = c
       /\ trial' = NoCaller
       /\ IF success THEN Close ELSE Open /\ UNCHANGED failures
    \/ trial # c /\ UNCHANGED circuit

RecordSuccess == Close /\ UNCHANGED trial

\* record_launch_failure, record_failure.
RecordFailure ==
    /\ failures' = IF failures < Threshold THEN failures + 1 ELSE failures
    /\ IF failures' = Threshold THEN Open ELSE UNCHANGED <<state, clock>>
    /\ UNCHANGED trial

\* An attempt succeeds; a probe also if a session that is open is reused.
Succeed(c) ==
    /\ \/ pc[c] = "try" /\ target = "up" /\ RecordSuccess
       \/ pc[c] = "probe" /\ CompleteTrial(c, TRUE)
    /\ Goto(c, "idle")
    /\ UNCHANGED <<late, target, faults>>

Fail(c) ==
    /\ target = "down"
    /\ \/ pc[c] = "try" /\ RecordFailure
       \/ pc[c] = "probe" /\ CompleteTrial(c, FALSE)
    /\ Goto(c, "idle")
    /\ UNCHANGED <<late, target, faults>>

\* Nothing is recorded: an open session is reused, or an error is not evidence.
NoReport(c) ==
    /\ pc[c] = "try"
    /\ Goto(c, "idle")
    /\ UNCHANGED <<circuit, late, target, faults>>

\* A probe ends without completing its trial: an error before the launch.
Vanish(c) ==
    /\ pc[c] = "probe"
    /\ faults < MaxFaults /\ faults' = faults + 1
    /\ Goto(c, "idle")
    /\ UNCHANGED <<circuit, late, target>>

\* A search ends in an error that is no evidence against the store: that of a
\* probe completes the trial as a failure all the same.
Inconclusive(c) ==
    /\ pc[c] = "probe" /\ target = "up"
    /\ faults < MaxFaults /\ faults' = faults + 1
    /\ CompleteTrial(c, FALSE)
    /\ Goto(c, "idle")
    /\ UNCHANGED <<late, target>>

\* snapshot, the state property: looking is enough to move the circuit.
Snapshot == Refresh /\ UNCHANGED <<late, pc, target, faults>>

CooldownElapses ==
    /\ clock = "running"
    /\ clock' = "elapsed"
    /\ UNCHANGED <<state, failures, trial, late, pc, target, faults>>

TrialElapses(c) ==
    /\ c \notin late
    /\ trial = c \/ pc[c] = "probe"
    /\ late' = late \cup {c}
    /\ UNCHANGED <<circuit, pc, target, faults>>

\* The profile, the binary or the store breaks, or is repaired.
Break ==
    /\ target' = IF target = "up" THEN "down" ELSE "up"
    /\ UNCHANGED <<circuit, late, pc, faults>>

Caller(c) == Allow(c) \/ ClaimTrial(c) \/ FailFast(c) \/ Succeed(c)

Next ==
    \/ \E c \in Callers : \/ Caller(c) \/ Fail(c) \/ NoReport(c)
                          \/ Vanish(c) \/ Inconclusive(c) \/ TrialElapses(c)
    \/ Snapshot
    \/ CooldownElapses
    \/ Break

Spec == Init /\ [][Next]_vars

\* Callers keep coming and their attempts end; time passes.
FairSpec ==
    /\ Spec
    /\ \A c \in Callers : WF_vars(Caller(c)) /\ WF_vars(TrialElapses(c))
    /\ WF_vars(CooldownElapses)

-----------------------------------------------------------------------------
\* "Grants ONE probe": two callers probe at once only if the trial of one has
\* outlived its TTL, whatever late reports of other callers do to the state.
OneProbe ==
    \A c, d \in Callers :
       pc[c] = "probe" /\ pc[d] = "probe" /\ c # d => c \in late \/ d \in late

\* A circuit that is not closed has a clock to get out by, and a closed one has
\* not already counted the failures that would open it.
ClosedIsClean ==
    /\ state = "healthy" <=> clock = "none"
    /\ state = "healthy" => failures < Threshold

\* Whatever opens the circuit, a late report and a lost probe included, starts a
\* cooldown, and no probe starts before its end.
ProbeWaitsStep ==
    /\ state' = "unavailable" /\ (state # "unavailable" \/ trial' # trial) => clock' = "running"
    /\ \A c \in Callers : pc[c] # "probe" /\ pc'[c] = "probe" => clock = "elapsed"
ProbeWaits == [][ProbeWaitsStep]_vars

\* A launch is given up after 45 seconds, a trial lives for 120.
ProbesAreTimely == \A c \in Callers : pc[c] = "probe" => c \notin late

\* Once the browser works for good the circuit closes for good, although probes
\* may have vanished with the token: "HALF_OPEN cannot persist forever".
RecoversWithTheBrowser ==
    <>[](target = "up" /\ ProbesAreTimely) => <>[](state = "healthy")

=============================================================================
