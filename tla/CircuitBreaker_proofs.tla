----------------------- MODULE CircuitBreaker_proofs -----------------------
(***************************************************************************)
(* The safety of the circuit for any number of callers, any threshold and  *)
(* any number of vanished probes.                                          *)
(*                                                                         *)
(* OneProbe is not inductive: a second probe is kept out by the active     *)
(* token, so the invariant must say that a probe in time still holds it,   *)
(* and that a half-open circuit has seen its cooldown out.                 *)
(***************************************************************************)
EXTENDS CircuitBreaker, TLAPS

USE CircuitAssumption

HoldsToken == \A c \in Callers : pc[c] = "probe" /\ c \notin late => trial = c

HalfOpenIsCool == state = "degraded" => clock = "elapsed"

CircuitInv == TypeOK /\ ClosedIsClean /\ HoldsToken /\ HalfOpenIsCool

\* At the start the circuit is closed and nobody probes.
LEMMA CircuitInit == Init => CircuitInv
<1> SUFFICES ASSUME Init PROVE CircuitInv
  OBVIOUS
<1>1. Threshold \in Nat /\ 0 < Threshold /\ MaxFaults \in Nat
  OBVIOUS
<1>2. TypeOK
  BY <1>1 DEF Init, TypeOK, PC
<1>3. ClosedIsClean
  BY <1>1 DEF Init, ClosedIsClean
<1> QED
  BY <1>2, <1>3 DEF Init, CircuitInv, HoldsToken, HalfOpenIsCool

\* Looking at the circuit keeps its invariant and takes the token only from a
\* probe that is late.
LEMMA RefreshKeeps ==
    ASSUME CircuitInv, Refresh
    PROVE  /\ state' \in {"healthy", "unavailable", "degraded"}
           /\ failures' \in 0 .. Threshold
           /\ clock' \in {"none", "running", "elapsed"}
           /\ trial' \in Callers \cup {NoCaller}
           /\ ClosedIsClean' /\ HalfOpenIsCool'
           /\ trial' # trial => trial \in late /\ trial' = NoCaller
           /\ state' = "unavailable" /\ (state # "unavailable" \/ trial' # trial)
                 => clock' = "running"
<1>1. CASE Expired /\ Reap
  BY <1>1 DEF CircuitInv, TypeOK, ClosedIsClean, HalfOpenIsCool, Expired, Reap,
              ReapWith, Current
<1>2. CASE ~Expired /\ state' = Current /\ UNCHANGED <<failures, clock, trial>>
  BY <1>2 DEF CircuitInv, TypeOK, ClosedIsClean, HalfOpenIsCool, Current
<1> QED
  BY <1>1, <1>2 DEF Refresh

\* A report keeps the invariant of the circuit and takes the token only from
\* the caller that reports.
LEMMA ReportKeeps ==
    ASSUME CircuitInv, NEW c \in Callers, NEW success \in BOOLEAN,
           RecordSuccess \/ RecordFailure \/ CompleteTrial(c, success)
    PROVE  /\ state' \in {"healthy", "unavailable", "degraded"}
           /\ failures' \in 0 .. Threshold
           /\ clock' \in {"none", "running", "elapsed"}
           /\ trial' \in Callers \cup {NoCaller}
           /\ ClosedIsClean' /\ HalfOpenIsCool'
           /\ trial' # trial => trial = c
           /\ state' = "unavailable" /\ (state # "unavailable" \/ trial' # trial)
                 => clock' = "running"
<1>1. CircuitInv /\ Threshold \in Nat /\ 0 < Threshold /\ failures \in 0 .. Threshold
  BY DEF CircuitInv, TypeOK
<1>2. CASE RecordSuccess
  <2>1. /\ state' = "healthy" /\ failures' = 0 /\ clock' = "none"
        /\ trial' = trial
    BY <1>2 DEF RecordSuccess, Close, CloseWith
  <2> QED
    BY <1>1, <2>1 DEF CircuitInv, TypeOK, ClosedIsClean, HalfOpenIsCool
<1>3. CASE RecordFailure
  <2>1. failures' \in 0 .. Threshold /\ trial' = trial
    BY <1>1, <1>3 DEF RecordFailure
  <2>2. CASE failures' = Threshold
    <3>1. state' = "unavailable" /\ clock' = "running"
      BY <1>3, <2>2 DEF RecordFailure, Open
    <3> QED
      BY <1>1, <2>1, <3>1 DEF CircuitInv, TypeOK, ClosedIsClean, HalfOpenIsCool
  <2>3. CASE failures' # Threshold
    <3>1. UNCHANGED <<state, clock>> /\ failures' < Threshold
      BY <1>1, <1>3, <2>1, <2>3 DEF RecordFailure
    <3> QED
      BY <1>1, <2>1, <3>1 DEF CircuitInv, TypeOK, ClosedIsClean, HalfOpenIsCool
  <2> QED
    BY <2>2, <2>3
<1>4. CASE CompleteTrial(c, success)
  <2>1. CASE trial # c
    BY <1>1, <1>4, <2>1
       DEF CompleteTrial, circuit, CircuitInv, TypeOK, ClosedIsClean, HalfOpenIsCool
  <2>2. CASE trial = c /\ success
    <3>1. /\ state' = "healthy" /\ failures' = 0 /\ clock' = "none"
          /\ trial' = NoCaller
      BY <1>4, <2>2 DEF CompleteTrial, Close, CloseWith
    <3> QED
      BY <1>1, <2>2, <3>1 DEF CircuitInv, TypeOK, ClosedIsClean, HalfOpenIsCool
  <2>3. CASE trial = c /\ ~success
    <3>1. /\ state' = "unavailable" /\ failures' = failures /\ clock' = "running"
          /\ trial' = NoCaller
      BY <1>4, <2>3 DEF CompleteTrial, Open
    <3> QED
      BY <1>1, <2>3, <3>1 DEF CircuitInv, TypeOK, ClosedIsClean, HalfOpenIsCool
  <2> QED
    BY <2>1, <2>2, <2>3
<1> QED
  BY <1>2, <1>3, <1>4

\* Every step keeps the invariant and waits for the cooldown.
LEMMA CircuitStep ==
    CircuitInv /\ [Next]_vars => CircuitInv' /\ [ProbeWaitsStep]_vars
<1> SUFFICES ASSUME CircuitInv, [Next]_vars
             PROVE  CircuitInv' /\ ProbeWaitsStep
  OBVIOUS
<1> DEFINE Quiet == /\ UNCHANGED circuit
                    /\ \A c \in Callers : pc'[c] = "probe" /\ c \notin late'
                                             => pc[c] = "probe" /\ c \notin late
                    /\ \A c \in Callers : pc'[c] = "probe" => pc[c] = "probe"
<1>1. TypeOK /\ ClosedIsClean /\ HoldsToken /\ HalfOpenIsCool
  BY DEF CircuitInv
<1>2. ASSUME NEW c \in Callers, Allow(c) \/ FailFast(c) PROVE CircuitInv' /\ ProbeWaitsStep
  <2>1. /\ Refresh /\ UNCHANGED <<late, target, faults>>
        /\ pc[c] # "probe" /\ \E l \in PC \ {"probe"} : pc' = [pc EXCEPT ![c] = l]
    BY <1>2 DEF Allow, FailFast, Goto, PC
  <2>2. TypeOK'
    BY <1>1, <2>1, RefreshKeeps DEF TypeOK
  <2>3. HoldsToken' /\ ProbeWaitsStep
    BY <1>1, <2>1, RefreshKeeps DEF TypeOK, HoldsToken, ProbeWaitsStep
  <2> QED
    BY <2>1, <2>2, <2>3, RefreshKeeps DEF CircuitInv
<1>3. ASSUME NEW c \in Callers, ClaimTrial(c) PROVE CircuitInv' /\ ProbeWaitsStep
  <2>1. clock = "elapsed"
    BY <1>1, <1>3 DEF ClaimTrial, Current, HalfOpenIsCool, ClosedIsClean, TypeOK
  <2>2. TypeOK'
    BY <1>1, <1>3 DEF ClaimTrial, TypeOK, PC, Goto
  <2>3. HoldsToken'
    BY <1>1, <1>3 DEF ClaimTrial, TypeOK, HoldsToken, Goto
  <2> QED
    BY <1>1, <1>3, <2>1, <2>2, <2>3
       DEF CircuitInv, ClaimTrial, ClosedIsClean, HalfOpenIsCool, ProbeWaitsStep
<1>4. ASSUME NEW c \in Callers, Succeed(c) \/ Fail(c) \/ Inconclusive(c)
      PROVE  CircuitInv' /\ ProbeWaitsStep
  <2>1. PICK success \in BOOLEAN :
           RecordSuccess \/ RecordFailure \/ CompleteTrial(c, success)
    BY <1>4 DEF Succeed, Fail, Inconclusive
  <2>2. pc' = [pc EXCEPT ![c] = "idle"] /\ UNCHANGED <<late, target>>
    BY <1>4 DEF Succeed, Fail, Inconclusive, Goto
  <2>3. faults' \in 0 .. MaxFaults
    <3>1. faults' = faults \/ (faults < MaxFaults /\ faults' = faults + 1)
      BY <1>4 DEF Succeed, Fail, Inconclusive
    <3> QED
      BY <1>1, <3>1 DEF TypeOK
  <2>4. TypeOK'
    BY <1>1, <2>1, <2>2, <2>3, ReportKeeps DEF TypeOK, PC
  <2>5. HoldsToken' /\ ProbeWaitsStep
    BY <1>1, <2>1, <2>2, ReportKeeps DEF TypeOK, HoldsToken, ProbeWaitsStep
  <2> QED
    BY <1>1, <2>1, <2>4, <2>5, ReportKeeps DEF CircuitInv
<1>5. CASE Snapshot
  <2>1. Refresh /\ UNCHANGED <<late, pc, target, faults>>
    BY <1>5 DEF Snapshot
  <2>2. TypeOK' /\ HoldsToken' /\ ProbeWaitsStep
    BY <1>1, <2>1, RefreshKeeps DEF TypeOK, HoldsToken, ProbeWaitsStep
  <2> QED
    BY <2>1, <2>2, RefreshKeeps DEF CircuitInv
<1>6. CASE CooldownElapses
  BY <1>1, <1>6 DEF CooldownElapses, CircuitInv, TypeOK, ClosedIsClean, HoldsToken,
                    HalfOpenIsCool, ProbeWaitsStep
<1>7. CASE \/ \E c \in Callers : NoReport(c) \/ Vanish(c) \/ TrialElapses(c)
           \/ Break \/ UNCHANGED vars
  <2>1. Quiet
    BY <1>1, <1>7 DEF NoReport, Vanish, TrialElapses, Break, vars, circuit, Goto, TypeOK
  <2>2. TypeOK'
    BY <1>1, <1>7 DEF NoReport, Vanish, TrialElapses, Break, vars, circuit, Goto,
                      TypeOK, PC
  <2> QED
    BY <1>1, <2>1, <2>2 DEF circuit, CircuitInv, ClosedIsClean, HoldsToken,
                            HalfOpenIsCool, ProbeWaitsStep
<1> QED
  BY <1>2, <1>3, <1>4, <1>5, <1>6, <1>7 DEF Next, Caller

\* The variables keep their types.
THEOREM CircuitTypeCorrect == Spec => []TypeOK
<1>1. CircuitInv => TypeOK
  BY DEF CircuitInv
<1> QED
  BY <1>1, CircuitInit, CircuitStep, PTL DEF Spec

\* However many callers ask and report late, only one probe is in time
\* (claim_trial).
THEOREM OneProbeTheorem == Spec => []OneProbe
<1>1. CircuitInv => OneProbe
  BY DEF CircuitInv, HoldsToken, OneProbe
<1> QED
  BY <1>1, CircuitInit, CircuitStep, PTL DEF Spec

\* Late reports, lost probes and expired trials leave the circuit closed and
\* clean, or open with a clock.
THEOREM ClosedIsCleanTheorem == Spec => []ClosedIsClean
<1>1. CircuitInv => ClosedIsClean
  BY DEF CircuitInv
<1> QED
  BY <1>1, CircuitInit, CircuitStep, PTL DEF Spec

\* Every opening starts a cooldown that the next probe waits for.
THEOREM ProbeWaitsTheorem == Spec => ProbeWaits
BY CircuitInit, CircuitStep, PTL DEF Spec, ProbeWaits

=============================================================================
