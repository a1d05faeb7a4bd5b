-------------------------- MODULE MatchRunContract --------------------------
(***************************************************************************)
(* What a client of the match-run API may rely on: a product has at most   *)
(* one open run, the stores of a run are chosen once, every store is       *)
(* answered at most once and only while the run is open, and a run is      *)
(* completed only when all its stores are answered.  Workers, leases and   *)
(* attempts do not appear.                                                 *)
(*                                                                         *)
(* Interrupt is the promise the code really gives about ended runs: the    *)
(* finalisers that act on an unlocked read may still turn a run that has   *)
(* ended into a failed one, but its answers and its notices stay.          *)
(***************************************************************************)
EXTENDS Integers

CONSTANTS Products, Stores, MaxRuns, NoProduct, Answers

Runs == 1 .. MaxRuns

VARIABLES phase,    \* "absent", "open", "completed" or "failed"
          product,  \* the product of a run
          asked,    \* the target stores, {} until they are resolved
          answer,   \* the answer of each store, "none" before it
          told      \* notifications, as <<run, outcome>>

vars == <<phase, product, asked, answer, told>>

Init ==
    /\ phase   = [r \in Runs |-> "absent"]
    /\ product = [r \in Runs |-> NoProduct]
    /\ asked   = [r \in Runs |-> {}]
    /\ answer  = [r \in Runs |-> [s \in Stores |-> "none"]]
    /\ told    = {}

Interrupted(R) == [r \in Runs |-> IF r \in R THEN "failed" ELSE phase[r]]

\* A request opens a run, after ending runs R that are in its way.
Request(r, p, R) ==
    /\ phase[r] = "absent"
    /\ \A q \in R : phase[q] # "absent"
    /\ \A q \in Runs \ R : ~(phase[q] = "open" /\ product[q] = p)
    /\ phase'   = [Interrupted(R) EXCEPT ![r] = "open"]
    /\ product' = [product EXCEPT ![r] = p]
    /\ told'    = told \cup (R \X {"failed"})
    /\ UNCHANGED <<asked, answer>>

Interrupt(R) ==
    /\ \A q \in R : phase[q] # "absent"
    /\ phase' = Interrupted(R)
    /\ told'  = told \cup (R \X {"failed"})
    /\ UNCHANGED <<product, asked, answer>>

Ask(r, S) ==
    /\ phase[r] = "open"
    /\ asked[r] = {}
    /\ asked' = [asked EXCEPT ![r] = S]
    /\ UNCHANGED <<phase, product, answer, told>>

Answer(r, s, a) ==
    /\ phase[r] = "open"
    /\ s \in asked[r]
    /\ answer[r][s] = "none"
    /\ answer' = [answer EXCEPT ![r][s] = a]
    /\ UNCHANGED <<phase, product, asked, told>>

Complete(r) ==
    /\ phase[r] = "open"
    /\ \A s \in asked[r] : answer[r][s] # "none"
    /\ phase' = [phase EXCEPT ![r] = "completed"]
    /\ told'  = told \cup {<<r, "completed">>}
    /\ UNCHANGED <<product, asked, answer>>

Next ==
    \/ \E R \in SUBSET Runs :
          \/ Interrupt(R)
          \/ \E r \in Runs, p \in Products : Request(r, p, R)
    \/ \E r \in Runs :
          \/ Complete(r)
          \/ \E S \in SUBSET Stores : Ask(r, S)
          \/ \E s \in Stores, a \in Answers : Answer(r, s, a)

Spec == Init /\ [][Next]_vars

=============================================================================
