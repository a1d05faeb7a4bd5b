------------------------- MODULE MatchRunRefinement -------------------------
(* MatchRunQueue implements MatchRunContract. *)
EXTENDS MatchRunQueue

phaseBar ==
    [r \in Runs |-> IF status[r] \in ActiveStatus THEN "open" ELSE status[r]]

askedBar == [r \in Runs |-> {s \in Stores : row[r][s] # "none"}]

answerBar ==
    [r \in Runs |-> [s \in Stores |->
        IF row[r][s] \in TerminalRow THEN row[r][s] ELSE "none"]]

Contract == INSTANCE MatchRunContract
    WITH phase <- phaseBar, asked <- askedBar, answer <- answerBar,
         told <- notif, Answers <- TerminalRow

\* What the queue of workers, leases and retries does to a run is what the
\* contract allows: claims, reclaims, crashes and heartbeats are invisible.
ImplementsContract == Contract!Spec

=============================================================================
