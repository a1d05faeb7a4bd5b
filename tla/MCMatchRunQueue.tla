-------------------------- MODULE MCMatchRunQueue --------------------------
(* Model-checking instances of MatchRunQueue. *)
EXTENDS MatchRunRefinement, TLC

\* Workers, stores and clients are interchangeable in the safety runs.
Symmetry == Permutations(Workers) \cup Permutations(Stores)
                \cup Permutations(Clients)

=============================================================================
