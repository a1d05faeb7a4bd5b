---------------------------- MODULE ProfileLease ----------------------------
(***************************************************************************)
(* What the users of a profile may rely on: leases, each taken once and    *)
(* given up once, and a key in Redis that names one of them.               *)
(*                                                                         *)
(* A fetch has no lease yet, holds one, or is past it, with or without     *)
(* ever having had one.  Fetchers, sessions, slots and the places where a  *)
(* lease passes from hand to hand do not appear.                           *)
(***************************************************************************)
EXTENDS Integers

CONSTANTS Fetches, MaxFaults

NoFetch == "no fetch"

VARIABLES lease,    \* "new", "held" or "over"
          key,      \* the fetch whose lease the Redis key names
          exposed,  \* leases that are not renewed any more
          faults

vars == <<lease, key, exposed, faults>>

Fault == faults < MaxFaults /\ faults' = faults + 1

In(s) == {f \in Fetches : lease[f] = s}

Init ==
    /\ lease = [f \in Fetches |-> "new"]
    /\ key = NoFetch
    /\ exposed = {}
    /\ faults = 0

Ends(S) == lease' = [f \in Fetches |-> IF f \in S THEN "over" ELSE lease[f]]

\* The key is free, and names the new holder.
Take(f) ==
    /\ key = NoFetch /\ key' = f
    /\ UNCHANGED <<exposed, faults>>
    /\ lease[f] = "new"
    /\ lease' = [lease EXCEPT ![f] = "held"]

\* Without Redis a lease is granted that no key protects.
TakeUnprotected(f) ==
    /\ Fault
    /\ UNCHANGED <<key, exposed>>
    /\ lease[f] = "new"
    /\ lease' = [lease EXCEPT ![f] = "held"]

\* A fetch never holds a lease: it needs none, or cannot get it.
Pass(f) ==
    /\ UNCHANGED <<key, exposed, faults>>
    /\ lease[f] = "new"
    /\ Ends({f})

\* A lease is given up, and the key if it is still the lease's.  A fetch that
\* gives up the lease of a session it closes may itself end without one.
Return(f) ==
    /\ key' = IF key = f THEN NoFetch ELSE key
    /\ UNCHANGED <<exposed, faults>>
    /\ lease[f] = "held"
    /\ \/ Ends({f})
       \/ \E g \in In("new") : Ends({f, g})

\* The holders of leases die and leave the key behind.
Abandon(S) ==
    /\ Fault
    /\ UNCHANGED <<key, exposed>>
    /\ Ends(S)

\* The renewal of a lease finds that the key is lost, or cannot look.
Expose(f) ==
    /\ \/ key # f /\ UNCHANGED faults
       \/ Fault
    /\ exposed' = exposed \cup {f}
    /\ UNCHANGED key
    /\ lease[f] = "held"
    /\ UNCHANGED lease

\* A key expires that nobody renews.
Expire ==
    /\ key # NoFetch /\ key' = NoFetch
    /\ UNCHANGED <<exposed, faults>>
    /\ key \notin In("held") \ exposed
    /\ UNCHANGED lease

ExpireEarly ==
    /\ Fault
    /\ key' = NoFetch
    /\ UNCHANGED <<lease, exposed>>

Next ==
    \/ \E f \in Fetches : Take(f) \/ TakeUnprotected(f) \/ Pass(f) \/ Return(f) \/ Expose(f)
    \/ \E S \in SUBSET Fetches : Abandon(S)
    \/ Expire \/ ExpireEarly

Spec == Init /\ [][Next]_vars

-----------------------------------------------------------------------------
\* What the key is for: until something fails, one lease is held at a time.
Exclusive == faults = 0 => \A f, g \in In("held") : f = g

=============================================================================
