---------------------------- MODULE AtomicBudget ----------------------------
(***************************************************************************)
(* What the Portfolio budget ledger promises the shards that share it: one *)
(* hard-capped account.  A call is authorised at most once, and only if    *)
(* its whole reserve still fits below the cap; a reservation is closed at  *)
(* most once, either at the cost the provider reported, never more than    *)
(* the reserve, or by forfeiting the reserve.  Every operation is atomic.  *)
(***************************************************************************)
EXTENDS Integers

CONSTANTS
    Full(_),  \* the whole reserve of a call
    Cap,      \* phase_cap_cny
    Prior     \* prior_observed_cost_cny

VARIABLES open, closed, charged

Init == open = {} /\ closed = {} /\ charged = Prior

Authorise(c) ==
    /\ c \notin open \union closed
    /\ charged + Full(c) <= Cap
    /\ open' = open \union {c}
    /\ charged' = charged + Full(c)
    /\ UNCHANGED closed

Settle(c) ==
    /\ c \in open
    /\ \E cost \in 0..Full(c) : charged' = charged - Full(c) + cost
    /\ open' = open \ {c}
    /\ closed' = closed \union {c}

Forfeit(c) ==
    /\ c \in open
    /\ open' = open \ {c}
    /\ closed' = closed \union {c}
    /\ UNCHANGED charged

(* One call at a time: the one whose reservation is opened or closed.      *)
Next == \E c \in open \union open' : Authorise(c) \/ Settle(c) \/ Forfeit(c)

Spec == Init /\ [][Next]_<<open, closed, charged>>
=============================================================================
