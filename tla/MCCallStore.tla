---------------------------- MODULE MCCallStore ----------------------------
(* Instances of CallStore for TLC.                                         *)
EXTENDS CallStore, TLC

CONSTANTS w1, w2, f1, f2, a1, r1

(* Two Feedback calls against a limit of one, an assistant call in a batch *)
(* with a budget check, and the same assistant call once more with a       *)
(* route-only call, as run_full reads rows that run_s2 already paid for.   *)
MCCalls == {f1, f2, a1, r1}
MCRoles == {"feedback", "assistant", "route_only"}
MCRoleOf == (f1 :> "feedback") @@ (f2 :> "feedback") @@ (a1 :> "assistant")
            @@ (r1 :> "route_only")
MCEstimate == ("feedback" :> 3) @@ ("assistant" :> 2) @@ ("route_only" :> 2)
MCRoleLimit == ("feedback" :> 1) @@ ("assistant" :> 9) @@ ("route_only" :> 9)
MCBatches == << {f1, f2}, {a1}, {a1, r1} >>
=============================================================================
