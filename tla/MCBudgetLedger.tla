--------------------------- MODULE MCBudgetLedger ---------------------------
(* Instances of BudgetLedger for TLC.                                      *)
EXTENDS BudgetLedger, TLC

CONSTANTS a, b

MCShards == {a, b}

(* Shard a routes and acts in one checkpoint and is then judged; b acts.   *)
(* The third run of a finds both attempts at a member used up.             *)
MCPhases == (a :> << <<"assistant_route", "assistant_action">>, <<"final_judge">> >>)
            @@ (b :> << <<"assistant_action">> >>)
MCMaxRuns == (a :> 3) @@ (b :> 1)
MCReserve == ("assistant_route" :> 1) @@ ("assistant_action" :> 2)
             @@ ("final_judge" :> 2)

(* One shard, one action call per member.                                  *)
MCAlone == {a}
MCAloneRuns == (a :> 2)
MCAlonePhases == (a :> << <<"assistant_action">> >>)
=============================================================================
