--------------------------- MODULE MCProviderGate ---------------------------
(* An instance of ProviderGate for TLC: two shard processes; two assistant *)
(* queries of p1 and one of p2 share a limit of two, and a Final Judge     *)
(* query of p2 meets a disabled stage.                                     *)
EXTENDS ProviderGate, TLC

CONSTANTS p1, p2, t1, t2, t3, t4

MCProcOf == (t1 :> p1) @@ (t2 :> p1) @@ (t3 :> p2) @@ (t4 :> p2)
MCStageOf == [t \in Threads |-> IF t = t4 THEN "final_judge" ELSE "assistant"]
MCLimit == ("assistant" :> 2) @@ ("final_judge" :> 0)

MCMaxLives == (p1 :> 2) @@ (p2 :> 1)
=============================================================================
