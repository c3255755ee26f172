------------------------- MODULE MCMatrixSupervisor -------------------------
(* Instances of MatrixSupervisor for TLC.                                  *)
EXTENDS MatrixSupervisor, TLC

CONSTANTS shardS1, shardS2, shardFull, shardNo

(* A batch of S1, the owner of the shared route and Full, and a second one.*)
MCPlan == <<shardS1, shardS2, shardFull, shardNo>>
MCBatches == << {shardS1, shardS2, shardFull}, {shardNo} >>
MCConfig == (shardS1 :> "s1") @@ (shardS2 :> "s1s2")
            @@ (shardFull :> "full") @@ (shardNo :> "noskill")

(* No alias; S2 rolled back to S1; Full rolled back to S1+S2.              *)
MCControls == {<<>>, (shardS2 :> shardS1), (shardFull :> shardS2)}
=============================================================================
