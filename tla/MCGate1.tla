------------------------------ MODULE MCGate1 ------------------------------
(* The two Stage-1 families and one of Stage 2, one counted task and one   *)
(* excluded, ten trials of each.                                           *)
EXTENDS Gate1

MCFamilies == {"llama", "qwen", "mistral"}
MCStage1 == {"llama", "qwen"}
MCTasks == {"niah_single", "vt"}
MCExcluded == {"vt"}
MCMaxOdd == [f \in MCFamilies |-> IF f = "mistral" THEN 0 ELSE 2]
=============================================================================
