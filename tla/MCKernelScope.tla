---------------------------- MODULE MCKernelScope ----------------------------
(* A kernel cache serving a batch of two, with a prefill token and one more   *)
(* (enough for the first absorb, and so for a middle), a reconstruct cache    *)
(* that prefills, and a second kernel cache that only opens scopes.           *)
EXTENDS KernelScope

MCCaches == {"k", "r", "other"}
MCKernel == {"k", "other"}
MCBatch == [c \in MCCaches |-> IF c = "k" THEN 2 ELSE 1]
MCMaxTokens == [c \in MCCaches |-> CASE c = "k" -> 2 [] c = "r" -> 1 [] OTHER -> 0]
MCRanks == {16, 24}
MCTritonRanks == {16}
==============================================================================
