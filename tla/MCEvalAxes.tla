----------------------------- MODULE MCEvalAxes -----------------------------
(* Every kind of arm, on every axis, in sweeps of two. *)
EXTENDS EvalAxes

Arm(kind, perLayer, kernel, chunkable) ==
    [kind |-> kind, perLayer |-> perLayer, kernel |-> kernel, chunkable |-> chunkable]

MCArms ==
    {Arm(k, FALSE, FALSE, k \notin {"quant_faithful", "press_quant"}) : k \in Kinds}
    \cup {Arm("press", TRUE, FALSE, FALSE), Arm("bug", FALSE, TRUE, FALSE)}
MCAxes == {"ppl", "ruler", "longbench", "latency", "persist", "kernel_check"}
MCContexts == 4 .. 6
MCChunks == {0, 2}
=============================================================================
