---------------------------- MODULE MCGistCarry ----------------------------
(* A small instance of GistCarry: three features, two layers, one arm of each *)
(* kind that differs in what an absorb does to its columns.                   *)
EXTENDS GistCarry

Plain == [tracker |-> "isvd", rank |-> 2, floor |-> FALSE, freeze_after |-> 0,
          coord_budget |-> 2, quant_budget |-> 0, bits |-> 0, gist |-> 32,
          fix |-> TRUE, abort |-> TRUE, qr_every |-> 0, hh_budget |-> 0]

\* A floor under a quantized tier: ranks that differ by layer and by stream.
Floored == [Plain EXCEPT !.floor = TRUE, !.coord_budget = 1, !.quant_budget = 1,
                         !.bits = 4]
\* A bf16 gist, repaired unless its error is small.
Bf16 == [Plain EXCEPT !.floor = TRUE, !.gist = 16]
\* qr_every without a tolerance to repair at.
Scheduled == [Plain EXCEPT !.fix = FALSE, !.qr_every = 2, !.coord_budget = 1,
                           !.quant_budget = 1, !.bits = 4]
Oja == [Plain EXCEPT !.tracker = "oja", !.abort = FALSE, !.hh_budget = 1]
Fd == [Plain EXCEPT !.tracker = "fd", !.quant_budget = 1, !.bits = 4,
                    !.coord_budget = 1]
\* An exact tier that demotes old tokens, around a freeze at three.
Frozen == [Plain EXCEPT !.tracker = "frozen", !.freeze_after = 3, !.hh_budget = 1]
Random == [Plain EXCEPT !.tracker = "random", !.abort = FALSE]

MCArms == {Floored, Bf16, Scheduled, Oja, Fd, Frozen, Random}
=============================================================================
