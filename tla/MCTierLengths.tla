--------------------------- MODULE MCTierLengths ---------------------------
(* Five layers as the arm files configure them, scaled down: the fifo arm, *)
(* the surprise arm with an exact tier, the same with a quantized tier and *)
(* a seeded warm-up, the select-and-discard ablation (invisible pool), and *)
(* rank 0, the StreamingLLM baseline.                                      *)
EXTENDS TierLengths

Base ==
  [n_sink |-> 1, recent_window |-> 2, absorb_block |-> 2,
   prefill_block_size |-> 2, rank |-> 1, coord_budget |-> 2,
   quant_budget |-> 0, hh_budget |-> 0, hh_retain |-> TRUE,
   seed_hh_warmup |-> FALSE, kernel |-> FALSE]

MCArms ==
  { Base,
    [Base EXCEPT !.hh_budget = 2, !.kernel = TRUE],
    [Base EXCEPT !.coord_budget = 1, !.quant_budget = 2, !.hh_budget = 1,
                 !.seed_hh_warmup = TRUE],
    [Base EXCEPT !.hh_budget = 2, !.hh_retain = FALSE, !.absorb_block = 1],
    [Base EXCEPT !.rank = 0, !.n_sink = 2] }
=============================================================================
