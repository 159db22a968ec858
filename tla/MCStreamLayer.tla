--------------------------- MODULE MCStreamLayer ---------------------------
(* The retention rules and exact-tier variants the arm files use, scaled   *)
(* to budgets of one to three columns.                                     *)
EXTENDS StreamLayer

Base ==
  [n_sink |-> 1, recent_window |-> 1, absorb_block |-> 2,
   prefill_block_size |-> 2, rank |-> 1, coord_budget |-> 2,
   quant_budget |-> 0, hh_budget |-> 0, hh_retain |-> TRUE,
   seed_hh_warmup |-> FALSE, kernel |-> FALSE,
   retention |-> "lowrank_surprise", hh_neighbor |-> 0, score_capped |-> FALSE]

MCArms ==
  { [Base EXCEPT !.quant_budget = 2, !.coord_budget = 1, !.kernel = TRUE],
    [Base EXCEPT !.retention = "fifo", !.quant_budget = 2],
    [Base EXCEPT !.hh_budget = 2, !.hh_retain = FALSE, !.quant_budget = 1],
    [Base EXCEPT !.hh_budget = 1, !.seed_hh_warmup = TRUE, !.hh_neighbor = 1,
                 !.score_capped = TRUE] }
=============================================================================
