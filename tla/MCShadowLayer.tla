--------------------------- MODULE MCShadowLayer ---------------------------
(* Chunks of two with a choice of one, chunks of one with a choice of two, *)
(* and a layer whose budget always covers every chunk.                     *)
EXTENDS ShadowLayer

MCArms ==
  { [n_sink |-> 1, recent_window |-> 1, chunk |-> 2, top_k |-> 1],
    [n_sink |-> 0, recent_window |-> 2, chunk |-> 1, top_k |-> 2],
    [n_sink |-> 1, recent_window |-> 1, chunk |-> 2, top_k |-> 3] }
=============================================================================
