---------------------------- MODULE MCOrthGuard ----------------------------
(* The guard as shipped, alone and with a batch of two; measure and abort  *)
(* without a fix tolerance under qr_every; repair without an abort; an arm *)
(* __init__ refuses, with the tolerances in the wrong order.               *)
EXTENDS OrthGuard

Shipped == [orth_fix_tol |-> 0, orth_abort_tol |-> 1, qr_every |-> None,
            diag_every |-> 2, batches |-> {1, 2}]
MCArms ==
  { Shipped,
    [Shipped EXCEPT !.orth_fix_tol = None, !.orth_abort_tol = 0, !.qr_every = 2,
                    !.diag_every = 3, !.batches = {1}],
    [Shipped EXCEPT !.orth_abort_tol = None, !.batches = {1}],
    [Shipped EXCEPT !.orth_fix_tol = 1, !.orth_abort_tol = 0, !.batches = {1}] }
=============================================================================
