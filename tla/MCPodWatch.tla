---------------------------- MODULE MCPodWatch ----------------------------
(* PodWatch.cfg: two launches of one pod, each with the YAML's bar or with *)
(* a longer one the watchdog's budget does not cover, of which only a has  *)
(* credentials and only a may survive a destroy call.                      *)
(* PodBilling.cfg: one launch, longer stages, with and without both, and   *)
(* [diag] rows, which the replay does not repeat.                          *)
EXTENDS PodWatch
=============================================================================
