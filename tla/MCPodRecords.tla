---------------------------- MODULE MCPodRecords ----------------------------
(* One point of every axis, the kernel check first, as in the pods whose   *)
(* first task is the correctness gate.                                     *)
EXTENDS PodRecords
OnePointPerAxis == <<"kernel_check", "trial", "ppl", "latency">>
=============================================================================
