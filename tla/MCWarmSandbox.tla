---------------------------- MODULE MCWarmSandbox ----------------------------
(* Instances of WarmSandbox for TLC: the requests are in the cfg files. *)
EXTENDS WarmSandbox
===============================================================================
