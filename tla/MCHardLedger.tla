----------------------------- MODULE MCHardLedger -----------------------------
(* Instances of HardLedger for TLC: the bounds are in the cfg files.        *)
EXTENDS HardLedger
===============================================================================
