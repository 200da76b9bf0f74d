---------------------------- MODULE MCBenchRunner ----------------------------
(***************************************************************************)
(* The benchmark runner alone, with a task whose test patch changes a      *)
(* tracked file.                                                           *)
(***************************************************************************)
EXTENDS BenchRunner

CONSTANTS edit, test

SomeTestPatches == {{test}}
SomeAnswers ==
    {[whole |-> w, changes |-> {edit}, garbled |-> FALSE] : w \in BOOLEAN}

Spec == BenchInit /\ [][BenchNext]_benchVars
=============================================================================
