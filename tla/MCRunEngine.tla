----------------------------- MODULE MCRunEngine -----------------------------
(* Instances of RunEngine for TLC. *)
EXTENDS RunEngine, SequencesExt

CONSTANTS Kinds, MaxPlan   \* kinds of steps in the plans, and their length

StepOf(kind) ==
    [id |-> IF kind = "low" THEN "read" ELSE kind, denied |-> kind = "denied",
     low |-> kind = "low", patch |-> kind = "patch"]

MCPlans == SeqOf({StepOf(k) : k \in Kinds}, MaxPlan)
MCStepIds == {"read", "test", "patch", "denied"}
===============================================================================
