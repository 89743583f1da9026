------------------------------- MODULE MCFuel -------------------------------
(* Three fibers and budgets of a few instructions: enough for one fiber    *)
(* that calls another while a third is parked.                             *)
EXTENDS Fuel
=============================================================================
