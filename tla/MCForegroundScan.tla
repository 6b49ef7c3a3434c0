-------------------------- MODULE MCForegroundScan --------------------------
(* Small instances of ForegroundScan. *)
EXTENDS ForegroundScan

CONSTANTS c1, c2

PlanBoth == {<<c1, c2>>}
StepsBothWays == {1, -1}
StepsForward  == {1}
=============================================================================
