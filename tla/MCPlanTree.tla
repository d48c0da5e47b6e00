----------------------------- MODULE MCPlanTree -----------------------------
(* Instances of PlanTree for TLC.                                           *)
EXTENDS PlanTree
=============================================================================
