----------------------------- MODULE MCPlanEdit -----------------------------
(* A small instance of PlanEdit; the clients are interchangeable.          *)
EXTENDS PlanEdit, TLC

CONSTANTS a, b

Interchangeable == Permutations(Clients)
=============================================================================
