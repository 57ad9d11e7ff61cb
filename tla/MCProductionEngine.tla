------------------------- MODULE MCProductionEngine -------------------------
(* ProductionEngine for TLC: the number of trades each order makes. *)
EXTENDS ProductionEngine

OneAndTwo == <<1, 2>>
=============================================================================
