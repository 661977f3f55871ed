--------------------------- MODULE MCPriceHistory ---------------------------
(* Model-checking instance of PriceHistory: a 4-unit day sampled at most   *)
(* every unit, a 2-slot ring, three days of clock.                         *)
EXTENDS PriceHistory

MCSolPrices == {1, 3}
MCLucraPrices == {1, 3}
=============================================================================
