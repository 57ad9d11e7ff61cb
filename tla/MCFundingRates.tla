--------------------------- MODULE MCFundingRates ---------------------------
(* FundingRates for TLC: quotes above, at and without a market. *)
EXTENDS FundingRates

SomeQuotes == {<<8, 10, 10>>, <<9, 11, 10>>, <<0, 1, 10>>}
=============================================================================
