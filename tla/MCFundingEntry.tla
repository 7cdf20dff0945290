--------------------------- MODULE MCFundingEntry ---------------------------
(* Instances of FundingEntry for TLC: the prices the market may show, and  *)
(* a venue that charges no commission in the base asset and one that takes *)
(* two of three units bought.                                              *)
EXTENDS FundingEntry

OnePrice == {1}

TwoPrices == {1, 2}

NoCommission(bought) == 0

HighCommission(bought) == 2 * (bought \div 3)
=============================================================================
