-------------------------------- MODULE MCDates --------------------------------
(* PIDates on two prices, of which one is to be changed for the other. *)
EXTENDS PIDates, MCLifecycle

TwoPrices == {TrialPrice, ActivePrice}
=============================================================================
