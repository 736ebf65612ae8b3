---------------------------- MODULE MCLifecycle ----------------------------
(***************************************************************************)
(* PILifecycle on a catalog of prices that differ in what the code looks    *)
(* at: the status a price gives, how long it runs and whether an alteration *)
(* runs within it, and whether its charging period is of a known type.      *)
(***************************************************************************)
EXTENDS PILifecycle

Price(id, st, known, duration, alteration) ==
  [id |-> id, status |-> st, known |-> known, period |-> 0, duration |-> duration,
   alteration |-> alteration]

TrialPrice    == Price("trial", "ACTIVE_TRIAL", TRUE, 1, NoAlteration)
ActivePrice   == Price("active", "ACTIVE", TRUE, 0, NoAlteration)
AlteredPrice  == Price("active", "ACTIVE", TRUE, 0, [id |-> "discount", period |-> 0, duration |-> 1])
OddPrice      == Price("odd", "OTHER", TRUE, 0, NoAlteration)
UnknownPeriod == Price("week", "ACTIVE", FALSE, 0, NoAlteration)

SmallCatalog == {TrialPrice, ActivePrice, AlteredPrice, OddPrice, UnknownPeriod}
=============================================================================
