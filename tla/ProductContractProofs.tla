------------------------- MODULE ProductContractProofs -------------------------
(***************************************************************************)
(* What the contract guarantees, whoever keeps it.                          *)
(***************************************************************************)
EXTENDS ProductContract, TLAPS

\* PeriodsCovered with the count's type: one more, or one less, is a count again.
CoveredInv ==
  /\ periods \in Nat
  /\ account \in {"clear", "due"} => periods >= 1

LEMMA CoveredStep == CoveredInv /\ [Next]_contract => CoveredInv'
  <1> SUFFICES ASSUME CoveredInv, [Next]_contract PROVE CoveredInv'
    OBVIOUS
  <1> USE DEF CoveredInv
  <1>1. CASE Activate \/ Charge \/ ChargeTrial \/ PayLate
    BY <1>1 DEF Activate, Charge, ChargeTrial, PayLate
  <1>2. CASE Abort \/ Prolong \/ Suspend \/ Resume
    BY <1>2 DEF Abort, Prolong, Suspend, Resume
  <1>3. CASE Demand \/ Pay
    BY <1>3 DEF Demand, Pay
  <1>4. CASE Default
    BY <1>4 DEF Default
  <1>5. CASE Close \/ Deactivate \/ Disconnect
    BY <1>5 DEF Close, Deactivate, Disconnect
  <1>6. CASE UNCHANGED contract
    BY <1>6 DEF contract
  <1> QED BY <1>1, <1>2, <1>3, <1>4, <1>5, <1>6 DEF Next

\* A product that is paid for, or is to be, has a period charged, and no sequence of
\* failed payments takes the count below zero.
THEOREM ContractCoversPeriods == Spec => []PeriodsCovered
  <1>1. Init => CoveredInv
    BY DEF Init, CoveredInv
  <1>2. CoveredInv => PeriodsCovered
    BY DEF CoveredInv, PeriodsCovered
  <1> QED BY <1>1, <1>2, CoveredStep, PTL DEF Spec
=============================================================================
