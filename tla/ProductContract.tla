---------------------------- MODULE ProductContract ----------------------------
(***************************************************************************)
(* What a product promises its owner, whatever the chart does inside: how   *)
(* its status moves, when a period is charged, and what becomes of a        *)
(* charge.  One step is one answered call.                                  *)
(***************************************************************************)
EXTENDS Integers

VARIABLES
  status,   \* the status of the product
  account,  \* none, clear, due (a charged period is to be paid), unpaid or closed
  periods   \* the number of periods charged

contract == <<status, account, periods>>

InService == {"ACTIVE", "ACTIVE_TRIAL"}
Provided  == InService \cup {"SUSPENDED"}

Init == status = "PENDING_ACTIVATE" /\ account = "none" /\ periods = 0

\* The first period is charged on activation; a trial one is free.
Activate ==
  /\ status = "PENDING_ACTIVATE"
  /\ \/ status' = "ACTIVE" /\ account' = "due"
     \/ status' = "ACTIVE_TRIAL" /\ account' = "clear"
  /\ periods' = periods + 1

Abort ==
  /\ status = "PENDING_ACTIVATE"
  /\ status' = "ABORTED"
  /\ UNCHANGED <<account, periods>>

\* The next period starts: it is to be paid.
Charge ==
  /\ status \in InService /\ account = "clear"
  /\ account' = "due"
  /\ periods' = periods + 1
  /\ UNCHANGED status

\* The next period starts at a trial price: it counts, and asks for no payment; one
\* still due stays due.  A change of price under way may end while the account is
\* being closed.
ChargeTrial ==
  /\ status \in InService /\ account # "unpaid"
  /\ status' = "ACTIVE_TRIAL"
  /\ periods' = periods + 1
  /\ UNCHANGED account

\* The caller asks for a payment in between (its event wait_payment).
Demand ==
  /\ account = "clear"
  /\ account' = "due"
  /\ UNCHANGED <<status, periods>>

Pay ==
  /\ account = "due"
  /\ account' = "clear"
  /\ status' \in {status, "ACTIVE"}
  /\ UNCHANGED periods

\* The period is not paid for, and does not count.
Default ==
  /\ status \in InService /\ account = "due"
  /\ account' = "unpaid"
  /\ periods' = periods - 1
  /\ UNCHANGED status

\* The order system confirmed a prolongation.
Prolong ==
  /\ status \in InService
  /\ status' \in InService
  /\ UNCHANGED <<account, periods>>

\* A product is suspended for what is not paid; its account may have been closed
\* while the order was under way.
Suspend ==
  /\ status \in InService /\ account \in {"unpaid", "closed"}
  /\ status' = "SUSPENDED"
  /\ UNCHANGED <<account, periods>>

\* A late payment buys a period, with which the service is resumed.
PayLate ==
  /\ status = "SUSPENDED" /\ account = "unpaid"
  /\ account' = "clear"
  /\ periods' = periods + 1
  /\ UNCHANGED status

\* The order system confirmed the resumption.
Resume ==
  /\ status = "SUSPENDED" /\ account # "unpaid"
  /\ status' = "ACTIVE"
  /\ UNCHANGED <<account, periods>>

\* The account is closed first, then the service.
Close ==
  /\ status \in Provided /\ account # "closed"
  /\ account' = "closed"
  /\ UNCHANGED <<status, periods>>

\* The service is switched off, whatever the account was.
Deactivate ==
  /\ status \in Provided
  /\ status' = "PENDING_DISCONNECT"
  /\ account' = "closed"
  /\ UNCHANGED periods

Disconnect ==
  /\ status = "PENDING_DISCONNECT"
  /\ status' = "DISCONNECT"
  /\ account' = "none"
  /\ UNCHANGED periods

Next ==
  \/ Activate \/ Abort \/ Charge \/ ChargeTrial \/ Demand \/ Pay \/ Default
  \/ Prolong \/ Suspend \/ PayLate \/ Resume \/ Close \/ Deactivate \/ Disconnect

Spec == Init /\ [][Next]_contract

-----------------------------------------------------------------------------
\* What the contract is for: the count of periods covers what is paid or to be paid,
\* and never goes negative.
PeriodsCovered ==
  /\ periods >= 0
  /\ account \in {"clear", "due"} => periods >= 1
=============================================================================
