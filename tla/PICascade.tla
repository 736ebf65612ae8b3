------------------------------- MODULE PICascade -------------------------------
(***************************************************************************)
(* What a machine is doing while it works off a call: the inductive         *)
(* invariant behind what PILifecycle says of the products its caller        *)
(* stores.  A cascade has at most a few signals under way, and each of them *)
(* tells what the call was, what it has changed and what it has still to    *)
(* change; the phases below say so, one for each signal.                    *)
(***************************************************************************)
EXTENDS PILifecycle

\* The product as the caller stored it, before the call.
Usage0   == saved.conf.usage
Payment0 == saved.conf.payment
Price0   == saved.conf.price
Status0  == saved.status
Periods0 == saved.product.tarificationPeriod

In(u, p, r) == [top |-> "productProvision", usage |-> u, payment |-> p, price |-> r]

-----------------------------------------------------------------------------
(* Where a product rests between two calls. *)

\* StatusMatchesUsage, of a configuration and a status.
StatusFits(c, st) ==
  /\ c.top = "pendingActivate" => st = "PENDING_ACTIVATE"
  /\ c.top = "aborted" => st = "ABORTED"
  /\ c.top = "disconnect" => st = "DISCONNECT"
  /\ c.usage = "active" => st = "ACTIVE"
  /\ c.usage = "activeTrial" => st = "ACTIVE_TRIAL"
  /\ c.usage \in {"suspending", "prolongation"} => st \in {"ACTIVE", "ACTIVE_TRIAL"}
  /\ c.usage \in {"suspended", "resuming"} => st = "SUSPENDED"
  /\ UsageClosed(c) => st = "PENDING_DISCONNECT"

Rests(c, st, n) ==
  /\ c.usage \notin {"activatedEntry", "disconnected", "usageFinal"}
  /\ c.payment \notin {"paymentOnEntry", "paymentStopped"}
  /\ c.price \notin {"priceOnEntry", "priceNotChanged", "priceOff"}
  /\ StatusFits(c, st)
  /\ UsageClosed(c) <=> c.payment = "paymentFinal"
  /\ UsageClosed(c) <=> c.price = "priceFinal"
  /\ c.usage \in {"active", "activeTrial", "prolongation"} => c.payment # "notPaid"
  /\ c.usage \in {"suspending", "suspended"} => c.payment \notin {"paid", "waitingPayment"}
  /\ c.usage = "resuming" => c.price = "commercial" /\ c.payment # "notPaid"
  /\ n >= 0
  /\ c.payment \in {"paid", "waitingPayment"} => n >= 1

\* The timers tm that fit a configuration the caller stores.
Fits(c, tm) ==
  LET billing == c.usage \notin {"suspending", "suspended"} IN
  /\ "waiting_pay_ended" \in tm <=> c.payment = "waitingPayment"
  /\ "suspend_ended" \in tm => c.usage = "suspended"
  /\ c.usage = "suspended" /\ c.payment = "notPaid" => "suspend_ended" \in tm
  /\ "disconnect" \in tm <=> c.usage = "pendingDisconnect"
  /\ "change_price" \in tm => c.price \in {"priceChanging", "priceFinal"} \/ c.top = "disconnect"
  /\ c.price = "priceChanging" => "change_price" \in tm
  /\ "commercial_ended" \in tm <=> c.price = "commercial" /\ billing
  /\ "trial_ended" \in tm <=> c.price = "trial" /\ billing

InService == {"ACTIVE", "ACTIVE_TRIAL"}

\* What a call may make of status, account and periods: a step of the contract.
Moves(st, a, n, st2, a2, n2) ==
  \/ st2 = st /\ a2 = a /\ n2 = n
  \/ st = "PENDING_ACTIVATE" /\ st2 = "ACTIVE" /\ a2 = "due" /\ n2 = n + 1
  \/ st = "PENDING_ACTIVATE" /\ st2 = "ACTIVE_TRIAL" /\ a2 = "clear" /\ n2 = n + 1
  \/ st = "PENDING_ACTIVATE" /\ st2 = "ABORTED" /\ a2 = a /\ n2 = n
  \/ st \in InService /\ a = "clear" /\ a2 = "due" /\ n2 = n + 1 /\ st2 = st
  \/ st \in InService /\ a # "unpaid" /\ st2 = "ACTIVE_TRIAL" /\ n2 = n + 1 /\ a2 = a
  \/ a = "clear" /\ a2 = "due" /\ st2 = st /\ n2 = n
  \/ a = "due" /\ a2 = "clear" /\ st2 \in {st, "ACTIVE"} /\ n2 = n
  \/ st \in InService /\ a = "due" /\ a2 = "unpaid" /\ n2 = n - 1 /\ st2 = st
  \/ st \in InService /\ st2 \in InService /\ a2 = a /\ n2 = n
  \/ st \in InService /\ a \in {"unpaid", "closed"} /\ st2 = "SUSPENDED" /\ a2 = a /\ n2 = n
  \/ st = "SUSPENDED" /\ a = "unpaid" /\ a2 = "clear" /\ n2 = n + 1 /\ st2 = st
  \/ st = "SUSPENDED" /\ a # "unpaid" /\ st2 = "ACTIVE" /\ a2 = a /\ n2 = n
  \/ st \in InService \cup {"SUSPENDED"} /\ a # "closed" /\ a2 = "closed" /\ st2 = st /\ n2 = n
  \/ st \in InService \cup {"SUSPENDED"} /\ st2 = "PENDING_DISCONNECT" /\ a2 = "closed" /\ n2 = n
  \/ st = "PENDING_DISCONNECT" /\ st2 = "DISCONNECT" /\ a2 = "none" /\ n2 = n

-----------------------------------------------------------------------------
(* The phases of a cascade. *)

\* What a completed call leaves for the caller to store and to carry out: a product at
\* rest, by a step of the contract, with tasks that do not depend on their order and
\* leave it the timers that fit.
Result(c, st, n, made, gone) ==
  LET kept == (timers \ {calling}) \ gone IN
  /\ Rests(c, st, n)
  /\ Moves(Status0, Account(saved.conf), Periods0, st, Account(c), n)
  /\ made \cap gone = {}
  /\ OnSchedule => Fits(c, kept \cup (made \cap TimerEvents)) /\ made \cap kept = {}

Outcome ==
  /\ Result(conf, status, product.tarificationPeriod, ToSet(tasks), ToSet(deleteTasks))
  /\ IsInjective(tasks)

\* A call that has to end in pendingDisconnect.
Deactivates == /\ calling = "deactivation_started"
               /\ Payment0 \in PaymentOn \cup {"paymentStopping"}

Deactivated == /\ completed /\ reason = NoError
               /\ conf.usage = "pendingDisconnect" /\ "disconnect" \in ToSet(tasks)

Resumption == Sig("suspended", "resume_tarification")

\* Nothing more will change: of a suspension that a shutdown has ended a signal may be left.
Ended ==
  /\ queue = <<>> \/ (queue = <<Resumption>> /\ conf.price = "priceFinal")
  /\ completed => Outcome
  /\ Deactivates => Deactivated

\* The caller's event has not been looked at yet.
Loaded ==
  /\ queue = <<Sig("machine", calling)>>
  /\ conf = saved.conf /\ status = Status0 /\ product = saved.product
  /\ tasks = <<>> /\ deleteTasks = <<>> /\ ~completed /\ reason = NoError

\* In the middle of a cascade of a product in productProvision.
At(q, c, st, n, made, gone) ==
  /\ queue = q /\ conf = c /\ status = st /\ product.tarificationPeriod = n
  /\ tasks = made /\ ToSet(deleteTasks) = gone /\ ~completed
  /\ saved.conf.top = "productProvision"

\* The end of a period, or of a change of price.
PeriodOver ==
  \/ calling = "commercial_ended" /\ Usage0 = "active" /\ Price0 = "commercial"
  \/ calling = "trial_ended" /\ Usage0 = "activeTrial" /\ Price0 = "trial"

NewPeriod == PeriodOver \/ (calling = "change_price_completed" /\ Price0 = "priceChanged")

NotChanging ==
  /\ At(<<Sig("priceChanging", "not_change_price")>>,
        In(Usage0, Payment0, "priceChanging"), Status0, Periods0, <<>>, {})
  /\ PeriodOver

NotChanged ==
  /\ At(<<Sig("priceNotChanged", "change_price_completed")>>,
        In(Usage0, Payment0, "priceNotChanged"), Status0, Periods0, <<>>, {})
  /\ PeriodOver

Charged ==
  /\ At(<<Sig("commercial", "wait_payment")>>,
        In(Usage0, Payment0, "commercial"), Status0, Periods0 + 1, <<"commercial_ended">>, {})
  /\ NewPeriod

ChargedTrial ==
  /\ At(<<Sig("trial", "change_price_completed")>>,
        In(Usage0, Payment0, "trial"), Status0, Periods0 + 1, <<"trial_ended">>, {})
  /\ NewPeriod

\* A payment, in time or late, and one that is missing.
Paid ==
  /\ At(<<Sig("waitingPayment", "prolong")>>,
        In(Usage0, "paid", Price0), Status0, Periods0, <<>>, {"waiting_pay_ended"})
  /\ Payment0 = "waitingPayment" /\ calling = "payment_processed"

Prolonged ==
  /\ At(<<Sig("prolongation", "activate_completed")>>,
        In("prolongation", "paid", Price0), Status0, Periods0, <<>>, {"waiting_pay_ended"})
  /\ Payment0 = "waitingPayment" /\ calling = "payment_processed"
  /\ Usage0 \in {"active", "activeTrial"}

Unpaid ==
  /\ At(<<Sig("waitingPayment", "suspend")>>,
        In(Usage0, "notPaid", Price0), Status0, Periods0 - 1, <<>>, {"waiting_pay_ended"})
  /\ Payment0 = "waitingPayment" /\ calling \in {"payment_failed", "waiting_pay_ended"}

PaidLate ==
  /\ At(<<Sig("notPaid", "resume")>>,
        In(Usage0, "paid", Price0), Status0, Periods0, <<>>, {})
  /\ Payment0 = "notPaid" /\ calling = "payment_processed"

Resumed ==
  /\ At(<<Resumption>>,
        In("resuming", "paid", Price0), Status0, Periods0, <<"RESUME">>, {"suspend_ended"})
  /\ Payment0 = "notPaid" /\ Usage0 = "suspended" /\ calling = "payment_processed"

\* A deactivation: the payments are stopped, then the tarification, then the usage.
Waited == IF Payment0 = "waitingPayment" THEN {"waiting_pay_ended"} ELSE {}

Stopped ==
  /\ At(<<Sig("paymentStopped", "off_price"), Sig("paymentStopped", "stop_pay")>>,
        In(Usage0, "paymentStopped", Price0), Status0, Periods0, <<>>, Waited)
  /\ Deactivates /\ reason = NoError

PriceStopped ==
  /\ At(<<Sig("paymentStopped", "stop_pay"), Sig("priceOff", "off_usage"), Sig("priceOff", "entered")>>,
        In(Usage0, "paymentStopped", "priceOff"), Status0, Periods0, <<>>, Waited)
  /\ Deactivates /\ reason = NoError

PaymentEnded ==
  /\ At(<<Sig("priceOff", "off_usage"), Sig("priceOff", "entered")>>,
        In(Usage0, "paymentFinal", "priceOff"), Status0, Periods0, <<>>, Waited)
  /\ Deactivates /\ reason = NoError

UsageStopped ==
  /\ queue = <<Sig("priceOff", "entered")>> \/ queue = <<Sig("priceOff", "entered"), Resumption>>
  /\ conf = In("pendingDisconnect", "paymentFinal", "priceOff") /\ status = "PENDING_DISCONNECT"
  /\ product.tarificationPeriod = Periods0 /\ completed
  /\ tasks = <<"disconnect">>
  /\ ToSet(deleteTasks) = Waited \cup (IF Usage0 = "suspended" THEN {"suspend_ended"} ELSE {})
                            \cup {"trial_ended", "commercial_ended"}
  /\ saved.conf.top = "productProvision" /\ Deactivates /\ reason = NoError

\* The end of a product.
Disconnecting == Usage0 = "disconnection" /\ calling = "deactivation_completed"

Disconnected ==
  /\ At(<<Sig("disconnected", "entered")>>,
        In("disconnected", "paymentFinal", "priceFinal"), "PENDING_DISCONNECT", Periods0, <<>>, {})
  /\ Disconnecting

Finishing ==
  /\ At(<<Sig("productProvision", "finished")>>,
        In("usageFinal", "paymentFinal", "priceFinal"), "PENDING_DISCONNECT", Periods0, <<>>, {})
  /\ Disconnecting

\* An activation: the first period is charged, or is free.
Activating(q, p, r, n, made) ==
  /\ calling \in {"activation_completed", "trial_activation_completed"}
  /\ saved.conf.top = "pendingActivate"
  /\ queue = q /\ conf = In("activatedEntry", p, r) /\ status = "PENDING_ACTIVATE"
  /\ product.tarificationPeriod = n
  /\ tasks = made /\ ToSet(deleteTasks) = {} /\ ~completed

Entering ==
  LET usage == Sig("activatedEntry", calling)
      pay   == Sig("paymentOnEntry", calling)
  IN
  \E v \in {"activation_completed", "trial_activation_completed"} :
    \E q \in {<<usage, pay, Sig("priceOnEntry", v)>>, <<pay, Sig("priceOnEntry", v)>>,
              <<Sig("priceOnEntry", v)>>} :
      Activating(q, "paymentOnEntry", "priceOnEntry", Periods0, <<>>)

Sold ==
  Activating(<<Sig("commercial", "activation_completed")>>, "paymentOnEntry", "commercial",
             Periods0 + 1, <<"commercial_ended">>)
SoldTrial ==
  Activating(<<Sig("trial", "trial_activation_completed")>>, "paymentOnEntry", "trial",
             Periods0 + 1, <<"trial_ended">>)
Due ==
  Activating(<<Sig("waitingPayment", "activation_completed")>>, "waitingPayment", "commercial",
             Periods0 + 1, <<"commercial_ended", "waiting_pay_ended">>)
Free ==
  Activating(<<Sig("paid", "trial_activation_completed")>>, "paid", "trial",
             Periods0 + 1, <<"trial_ended">>)

Phase ==
  \/ Loaded \/ Ended
  \/ NotChanging \/ NotChanged \/ Charged \/ ChargedTrial
  \/ Paid \/ Prolonged \/ Unpaid \/ PaidLate \/ Resumed
  \/ Stopped \/ PriceStopped \/ PaymentEnded \/ UsageStopped
  \/ Disconnected \/ Finishing
  \/ Entering \/ Sold \/ SoldTrial \/ Due \/ Free

\* What holds of every call: the product was at rest before it, with the timers that
\* fit, and the cascade is in one of its phases.
CascadeInv ==
  /\ Rests(saved.conf, Status0, Periods0)
  /\ OnSchedule => Fits(saved.conf, timers)
  /\ calling # Idle => Phase
=============================================================================
