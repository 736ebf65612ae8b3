------------------------------- MODULE PIStates -------------------------------
(***************************************************************************)
(* The onEntry and onExit handlers of pistates.cpp and the helpers of       *)
(* pimachine.cpp they call, as functions of the event that caused the       *)
(* transition, of the product being worked on and of the next price the     *)
(* caller supplied.  A handler's effect is a record:                        *)
(*   emit      the values it emits by externalSignal, in order              *)
(*   create    the tasks it appends to m_tasks                              *)
(*   delete    the tasks it appends to m_deleteTasks                        *)
(*   product   the product it leaves                                        *)
(*   completed whether it emits transitionCompleted                         *)
(*   reason    the reason of the machineError it emits, NoError if none     *)
(*                                                                          *)
(* Dates are left out (wakeAt, activeEndDate, trialEndDate), and with them  *)
(* the second argument of off_price and off_usage, which only termDate      *)
(* reads.  A send_event task is named by the event it will send, any other  *)
(* task by its wakeAtFunction.  These are the handlers of a running         *)
(* operation: while init() loads a state they return at once.               *)
(***************************************************************************)
EXTENDS Integers, Sequences, PIChart

\* The send_event tasks: the caller's scheduler sends the event when they fall due.
TimerEvents == {"trial_ended", "commercial_ended", "change_price",
                "waiting_pay_ended", "suspend_ended", "disconnect"}

\* The tasks for the order system.
Orders == {"SUSPEND", "ACTIVATE", "RESUME", "DISCONNECT", "CHANGE_PRICE",
           "DISCONNECT_EXTERNAL"}

Tasks == TimerEvents \cup Orders

NoError == 0
QfsmlibError == -1        \* machineError's default reason
IllegalEventError == -2

\* product.price and properties.nextPrice are arrays of at most one price.
NoPrice == [id |-> "no price"]
NoAlteration == [id |-> "no alteration"]

HasPrice(p) == p.price # NoPrice

\* Whether targetStateEol knows the unit of the price's charging period.
HasPeriodType(p) == HasPrice(p) /\ p.price.known

-----------------------------------------------------------------------------
(* Helpers of pimachine.cpp. *)

\* increasePeriods(1)
OnePeriodMore(x) == [x EXCEPT !.period = @ + 1]

\* Mutant: the period of the price is counted and that of the product is not.
IncreasePricePeriod(p) == [p EXCEPT !.price = OnePeriodMore(@)]

IncreasePeriods(p) ==
  LET alteration == IF p.price.alteration = NoAlteration THEN NoAlteration
                    ELSE OnePeriodMore(p.price.alteration)
  IN  [price |-> [OnePeriodMore(p.price) EXCEPT !.alteration = alteration],
       tarificationPeriod |-> p.tarificationPeriod + 1]

AlterationId(price) == IF price = NoPrice THEN NoAlteration.id ELSE price.alteration.id

\* pricesEquals(), without the errors it emits
PricesEqual(p, next) == /\ p.price.id = next.id
                        /\ AlterationId(p.price) = AlterationId(next)

\* The machineError pricesEquals() leaves behind: of several, the last.
PricesEqualReason(p, next) ==
  IF next = NoPrice \/ PricesEqual(p, next) THEN IllegalEventError
  ELSE IF HasPrice(p) THEN NoError ELSE QfsmlibError

\* currentPrice() emits a machineError when the product has no price.
CurrentPriceReason(p) == IF HasPrice(p) THEN NoError ELSE QfsmlibError

\* The price has run for the number of periods it was bought for.
PriceIsOver(p) ==
  LET term == IF p.price.alteration = NoAlteration THEN p.price ELSE p.price.alteration
  IN  HasPrice(p) /\ term.duration # 0 /\ term.period >= term.duration

-----------------------------------------------------------------------------
(* Effects. *)

Nothing(p) == [emit |-> <<>>, create |-> <<>>, delete |-> <<>>, product |-> p,
               completed |-> FALSE, reason |-> NoError]

Emits(p, values) == [Nothing(p) EXCEPT !.emit = values]
Fails(p, reason) == [Nothing(p) EXCEPT !.reason = reason]

\* The usual handler: create these tasks, then emit transitionCompleted.
CreatesAndCompletes(p, tasks) == [Nothing(p) EXCEPT !.create = tasks, !.completed = TRUE]

-----------------------------------------------------------------------------
(* Handlers of the usage region. *)

SuspendingOnEntry(p) ==
  [Nothing(p) EXCEPT !.create = <<"SUSPEND">>,
                     !.delete = <<"trial_ended", "commercial_ended">>,
                     !.reason = CurrentPriceReason(p)]

\* The first period was activated by the caller already: there is nothing to order.
ProlongationOnEntry(p) ==
  IF p.tarificationPeriod = 1 THEN Emits(p, <<"activate_completed">>)
  ELSE [CreatesAndCompletes(p, <<"ACTIVATE">>) EXCEPT !.reason = CurrentPriceReason(p)]

ResumingOnEntry(p) == [Nothing(p) EXCEPT !.create = <<"RESUME">>]

SuspendedOnEntry(p) == CreatesAndCompletes(p, <<"suspend_ended">>)

\* Mutant: the suspension's timer survives the suspension.
SuspendedOnExitLeaving(p) == Emits(p, <<"resume_tarification">>)

\* Mutant: it bills the resumed period itself, instead of leaving that to commercial.
SuspendedOnExitBilling(p) ==
  [Nothing(IncreasePeriods(p)) EXCEPT !.delete = <<"suspend_ended">>]

SuspendedOnExit(p) == [Emits(p, <<"resume_tarification">>) EXCEPT !.delete = <<"suspend_ended">>]

\* Mutant: its own timer is among those it deletes.
PendingDisconnectDeletingAll(p) ==
  [CreatesAndCompletes(p, <<"disconnect">>)
     EXCEPT !.delete = <<"trial_ended", "commercial_ended", "disconnect">>]

PendingDisconnectOnEntry(p) ==
  [CreatesAndCompletes(p, <<"disconnect">>) EXCEPT !.delete = <<"trial_ended", "commercial_ended">>]

DisconnectionOnEntry(p) == CreatesAndCompletes(p, <<"DISCONNECT">>)

-----------------------------------------------------------------------------
(* Handlers of the price region. *)

PriceOnEntryOnEntry(p) ==
  Emits(p, IF HasPrice(p) /\ p.price.status = "ACTIVE_TRIAL"
           THEN <<"trial_activation_completed">> ELSE <<"activation_completed">>)

PriceChangingOnEntry(p) ==
  IF PriceIsOver(p) THEN CreatesAndCompletes(p, <<"change_price">>)
  ELSE [Emits(p, <<"not_change_price">>) EXCEPT !.reason = CurrentPriceReason(p)]

PriceChangedOnEntry(p) == CreatesAndCompletes(p, <<"CHANGE_PRICE">>)

PriceChangedOnExit(event, p, next) ==
  IF event.value # "change_price_completed" THEN Nothing(p)
  ELSE IF next = NoPrice THEN Fails(p, IllegalEventError)
  ELSE Nothing([p EXCEPT !.price = next])

PriceNotChangedOnEntry(p) == Emits(p, <<"change_price_completed">>)

\* Mutant: the period that starts with a resumption has no end.
CommercialUnscheduled(event, p) ==
  LET billed == [Nothing(IncreasePeriods(p)) EXCEPT !.create = <<"commercial_ended">>] IN
  IF ~HasPeriodType(p) THEN Fails(p, QfsmlibError)
  ELSE IF event.sender = "suspended" THEN [Nothing(IncreasePeriods(p)) EXCEPT !.completed = TRUE]
  ELSE IF event.value = "activation_completed" THEN [billed EXCEPT !.emit = <<event.value>>]
  ELSE [billed EXCEPT !.emit = <<"wait_payment">>]

\* Mutant: a period of unknown length is reported and started all the same.
CommercialContinuing(event, p) ==
  LET billed == [Nothing(IncreasePeriods(p)) EXCEPT !.create = <<"commercial_ended">>] IN
  IF ~HasPrice(p) THEN Fails(p, QfsmlibError)
  ELSE [billed EXCEPT !.reason = IF HasPeriodType(p) THEN NoError ELSE QfsmlibError,
                      !.completed = event.sender = "suspended",
                      !.emit = IF event.sender = "suspended" THEN <<>>
                               ELSE IF event.value = "activation_completed" THEN <<event.value>>
                               ELSE <<"wait_payment">>]

\* A new period starts: it is billed and its end is put on the schedule.
CommercialOnEntry(event, p) ==
  LET billed == [Nothing(IncreasePeriods(p)) EXCEPT !.create = <<"commercial_ended">>] IN
  IF ~HasPeriodType(p) THEN Fails(p, QfsmlibError)
  ELSE IF event.sender = "suspended" THEN [billed EXCEPT !.completed = TRUE]
  ELSE IF event.value = "activation_completed" THEN [billed EXCEPT !.emit = <<event.value>>]
  ELSE [billed EXCEPT !.emit = <<"wait_payment">>]

TrialOnEntry(event, p) ==
  LET billed == [Nothing(IncreasePeriods(p)) EXCEPT !.create = <<"trial_ended">>] IN
  IF ~HasPeriodType(p) THEN Fails(p, QfsmlibError)
  ELSE IF event.value \in {"trial_activation_completed", "change_price_completed"}
       THEN [billed EXCEPT !.emit = <<event.value>>]
  ELSE [billed EXCEPT !.completed = TRUE]

PriceOffOnEntry(p) == Emits(p, <<"off_usage">>)

-----------------------------------------------------------------------------
(* Handlers of the payment region. *)

PaidOnEntry(event, p) ==
  IF event.value = "trial_activation_completed" THEN Emits(p, <<event.value>>) ELSE Nothing(p)

\* Mutant: the call is answered before the usage region has heard of the activation.
WaitingPaymentCompleting(event, p) ==
  [CreatesAndCompletes(p, <<"waiting_pay_ended">>) EXCEPT
     !.emit = IF event.value = "activation_completed" THEN <<event.value>> ELSE <<>>]

WaitingPaymentOnEntry(event, p) ==
  LET waiting == [Nothing(p) EXCEPT !.create = <<"waiting_pay_ended">>] IN
  IF event.value = "activation_completed" THEN [waiting EXCEPT !.emit = <<event.value>>]
  ELSE [waiting EXCEPT !.completed = TRUE]

\* The product is being closed: whether it was paid no longer matters.
ClosingEvents == {"deactivation_started", "deactivation_external", "close_subscriber"}

\* Mutant: the timer of the wait survives the wait.
WaitingPaymentOnExitLeaving(event, p) ==
  Emits(p, IF event.value \in ClosingEvents THEN <<>>
           ELSE IF event.value = "payment_processed" THEN <<"prolong">>
           ELSE <<"suspend">>)

WaitingPaymentOnExit(event, p) ==
  [Nothing(p) EXCEPT !.delete = <<"waiting_pay_ended">>,
     !.emit = IF event.value \in ClosingEvents THEN <<>>
              ELSE IF event.value = "payment_processed" THEN <<"prolong">>
              ELSE <<"suspend">>]

\* Mutant: the charge that was not paid still counts.
NotPaidOnEntryCounting(p) == Nothing(p)

NotPaidOnEntry(p) == Nothing([p EXCEPT !.tarificationPeriod = @ - 1])

NotPaidOnExit(event, p) ==
  IF event.value = "payment_processed" THEN Emits(p, <<"resume">>) ELSE Nothing(p)

PaymentStoppingOnEntry(p) == CreatesAndCompletes(p, <<"DISCONNECT_EXTERNAL">>)

PaymentStoppedOnEntry(p) == Emits(p, <<"off_price", "stop_pay">>)

-----------------------------------------------------------------------------
(* The handler of each state; a state without one does nothing. *)

OnEntry(s, event, p) ==
  CASE s \in {"activatedEntry", "paymentOnEntry"} -> Emits(p, <<event.value>>)
    [] s = "suspending"        -> SuspendingOnEntry(p)
    [] s = "prolongation"      -> ProlongationOnEntry(p)
    [] s = "resuming"          -> ResumingOnEntry(p)
    [] s = "suspended"         -> SuspendedOnEntry(p)
    [] s = "pendingDisconnect" -> PendingDisconnectOnEntry(p)
    [] s = "disconnection"     -> DisconnectionOnEntry(p)
    [] s = "priceOnEntry"      -> PriceOnEntryOnEntry(p)
    [] s = "priceChanging"     -> PriceChangingOnEntry(p)
    [] s = "priceChanged"      -> PriceChangedOnEntry(p)
    [] s = "priceNotChanged"   -> PriceNotChangedOnEntry(p)
    [] s = "commercial"        -> CommercialOnEntry(event, p)
    [] s = "trial"             -> TrialOnEntry(event, p)
    [] s = "priceOff"          -> PriceOffOnEntry(p)
    [] s = "paid"              -> PaidOnEntry(event, p)
    [] s = "waitingPayment"    -> WaitingPaymentOnEntry(event, p)
    [] s = "notPaid"           -> NotPaidOnEntry(p)
    [] s = "paymentStopping"   -> PaymentStoppingOnEntry(p)
    [] s = "paymentStopped"    -> PaymentStoppedOnEntry(p)
    [] OTHER                   -> Nothing(p)

OnExit(s, event, p, next) ==
  CASE s = "suspended"      -> SuspendedOnExit(p)
    [] s = "priceChanged"   -> PriceChangedOnExit(event, p, next)
    [] s = "waitingPayment" -> WaitingPaymentOnExit(event, p)
    [] s = "notPaid"        -> NotPaidOnExit(event, p)
    [] OTHER                -> Nothing(p)

-----------------------------------------------------------------------------
(* The conditions buildMachine gives to transitions. *)

Guard(guard, c, p, next) ==
  CASE guard = "usageIsTrial"  -> c.usage = "activeTrial"
    [] guard = "usageIsActive" -> c.usage = "active"
    [] guard = "pricesDiffer"  -> ~PricesEqual(p, next)
    [] guard = "nextIsTrial"   -> next # NoPrice /\ next.status = "ACTIVE_TRIAL"
    [] guard = "nextIsActive"  -> next # NoPrice /\ next.status = "ACTIVE"
    [] guard = "priceIsTrial"  -> HasPrice(p) /\ p.price.status = "ACTIVE_TRIAL"
    [] guard = "priceIsActive" -> HasPrice(p) /\ p.price.status = "ACTIVE"
    [] OTHER                   -> TRUE

\* Testing a condition may emit a machineError, whatever its outcome.
GuardReason(guard, p, next) ==
  CASE guard = "pricesDiffer"                        -> PricesEqualReason(p, next)
    [] guard \in {"priceIsTrial", "priceIsActive"} -> CurrentPriceReason(p)
    [] OTHER                                         -> NoError
=============================================================================
