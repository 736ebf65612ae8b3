-------------------------------- MODULE PIDates --------------------------------
(***************************************************************************)
(* The dates of a product: when its period ends (activeEndDate), when the   *)
(* period that starts next begins (the property priceStartDate), and when   *)
(* the timer tasks fall due (wakeAt).  The life of the product is that of   *)
(* PILifecycle; each of its steps here also does what the code does to the  *)
(* dates.  One step PILifecycle does not have: a period whose end an int    *)
(* cannot hold is not started, and nothing is reported.                     *)
(*                                                                          *)
(* The clock stands still during a call.  A period has one length, and a    *)
(* clock tick stands for whatever part of it the constants make it.         *)
(***************************************************************************)
EXTENDS PILifecycle

CONSTANTS
  Length,         \* of a period: recurringChargePeriodLength
  EndedBefore,    \* config price_ended_before_time
  WaitingTime,    \* config payment_waiting_time
  SuspendTime,    \* config suspend_duration
  ImmediateTime,  \* config immediate_task_time
  Immediate,      \* the statuses in which the product's characteristics or labels make a
                  \* deactivation immediate
  MaxDelay,       \* bound on how long ago an event took place when it is sent
  MaxClock,       \* bound on the clock
  MaxDate         \* the last date an int holds

ASSUME DatesAssumption ==
  /\ {Length, EndedBefore, WaitingTime, SuspendTime, ImmediateTime, MaxDelay, MaxClock, MaxDate} \subseteq Nat
  /\ EndedBefore <= Length
  \* the waits of a product that is in service end while an int still holds the date
  /\ \A wait \in {WaitingTime, SuspendTime, ImmediateTime} : MaxClock + wait <= MaxDate
ASSUME ImmediateAssumption == Immediate \subseteq Statuses

VARIABLES
  clock,      \* currentDateTime()
  eventDate,  \* the event's date, of the call being processed
  dates,      \* the machine's: [start |-> priceStartDate, end |-> activeEndDate,
              \* wakeAt |-> of the timer tasks the call has created]
  calendar    \* the caller's: [end |-> activeEndDate, due |-> of the outstanding timers]

dateVars == <<clock, eventDate, dates, calendar>>
datedVars == <<vars, dateVars>>

NoDate == 0
NoWakeAt == [e \in TimerEvents |-> NoDate]
NoDates == [start |-> NoDate, end |-> NoDate, wakeAt |-> NoWakeAt]

\* A date kept in an int: past MaxDate it turns negative, and past what toTime_t's unsigned
\* int holds it is -1.
ToInt(date) == CASE date > 2 * MaxDate + 1 -> -1
                 [] date \in MaxDate + 1 .. 2 * MaxDate + 1 -> date - 2 * (MaxDate + 1)
                 [] OTHER -> date

DatedInit ==
  /\ Init
  /\ clock = 0
  /\ eventDate = NoDate /\ dates = NoDates
  /\ calendar = [end |-> NoDate, due |-> NoWakeAt]

-----------------------------------------------------------------------------
(* Helpers of pimachine.cpp. *)

TargetStateEol(d) == ToInt(d.start + Length)

\* The status termDate looks at is the one the product was loaded with.
TermNow == clock + ImmediateTime

\* Mutant: each deactivation is immediate.
TermDateNow(cause, end) == TermNow

TermDate(cause, end) ==
  IF cause # "deactivation_started" \/ StatusLoaded(saved) \in Immediate \/ clock > end
  THEN TermNow ELSE end

-----------------------------------------------------------------------------
(* What the handlers of pistates.cpp do to the dates. *)

WakesAt(d, e, date) == [d EXCEPT !.wakeAt[e] = date]

\* Mutant: a period that follows another starts with the event that ended it.
DateOnExitLate(s, d) == d

\* Without a change of price a period starts where the one before ends.
DateOnExit(s, d) == IF s = "priceNotChanged" THEN [d EXCEPT !.start = d.end] ELSE d

\* Mutant: the end of a period is put on the schedule for the moment it ends.
PeriodStartsOnTime(timer, d) ==
  [WakesAt(d, timer, TargetStateEol(d)) EXCEPT !.end = TargetStateEol(d)]

PeriodStarts(timer, d) ==
  [WakesAt(d, timer, TargetStateEol(d) - EndedBefore) EXCEPT !.end = TargetStateEol(d)]

\* Mutant: the date of the disconnection is scheduled and not recorded.
DisconnectsUnrecorded(end, d) == WakesAt(d, "disconnect", end)

Disconnects(end, d) == [WakesAt(d, "disconnect", end) EXCEPT !.end = end]

\* p is the product the handler leaves.  pendingDisconnect is entered on off_usage, whose
\* reason has come from paymentStopped, and to that only deactivation_started leads.
DateOnEntry(s, event, p, d) ==
  CASE s = "commercial" /\ HasPeriodType(p)    -> PeriodStarts("commercial_ended", d)
    [] s = "trial" /\ HasPeriodType(p)         -> PeriodStarts("trial_ended", d)
    [] s = "priceChanging" /\ PriceIsOver(p)   -> WakesAt(d, "change_price", clock)
    [] s = "suspended"                         -> WakesAt(d, "suspend_ended", clock + SuspendTime)
    [] s = "pendingDisconnect"                 -> Disconnects(TermDate("deactivation_started", d.end), d)
    [] s = "waitingPayment"                    -> WakesAt(d, "waiting_pay_ended", clock + WaitingTime)
    [] s = "notPaid"                           -> [d EXCEPT !.end = eventDate]
    [] s = "paymentStopping" /\ event.value # "deactivation_external"
                                               -> [d EXCEPT !.end = TermDate(event.value, d.end)]
    [] OTHER                                   -> d

-----------------------------------------------------------------------------
(* The steps of PILifecycle, with their dates. *)

Tick ==
  /\ calling = Idle
  /\ clock < MaxClock
  /\ clock' = clock + 1
  /\ UNCHANGED <<vars, eventDate, dates, calendar>>

\* A timer event is sent when its task falls due, or later.
DatedSend(e, next) ==
  /\ e \in timers => clock >= calendar.due[e]
  /\ Send(e, next)
  /\ eventDate' \in {clock - delay : delay \in 0..MaxDelay} \cap Nat
  /\ dates' = [NoDates EXCEPT !.start = eventDate', !.end = calendar.end]
  /\ UNCHANGED <<clock, calendar>>

\* Mutant: what targetStateEol returns is used as it is.
StartsAlways(t) == FALSE

\* A period is to start whose end an int cannot hold.
PastTheLastDate(t) ==
  LET exit == OnExit(conf.price, Head(queue), product, nextPrice) IN
  /\ t.target \in {"commercial", "trial"}
  /\ HasPeriodType(exit.product)
  /\ TargetStateEol(DateOnExit(conf.price, dates)) < 0

DatedRegionStep(region, t) ==
  LET from == conf[region]
      to   == Descend(t.target)
  IN
  /\ conf' = [conf EXCEPT ![region] = to]
  /\ Microstep(from, t)
  /\ dates' = DateOnEntry(to, Head(queue), product', DateOnExit(from, dates))
  /\ UNCHANGED <<clock, eventDate, calendar>>

DatedPriceStep ==
  \E t \in PriceTransitions : EventTest(t) /\ ~PastTheLastDate(t) /\ DatedRegionStep("price", t)

\* commercial's and trial's handlers return before they do anything.
UndatedPriceStep ==
  \E t \in PriceTransitions :
    LET from == conf.price
        exit == OnExit(from, Head(queue), product, nextPrice)
    IN
    /\ EventTest(t)
    /\ PastTheLastDate(t)
    /\ conf' = [conf EXCEPT !.price = t.target]
    /\ product' = exit.product
    /\ queue' = Tail(queue) \o Signal(from, exit.emit)
    /\ hasTransition' = TRUE
    /\ reason' = Later(Later(reason, TestReason), exit.reason)
    /\ dates' = DateOnExit(from, dates)
    /\ UNCHANGED <<status, nextPrice, tasks, deleteTasks, completed, calling, saved, timers>>
    /\ UNCHANGED <<clock, eventDate, calendar>>

DatedUsageStep   == \E t \in UsageTransitions : DatedRegionStep("usage", t)
DatedPaymentStep == \E t \in PaymentTransitions : DatedRegionStep("payment", t)

UndatedSteps == (ProvisionStep \/ LeaveStep \/ Drop) /\ UNCHANGED dateVars

\* The timers the call has created are due when it said, the others when they were.
DueAfter ==
  [e \in TimerEvents |-> IF e \notin TimersAfter THEN NoDate
                         ELSE IF e \in ToSet(tasks) THEN dates.wakeAt[e] ELSE calendar.due[e]]

DatedAnswer ==
  /\ Answer
  /\ calendar' = IF Code = 1 THEN [end |-> dates.end, due |-> DueAfter] ELSE calendar
  /\ eventDate' = NoDate /\ dates' = NoDates
  /\ UNCHANGED clock

DatedNext ==
  \/ Tick
  \/ \E e \in Events : \E next \in NextPricesFor(e) : DatedSend(e, next)
  \/ DatedPriceStep \/ UndatedPriceStep \/ DatedUsageStep \/ DatedPaymentStep
  \/ UndatedSteps
  \/ DatedAnswer

DatedSpec == DatedInit /\ [][DatedNext]_datedVars

-----------------------------------------------------------------------------
(* Properties. *)

\* The event that ends a period is on the schedule for EndedBefore before the date the
\* product is served to, however the two have come about: they are kept apart, in a task
\* and in the product, and are set by handlers of different regions.
PeriodEndOnSchedule ==
  LET c == saved.conf IN
  \A e \in {"commercial_ended", "trial_ended"} \cap timers :
    c.payment \in {"paid", "waitingPayment"} => calendar.due[e] = calendar.end - EndedBefore

\* A product that waits for its disconnection is disconnected on the date it is served to,
\* though that has been set twice, by the handlers of two regions.
DisconnectOnEndDate ==
  "disconnect" \in timers => calendar.due["disconnect"] = calendar.end

\* The date a product is served to, from answer to answer.  A period that follows another at
\* the same price starts where that one ended, early as the event came and late as it was
\* dealt with: no day is charged twice or left out; any other period starts with its event.
\* Otherwise the date moves only back to the event when a period is not paid, and to now
\* when the product is closed at once.  No other call, expected or not, moves it.
EndDateMovesWithReason ==
  [][LET start == IF calling \in {"commercial_ended", "trial_ended"} THEN calendar.end ELSE eventDate
     IN  IF saved'.product.tarificationPeriod > saved.product.tarificationPeriod
         THEN calendar'.end = start + Length
         ELSE calendar'.end # calendar.end =>
                \/ saved'.conf.payment = "notPaid" /\ calendar'.end = eventDate
                \/ saved'.conf.payment \notin PaymentOn /\ calendar'.end = TermNow]_datedVars

\* Nobody is cut off from what he has been charged for: unless the product's characteristics
\* ask for it, a deactivation leaves the product the rest of its period.
ServedToTheEnd ==
  [][calling = "deactivation_started" /\ saved'.conf # saved.conf
       /\ StatusLoaded(saved) \notin Immediate /\ calendar.end >= clock =>
       calendar'.due["disconnect"] = calendar.end]_datedVars

\* The end date stored is never one that an int could not hold.
EndDateInRange == calendar.end \in 0..MaxDate
=============================================================================
