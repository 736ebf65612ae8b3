----------------------------- MODULE PIDatesProofs -----------------------------
(***************************************************************************)
(* The dates of a product, for every catalog, every clock and every length  *)
(* of the waits: how far a product is served to, and when the events that   *)
(* end its period and its life are due.                                     *)
(***************************************************************************)
EXTENDS PIDates, PICascadeProofs

Timed == {"commercial_ended", "trial_ended"}
Watched == Timed \cup {"disconnect"}

Periods == product.tarificationPeriod

\* The dates that are kept are dates an int holds.
DatesOK ==
  /\ clock \in 0 .. MaxClock /\ eventDate \in 0 .. MaxClock
  /\ dates \in [start : 0 .. MaxDate, end : 0 .. MaxDate, wakeAt : [TimerEvents -> Int]]
  /\ calendar \in [end : 0 .. MaxDate, due : [TimerEvents -> Int]]

\* When the period begins that a call charges.
PeriodStart == IF calling \in Timed THEN calendar.end ELSE eventDate

\* Only a period that follows another does not begin with its event.
StartKept == calling \notin Timed => dates.start = eventDate

\* The first handler that moves the end date charges or takes back a period, or completes
\* the call.
NotMoved == ~completed /\ Periods = Periods0 => dates.end = calendar.end

EndMoved ==
  IF Periods > Periods0
  THEN dates.end = PeriodStart + Length /\ ToSet(tasks) \cap Timed # {}
  ELSE \/ dates.end = calendar.end
       \/ conf.payment = "notPaid" /\ dates.end = eventDate
       \/ conf.payment \notin PaymentOn /\ dates.end = TermNow

\* The tasks are put on the schedule by the handler that sets the end date, or after it.
Scheduled ==
  /\ \A e \in Timed \cap ToSet(tasks) : dates.wakeAt[e] = dates.end - EndedBefore
  /\ "disconnect" \in ToSet(tasks) => dates.wakeAt["disconnect"] = dates.end

\* A deactivation moves the date only as termDate says, and does nothing but deactivate.
Deactivating ==
  calling = "deactivation_started" =>
    /\ dates.end \in {calendar.end, TermDate("deactivation_started", calendar.end)}
    /\ Deactivates \/ (~completed /\ (queue = <<>> \/ Loaded))

\* A product whose usage is off keeps its date.
ClosedKept == UsageClosed(saved.conf) => dates.end = calendar.end

InCall == StartKept /\ NotMoved /\ EndMoved /\ Scheduled /\ Deactivating /\ ClosedKept

DatesInv ==
  /\ CascadeInv /\ TypeOK
  /\ DatesOK
  /\ calling # Idle => InCall

-----------------------------------------------------------------------------
(* The steps of PIDates are steps of PILifecycle, but for one. *)

\* What the handlers of a step within a region do to the dates.
RegionDates(from, to) ==
  /\ dates' = DateOnEntry(to, Head(queue), product', DateOnExit(from, dates))
  /\ UNCHANGED <<clock, eventDate, calendar>>

\* A period that a step starts ends at a date.
Holds(to) ==
  to \in {"commercial", "trial"} /\ HasPeriodType(Exit(conf.price).product) =>
    ~(TargetStateEol(DateOnExit(conf.price, dates)) < 0)

LEMMA DatedKinds ==
  ASSUME TypeOK, DatedPriceStep \/ DatedUsageStep \/ DatedPaymentStep
  PROVE  /\ MachineStep /\ conf.top = "productProvision"
         /\ \/ \E to \in PriceLeaves : PriceMoved(to) /\ RegionDates(conf.price, to) /\ Holds(to)
            \/ \E to \in UsageLeaves : UsageMoved(to) /\ RegionDates(conf.usage, to)
            \/ \E to \in PaymentLeaves : PaymentMoved(to) /\ RegionDates(conf.payment, to)
  <1>0. WellFormed(conf)
    BY DEF TypeOK, MachineTypeOK
  <1>1. CASE DatedPriceStep
    <2>1. PICK t \in PriceTransitions :
            EventTest(t) /\ ~PastTheLastDate(t) /\ DatedRegionStep("price", t)
      BY <1>1 DEF DatedPriceStep
    <2>2. /\ conf' = [conf EXCEPT !.price = Descend(t.target)] /\ Microstep(conf.price, t)
          /\ RegionDates(conf.price, Descend(t.target))
      BY <2>1 DEF DatedRegionStep, RegionDates
    <2>3. Does(conf.price, Descend(t.target)) /\ conf.price \in Inside(t.source)
          /\ conf.top = "productProvision" /\ Descend(t.target) \in PriceLeaves
      BY <1>0, <2>1, <2>2, DoesStep, Sources, PriceTargets
    <2>4. Holds(Descend(t.target))
      BY <2>1 DEF PastTheLastDate, Holds, Exit, Descend
    <2>5. PriceStep
      BY <2>2 DEF PriceStep
    <2> QED BY <2>1, <2>2, <2>3, <2>4, <2>5, PriceMoves DEF PriceMoved, MachineStep
  <1>2. CASE DatedUsageStep
    <2>1. PICK t \in UsageTransitions : DatedRegionStep("usage", t)
      BY <1>2 DEF DatedUsageStep
    <2>2. /\ conf' = [conf EXCEPT !.usage = Descend(t.target)] /\ Microstep(conf.usage, t)
          /\ RegionDates(conf.usage, Descend(t.target))
      BY <2>1 DEF DatedRegionStep, RegionDates
    <2>3. EventTest(t) /\ Does(conf.usage, Descend(t.target)) /\ conf.usage \in Inside(t.source)
          /\ conf.top = "productProvision" /\ Descend(t.target) \in UsageLeaves
      BY <1>0, <2>2, DoesStep, Sources, UsageTargets
    <2>4. UsageStep
      BY <2>2 DEF UsageStep
    <2> QED BY <2>2, <2>3, <2>4, UsageMoves DEF UsageMoved, MachineStep
  <1>3. CASE DatedPaymentStep
    <2>1. PICK t \in PaymentTransitions : DatedRegionStep("payment", t)
      BY <1>3 DEF DatedPaymentStep
    <2>2. /\ conf' = [conf EXCEPT !.payment = Descend(t.target)] /\ Microstep(conf.payment, t)
          /\ RegionDates(conf.payment, Descend(t.target))
      BY <2>1 DEF DatedRegionStep, RegionDates
    <2>3. EventTest(t) /\ Does(conf.payment, Descend(t.target)) /\ conf.payment \in Inside(t.source)
          /\ conf.top = "productProvision" /\ Descend(t.target) \in PaymentLeaves
      BY <1>0, <2>2, DoesStep, Sources, PaymentTargets
    <2>4. PaymentStep
      BY <2>2 DEF PaymentStep
    <2> QED BY <2>2, <2>3, <2>4, PaymentMoves DEF PaymentMoved, MachineStep
  <1> QED BY <1>1, <1>2, <1>3

\* What the call is and what it has done when a step starts a period, or would.
LEMMA AtPeriodStart ==
  ASSUME CascadeInv, TypeOK, calling # Idle, queue # <<>>,
         NEW to \in {"commercial", "trial"}, PriceMove(conf.price, to)
  PROVE  /\ Tail(queue) = <<>> /\ ~completed /\ Periods = Periods0
         /\ ToSet(tasks) \cap Watched = {}
         /\ ~UsageClosed(saved.conf) /\ calling # "deactivation_started"
         /\ (calling \in Timed) <=> (conf.price = "priceNotChanged")
         /\ conf.price # "waitingPayment"
  <1>0. Phase
    BY DEF CascadeInv
  <1>1. CASE Head(queue).sender = "priceOnEntry" /\ conf.price = "priceOnEntry"
    <2>1. Entering
      BY <1>0, <1>1, PhaseOfHead
    <2>2. Activating(queue, "paymentOnEntry", "priceOnEntry", Periods0, <<>>) /\ Tail(queue) = <<>>
      BY <1>1, <2>1, EnteringThere
    <2>3. saved.conf.usage = NoLeaf
      BY <2>2 DEF Activating, TypeOK, MachineTypeOK, WellFormed
    <2> QED BY <1>1, <2>2, <2>3, SetsOfTuples
            DEF Activating, UsageClosed, UsageOff, NoLeaf, Timed, Periods
  <1>2. CASE Heard("machine", "change_price_completed") /\ conf.price = "priceChanged"
    <2>1. Loaded
      BY <1>0, <1>2, PhaseOfHead DEF Heard
    <2>2. /\ saved.conf = conf /\ Head(queue) = Sig("machine", calling) /\ Tail(queue) = <<>>
          /\ tasks = <<>> /\ ~completed /\ Periods = Periods0
      BY <2>1, LoadedStart DEF Periods
    <2>3. conf.top = "productProvision" /\ ~UsageClosed(saved.conf)
      BY <1>2, <2>2 DEF CascadeInv, Rests, TypeOK, MachineTypeOK, WellFormed, NoLeaf
    <2>4. calling = "change_price_completed"
      BY <1>2, <2>2 DEF Heard, Sig
    <2>5. ToSet(tasks) = {}
      BY <2>2, SetsOfTuples
    <2> QED BY <1>2, <2>2, <2>3, <2>4, <2>5 DEF Timed
  <1>3. CASE Head(queue).sender = "priceNotChanged" /\ conf.price = "priceNotChanged"
    <2>1. NotChanged
      BY <1>0, <1>3, PhaseOfHead
    <2> QED BY <1>3, <2>1, HeadsAndTails, SetsOfTuples
            DEF NotChanged, At, PeriodOver, Usage0, UsageClosed, UsageOff, Timed, Periods
  <1>4. CASE Head(queue).sender = "suspended" /\ conf.price = "commercial"
    <2>1. Resumed
      BY <1>0, <1>4, PhaseOfHead DEF Ended
    <2> QED BY <1>4, <2>1, HeadsAndTails, SetsOfTuples
            DEF Resumed, At, Usage0, UsageClosed, UsageOff, Timed, Watched, Periods
  <1> QED BY <1>1, <1>2, <1>3, <1>4 DEF PriceMove, Heard

\* commercial's and trial's handlers return before they emit: the cascade has ended, and
\* the call is not completed.
LEMMA UndatedEnds ==
  ASSUME CascadeInv, TypeOK, UndatedPriceStep
  PROVE  /\ TypeOK' /\ CascadeInv'
         /\ calling # Idle /\ queue # <<>> /\ queue' = <<>> /\ ~completed /\ ~completed'
         /\ calling # "deactivation_started"
         /\ Periods' = Periods /\ conf'.payment = conf.payment
         /\ (conf.price = "priceNotChanged") => calling \in Timed
         /\ dates' = DateOnExit(conf.price, dates)
         /\ UNCHANGED <<tasks, calling, saved, clock, eventDate, calendar>>
  <1>1. PICK t \in PriceTransitions :
          /\ EventTest(t) /\ PastTheLastDate(t)
          /\ conf' = [conf EXCEPT !.price = t.target]
          /\ product' = Exit(conf.price).product
          /\ queue' = Tail(queue) \o Signal(conf.price, Exit(conf.price).emit)
          /\ reason' = Later(Later(reason, TestReason), Exit(conf.price).reason)
          /\ hasTransition' = TRUE
          /\ dates' = DateOnExit(conf.price, dates)
          /\ UNCHANGED <<status, nextPrice, tasks, deleteTasks, completed, calling, saved, timers>>
          /\ UNCHANGED <<clock, eventDate, calendar>>
    BY DEF UndatedPriceStep, Exit
  <1>2. /\ calling # Idle /\ queue # <<>> /\ t.target \in {"commercial", "trial"}
        /\ Descend(t.target) = t.target
    BY <1>1 DEF EventTest, Triggered, PastTheLastDate, Descend
  <1>3. conf.price \in Inside(t.source) /\ conf.top = "productProvision"
    BY <1>1, Sources DEF TypeOK, MachineTypeOK
  <1>4. PriceMove(conf.price, t.target)
    BY <1>1, <1>2, <1>3, PriceMoves
  <1>5. /\ Tail(queue) = <<>> /\ ~completed /\ calling # "deactivation_started"
        /\ calling \in Timed <=> conf.price = "priceNotChanged"
    BY <1>2, <1>4, AtPeriodStart
  <1>6. Head(queue) \in Signals
    BY <1>2, HeadTailProperties DEF TypeOK, MachineTypeOK
  <1>7. Exit(conf.price) \in Effects
    BY <1>6, ExitType DEF TypeOK, MachineTypeOK, Exit
  <1>8. conf.price \in {"priceOnEntry", "priceChanged", "priceNotChanged", "commercial"}
    BY <1>2, <1>4 DEF PriceMove
  <1>9. Exit(conf.price).emit = <<>> /\ Exit(conf.price).product.tarificationPeriod = Periods
    BY <1>8 DEF Exit, OnExit, PriceChangedOnExit, Nothing, Fails, Periods
  <1>10. queue' = <<>>
    BY <1>1, <1>5, <1>9, SmallSignals, Tuples
  <1>11. /\ WellFormed(conf') /\ conf'.payment = conf.payment
    BY <1>1, <1>2, <1>3 DEF TypeOK, MachineTypeOK, WellFormed, Configurations, PriceLeaves, PriceOn, NoLeaf
  <1>12. reason' \in Reasons
    BY <1>1, <1>7, TestReasonType DEF Later, Effects, TypeOK, MachineTypeOK, Reasons
  <1>13. TypeOK'
    <2>1. product' \in Products
      BY <1>1, <1>7 DEF Effects
    <2>2. queue' \in Seq(Signals)
      BY <1>10
    <2> QED BY <1>1, <1>11, <1>12, <2>1, <2>2 DEF TypeOK, MachineTypeOK, Reasons
  <1>14. CascadeInv'
    <2>1. Ended'
      BY <1>1, <1>5, <1>10, EndsUncompleted DEF Deactivates
    <2>2. Status0' = Status0 /\ Periods0' = Periods0
      BY <1>1 DEF Status0, Periods0
    <2> QED BY <1>1, <2>1, <2>2 DEF CascadeInv, Phase
  <1> QED BY <1>1, <1>2, <1>5, <1>9, <1>10, <1>11, <1>13, <1>14 DEF Periods

\* Every step of PIDates keeps what PILifecycle's steps keep.
LEMMA DatedCascade == CascadeInv /\ TypeOK /\ [DatedNext]_datedVars => CascadeInv' /\ TypeOK'
  <1> SUFFICES ASSUME CascadeInv, TypeOK, [DatedNext]_datedVars PROVE CascadeInv' /\ TypeOK'
    OBVIOUS
  <1>1. ASSUME [Next]_vars PROVE CascadeInv' /\ TypeOK'
    BY <1>1, CascadeNext, NextType
  <1>2. CASE Tick
    BY <1>1, <1>2 DEF Tick
  <1>3. CASE \E e \in Events : \E next \in NextPricesFor(e) : DatedSend(e, next)
    BY <1>1, <1>3 DEF DatedSend, Next, CallerStep
  <1>4. CASE DatedPriceStep \/ DatedUsageStep \/ DatedPaymentStep
    BY <1>1, <1>4, DatedKinds DEF Next
  <1>5. CASE UndatedPriceStep
    BY <1>5, UndatedEnds
  <1>6. CASE UndatedSteps
    BY <1>1, <1>6 DEF UndatedSteps, Next, MachineStep
  <1>7. CASE DatedAnswer
    BY <1>1, <1>7 DEF DatedAnswer, Next
  <1>8. CASE UNCHANGED datedVars
    BY <1>1, <1>8 DEF datedVars
  <1> QED BY <1>2, <1>3, <1>4, <1>5, <1>6, <1>7, <1>8 DEF DatedNext

-----------------------------------------------------------------------------
(* What the handlers do to the dates. *)

LEMMA ClockInRange == 0 .. MaxClock \subseteq 0 .. MaxDate
  BY DatesAssumption

LEMMA NowInRange ==
  ASSUME clock \in 0 .. MaxClock
  PROVE  /\ TermNow \in 0 .. MaxDate
         /\ \A cause, end : end \in 0 .. MaxDate => TermDate(cause, end) \in 0 .. MaxDate
         /\ clock \in Int /\ clock + SuspendTime \in Int /\ clock + WaitingTime \in Int
  BY DatesAssumption DEF TermNow, TermDate

\* A date that is not negative is as it was put into the int.
LEMMA ToIntHolds ==
  ASSUME NEW date \in Nat
  PROVE  /\ ToInt(date) \in Int
         /\ ~(ToInt(date) < 0) => ToInt(date) = date /\ date <= MaxDate
  BY DatesAssumption DEF ToInt

\* The leaves whose handlers leave the dates of the product alone, and the tasks for the end
\* of a period and for the disconnection.
MovesEndDate == {"commercial", "trial", "notPaid", "pendingDisconnect", "paymentStopping"}

Dates == [start : 0 .. MaxDate, end : 0 .. MaxDate, wakeAt : [TimerEvents -> Int]]

LEMMA WakesAtType ==
  ASSUME NEW d \in Dates, NEW e, NEW date \in Int
  PROVE  /\ WakesAt(d, e, date) \in Dates
         /\ WakesAt(d, e, date).start = d.start /\ WakesAt(d, e, date).end = d.end
         /\ e \in TimerEvents => WakesAt(d, e, date).wakeAt[e] = date
         /\ \A x \in TimerEvents \ {e} : WakesAt(d, e, date).wakeAt[x] = d.wakeAt[x]
  BY DEF WakesAt, Dates

LEMMA ExitDates ==
  ASSUME NEW s, NEW d \in Dates
  PROVE  /\ DateOnExit(s, d) \in Dates
         /\ DateOnExit(s, d).end = d.end /\ DateOnExit(s, d).wakeAt = d.wakeAt
         /\ DateOnExit(s, d).start = IF s = "priceNotChanged" THEN d.end ELSE d.start
  BY DEF DateOnExit, Dates

LEMMA QuietDates ==
  ASSUME NEW to, to \notin MovesEndDate, NEW e, NEW p, NEW d \in Dates, clock \in 0 .. MaxClock
  PROVE  LET x == DateOnEntry(to, e, p, d) IN
         /\ x \in Dates /\ x.start = d.start /\ x.end = d.end
         /\ \A w \in Watched : x.wakeAt[w] = d.wakeAt[w]
  <1>1. /\ Watched \subseteq TimerEvents /\ Watched \cap {"change_price", "suspend_ended", "waiting_pay_ended"} = {}
        /\ clock \in Int /\ clock + SuspendTime \in Int /\ clock + WaitingTime \in Int
    BY NowInRange DEF Watched, Timed, TimerEvents
  <1>2. \/ DateOnEntry(to, e, p, d) = d
        \/ DateOnEntry(to, e, p, d) = WakesAt(d, "change_price", clock)
        \/ DateOnEntry(to, e, p, d) = WakesAt(d, "suspend_ended", clock + SuspendTime)
        \/ DateOnEntry(to, e, p, d) = WakesAt(d, "waiting_pay_ended", clock + WaitingTime)
    BY DEF DateOnEntry, MovesEndDate
  <1> QED BY <1>1, <1>2, WakesAtType

LEMMA PeriodStartsDates ==
  ASSUME NEW timer \in Timed, NEW d \in Dates, ~(TargetStateEol(d) < 0)
  PROVE  LET x == PeriodStarts(timer, d) IN
         /\ x \in Dates /\ x.start = d.start /\ x.end = d.start + Length
         /\ x.wakeAt[timer] = x.end - EndedBefore
  <1>1. d.start + Length \in Nat /\ EndedBefore \in Int
    BY DatesAssumption DEF Dates
  <1>2. TargetStateEol(d) = d.start + Length /\ d.start + Length <= MaxDate
    BY <1>1, ToIntHolds DEF TargetStateEol
  <1>3. TargetStateEol(d) - EndedBefore \in Int /\ TargetStateEol(d) \in 0 .. MaxDate
    BY <1>1, <1>2, DatesAssumption
  <1> DEFINE w == WakesAt(d, timer, TargetStateEol(d) - EndedBefore)
  <1>4. w \in Dates /\ w.start = d.start /\ w.wakeAt[timer] = TargetStateEol(d) - EndedBefore
    BY <1>3, WakesAtType DEF Timed, TimerEvents
  <1>5. PeriodStarts(timer, d) = [w EXCEPT !.end = TargetStateEol(d)]
    BY DEF PeriodStarts
  <1> HIDE DEF w
  <1> QED BY <1>2, <1>3, <1>4, <1>5 DEF Dates

LEMMA DisconnectsDates ==
  ASSUME NEW end \in 0 .. MaxDate, NEW d \in Dates
  PROVE  LET x == Disconnects(end, d) IN
         /\ x \in Dates /\ x.start = d.start /\ x.end = end /\ x.wakeAt["disconnect"] = end
  <1>1. end \in Int
    OBVIOUS
  <1> DEFINE w == WakesAt(d, "disconnect", end)
  <1>2. w \in Dates /\ w.start = d.start /\ w.wakeAt["disconnect"] = end
    BY <1>1, WakesAtType DEF TimerEvents
  <1>3. Disconnects(end, d) = [w EXCEPT !.end = end]
    BY DEF Disconnects
  <1> HIDE DEF w
  <1> QED BY <1>2, <1>3 DEF Dates

\* What each handler that does moves the end date to.
LEMMA MovedDates ==
  ASSUME NEW e, NEW p, NEW d \in Dates, DatesOK
  PROVE  /\ DateOnEntry("notPaid", e, p, d) = [d EXCEPT !.end = eventDate]
         /\ DateOnEntry("pendingDisconnect", e, p, d) = Disconnects(TermDate("deactivation_started", d.end), d)
         /\ e.value # "deactivation_started" =>
              DateOnEntry("paymentStopping", e, p, d) \in {d, [d EXCEPT !.end = TermNow]}
         /\ HasPeriodType(p) =>
              /\ DateOnEntry("commercial", e, p, d) = PeriodStarts("commercial_ended", d)
              /\ DateOnEntry("trial", e, p, d) = PeriodStarts("trial_ended", d)
         /\ ~HasPeriodType(p) =>
              DateOnEntry("commercial", e, p, d) = d /\ DateOnEntry("trial", e, p, d) = d
  BY DEF DateOnEntry, TermDate

-----------------------------------------------------------------------------
(* What the handlers of a step do to the tasks. *)

\* No handler creates a task or charges a period when its state is left.
LEMMA ExitCreatesNothing ==
  ASSUME NEW s, NEW e, NEW p \in Products, NEW next
  PROVE  /\ OnExit(s, e, p, next).create = <<>>
         /\ OnExit(s, e, p, next).product.tarificationPeriod = p.tarificationPeriod
  <1> USE DEF OnExit, Nothing, Emits, Fails
  <1>1. CASE s = "suspended"
    BY <1>1 DEF SuspendedOnExit
  <1>2. CASE s = "priceChanged"
    BY <1>2 DEF PriceChangedOnExit, Products
  <1>3. CASE s = "waitingPayment"
    BY <1>3 DEF WaitingPaymentOnExit
  <1>4. CASE s = "notPaid"
    BY <1>4 DEF NotPaidOnExit
  <1>5. CASE s \notin {"suspended", "priceChanged", "waitingPayment", "notPaid"}
    BY <1>5
  <1> QED BY <1>1, <1>2, <1>3, <1>4, <1>5

LEMMA Creations ==
  ASSUME TypeOK, queue # <<>>, NEW from, NEW to, Does(from, to)
  PROVE  /\ ToSet(tasks') = ToSet(tasks) \cup ToSet(Entry(from, to).create)
         /\ completed => completed'
         /\ Entry(from, to).completed => completed'
         /\ Exit(from) \in Effects /\ Exit(from).product.tarificationPeriod = Periods
         /\ product' = Entry(from, to).product
  <1>1. Head(queue) \in Signals
    BY HeadTailProperties DEF TypeOK, MachineTypeOK
  <1>2. Exit(from) \in Effects
    BY <1>1, ExitType DEF TypeOK, MachineTypeOK, Exit
  <1>3. Entry(from, to) \in Effects
    <2>1. Exit(from).product \in Products
      BY <1>2 DEF Effects
    <2> QED BY <1>1, <2>1, EntryType DEF Entry
  <1>4. Exit(from).create = <<>> /\ Exit(from).product.tarificationPeriod = Periods
    BY ExitCreatesNothing DEF TypeOK, MachineTypeOK, Exit, Periods
  <1> DEFINE made == Entry(from, to).create
  <1>5. made \in Seq(Tasks) /\ tasks \in Seq(Tasks)
    BY <1>3 DEF Effects, TypeOK, MachineTypeOK
  <1>6. tasks' = tasks \o <<>> \o made
    BY <1>4 DEF Does
  <1> HIDE DEF made
  <1>7. tasks \o <<>> = tasks
    BY <1>5, ConcatEmptySeq
  <1>8. ToSet(tasks') = ToSet(tasks) \cup ToSet(made)
    BY <1>5, <1>6, <1>7, SetOfConcat
  <1> QED BY <1>2, <1>4, <1>8 DEF Does, made

QuietTargets ==
  {"priceOff", "priceFinal", "priceChanging", "priceChanged", "priceNotChanged",
   "disconnection", "disconnected", "usageFinal", "active", "activeTrial", "suspended",
   "prolongation", "resuming", "suspending",
   "paymentStopped", "paymentFinal", "waitingPayment", "paid"}

LEMMA QuietEntries ==
  ASSUME NEW e, NEW p, NEW to \in QuietTargets
  PROVE  /\ OnEntry(to, e, p).product = p
         /\ ToSet(OnEntry(to, e, p).create) \cap Watched = {}
  <1> DEFINE x == OnEntry(to, e, p)
  <1>1. CASE to \in {"priceOff", "priceFinal", "priceChanging", "priceChanged", "priceNotChanged"}
    <2>1. x.product = p /\ x.create \in {<<>>, <<"change_price">>, <<"CHANGE_PRICE">>}
      BY <1>1
         DEF OnEntry, PriceOffOnEntry, PriceChangingOnEntry, PriceChangedOnEntry, PriceNotChangedOnEntry,
         Emits, CreatesAndCompletes, Nothing
    <2> QED BY <2>1, SetsOfTuples DEF Watched, Timed
  <1>2. CASE to \in {"disconnection", "disconnected", "usageFinal", "active", "activeTrial", "suspended",
                     "prolongation", "resuming", "suspending"}
    <2>1. CASE to = "prolongation"
      <3>1. x.product = p /\ x.create \in {<<>>, <<"ACTIVATE">>}
        BY <2>1 DEF OnEntry, ProlongationOnEntry, Emits, CreatesAndCompletes, Nothing
      <3> QED BY <3>1, SetsOfTuples DEF Watched, Timed
    <2>2. CASE to \in {"disconnection", "suspended"}
      <3>1. x.product = p /\ x.create \in {<<"DISCONNECT">>, <<"suspend_ended">>}
        BY <2>2 DEF OnEntry, DisconnectionOnEntry, SuspendedOnEntry, CreatesAndCompletes, Nothing
      <3> QED BY <3>1, SetsOfTuples DEF Watched, Timed
    <2>3. CASE to \in {"resuming", "suspending"}
      <3>1. x.product = p /\ x.create \in {<<"RESUME">>, <<"SUSPEND">>}
        BY <2>3 DEF OnEntry, ResumingOnEntry, SuspendingOnEntry, CreatesAndCompletes, Nothing
      <3> QED BY <3>1, SetsOfTuples DEF Watched, Timed
    <2>4. CASE to \in {"disconnected", "usageFinal", "active", "activeTrial"}
      <3>1. x.product = p /\ x.create = <<>>
        BY <2>4 DEF OnEntry, Nothing
      <3> QED BY <3>1, SetsOfTuples DEF Watched, Timed
    <2> QED BY <1>2, <2>1, <2>2, <2>3, <2>4
  <1>3. CASE to \in {"paymentStopped", "paymentFinal", "waitingPayment", "paid"}
    <2>1. x.product = p /\ x.create \in {<<>>, <<"waiting_pay_ended">>}
      BY <1>3
         DEF OnEntry, PaymentStoppedOnEntry, WaitingPaymentOnEntry, PaidOnEntry, Emits, Nothing
    <2> QED BY <2>1, SetsOfTuples DEF Watched, Timed
  <1> QED BY <1>1, <1>2, <1>3 DEF QuietTargets

-----------------------------------------------------------------------------
(* The steps that leave the end date alone. *)

SameDates ==
  /\ dates'.end = dates.end
  /\ calling \notin Timed => dates'.start = dates.start
  /\ \A e \in Watched : dates'.wakeAt[e] = dates.wakeAt[e]
  /\ ToSet(tasks') \cap Watched = ToSet(tasks) \cap Watched
  /\ Periods' = Periods
  /\ completed => completed'
  /\ UNCHANGED <<calling, saved, clock, eventDate, calendar>>

LEMMA QuietStep ==
  ASSUME TypeOK, DatesOK, queue # <<>>, NEW from, NEW to \in QuietTargets,
         Does(from, to), RegionDates(from, to), from = "priceNotChanged" => calling \in Timed
  PROVE  SameDates /\ dates' \in Dates
  <1>1. /\ ToSet(tasks') = ToSet(tasks) \cup ToSet(Entry(from, to).create)
        /\ completed => completed'
        /\ Exit(from).product.tarificationPeriod = Periods
        /\ product' = Entry(from, to).product
    BY Creations
  <1>2. /\ Entry(from, to).product = Exit(from).product
        /\ ToSet(Entry(from, to).create) \cap Watched = {}
    BY QuietEntries DEF Entry
  <1>3. dates \in Dates /\ clock \in 0 .. MaxClock /\ to \notin MovesEndDate
    BY DEF DatesOK, Dates, QuietTargets, MovesEndDate
  <1>4. /\ DateOnExit(from, dates) \in Dates
        /\ DateOnExit(from, dates).end = dates.end /\ DateOnExit(from, dates).wakeAt = dates.wakeAt
        /\ from # "priceNotChanged" => DateOnExit(from, dates).start = dates.start
    BY <1>3, ExitDates
  <1>5. /\ dates' \in Dates
        /\ dates'.end = dates.end
        /\ from # "priceNotChanged" => dates'.start = dates.start
        /\ \A w \in Watched : dates'.wakeAt[w] = dates.wakeAt[w]
    BY <1>3, <1>4, QuietDates DEF RegionDates
  <1>6. UNCHANGED <<calling, saved, clock, eventDate, calendar>>
    BY DEF Does, RegionDates
  <1> QED BY <1>1, <1>2, <1>5, <1>6 DEF SameDates, Periods

LEMMA SameDatesKeep ==
  ASSUME DatesInv, calling # Idle, SameDates,
         conf'.payment = conf.payment \/ dates.end = calendar.end \/ Periods > Periods0,
         calling = "deactivation_started" /\ ~Deactivates => queue' = <<>> /\ ~completed'
  PROVE  InCall'
  <1>1. InCall
    BY DEF DatesInv
  <1>2. /\ Periods0' = Periods0 /\ Periods' = Periods /\ PeriodStart' = PeriodStart /\ TermNow' = TermNow
        /\ Deactivates' = Deactivates
    BY DEF SameDates, Periods0, PeriodStart, TermNow, Deactivates, Payment0
  <1>3. TermDate("deactivation_started", calendar.end)' = TermDate("deactivation_started", calendar.end)
    BY <1>2 DEF SameDates, TermDate, StatusLoaded
  <1>4. Timed \subseteq Watched /\ "disconnect" \in Watched
    BY DEF Watched
  <1>5. /\ ToSet(tasks') \cap Timed = ToSet(tasks) \cap Timed
        /\ "disconnect" \in ToSet(tasks') <=> "disconnect" \in ToSet(tasks)
    BY <1>4 DEF SameDates
  <1>6. StartKept' /\ NotMoved'
    BY <1>1, <1>2 DEF InCall, StartKept, NotMoved, SameDates
  <1>7. EndMoved'
    BY <1>1, <1>2, <1>5 DEF InCall, EndMoved, SameDates
  <1>8. Scheduled'
    BY <1>1, <1>4, <1>5 DEF InCall, Scheduled, SameDates
  <1>9. Deactivating'
    BY <1>1, <1>2, <1>3 DEF InCall, Deactivating, SameDates
  <1>10. ClosedKept'
    BY <1>1 DEF InCall, ClosedKept, SameDates
  <1> QED BY <1>6, <1>7, <1>8, <1>9, <1>10 DEF InCall

\* A deactivation of a product whose payments have ended, or that is not in service, is
\* forgotten.
LEMMA NothingToDeactivate ==
  ASSUME CascadeInv, TypeOK, Deactivating, calling = "deactivation_started", ~Deactivates, MachineStep
  PROVE  queue' = <<>> /\ ~completed' /\ Drop
  <1>1. queue # <<>>
    BY StepKinds
  <1>2. Loaded /\ ~completed
    BY <1>1 DEF Deactivating
  <1>3. /\ Head(queue) = Sig("machine", "deactivation_started") /\ Tail(queue) = <<>>
        /\ conf = saved.conf
    BY <1>2, LoadedStart
  <1>4. ~ \E to : PriceMoved(to) \/ UsageMoved(to)
    BY <1>3 DEF PriceMoved, PriceMove, UsageMoved, UsageMove, Heard, Sig
  <1>5. ~ \E to : PaymentMoved(to)
    BY <1>3 DEF PaymentMoved, PaymentMove, Heard, Sig, Deactivates, Payment0
  <1>6. ~ProvisionStep /\ ~LeaveStep
    <2>1. \A t \in TopTransitions : ~(t.sender = "machine" /\ t.value = "deactivation_started")
      BY DEF TopTransitions, T, On, From
    <2>2. ~ \E t \in TopTransitions : EventTest(t)
      BY <1>3, <2>1 DEF EventTest, Triggered, Sig
    <2> QED BY <2>2 DEF ProvisionStep, LeaveStep
  <1>7. Drop
    BY <1>4, <1>5, <1>6, StepKinds
  <1> QED BY <1>2, <1>3, <1>7 DEF Drop

-----------------------------------------------------------------------------
(* The steps that move it. *)

\* A period starts.
LEMMA PeriodDates ==
  ASSUME DatesInv, calling # Idle, queue # <<>>, NEW to \in {"commercial", "trial"}, PriceMoved(to),
         RegionDates(conf.price, to), Holds(to)
  PROVE  InCall' /\ dates' \in Dates
  <1> DEFINE from  == conf.price
             p     == Exit(from).product
             timer == IF to = "commercial" THEN "commercial_ended" ELSE "trial_ended"
             d     == DateOnExit(from, dates)
  <1>0. TypeOK /\ CascadeInv /\ InCall /\ dates \in Dates
    BY DEF DatesInv, DatesOK, Dates
  <1>1. Does(from, to) /\ PriceMove(from, to) /\ conf'.payment = conf.payment
    BY <1>0 DEF PriceMoved, TypeOK, MachineTypeOK, WellFormed, Configurations
  <1>2. /\ ~completed /\ Periods = Periods0 /\ ToSet(tasks) \cap Watched = {}
        /\ ~UsageClosed(saved.conf) /\ calling # "deactivation_started"
        /\ calling \in Timed <=> from = "priceNotChanged"
    BY <1>0, <1>1, AtPeriodStart
  <1>3. /\ ToSet(tasks') = ToSet(tasks) \cup ToSet(Entry(from, to).create)
        /\ Exit(from) \in Effects /\ p.tarificationPeriod = Periods
        /\ product' = Entry(from, to).product
    BY <1>0, <1>1, Creations
  <1>4. p \in Products /\ Entry(from, to) = OnEntry(to, Head(queue), p)
    BY <1>3 DEF Effects, Entry
  <1>5. dates.end = calendar.end /\ (calling \notin Timed => dates.start = eventDate)
    BY <1>0, <1>2 DEF InCall, StartKept, NotMoved
  <1>6. d \in Dates /\ d.start = PeriodStart /\ d.end = dates.end /\ d.wakeAt = dates.wakeAt
    BY <1>0, <1>2, <1>5, ExitDates DEF PeriodStart
  <1>7. UNCHANGED <<calling, saved, clock, eventDate, calendar>>
    BY <1>1 DEF Does, RegionDates
  <1>8. Periods \in Int /\ Periods0' = Periods0 /\ PeriodStart' = PeriodStart
    BY <1>0, <1>7 DEF TypeOK, MachineTypeOK, Products, Periods, Periods0, PeriodStart
  <1>9. CASE HasPeriodType(p)
    <2>1. Entry(from, to).product = IncreasePeriods(p) /\ Entry(from, to).create = <<timer>>
      <3> HIDE DEF p
      <3> QED BY <1>4, <1>9 DEF OnEntry, CommercialOnEntry, TrialOnEntry, Nothing
    <2>2. HasPeriodType(product') /\ Periods' = Periods0 + 1
      BY <1>2, <1>3, <1>4, <1>9, <2>1, ChargedProduct DEF Periods
    <2>3. dates' = PeriodStarts(timer, d)
      <3>1. dates' = DateOnEntry(to, Head(queue), product', d)
        BY DEF RegionDates
      <3>2. DatesOK
        BY DEF DatesInv
      <3> HIDE DEF d
      <3> QED BY <1>6, <2>2, <3>1, <3>2, MovedDates
    <2>4. ~(TargetStateEol(d) < 0)
      BY <1>9 DEF Holds
    <2>5. timer \in Timed
      BY DEF Timed
    <2>6. ToSet(tasks') \cap Watched = {timer}
      BY <1>2, <1>3, <2>1, <2>5, SetsOfTuples DEF Watched
    <2> HIDE DEF d, timer, p
    <2>7. /\ dates' \in Dates /\ dates'.end = PeriodStart + Length
          /\ dates'.wakeAt[timer] = dates'.end - EndedBefore /\ dates'.start = d.start
      BY <1>6, <2>3, <2>4, <2>5, PeriodStartsDates
    <2>8. Periods0 \in Int /\ Periods' > Periods0' /\ Periods' # Periods0'
      BY <1>2, <1>8, <2>2
    <2>9. /\ ToSet(tasks') \cap Timed = {timer} /\ "disconnect" \notin ToSet(tasks')
      BY <2>5, <2>6 DEF Watched, Timed
    <2>10. StartKept'
      BY <1>6, <1>7, <2>7 DEF StartKept, PeriodStart
    <2>11. EndMoved' /\ NotMoved'
      BY <1>8, <2>7, <2>8, <2>9 DEF EndMoved, NotMoved
    <2>12. Scheduled'
      BY <2>7, <2>9 DEF Scheduled
    <2>13. Deactivating' /\ ClosedKept'
      BY <1>2, <1>7 DEF Deactivating, ClosedKept
    <2> QED BY <2>7, <2>10, <2>11, <2>12, <2>13 DEF InCall
  <1>10. CASE ~HasPeriodType(p)
    <2>1. Entry(from, to).product = p /\ Entry(from, to).create = <<>>
      <3> HIDE DEF p
      <3> QED BY <1>4, <1>10 DEF OnEntry, CommercialOnEntry, TrialOnEntry, Fails, Nothing
    <2>2. dates' = d
      <3>1. dates' = DateOnEntry(to, Head(queue), product', d) /\ product' = p
        BY <1>3, <2>1 DEF RegionDates
      <3>2. DatesOK
        BY DEF DatesInv
      <3> HIDE DEF d, p
      <3> QED BY <1>6, <1>10, <3>1, <3>2, MovedDates
    <2>3. SameDates
      BY <1>2, <1>3, <1>5, <1>6, <1>7, <2>1, <2>2, SetsOfTuples DEF SameDates, Periods, PeriodStart
    <2> QED BY <1>1, <1>2, <1>6, <2>2, <2>3, SameDatesKeep
  <1> QED BY <1>9, <1>10

LEMMA PriceDates ==
  ASSUME DatesInv, calling # Idle, MachineStep, NEW to, PriceMoved(to),
         RegionDates(conf.price, to), Holds(to)
  PROVE  InCall' /\ dates' \in Dates
  <1>0. CascadeInv /\ TypeOK /\ DatesOK /\ InCall /\ Phase
    BY DEF DatesInv, CascadeInv
  <1>1. queue # <<>>
    BY <1>0, StepKinds
  <1>2. PriceMove(conf.price, to) /\ Does(conf.price, to) /\ conf'.payment = conf.payment
    BY <1>0 DEF PriceMoved, TypeOK, MachineTypeOK, WellFormed, Configurations
  <1>3. CASE to \in {"commercial", "trial"}
    BY <1>1, <1>3, PeriodDates
  <1>4. CASE to \notin {"commercial", "trial"}
    <2>1. to \in QuietTargets
      BY <1>2, <1>4 DEF PriceMove, QuietTargets
    <2>2. conf.price # "priceNotChanged"
      <3>1. SUFFICES ASSUME Heard("paymentStopped", "off_price") PROVE conf.price # "priceNotChanged"
        BY <1>2, <1>4 DEF PriceMove
      <3>2. Stopped
        BY <1>0, <1>1, <3>1, PhaseOfHead
      <3>3. saved.conf.top = "productProvision" /\ conf.price = Price0
        BY <3>2 DEF Stopped, At, In
      <3> QED BY <1>0, <3>3, Before DEF RestsIn
    <2>3. SameDates /\ dates' \in Dates
      BY <1>0, <1>1, <1>2, <2>1, <2>2, QuietStep
    <2>4. calling = "deactivation_started" /\ ~Deactivates => queue' = <<>> /\ ~completed'
      BY <1>0, NothingToDeactivate DEF InCall
    <2> QED BY <1>2, <2>3, <2>4, SameDatesKeep
  <1> QED BY <1>3, <1>4

LEMMA UsageDates ==
  ASSUME DatesInv, calling # Idle, MachineStep, NEW to, UsageMoved(to), RegionDates(conf.usage, to)
  PROVE  InCall' /\ dates' \in Dates
  <1>0. CascadeInv /\ TypeOK /\ DatesOK /\ InCall /\ Phase /\ dates \in Dates
    BY DEF DatesInv, CascadeInv, DatesOK, Dates
  <1>1. queue # <<>>
    BY <1>0, StepKinds
  <1>2. UsageMove(conf.usage, to) /\ Does(conf.usage, to) /\ conf'.payment = conf.payment
        /\ conf.usage # "priceNotChanged"
    BY <1>0 DEF UsageMoved, UsageMove, UsageOn, Activated, TypeOK, MachineTypeOK, WellFormed, Configurations
  <1>3. CASE to # "pendingDisconnect"
    <2>1. to \in QuietTargets
      BY <1>2, <1>3 DEF UsageMove, QuietTargets
    <2>2. SameDates /\ dates' \in Dates
      BY <1>0, <1>1, <1>2, <2>1, QuietStep
    <2>3. calling = "deactivation_started" /\ ~Deactivates => queue' = <<>> /\ ~completed'
      BY <1>0, NothingToDeactivate DEF InCall
    <2> QED BY <1>2, <2>2, <2>3, SameDatesKeep
  <1>4. CASE to = "pendingDisconnect"
    <2>1. PaymentEnded
      BY <1>0, <1>1, <1>2, <1>4, PhaseOfHead DEF UsageMove, Heard
    <2>2. /\ Deactivates /\ ~completed /\ Periods = Periods0 /\ tasks = <<>>
          /\ conf.payment = "paymentFinal" /\ saved.conf.top = "productProvision"
      BY <2>1 DEF PaymentEnded, At, In, Periods
    <2>3. /\ calling = "deactivation_started" /\ calling \notin Timed
          /\ Payment0 # "paymentFinal"
      BY <2>2 DEF Deactivates, PaymentOn, Timed
    <2>4. ~UsageClosed(saved.conf)
      BY <1>0, <2>3 DEF CascadeInv, Rests, Payment0
    <2>5. UNCHANGED <<calling, saved, clock, eventDate, calendar>>
      BY <1>2 DEF Does, RegionDates
    <2>6. Entry(conf.usage, to).product = Exit(conf.usage).product
          /\ Entry(conf.usage, to).create = <<"disconnect">> /\ Entry(conf.usage, to).completed
      BY <1>4 DEF Entry, OnEntry, PendingDisconnectOnEntry, CreatesAndCompletes, Nothing
    <2>7. ToSet(tasks') = {"disconnect"} /\ completed' /\ Periods' = Periods
      <3>1. /\ ToSet(tasks') = ToSet(tasks) \cup ToSet(Entry(conf.usage, to).create)
            /\ Entry(conf.usage, to).completed => completed'
            /\ Exit(conf.usage).product.tarificationPeriod = Periods
            /\ product' = Entry(conf.usage, to).product
        BY <1>0, <1>1, <1>2, Creations
      <3>2. ToSet(tasks) = {} /\ ToSet(<<"disconnect">>) = {"disconnect"}
        BY <2>2, SetsOfTuples
      <3> QED BY <2>6, <3>1, <3>2 DEF Periods
    <2> DEFINE end == TermDate("deactivation_started", calendar.end)
    <2>8. end \in 0 .. MaxDate
      BY <1>0, NowInRange DEF DatesOK
    <2>9. DateOnExit(conf.usage, dates) = dates /\ dates.end = calendar.end
      BY <1>0, <1>2, <2>2 DEF DateOnExit, InCall, NotMoved
    <2>10. dates' = Disconnects(end, dates)
      BY <1>0, <1>4, <2>9, MovedDates DEF RegionDates
    <2>11. /\ dates' \in Dates /\ dates'.start = dates.start /\ dates'.end = end
           /\ dates'.wakeAt["disconnect"] = end
      <3> HIDE DEF end
      <3> QED BY <1>0, <2>8, <2>10, DisconnectsDates
    <2>12. end' = end /\ TermNow' = TermNow /\ Periods0' = Periods0 /\ Deactivates' = Deactivates
           /\ end \in {TermNow, calendar.end}
      BY <2>5 DEF TermDate, TermNow, StatusLoaded, Periods0, Deactivates, Payment0
    <2>13. StartKept' /\ NotMoved'
      BY <1>0, <2>5, <2>7, <2>11 DEF InCall, StartKept, NotMoved
    <2>14. EndMoved'
      <3>1. Periods0 \in Int
        BY <1>0 DEF TypeOK, MachineTypeOK, Products, SavedProducts, Periods0
      <3>2. conf'.payment \notin PaymentOn
        BY <1>2, <2>2 DEF PaymentOn
      <3> HIDE DEF end
      <3> QED BY <2>2, <2>5, <2>7, <2>11, <2>12, <3>1, <3>2 DEF EndMoved
    <2>15. Scheduled' /\ Deactivating' /\ ClosedKept'
      BY <2>2, <2>4, <2>5, <2>7, <2>11, <2>12 DEF Scheduled, Deactivating, ClosedKept, Timed
    <2> QED BY <2>11, <2>13, <2>14, <2>15 DEF InCall
  <1> QED BY <1>3, <1>4

LEMMA PaymentDates ==
  ASSUME DatesInv, calling # Idle, MachineStep, NEW to, PaymentMoved(to),
         RegionDates(conf.payment, to)
  PROVE  InCall' /\ dates' \in Dates
  <1>0. CascadeInv /\ TypeOK /\ DatesOK /\ InCall /\ Phase /\ dates \in Dates
    BY DEF DatesInv, CascadeInv, DatesOK, Dates
  <1>1. queue # <<>>
    BY <1>0, StepKinds
  <1>2. PaymentMove(conf.payment, to) /\ Does(conf.payment, to) /\ conf'.payment = to
        /\ conf.payment # "priceNotChanged"
    BY <1>0 DEF PaymentMoved, PaymentMove, PaymentOn, TypeOK, MachineTypeOK, WellFormed, Configurations
  <1>3. Head(queue).sender = "machine" =>
          /\ Head(queue).value = calling /\ tasks = <<>> /\ ~completed /\ Periods = Periods0
          /\ conf.payment = Payment0 /\ dates.end = calendar.end
    <2>1. SUFFICES ASSUME Loaded PROVE
            /\ Head(queue).value = calling /\ tasks = <<>> /\ ~completed /\ Periods = Periods0
            /\ conf.payment = Payment0 /\ dates.end = calendar.end
      BY <1>0, <1>1, PhaseOfHead
    <2> QED BY <1>0, <2>1, LoadedStart DEF Sig, Payment0, Periods, InCall, NotMoved
  <1>4. Periods0 \in Int
    BY <1>0 DEF TypeOK, MachineTypeOK, Products, SavedProducts, Periods0
  <1>5. DateOnExit(conf.payment, dates) = dates
    BY <1>2 DEF DateOnExit
  <1>6. UNCHANGED <<calling, saved, clock, eventDate, calendar>>
    BY <1>2 DEF Does, RegionDates
  <1>7. Periods0' = Periods0 /\ TermNow' = TermNow
    BY <1>6 DEF Periods0, TermNow
  <1>8. CASE to \in {"paymentStopped", "paymentFinal", "waitingPayment", "paid"}
    <2>1. SameDates /\ dates' \in Dates
      BY <1>0, <1>1, <1>2, <1>8, QuietStep DEF QuietTargets
    <2>2. dates.end = calendar.end \/ Periods > Periods0
      <3>1. CASE Heard("paymentStopped", "stop_pay")
        BY <1>0, <1>1, <3>1, PhaseOfHead DEF PriceStopped, At, Periods, InCall, NotMoved
      <3>2. CASE Heard("commercial", "activation_completed") \/ Heard("trial", "trial_activation_completed")
        BY <1>0, <1>1, <1>4, <3>2, PhaseOfHead DEF Sold, SoldTrial, Activating, Periods
      <3>3. CASE Heard("commercial", "wait_payment")
        BY <1>0, <1>1, <1>4, <3>3, PhaseOfHead DEF Charged, At, Periods
      <3>4. ~(Head(queue).sender \in {"priceChanged", "priceNotChanged"} /\ Head(queue).value = "prolong")
        <4>1. CASE Head(queue).sender = "priceNotChanged"
          <5>1. NotChanged
            BY <1>0, <1>1, <4>1, PhaseOfHead
          <5> QED BY <5>1, HeadsAndTails DEF NotChanged, At, Sig
        <4> QED BY <1>0, <1>1, <4>1, PhaseOfHead
      <3> QED BY <1>2, <1>3, <3>1, <3>2, <3>3, <3>4 DEF PaymentMove, Heard
    <2>3. calling = "deactivation_started" /\ ~Deactivates => queue' = <<>> /\ ~completed'
      BY <1>0, NothingToDeactivate DEF InCall
    <2> QED BY <2>1, <2>2, <2>3, SameDatesKeep
  <1>9. CASE to = "notPaid"
    <2>1. /\ Head(queue).sender = "machine" /\ conf.payment = "waitingPayment"
          /\ Head(queue).value \in {"payment_failed", "waiting_pay_ended"}
      BY <1>2, <1>9 DEF PaymentMove, Heard
    <2>2. ~UsageClosed(saved.conf)
      BY <1>0, <1>3, <2>1 DEF CascadeInv, Rests, Payment0
    <2>3. calling # "deactivation_started" /\ ToSet(tasks) = {}
      BY <1>3, <2>1, SetsOfTuples
    <2>4. /\ ToSet(tasks') = ToSet(tasks) \cup ToSet(Entry(conf.payment, to).create)
          /\ Exit(conf.payment).product.tarificationPeriod = Periods
          /\ Exit(conf.payment) \in Effects
          /\ product' = Entry(conf.payment, to).product
      BY <1>0, <1>1, <1>2, Creations
    <2>5. /\ Entry(conf.payment, to).create = <<>>
          /\ Entry(conf.payment, to).product.tarificationPeriod = Periods - 1
      <3> DEFINE p == Exit(conf.payment).product
      <3>1. p \in Products /\ Entry(conf.payment, to) = OnEntry(to, Head(queue), p)
        BY <2>4 DEF Effects, Entry
      <3>2. p.tarificationPeriod = Periods
        BY <2>4
      <3> HIDE DEF p
      <3> QED BY <1>9, <3>1, <3>2 DEF OnEntry, NotPaidOnEntry, Nothing, Products
    <2>6. ToSet(tasks') = {} /\ Periods' = Periods0 - 1
      BY <1>3, <2>1, <2>3, <2>4, <2>5, SetsOfTuples DEF Periods
    <2>7. dates' = [dates EXCEPT !.end = eventDate]
      BY <1>0, <1>5, <1>9, MovedDates DEF RegionDates
    <2>8. dates' \in Dates /\ dates'.end = eventDate /\ dates'.start = dates.start
      <3>1. eventDate \in 0 .. MaxDate
        BY <1>0, ClockInRange DEF DatesOK
      <3> QED BY <1>0, <2>7, <3>1 DEF Dates
    <2>9. ~(Periods' > Periods0') /\ Periods' # Periods0'
      BY <1>4, <1>7, <2>6
    <2>10. StartKept' /\ NotMoved'
      BY <1>0, <1>6, <2>8, <2>9 DEF InCall, StartKept, NotMoved
    <2>11. EndMoved'
      BY <1>2, <1>6, <1>9, <2>8, <2>9 DEF EndMoved
    <2>12. Scheduled' /\ Deactivating' /\ ClosedKept'
      BY <1>6, <2>2, <2>3, <2>6 DEF Scheduled, Deactivating, ClosedKept
    <2> QED BY <2>8, <2>10, <2>11, <2>12 DEF InCall
  <1>10. CASE to = "paymentStopping"
    <2>1. /\ Head(queue).sender = "machine" /\ conf.payment \in PaymentOn
          /\ Head(queue).value # "deactivation_started"
      BY <1>2, <1>10 DEF PaymentMove, Heard, PaymentOn
    <2>2. ~UsageClosed(saved.conf)
      BY <1>0, <1>3, <2>1 DEF CascadeInv, Rests, Payment0, PaymentOn
    <2>3. calling # "deactivation_started" /\ ToSet(tasks) = {}
      BY <1>3, <2>1, SetsOfTuples
    <2>4. /\ ToSet(tasks') = ToSet(tasks) \cup ToSet(Entry(conf.payment, to).create)
          /\ Exit(conf.payment).product.tarificationPeriod = Periods
          /\ Entry(conf.payment, to).completed => completed'
          /\ product' = Entry(conf.payment, to).product
      BY <1>0, <1>1, <1>2, Creations
    <2>5. /\ Entry(conf.payment, to).create = <<"DISCONNECT_EXTERNAL">>
          /\ Entry(conf.payment, to).product = Exit(conf.payment).product
          /\ Entry(conf.payment, to).completed
      BY <1>10 DEF Entry, OnEntry, PaymentStoppingOnEntry, CreatesAndCompletes, Nothing
    <2>6. ToSet(tasks') = {"DISCONNECT_EXTERNAL"} /\ Periods' = Periods0 /\ completed'
      BY <1>3, <2>1, <2>3, <2>4, <2>5, SetsOfTuples DEF Periods
    <2>7. dates' \in {dates, [dates EXCEPT !.end = TermNow]}
      BY <1>0, <1>5, <1>10, <2>1, MovedDates DEF RegionDates
    <2>8. dates' \in Dates /\ dates'.end \in {calendar.end, TermNow} /\ dates'.start = dates.start
      <3>1. TermNow \in 0 .. MaxDate
        BY <1>0, NowInRange DEF DatesOK
      <3> QED BY <1>0, <1>3, <2>1, <2>7, <3>1 DEF Dates
    <2>9. StartKept' /\ NotMoved'
      BY <1>0, <1>6, <2>6, <2>8 DEF InCall, StartKept, NotMoved
    <2>10. EndMoved'
      BY <1>2, <1>4, <1>6, <1>7, <1>10, <2>6, <2>8 DEF EndMoved, PaymentOn
    <2>11. Scheduled' /\ Deactivating' /\ ClosedKept'
      BY <1>6, <2>2, <2>3, <2>6 DEF Scheduled, Deactivating, ClosedKept, Timed
    <2> QED BY <2>8, <2>9, <2>10, <2>11 DEF InCall
  <1> QED BY <1>2, <1>8, <1>9, <1>10 DEF PaymentMove

\* A period that is not started, because its end is past the last date, moves no date.
LEMMA UndatedDates ==
  ASSUME DatesInv, UndatedPriceStep
  PROVE  calling # Idle /\ InCall' /\ dates' \in Dates
  <1>0. CascadeInv /\ TypeOK /\ dates \in Dates
    BY DEF DatesInv, DatesOK, Dates
  <1>1. /\ calling # Idle /\ ~completed /\ calling # "deactivation_started"
        /\ Periods' = Periods /\ conf'.payment = conf.payment
        /\ (conf.price = "priceNotChanged") => calling \in Timed
        /\ dates' = DateOnExit(conf.price, dates)
        /\ UNCHANGED <<tasks, calling, saved, clock, eventDate, calendar>>
    BY <1>0, UndatedEnds
  <1>2. SameDates /\ dates' \in Dates
    BY <1>0, <1>1, ExitDates DEF SameDates
  <1> QED BY <1>1, <1>2, SameDatesKeep

\* Nor does a step that enters or leaves productProvision, or forgets a signal.
LEMMA TopDates ==
  ASSUME DatesInv, UndatedSteps
  PROVE  calling # Idle /\ InCall' /\ dates' \in Dates
  <1>0. CascadeInv /\ TypeOK /\ InCall /\ dates \in Dates /\ MachineStep /\ UNCHANGED dateVars
        /\ calling # Idle /\ queue # <<>> /\ Phase
    <2>1. MachineStep /\ TypeOK /\ CascadeInv /\ UNCHANGED dateVars
      BY DEF UndatedSteps, MachineStep, DatesInv
    <2>2. calling # Idle /\ queue # <<>>
      BY <2>1, StepKinds
    <2> QED BY <2>1, <2>2 DEF DatesInv, DatesOK, Dates, CascadeInv
  <1>1. /\ UNCHANGED <<tasks, calling, saved>>
        /\ completed => completed'
        /\ Periods' = Periods
    <2>1. CASE ProvisionStep
      BY <2>1 DEF ProvisionStep, Periods
    <2>2. CASE LeaveStep
      BY <2>2 DEF LeaveStep, Periods
    <2>3. CASE Drop
      BY <2>3 DEF Drop, Periods
    <2> QED BY <2>1, <2>2, <2>3 DEF UndatedSteps
  <1>2. SameDates
    BY <1>0, <1>1 DEF SameDates, dateVars
  <1>3. conf'.payment = conf.payment \/ dates.end = calendar.end
    <2>1. CASE ProvisionStep
      <3>1. Loaded
        BY <1>0, <2>1, StepEntering
      <3> QED BY <1>0, <3>1, LoadedStart DEF InCall, NotMoved, Periods
    <2>2. CASE LeaveStep
      <3>1. PICK t \in TopTransitions : t.target \in {"aborted", "disconnect"} /\ EventTest(t)
        BY <2>2 DEF LeaveStep
      <3>2. CASE Head(queue).sender = "machine"
        <4>1. Loaded
          BY <1>0, <3>2, PhaseOfHead
        <4> QED BY <1>0, <4>1, LoadedStart DEF InCall, NotMoved, Periods
      <3>3. CASE Head(queue).sender = "productProvision"
        <4>1. Finishing
          BY <1>0, <3>3, PhaseOfHead
        <4> QED BY <1>0, <4>1 DEF Finishing, At, InCall, NotMoved, Periods
      <3> QED BY <1>0, <3>1, <3>2, <3>3, TopKinds DEF TypeOK, MachineTypeOK
    <2>3. CASE Drop
      BY <2>3 DEF Drop
    <2> QED BY <2>1, <2>2, <2>3 DEF UndatedSteps
  <1>4. calling = "deactivation_started" /\ ~Deactivates => queue' = <<>> /\ ~completed'
    BY <1>0, NothingToDeactivate DEF InCall
  <1>5. InCall'
    BY <1>0, <1>2, <1>3, <1>4, SameDatesKeep
  <1> QED BY <1>0, <1>5 DEF dateVars

\* A call starts with the dates of the product as stored and of the event.
LEMMA SendDates ==
  ASSUME DatesInv, NEW e \in Events, NEW next, DatedSend(e, next)
  PROVE  InCall' /\ DatesOK'
  <1>1. /\ calling' = e /\ product' = saved.product /\ tasks' = <<>> /\ ~completed' /\ saved' = saved
        /\ eventDate' \in 0 .. MaxClock /\ dates' = [NoDates EXCEPT !.start = eventDate', !.end = calendar.end]
        /\ UNCHANGED <<clock, calendar>>
    <2>1. PICK delay \in 0 .. MaxDelay : eventDate' = clock - delay /\ eventDate' \in Nat
      BY DEF DatedSend
    <2>2. eventDate' \in 0 .. MaxClock
      BY <2>1, DatesAssumption DEF DatesInv, DatesOK
    <2> QED BY <2>2 DEF DatedSend, Send, Call
  <1>2. Loaded'
    BY StatusLoadedAtRest DEF DatedSend, Send, Call, Loaded, Status0, Sig, DatesInv
  <1>3. /\ dates' \in Dates /\ dates'.start = eventDate' /\ dates'.end = calendar'.end
    <2>1. eventDate' \in 0 .. MaxDate /\ calendar.end \in 0 .. MaxDate
      BY <1>1, ClockInRange DEF DatesInv, DatesOK
    <2>2. NoDates.wakeAt \in [TimerEvents -> Int]
      BY DEF NoDates, NoWakeAt, NoDate
    <2> QED BY <1>1, <2>1, <2>2 DEF NoDates, Dates
  <1>4. Periods' = Periods0' /\ Periods0' \in Int /\ ToSet(tasks') = {}
    BY <1>1, SetsOfTuples DEF Periods, Periods0, DatesInv, TypeOK, MachineTypeOK, SavedProducts, Products
  <1>5. DatesOK'
    BY <1>1, <1>3 DEF DatesInv, DatesOK, Dates
  <1>6. StartKept' /\ NotMoved' /\ EndMoved'
    BY <1>3, <1>4 DEF StartKept, NotMoved, EndMoved
  <1>7. Scheduled' /\ Deactivating' /\ ClosedKept'
    BY <1>1, <1>2, <1>3, <1>4 DEF Scheduled, Deactivating, ClosedKept
  <1> QED BY <1>5, <1>6, <1>7 DEF InCall

\* Every step keeps the invariant.
LEMMA DatesNext == DatesInv /\ [DatedNext]_datedVars => DatesInv'
  <1> SUFFICES ASSUME DatesInv, [DatedNext]_datedVars PROVE DatesInv'
    OBVIOUS
  <1>1. CascadeInv' /\ TypeOK'
    BY DatedCascade DEF DatesInv
  <1>2. ASSUME dates' \in Dates, UNCHANGED <<clock, eventDate, calendar>> PROVE DatesOK'
    BY <1>2 DEF DatesInv, DatesOK, Dates
  <1>3. CASE Tick
    <2>1. calling = Idle /\ calling' = Idle
      BY <1>3 DEF Tick, vars
    <2>2. DatesOK'
      BY <1>3, DatesAssumption DEF Tick, DatesInv, DatesOK
    <2> QED BY <1>1, <2>1, <2>2 DEF DatesInv
  <1>4. CASE \E e \in Events : \E next \in NextPricesFor(e) : DatedSend(e, next)
    BY <1>1, <1>4, SendDates DEF DatesInv
  <1>5. CASE DatedPriceStep \/ DatedUsageStep \/ DatedPaymentStep
    <2>1. /\ MachineStep
          /\ \/ \E to : PriceMoved(to) /\ RegionDates(conf.price, to) /\ Holds(to)
             \/ \E to : UsageMoved(to) /\ RegionDates(conf.usage, to)
             \/ \E to : PaymentMoved(to) /\ RegionDates(conf.payment, to)
      BY <1>5, DatedKinds DEF DatesInv
    <2>2. calling # Idle
      BY <2>1, StepKinds DEF DatesInv
    <2>3. InCall' /\ dates' \in Dates
      BY <2>1, <2>2, PriceDates, UsageDates, PaymentDates
    <2>4. UNCHANGED <<clock, eventDate, calendar>>
      BY <2>1 DEF RegionDates
    <2> QED BY <1>1, <1>2, <2>3, <2>4 DEF DatesInv
  <1>6. CASE UndatedPriceStep
    <2>1. InCall' /\ dates' \in Dates
      BY <1>6, UndatedDates
    <2>2. UNCHANGED <<clock, eventDate, calendar>>
      BY <1>6 DEF UndatedPriceStep
    <2> QED BY <1>1, <1>2, <2>1, <2>2 DEF DatesInv
  <1>7. CASE UndatedSteps
    <2>1. InCall' /\ dates' \in Dates
      BY <1>7, TopDates
    <2>2. UNCHANGED <<clock, eventDate, calendar>>
      BY <1>7 DEF UndatedSteps, dateVars
    <2> QED BY <1>1, <1>2, <2>1, <2>2 DEF DatesInv
  <1>8. CASE DatedAnswer
    <2>1. calling' = Idle
      BY <1>8 DEF DatedAnswer, Answer
    <2>2. calendar' \in [end : 0 .. MaxDate, due : [TimerEvents -> Int]]
      <3>1. DueAfter \in [TimerEvents -> Int]
        BY DEF DueAfter, DatesInv, DatesOK, NoDate
      <3> HIDE DEF DueAfter
      <3> QED BY <1>8, <3>1 DEF DatedAnswer, DatesInv, DatesOK
    <2>3. dates' \in Dates /\ eventDate' \in 0 .. MaxClock /\ clock' = clock
      BY <1>8, DatesAssumption DEF DatedAnswer, NoDates, NoDate, NoWakeAt, Dates
    <2>4. DatesOK'
      BY <2>2, <2>3 DEF DatesInv, DatesOK, Dates
    <2> QED BY <1>1, <2>1, <2>4 DEF DatesInv
  <1>9. CASE UNCHANGED datedVars
    <2>1. UNCHANGED <<conf, queue, product, tasks, completed, reason, calling, saved, clock, eventDate,
                     dates, calendar, status, deleteTasks>>
      BY <1>9 DEF datedVars, vars, work, dateVars
    <2>2. DatesOK'
      BY <2>1 DEF DatesInv, DatesOK
    <2>3. ASSUME calling # Idle PROVE InCall'
      BY <2>1, <2>3
         DEF DatesInv, InCall, StartKept, NotMoved, EndMoved, Scheduled, Deactivating, ClosedKept,
             Periods, Periods0, PeriodStart, TermNow, TermDate, StatusLoaded, Deactivates, Payment0,
             Loaded, Status0
    <2> QED BY <1>1, <2>1, <2>2, <2>3 DEF DatesInv
  <1> QED BY <1>3, <1>4, <1>5, <1>6, <1>7, <1>8, <1>9 DEF DatedNext

LEMMA DatesInit == DatedInit => DatesInv
  <1> SUFFICES ASSUME DatedInit PROVE DatesInv
    OBVIOUS
  <1>1. CascadeInv /\ TypeOK /\ calling = Idle
    BY CascadeInit, InitType DEF DatedInit, Init
  <1>2. DatesOK
    BY DatesAssumption DEF DatedInit, DatesOK, NoDates, NoDate, NoWakeAt
  <1> QED BY <1>1, <1>2 DEF DatesInv

-----------------------------------------------------------------------------
(* The theorems. *)

\* Every step keeps the invariant.
THEOREM DatesCorrect == DatedSpec => []DatesInv
  <1> QED BY DatesInit, DatesNext, PTL DEF DatedSpec

\* The end date a caller stores is one that an int holds: commercial's and trial's handlers
\* return when targetStateEol's result is negative, and no other handler computes a date from
\* the length of a period.
THEOREM EndDatesInRange == DatedSpec => []EndDateInRange
  <1>1. DatesInv => EndDateInRange
    BY DEF DatesInv, DatesOK, EndDateInRange
  <1> QED BY <1>1, DatesCorrect, PTL

\* A call that is answered 1 stores the dates it leaves, any other call none.
LEMMA Answered ==
  ASSUME DatesInv, [DatedNext]_datedVars
  PROVE  \/ /\ Settled /\ calling # Idle /\ Code = 1 /\ completed /\ Ended /\ Outcome /\ InCall
            /\ saved' = [conf |-> conf, status |-> status, product |-> product]
            /\ timers' = TimersAfter
            /\ calendar' = [end |-> dates.end, due |-> DueAfter]
         \/ UNCHANGED <<saved, timers, calendar>>
  <1>0. CascadeInv /\ TypeOK
    BY DEF DatesInv
  <1>1. CASE DatedAnswer
    <2>1. CASE Code = 1
      BY <1>0, <1>1, <2>1, SettledEnded, SuccessOutcome, Completed
         DEF DatedAnswer, Answer, Settled, DatesInv
    <2>2. CASE Code # 1
      BY <1>1, <2>2 DEF DatedAnswer, Answer
    <2> QED BY <2>1, <2>2
  <1>2. CASE Tick
    BY <1>2 DEF Tick, vars
  <1>3. CASE \E e \in Events : \E next \in NextPricesFor(e) : DatedSend(e, next)
    BY <1>3 DEF DatedSend, Send, Call
  <1>4. CASE DatedPriceStep \/ DatedUsageStep \/ DatedPaymentStep
    <2>1. MachineStep /\ UNCHANGED calendar
      BY <1>0, <1>4, DatedKinds DEF RegionDates
    <2> QED BY <1>0, <2>1, MachineStepPhase
  <1>5. CASE UndatedPriceStep
    BY <1>5 DEF UndatedPriceStep
  <1>6. CASE UndatedSteps
    <2>1. MachineStep /\ UNCHANGED calendar
      BY <1>6 DEF UndatedSteps, MachineStep, dateVars
    <2> QED BY <1>0, <2>1, MachineStepPhase
  <1>7. CASE UNCHANGED datedVars
    BY <1>7 DEF datedVars, vars, dateVars
  <1> QED BY <1>1, <1>2, <1>3, <1>4, <1>5, <1>6, <1>7 DEF DatedNext

\* The date a product is served to moves for a reason, from answer to answer: of the handlers
\* of a cascade only one sets activeEndDate, but for a deactivation, and the period that
\* commercial or trial charges starts at the date DateOnExit has left it.
THEOREM EndDatesMoveWithReason == DatedSpec => EndDateMovesWithReason
  <1>1. DatesInv /\ [DatedNext]_datedVars =>
          [LET start == IF calling \in {"commercial_ended", "trial_ended"} THEN calendar.end ELSE eventDate
           IN  IF saved'.product.tarificationPeriod > saved.product.tarificationPeriod
               THEN calendar'.end = start + Length
               ELSE calendar'.end # calendar.end =>
                      \/ saved'.conf.payment = "notPaid" /\ calendar'.end = eventDate
                      \/ saved'.conf.payment \notin PaymentOn /\ calendar'.end = TermNow]_datedVars
    <2> SUFFICES ASSUME DatesInv, [DatedNext]_datedVars
                 PROVE  IF saved'.product.tarificationPeriod > saved.product.tarificationPeriod
                        THEN calendar'.end = PeriodStart + Length
                        ELSE calendar'.end # calendar.end =>
                               \/ saved'.conf.payment = "notPaid" /\ calendar'.end = eventDate
                               \/ saved'.conf.payment \notin PaymentOn /\ calendar'.end = TermNow
      BY DEF PeriodStart, Timed
    <2>1. CASE UNCHANGED <<saved, timers, calendar>>
      <3>1. saved.product.tarificationPeriod \in Int
        BY DEF DatesInv, TypeOK, MachineTypeOK, SavedProducts, Products
      <3> QED BY <2>1, <3>1
    <2>2. CASE /\ InCall
               /\ saved' = [conf |-> conf, status |-> status, product |-> product]
               /\ calendar' = [end |-> dates.end, due |-> DueAfter]
      <3>1. /\ saved'.product.tarificationPeriod = Periods /\ saved'.conf = conf
            /\ calendar'.end = dates.end
        BY <2>2 DEF Periods
      <3> QED BY <2>2, <3>1 DEF InCall, EndMoved, Periods0
    <2> QED BY <2>1, <2>2, Answered
  <1> QED BY <1>1, DatesCorrect, PTL DEF DatedSpec, EndDateMovesWithReason

\* A deactivation leaves the product the rest of its period, whatever the three regions were
\* doing: termDate takes activeEndDate, and no other handler of the cascade has moved it.
THEOREM DeactivationServesToTheEnd == DatedSpec => ServedToTheEnd
  <1>1. DatesInv /\ [DatedNext]_datedVars =>
          (calling = "deactivation_started" /\ saved'.conf # saved.conf
             /\ StatusLoaded(saved) \notin Immediate /\ calendar.end >= clock =>
             calendar'.due["disconnect"] = calendar.end)
    <2> SUFFICES ASSUME DatesInv, [DatedNext]_datedVars, calling = "deactivation_started",
                        saved'.conf # saved.conf, StatusLoaded(saved) \notin Immediate,
                        calendar.end >= clock
                 PROVE  calendar'.due["disconnect"] = calendar.end
      OBVIOUS
    <2>1. /\ completed /\ Ended /\ InCall /\ calendar'.due = DueAfter
      BY Answered
    <2>2. Deactivated /\ dates.end \in {calendar.end, TermDate("deactivation_started", calendar.end)}
      BY <2>1 DEF InCall, Deactivating, Ended
    <2>3. "disconnect" \in ToSet(tasks) /\ "disconnect" \in TimersAfter /\ "disconnect" \in TimerEvents
      BY <2>2 DEF Deactivated, TimersAfter, TimerEvents
    <2>4. dates.wakeAt["disconnect"] = dates.end
      BY <2>1, <2>3 DEF InCall, Scheduled
    <2>5. TermDate("deactivation_started", calendar.end) = calendar.end
      BY DEF TermDate, DatesInv, DatesOK
    <2> QED BY <2>1, <2>2, <2>3, <2>4, <2>5 DEF DueAfter
  <1> QED BY <1>1, DatesCorrect, PTL DEF DatedSpec, ServedToTheEnd

\* If timer events are sent only when their task is due, a product is disconnected on the
\* date it is served to: a product whose usage is off keeps its date until it is disconnected.
THEOREM DisconnectsOnEndDate == OnSchedule = TRUE => (DatedSpec => []DisconnectOnEndDate)
  <1> SUFFICES ASSUME OnSchedule = TRUE PROVE DatedSpec => []DisconnectOnEndDate
    OBVIOUS
  <1>1. DatedInit => DisconnectOnEndDate
    BY DEF DatedInit, Init, DisconnectOnEndDate
  <1>2. DatesInv /\ DisconnectOnEndDate /\ [DatedNext]_datedVars => DisconnectOnEndDate'
    <2> SUFFICES ASSUME DatesInv, DisconnectOnEndDate, [DatedNext]_datedVars, "disconnect" \in timers'
                 PROVE  calendar'.due["disconnect"] = calendar'.end
      BY DEF DisconnectOnEndDate
    <2>1. CASE UNCHANGED <<saved, timers, calendar>>
      BY <2>1 DEF DisconnectOnEndDate
    <2>2. CASE /\ InCall /\ timers' = TimersAfter
               /\ calendar' = [end |-> dates.end, due |-> DueAfter]
      <3>1. "disconnect" \in TimerEvents /\ "disconnect" \in TimersAfter
        BY <2>2 DEF TimerEvents
      <3>2. CASE "disconnect" \in ToSet(tasks)
        BY <2>2, <3>1, <3>2 DEF DueAfter, InCall, Scheduled
      <3>3. CASE "disconnect" \notin ToSet(tasks)
        <4>1. "disconnect" \in timers
          BY <3>1, <3>3 DEF TimersAfter
        <4>2. UsageClosed(saved.conf)
          BY <4>1 DEF DatesInv, CascadeInv, Fits, UsageClosed, UsageOff
        <4> QED BY <2>2, <3>1, <3>3, <4>1, <4>2 DEF DueAfter, InCall, ClosedKept, DisconnectOnEndDate
      <3> QED BY <3>2, <3>3
    <2> QED BY <2>1, <2>2, Answered
  <1> QED BY <1>1, <1>2, DatesCorrect, PTL DEF DatedSpec

\* An account that is clear or due, without a new period, was clear or due before the call.
LEMMA ServedBefore ==
  ASSUME DatesInv, Outcome, ~(Periods > Periods0), conf.payment \in {"paid", "waitingPayment"}
  PROVE  Payment0 \in {"paid", "waitingPayment"}
  <1>1. Account(conf) \in {"clear", "due"}
    BY Accounts
  <1>2. Moves(Status0, Account(saved.conf), Periods0, status, Account(conf), Periods)
    BY DEF Outcome, Result, Periods
  <1>3. Periods \in Int /\ Periods0 \in Int
    BY DEF DatesInv, TypeOK, MachineTypeOK, SavedProducts, Products, Periods, Periods0
  <1>4. Account(saved.conf) \in {"clear", "due"}
    BY <1>1, <1>2, <1>3 DEF Moves
  <1> QED BY <1>4, Accounts DEF Payment0

\* Under the same assumption the event that ends a period of a product in service is on the
\* schedule for EndedBefore before its end date, however task and date have come about.
THEOREM PeriodEndsOnSchedule == OnSchedule = TRUE => (DatedSpec => []PeriodEndOnSchedule)
  <1> SUFFICES ASSUME OnSchedule = TRUE PROVE DatedSpec => []PeriodEndOnSchedule
    OBVIOUS
  <1>1. DatedInit => PeriodEndOnSchedule
    BY DEF DatedInit, Init, PeriodEndOnSchedule
  <1>2. DatesInv /\ PeriodEndOnSchedule /\ [DatedNext]_datedVars => PeriodEndOnSchedule'
    <2> SUFFICES ASSUME DatesInv, PeriodEndOnSchedule, [DatedNext]_datedVars,
                        NEW e \in Timed, e \in timers', saved'.conf.payment \in {"paid", "waitingPayment"}
                 PROVE  calendar'.due[e] = calendar'.end - EndedBefore
      BY DEF PeriodEndOnSchedule, Timed
    <2>1. CASE UNCHANGED <<saved, timers, calendar>>
      BY <2>1 DEF PeriodEndOnSchedule, Timed
    <2>2. CASE /\ InCall /\ Outcome /\ timers' = TimersAfter
               /\ saved' = [conf |-> conf, status |-> status, product |-> product]
               /\ calendar' = [end |-> dates.end, due |-> DueAfter]
      <3>1. e \in TimerEvents /\ e \in TimersAfter /\ conf.payment \in {"paid", "waitingPayment"}
        BY <2>2 DEF Timed, TimerEvents
      <3>2. CASE e \in ToSet(tasks)
        BY <2>2, <3>1, <3>2 DEF DueAfter, InCall, Scheduled
      <3>3. CASE e \notin ToSet(tasks)
        <4>1. Fits(conf, TimersAfter)
          BY <2>2 DEF Outcome, Result, TimersAfter
        <4>2. ToSet(tasks) \cap Timed = {}
          <5>1. \A x \in Timed : x \in ToSet(tasks) => x \in TimersAfter
            BY DEF TimersAfter, Timed, TimerEvents
          <5> QED BY <3>1, <3>3, <4>1, <5>1 DEF Fits, Timed
        <4>3. ~(Periods > Periods0) /\ dates.end = calendar.end
          BY <2>2, <3>1, <4>2 DEF InCall, EndMoved, PaymentOn
        <4>4. Payment0 \in {"paid", "waitingPayment"} /\ e \in timers
          BY <2>2, <3>1, <3>3, <4>3, ServedBefore DEF TimersAfter
        <4>5. calendar.due[e] = calendar.end - EndedBefore
          BY <4>4 DEF PeriodEndOnSchedule, Timed, Payment0
        <4> QED BY <2>2, <3>1, <3>3, <4>3, <4>5 DEF DueAfter
      <3> QED BY <3>2, <3>3
    <2> QED BY <2>1, <2>2, Answered
  <1> QED BY <1>1, <1>2, DatesCorrect, PTL DEF DatedSpec
=============================================================================
