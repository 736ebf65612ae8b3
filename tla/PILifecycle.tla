------------------------------ MODULE PILifecycle ------------------------------
(***************************************************************************)
(* The life of one product.  Its caller keeps it in a database between      *)
(* events; for each event it loads the product into a machine               *)
(* (PIMachine::init), hands the machine the event                           *)
(* (PIMachine::externalEventProcess) and, when the answer is 1, stores the  *)
(* product again and carries out the tasks it was given.  The machine       *)
(* works the event off in a cascade: a handler emits signals, which queue   *)
(* up and trigger further transitions, until the queue is empty.            *)
(*                                                                          *)
(* Here every answer waits for the end of the cascade; what a caller can    *)
(* see that does not wait is not the subject of this module.                *)
(***************************************************************************)
EXTENDS PIStates, SequencesExt

CONSTANTS
  Catalog,      \* the prices a product can be sold at
  MaxPeriods,   \* bound: no call that could bill a product that has so many periods
  OnSchedule    \* whether a timer event is sent only while its task is outstanding

Alterations == [id : STRING, period : Int, duration : Int]

\* known: recurringChargePeriodType is "day" or "month"
Prices == [id : STRING, status : STRING, known : BOOLEAN, period : Int, duration : Int,
           alteration : Alterations \cup {NoAlteration}]

ASSUME CatalogAssumption == Catalog \subseteq Prices
ASSUME BoundAssumption == MaxPeriods \in Nat
ASSUME ScheduleAssumption == OnSchedule \in BOOLEAN

VARIABLES
  conf,           \* the active states of the machine
  status,         \* its property "status"
  product,        \* m_product: price and tarificationPeriod
  nextPrice,      \* m_properties["nextPrice"]
  queue,          \* the state machine's event queue
  tasks,          \* m_tasks
  deleteTasks,    \* m_deleteTasks
  hasTransition,  \* status.hasTransition
  completed,      \* whether transitionCompleted was emitted during the call
  reason,         \* the reason of the last machineError of the call
  calling,        \* the event being processed, or Idle
  saved,          \* the caller's record of the product
  timers          \* the send_event tasks outstanding at the caller's scheduler

work == <<conf, status, product, queue, tasks, deleteTasks, hasTransition, completed, reason>>
vars == <<conf, status, product, nextPrice, queue, tasks, deleteTasks, hasTransition,
          completed, reason, calling, saved, timers>>

Idle == "idle"

\* What a caller can send: an event some state knows, or one that none does.
Events == MachineEvents \cup {"unknown"}

Products == [price : Prices \cup {NoPrice}, tarificationPeriod : Int]

\* A product not activated yet, at any price of the catalog or at none.
Init ==
  /\ conf = Outside("pendingActivate")
  /\ status = "PENDING_ACTIVATE"
  /\ product \in [price : Catalog \cup {NoPrice}, tarificationPeriod : {0}]
  /\ saved = [conf |-> conf, status |-> status, product |-> product]
  /\ nextPrice = NoPrice
  /\ queue = <<>> /\ tasks = <<>> /\ deleteTasks = <<>>
  /\ hasTransition = FALSE /\ completed = FALSE
  /\ reason = NoError
  /\ calling = Idle
  /\ timers = {}

-----------------------------------------------------------------------------
(* The caller: load the product, send the event. *)

\* The calls after which the machine may bill one more period.
BillingEvents == {"activation_completed", "trial_activation_completed", "trial_ended",
                  "commercial_ended", "change_price_completed", "payment_processed"}

HasRoom(p) == /\ p.tarificationPeriod < MaxPeriods
              /\ HasPrice(p) => p.price.period < MaxPeriods

\* Only two events make the machine look at the next price.
NextPricesFor(e) ==
  IF e \in {"change_price", "change_price_completed"} THEN Catalog \cup {NoPrice} ELSE {NoPrice}

\* Loading re-enters the saved states, and entering them assigns the status again.
StatusLoaded(s) == StatusOnEntry(s.conf.usage, StatusOnEntry(s.conf.top, s.status))

\* What a call does besides loading the states and queueing the event.
Call(e, next) ==
  /\ calling = Idle
  /\ OnSchedule /\ e \in TimerEvents => e \in timers
  /\ e \in BillingEvents => HasRoom(saved.product)
  /\ calling' = e
  /\ nextPrice' = next
  /\ product' = saved.product
  /\ tasks' = <<>> /\ deleteTasks' = <<>>
  /\ hasTransition' = FALSE /\ completed' = FALSE
  /\ reason' = NoError
  /\ UNCHANGED <<saved, timers>>

Send(e, next) ==
  /\ Call(e, next)
  /\ conf' = saved.conf
  /\ status' = StatusLoaded(saved)
  /\ queue' = <<[sender |-> "machine", value |-> e]>>

-----------------------------------------------------------------------------
(* The state machine: one microstep for each event of the queue. *)

Sig(s, v) == [sender |-> s, value |-> v]

ActiveStates == {conf.top, conf.usage, conf.payment, conf.price}

\* Mutant: a signal is recognised by its value, whoever sent it.
TriggeredByValue(t) ==
  /\ calling # Idle
  /\ queue # <<>>
  /\ Head(queue).value = t.value
  /\ Inside(t.source) \cap ActiveStates # {}

\* The event at the head of the queue is the one t waits for, in a state t leaves.
Triggered(t) ==
  /\ calling # Idle
  /\ queue # <<>>
  /\ Head(queue).sender = t.sender
  /\ Head(queue).value = t.value
  /\ Inside(t.source) \cap ActiveStates # {}

\* StringTransition::eventTest
EventTest(t) == Triggered(t) /\ Guard(t.guard, conf, product, nextPrice)

EnabledTransitions == {t \in Transitions : EventTest(t)}

\* The machineError that testing the conditions of the triggered transitions emits.
TestReason ==
  LET reasons == {GuardReason(t.guard, product, nextPrice) :
                    t \in {u \in Transitions : Triggered(u)}} \ {NoError}
  IN  IF reasons = {} THEN NoError ELSE CHOOSE r \in reasons : TRUE

\* onMachineError: a later error replaces an earlier one.
Later(old, new) == IF new = NoError THEN old ELSE new

\* The values s's handler emitted, as events of the queue.
Signal(s, values) == [i \in DOMAIN values |-> [sender |-> s, value |-> values[i]]]

\* QState::entered, where a transition waits for it.
EnteredSignal(s) == Signal(s, IF s \in SignalsWhenEntered THEN <<"entered">> ELSE <<>>)

\* QState::finished of productProvision: each region has reached its final state.
Finished(c) == {c.usage, c.payment, c.price} = FinalLeaves
FinishedSignal(c) == Signal("productProvision", IF Finished(c) THEN <<"finished">> ELSE <<>>)

\* StringTransition::onTransition; QState's own signals have plain transitions.
IsStringTransition(t) == t.value \notin {"entered", "finished"}

\* A transition t within one region: leave its leaf from, enter the leaf to.
MicrostepTo(from, t, to) ==
  LET event == Head(queue)
      exit  == OnExit(from, event, product, nextPrice)
      entry == OnEntry(to, event, exit.product)
  IN
  /\ EventTest(t)
  /\ status' = StatusOnEntry(to, status)
  /\ product' = entry.product
  /\ queue' = Tail(queue) \o Signal(from, exit.emit) \o Signal(to, entry.emit)
                \o EnteredSignal(to) \o FinishedSignal(conf')
  /\ tasks' = tasks \o exit.create \o entry.create
  /\ deleteTasks' = deleteTasks \o exit.delete \o entry.delete
  /\ hasTransition' = (hasTransition \/ IsStringTransition(t))
  /\ completed' = (completed \/ exit.completed \/ entry.completed \/ to \in CompletesWhenEntered)
  /\ reason' = Later(Later(Later(reason, TestReason), exit.reason), entry.reason)
  /\ UNCHANGED <<nextPrice, calling, saved, timers>>

Microstep(from, t) == MicrostepTo(from, t, Descend(t.target))

PriceStep ==
  \E t \in PriceTransitions :
    /\ conf' = [conf EXCEPT !.price = Descend(t.target)]
    /\ Microstep(conf.price, t)

UsageStep ==
  \E t \in UsageTransitions :
    /\ conf' = [conf EXCEPT !.usage = Descend(t.target)]
    /\ Microstep(conf.usage, t)

PaymentStep ==
  \E t \in PaymentTransitions :
    /\ conf' = [conf EXCEPT !.payment = Descend(t.target)]
    /\ Microstep(conf.payment, t)

\* pendingActivate to productProvision: enter the initial leaf of each region.
\* None of the three changes more than the queue.
ProvisionStep ==
  \E t \in TopTransitions :
    LET emitted(s) == Signal(s, OnEntry(s, Head(queue), product).emit) IN
    /\ t.target = "productProvision"
    /\ EventTest(t)
    /\ conf' = DefaultProvision
    /\ queue' = Tail(queue) \o emitted("activatedEntry") \o emitted("paymentOnEntry")
                  \o emitted("priceOnEntry")
    /\ hasTransition' = TRUE
    /\ UNCHANGED <<status, product, nextPrice, tasks, deleteTasks, completed, reason,
                   calling, saved, timers>>

\* pendingActivate to aborted, and a finished productProvision to disconnect.
LeaveStep ==
  \E t \in TopTransitions :
    /\ t.target \in {"aborted", "disconnect"}
    /\ EventTest(t)
    /\ conf' = Outside(t.target)
    /\ status' = StatusOnEntry(t.target, status)
    /\ queue' = Tail(queue)
    /\ hasTransition' = (hasTransition \/ IsStringTransition(t))
    /\ completed' = (completed \/ t.target \in CompletesWhenEntered)
    /\ UNCHANGED <<product, nextPrice, tasks, deleteTasks, reason, calling, saved, timers>>

\* An event no transition is enabled by is forgotten.
Drop ==
  /\ calling # Idle
  /\ queue # <<>>
  /\ EnabledTransitions = {}
  /\ queue' = Tail(queue)
  /\ reason' = Later(reason, TestReason)
  /\ UNCHANGED <<conf, status, product, nextPrice, tasks, deleteTasks, hasTransition, completed,
                 calling, saved, timers>>

-----------------------------------------------------------------------------
(* The answer. *)

\* The status of the result: a machineError's reason, 1 on transitionCompleted;
\* without either the call times out.
Code ==
  IF reason # NoError THEN reason
  ELSE IF completed THEN 1
  ELSE IF hasTransition THEN QfsmlibError
  ELSE IllegalEventError

Settled == calling # Idle /\ queue = <<>>

\* The timers outstanding once the tasks of a successful call are carried out.
TimersAfter == ((timers \ {calling}) \ ToSet(deleteTasks)) \cup (ToSet(tasks) \cap TimerEvents)

\* The caller stores what a successful call returned, and nothing of a failed one.
Answer ==
  /\ Settled
  /\ calling' = Idle
  /\ IF Code = 1
     THEN /\ saved' = [conf |-> conf, status |-> status, product |-> product]
          /\ timers' = TimersAfter
     ELSE UNCHANGED <<saved, timers>>
  /\ UNCHANGED <<work, nextPrice>>

MachineStep == PriceStep \/ UsageStep \/ PaymentStep \/ ProvisionStep \/ LeaveStep \/ Drop

CallerStep == \E e \in Events : \E next \in NextPricesFor(e) : Send(e, next)

Next == CallerStep \/ MachineStep \/ Answer

\* The event loops of the two threads keep turning; nobody has to send events.
Spec == Init /\ [][Next]_vars /\ WF_vars(MachineStep) /\ WF_vars(Answer)

-----------------------------------------------------------------------------
(* Properties. *)

\* Types: each variable holds what the code's variable can hold; a product has a
\* leaf in each region exactly while it is in productProvision.
WellFormed(c) ==
  /\ c \in Configurations
  /\ c.usage = NoLeaf <=> c.top # "productProvision"
  /\ c.payment = NoLeaf <=> c.top # "productProvision"
  /\ c.price = NoLeaf <=> c.top # "productProvision"

SavedProducts == [conf : Configurations, status : Statuses, product : Products]

\* What the machine holds; what its caller stores is another matter.
MachineTypeOK ==
  /\ WellFormed(conf)
  /\ status \in Statuses
  /\ product \in Products
  /\ nextPrice \in Prices \cup {NoPrice}
  /\ queue \in Seq(Signals)
  /\ tasks \in Seq(Tasks)
  /\ deleteTasks \in Seq(TimerEvents)
  /\ hasTransition \in BOOLEAN /\ completed \in BOOLEAN
  /\ reason \in {NoError, QfsmlibError, IllegalEventError}
  /\ calling \in Events \cup {Idle}

TypeOK ==
  /\ MachineTypeOK
  /\ saved \in SavedProducts /\ WellFormed(saved.conf)
  /\ timers \subseteq TimerEvents

PaymentClosed(c) == c.payment \in {"paymentStopped", "paymentFinal"}
PriceClosed(c)   == c.price \in {"priceOff", "priceFinal"}
UsageClosed(c)   == c.usage \in UsageOff \cup {"usageFinal"}

\* A product is shut down in order: its usage ends only after its tarification,
\* and its tarification only after its payments (paymentStopped -> off_price ->
\* priceOff -> off_usage -> usageOff), whatever the three regions were doing.
ShutdownOrder ==
  /\ PriceClosed(conf) => PaymentClosed(conf)
  /\ UsageClosed(conf) => PriceClosed(conf)

\* A signal never has two transitions to choose from, in one region or in several:
\* what a signal does depends on the state alone, not on the order in which the
\* engine looks at the regions.
AtMostOneTransition == \A t, u \in EnabledTransitions : t = u

\* What the caller stores is always a resting place: never a state that is only
\* passed through in a cascade (the states the chart leaves by its own signals).
SavedAtRest ==
  /\ saved.conf.usage \notin {"activatedEntry", "disconnected", "usageFinal"}
  /\ saved.conf.payment \notin {"paymentOnEntry", "paymentStopped"}
  /\ saved.conf.price \notin {"priceOnEntry", "priceNotChanged", "priceOff"}

\* The status the caller stores is the one the usage region stands for: a leaf that
\* assigns no status has kept the one of the states it can be reached from.
StatusMatchesUsage ==
  LET c == saved.conf IN
  CASE c.top # "productProvision" -> saved.status = StatusOnEntry(c.top, "none")
    [] c.usage = "resuming" -> saved.status = "SUSPENDED"
    [] c.usage \in {"suspending", "prolongation"} -> saved.status \in {"ACTIVE", "ACTIVE_TRIAL"}
    [] UsageClosed(c) -> saved.status = "PENDING_DISCONNECT"
    [] OTHER -> saved.status = StatusOnEntry(c.usage, "none")

\* A product in service waits for nothing that nobody will send: whatever its
\* regions wait for, the timer event that ends the wait is outstanding.
WakeUpOutstanding ==
  LET c == saved.conf IN
  /\ c.payment = "waitingPayment" => "waiting_pay_ended" \in timers
  /\ c.usage = "suspended" /\ c.payment = "notPaid" => "suspend_ended" \in timers
  /\ c.usage = "pendingDisconnect" => "disconnect" \in timers
  /\ c.price = "priceChanging" => "change_price" \in timers
  /\ c.usage = "active" /\ c.price = "commercial" /\ c.payment \in PaymentOn => "commercial_ended" \in timers
  /\ c.usage = "activeTrial" /\ c.price = "trial" /\ c.payment \in PaymentOn => "trial_ended" \in timers

\* A product whose usage is off gets no event of its former life: the timers of its
\* tarification, payment and suspension are gone, whichever region they belong to.
\* The exception is change_price, which no handler deletes.
NoTimerAfterShutdown == UsageClosed(saved.conf) => timers \subseteq {"disconnect", "change_price"}

\* A call's tasks can be carried out in any order: no task is to be created twice,
\* and none is to be created and deleted.
TasksUnambiguous ==
  Settled /\ Code = 1 =>
    /\ IsInjective(tasks)
    /\ ToSet(tasks) \cap ToSet(deleteTasks) = {}

\* A timer is not created while one for the same event is outstanding: the event
\* would come twice.
NoDuplicateTimer ==
  Settled /\ Code = 1 =>
    ToSet(tasks) \cap ((timers \ {calling}) \ ToSet(deleteTasks)) = {}

\* A product in service can be deactivated whatever its regions are doing:
\* deactivation_started is answered 1 and leaves it waiting for its disconnect.
AlwaysDeactivates ==
  Settled /\ calling = "deactivation_started" /\ saved.conf.payment \in PaymentOn \cup {"paymentStopping"} =>
    /\ Code = 1
    /\ conf.usage = "pendingDisconnect"
    /\ "disconnect" \in TimersAfter

\* A product whose payments have ended is not billed again: not while the rest of
\* the shutdown runs through states whose handlers restart the tarification
\* (suspended's exit), and not by any later event.
NotBilledOncePaymentClosed ==
  [][calling # Idle /\ PaymentClosed(conf) => product' = product]_vars

\* What the payment region means for the product's owner.
Account(c) ==
  CASE c.payment = "paid"           -> "clear"
    [] c.payment = "waitingPayment" -> "due"
    [] c.payment = "notPaid"        -> "unpaid"
    [] c.payment = NoLeaf           -> "none"
    [] OTHER                        -> "closed"

\* The product as its owner sees it keeps the contract of ProductContract.
Contract == INSTANCE ProductContract WITH
  status <- saved.status, account <- Account(saved.conf),
  periods <- saved.product.tarificationPeriod

KeepsContract == Contract!Spec

\* The count of periods covers what is paid or to be paid, and never goes negative:
\* a payment that fails takes back one period, and only one that was charged.
PeriodsCovered == Contract!PeriodsCovered

\* A cascade ends: every call is answered.
CascadeEnds == calling # Idle ~> calling = Idle
=============================================================================
