------------------------------- MODULE PIAnswer -------------------------------
(***************************************************************************)
(* What a caller gets to see.  The machine works in a thread of its own;    *)
(* externalEventProcess waits in the caller's thread for the first          *)
(* transitionCompleted or machineError, or for its timer, and the caller    *)
(* then reads the configuration (init.lua: self:get()) while the machine    *)
(* may still be working off the cascade.                                    *)
(*                                                                          *)
(* A microstep of PILifecycle is three steps here: the conditions of the     *)
(* transitions the event triggers are tested, which may emit a machineError; *)
(* the handlers run; and only then the state entered becomes active, which   *)
(* is what getMachineState asks for.  Between the last two the configuration *)
(* names the composite state around the leaf, and no leaf.  That a           *)
(* transition's exit and entry handlers are one step hides nothing: a        *)
(* successful caller looks only after transitionCompleted, and then no       *)
(* handler is left that changes anything (AnswerIsWhole); and no handler     *)
(* that fails adds a task (ErrorStopsCascade).                               *)
(***************************************************************************)
EXTENDS PILifecycle

VARIABLES
  tested,    \* whether the conditions for the event at the head of the queue have been tested
  entering,  \* the region whose new leaf is not active yet, or NoRegion
  answered   \* how the call under way has been answered: Not, Stored or Failed

avars == <<vars, tested, entering, answered>>

Not    == "not"
Stored == "stored"
Failed == "failed"

NoRegion == "none"

-----------------------------------------------------------------------------
(* Configurations as getMachineState reports them and as init loads them. *)

\* The composite state a leaf is in.
Parent(leaf) ==
  CASE leaf \in TopStates   -> "machine"
    [] leaf \in Activated   -> "activated"
    [] leaf \in UsageOn \ Activated -> "usageOn"
    [] leaf \in UsageOff    -> "usageOff"
    [] leaf = "usageFinal"  -> "usage"
    [] leaf \in PaymentOn   -> "paymentOn"
    [] leaf \in PaymentOff  -> "paymentOff"
    [] leaf = "paymentFinal" -> "payment"
    [] leaf \in PriceOn     -> "priceOn"
    [] leaf \in {"priceOff", "priceFinal"} -> "price"

Seen ==
  IF entering = NoRegion THEN conf
  ELSE [conf EXCEPT ![entering] = Parent(@)]

\* The leaf a region starts in where the table that is loaded names a composite.
InitialLeaf(s) ==
  CASE s \in {"usage", "usageOn", "activated"} -> "activatedEntry"
    [] s = "usageOff"                -> "pendingDisconnect"
    [] s \in {"payment", "paymentOn"} -> "paymentOnEntry"
    [] s = "paymentOff"              -> "paymentStopping"
    [] s \in {"price", "priceOn"}    -> "priceOnEntry"
    [] OTHER                         -> s

\* Where the machine may start for a table: a table that names no state at all leaves it
\* the top state of the product it was used for before, whichever that was.
Loaded(c) ==
  IF c.top = "machine"
  THEN {Outside(top) : top \in TopStates \ {"productProvision"}} \cup {DefaultProvision}
  ELSE {[c EXCEPT !.usage = InitialLeaf(@), !.payment = InitialLeaf(@), !.price = InitialLeaf(@)]}

\* Mutant: nothing is heard of the states entered while loading.
NotReplayed(c) == <<>>

\* The handlers keep quiet while a product is loaded; the states' entered() does not.
Replayed(c) == EnteredSignal(c.usage) \o EnteredSignal(c.price)

-----------------------------------------------------------------------------
AnswerInit == Init /\ tested = FALSE /\ entering = NoRegion /\ answered = Not

SendLoaded(e, next) ==
  /\ Call(e, next)
  /\ conf' \in Loaded(saved.conf)
  /\ status' = StatusLoaded([saved EXCEPT !.conf = conf'])
  /\ queue' = Replayed(conf') \o <<[sender |-> "machine", value |-> e]>>
  /\ UNCHANGED <<tested, entering, answered>>

\* The machine's thread: the conditions are tested, and what they report is out ...
TestConditions ==
  /\ calling # Idle /\ queue # <<>>
  /\ entering = NoRegion /\ ~tested
  /\ tested' = TRUE
  /\ reason' = Later(reason, TestReason)
  /\ UNCHANGED <<conf, status, product, nextPrice, queue, tasks, deleteTasks, hasTransition,
                 completed, calling, saved, timers, entering, answered>>

\* ... before the step of the cascade that they have decided ...
RunHandlers ==
  /\ tested
  /\ tested' = FALSE
  /\ \/ PriceStep /\ entering' = "price"
     \/ UsageStep /\ entering' = "usage"
     \/ PaymentStep /\ entering' = "payment"
     \/ LeaveStep /\ entering' = "top"
     \/ (ProvisionStep \/ Drop) /\ UNCHANGED entering
  /\ UNCHANGED answered

\* ... after which the state entered becomes active.
BecomeActive ==
  /\ entering # NoRegion
  /\ entering' = NoRegion
  /\ UNCHANGED <<vars, tested, answered>>

\* The caller is woken by transitionCompleted, and stores what it sees by then.
AnswerCompleted ==
  /\ calling # Idle /\ answered = Not
  /\ completed /\ reason = NoError
  /\ answered' = Stored
  /\ saved' = [conf |-> Seen, status |-> status, product |-> product]
  /\ timers' = TimersAfter
  /\ UNCHANGED <<work, nextPrice, calling, tested, entering>>

\* The caller is woken by machineError or by its timer, and stores nothing.
AnswerFailed ==
  /\ calling # Idle /\ answered = Not
  /\ answered' = Failed
  /\ UNCHANGED <<vars, tested, entering>>

\* The next init stops the machine between two microsteps and drops what is queued.
Stop ==
  /\ answered # Not /\ entering = NoRegion /\ ~tested
  /\ answered' = Not
  /\ calling' = Idle
  /\ queue' = <<>>
  /\ UNCHANGED <<conf, status, product, nextPrice, tasks, deleteTasks, hasTransition, completed,
                 reason, saved, timers, tested, entering>>

AnswerNext ==
  \/ \E e \in Events : \E next \in NextPricesFor(e) : SendLoaded(e, next)
  \/ TestConditions \/ RunHandlers \/ BecomeActive
  \/ AnswerCompleted \/ AnswerFailed
  \/ Stop

AnswerSpec == AnswerInit /\ [][AnswerNext]_avars

-----------------------------------------------------------------------------
(* Properties. *)

\* Once transitionCompleted has been emitted no handler of the cascade changes the
\* product, its status or its tasks any more, and none fails: whenever the caller
\* looks, all but the configuration is final.
AnswerIsWhole ==
  [][calling # Idle /\ calling' # Idle /\ completed =>
       UNCHANGED <<status, product, tasks, deleteTasks, reason>>]_avars

\* The one transition that passes although its condition has reported an error: to
\* priceChanged, with no next price to change to (pricesEquals).
PassesInSpite ==
  /\ Head(queue) = Sig("machine", "change_price") /\ nextPrice = NoPrice
  /\ conf' = [conf EXCEPT !.price = "priceChanged"]
  /\ tasks' = Append(tasks, "CHANGE_PRICE")

\* A machineError ends the work of its call, the order to change a price apart: the step that
\* reports it, the condition or handler, asks for no task, none that follows does, and the
\* product, its status and its configuration stay where it has found them.
ErrorStopsCascade ==
  [][calling # Idle /\ calling' # Idle /\ reason' # NoError =>
       /\ UNCHANGED deleteTasks
       /\ UNCHANGED tasks \/ PassesInSpite
       /\ reason # NoError => UNCHANGED <<status, product>> /\ (UNCHANGED conf \/ PassesInSpite)]_avars

\* Where the entered() signals of a configuration's states take it.
AfterEntered(leaf) ==
  IF leaf \in SignalsWhenEntered
  THEN (CHOOSE t \in Transitions : t.sender = leaf /\ t.value = "entered").target
  ELSE leaf

Settle(c) == [c EXCEPT !.usage = AfterEntered(@), !.price = AfterEntered(@)]

\* What the caller stored of an unfinished cascade settles, once it is loaded again,
\* where the machine itself came to rest, if it has a leaf for each region.
StoredSettles ==
  answered = Stored /\ queue = <<>> /\ entering = NoRegion /\ saved.conf \in Configurations =>
    Settle(saved.conf) = conf

\* What the comment in send_event says of its second look at the machine: it fixes
\* unaccomplished states, so that each region of what is stored names a leaf.
StoredIsAccomplished == answered = Stored => saved.conf \in Configurations

-----------------------------------------------------------------------------
(* The inductive invariant behind these properties.  It says less of a cascade than    *)
(* CascadeInv of PICascade does, since a cascade may start from what was stored of an   *)
(* unfinished one: only what its queue looks like before and after its completion.      *)

Entered    == Sig("priceOff", "entered")
Resumption == Sig("suspended", "resume_tarification")
LateResume == Sig("notPaid", "resume")

Disconnecting == {"disconnected", "usageFinal"}

\* What may be left to do once a call has completed: to leave priceOff, and to forget the
\* end of a suspension that the shutdown has overtaken.
Rest ==
  \/ queue = <<>> /\ conf.price # "priceOff"
  \/ queue \in {<<Entered>>, <<Entered, Resumption>>} /\ conf.price = "priceOff"
  \/ queue = <<Resumption>> /\ conf.price = "priceFinal"

\* One signal under way, which may lead anywhere but to the end of the usage.
Single ==
  /\ queue # <<>> /\ queue = <<Head(queue)>>
  /\ Head(queue).sender \notin {"priceOff", "disconnected", "productProvision"}
  /\ conf.price # "priceOff"

\* A cascade that started in priceOff leaves it before it looks at the caller's event.
Replaying == queue = <<Entered, Sig("machine", calling)>> /\ conf.price = "priceOff"

\* The payments have ended: the tarification ends next, then the usage.
Closing ==
  \/ /\ queue = <<Sig("paymentStopped", "off_price"), Sig("paymentStopped", "stop_pay")>>
     /\ conf.price # "priceOff"
  \/ /\ queue \in {<<Sig("paymentStopped", "stop_pay"), Sig("priceOff", "off_usage"), Entered>>,
                   <<Sig("priceOff", "off_usage"), Entered>>, <<Entered>>}
     /\ conf.price = "priceOff"

\* An activation has been heard; only what priceOnEntry says of it has an effect.
Starting ==
  /\ \E e, v \in {"activation_completed", "trial_activation_completed"} :
       queue \in {<<Sig("activatedEntry", e), Sig("paymentOnEntry", e), Sig("priceOnEntry", v)>>,
                  <<Sig("paymentOnEntry", e), Sig("priceOnEntry", v)>>}
  /\ conf.price = "priceOnEntry"

\* The usage has ended for good, which completes nothing until productProvision is left.
Ending == queue \in {<<>>, <<Sig("disconnected", "entered")>>, <<Sig("productProvision", "finished")>>}

\* How far the cascade has got.
Progress ==
  IF completed THEN conf.usage \notin Disconnecting /\ Rest
  ELSE IF conf.usage \in Disconnecting THEN Ending
  ELSE queue = <<>> \/ Single \/ Replaying \/ Closing \/ Starting

\* Whoever asks for the price of the product finds one: it has been charged for a period, it
\* runs at its price, unless its start has failed, or it is to be suspended or prolonged.
Priced ==
  /\ product.tarificationPeriod >= 1 => HasPrice(product)
  /\ conf.price \in {"priceChanging", "priceChanged", "priceNotChanged"} => HasPrice(product)
  /\ reason = NoError /\ conf.price \in {"commercial", "trial"} => HasPrice(product)
  /\ queue # <<>> /\ Head(queue).sender = "waitingPayment" => HasPrice(product)

\* A period is counted before it is to be paid; only a late payment is taken before that.
Counted ==
  LET n == product.tarificationPeriod IN
  /\ n >= 0
  /\ conf.payment = "waitingPayment" => n >= 1
  /\ conf.payment = "paid" => n >= 1 \/ (~completed /\ queue \in {<<>>, <<LateResume>>, <<Resumption>>})
  /\ queue \in {<<Sig("commercial", "activation_completed")>>,
                <<Sig("trial", "trial_activation_completed")>>} => n >= 1

\* Once the payments have ended no signal can charge a period any more.
Uncharged ==
  /\ PaymentClosed(conf) =>
       \/ conf.price \in {"priceOff", "priceFinal", "priceOnEntry"}
       \/ queue # <<>> /\ Head(queue) = Sig("paymentStopped", "off_price")
  /\ PaymentClosed(conf) /\ queue # <<>> =>
       Head(queue).sender \notin {"activatedEntry", "paymentOnEntry", "priceOnEntry"}

\* What was stored of this call is where the machine is, or where it was before it left priceOff.
StoredIsClose ==
  answered = Stored =>
    /\ completed
    /\ saved.conf \in Configurations =>
         \/ saved.conf = conf
         \/ saved.conf.price = "priceOff" /\ conf = [saved.conf EXCEPT !.price = "priceFinal"]

\* A product can be loaded wherever it was stored.
Storable(c, p) ==
  /\ WellFormed(c)
  /\ c.usage \notin Disconnecting
  /\ c.price \in PriceOn \ {"priceOnEntry"} => HasPrice(p)
  /\ p.tarificationPeriod >= 1 => HasPrice(p)
  /\ PaymentClosed(c) => c.price \in {"priceOff", "priceFinal", "priceOnEntry"}
  /\ p.tarificationPeriod >= 0
  /\ c.payment \in {"paid", "waitingPayment"} => p.tarificationPeriod >= 1

SavedOK ==
  /\ saved = [conf |-> saved.conf, status |-> saved.status, product |-> saved.product]
  /\ saved.product \in Products
  /\ saved.status \in Statuses
  /\ saved.conf.payment \in {"paid", "waitingPayment"} => saved.product.tarificationPeriod >= 1
  /\ \A c \in Loaded(saved.conf) : Storable(c, saved.product)

\* The region that is entered has a leaf to enter.
EnteringOK ==
  /\ entering \in {NoRegion, "top", "usage", "payment", "price"}
  /\ entering = "top" => conf.top # "productProvision"
  /\ entering \in {"usage", "payment", "price"} => conf.top = "productProvision"

\* What has been tested is the head of the queue, and the first error of the call is its.
TestedOK ==
  /\ tested \in BOOLEAN
  /\ tested => calling # Idle /\ queue # <<>> /\ entering = NoRegion /\ reason = TestReason

\* The machine is where a product can be, whatever was loaded into it, and between calls it is
\* idle; during a call its queue is in one of the shapes of Progress, and whatever the caller
\* sees once the call has completed, StateMachine::execute can store and a later call load.
AnswerInv ==
  /\ MachineTypeOK /\ SavedOK /\ EnteringOK /\ TestedOK
  /\ IF calling = Idle THEN queue = <<>> /\ entering = NoRegion /\ answered = Not
     ELSE /\ reason # NoError => queue = <<>> \/ tested
          /\ Progress /\ Priced /\ Counted /\ Uncharged /\ StoredIsClose
=============================================================================
