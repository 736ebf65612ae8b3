-------------------------------- MODULE PIReuse --------------------------------
(***************************************************************************)
(* One machine, many products.  PIMachine::init loads a product by making   *)
(* the states its table names the initial states of the states around them  *)
(* (loadStateOnly) and starting the machine; externalEventProcess puts the  *)
(* chart's own initial states back once an event has been worked off        *)
(* (resetInitialStates).  A product that was loaded and released without an *)
(* event, as when send_event refuses the event's data, leaves its initial   *)
(* states behind for the product after it.                                  *)
(*                                                                          *)
(* PILifecycle takes it that what a transition enters is the chart's own    *)
(* initial child.  Here it is the one the machine remembers.  Where every   *)
(* product that is loaded gets its event (Abandoned = {}) the two agree.    *)
(***************************************************************************)
EXTENDS PILifecycle

CONSTANTS
  Served,    \* the configurations in which other products are loaded and get an event
  Abandoned  \* ... and in which they are loaded and released without one

ASSUME OthersAssumption == Served \subseteq Configurations /\ Abandoned \subseteq Configurations

VARIABLE initial  \* QState::initialState of each composite state below productProvision

rvars == <<vars, initial>>

\* The initial states buildMachine gives the chart.
DefaultInitial ==
  [usage   |-> "usageOn",   usageOn   |-> "activated", activated  |-> "activatedEntry",
   usageOff |-> "pendingDisconnect",
   payment |-> "paymentOn", paymentOn |-> "paymentOnEntry", paymentOff |-> "paymentStopping",
   price   |-> "priceOn",   priceOn   |-> "priceOnEntry"]

Composites == DOMAIN DefaultInitial

\* Mutant: an answer that leaves the initial states as they are.
NothingReset(states) == states

ResetInitialStates(states) == DefaultInitial

\* The child of a composite state that is active where leaf is, or NoLeaf.
ChildTowards(composite, leaf) ==
  CASE composite = "usage" ->
         IF leaf \in UsageOn THEN "usageOn" ELSE IF leaf \in UsageOff THEN "usageOff" ELSE leaf
    [] composite = "usageOn" ->
         IF leaf \in Activated THEN "activated" ELSE IF leaf \in UsageOn THEN leaf ELSE NoLeaf
    [] composite = "activated" -> IF leaf \in Activated THEN leaf ELSE NoLeaf
    [] composite = "usageOff"  -> IF leaf \in UsageOff THEN leaf ELSE NoLeaf
    [] composite = "payment" ->
         IF leaf \in PaymentOn THEN "paymentOn" ELSE IF leaf \in PaymentOff THEN "paymentOff" ELSE leaf
    [] composite = "paymentOn"  -> IF leaf \in PaymentOn THEN leaf ELSE NoLeaf
    [] composite = "paymentOff" -> IF leaf \in PaymentOff THEN leaf ELSE NoLeaf
    [] composite = "price" -> IF leaf \in PriceOn THEN "priceOn" ELSE leaf
    [] composite = "priceOn" -> IF leaf \in PriceOn THEN leaf ELSE NoLeaf

RegionLeaf(composite, c) ==
  CASE composite \in {"usage", "usageOn", "activated", "usageOff"} -> c.usage
    [] composite \in {"payment", "paymentOn", "paymentOff"} -> c.payment
    [] composite \in {"price", "priceOn"} -> c.price

\* loadStateOnly: what the table of configuration c does not name keeps its initial state.
InitialAfterLoading(c) ==
  [s \in Composites |->
     LET child == ChildTowards(s, RegionLeaf(s, c))
     IN  IF child = NoLeaf THEN initial[s] ELSE child]

\* The state entered for s, and the leaf after at most three steps down.
Below(s) == IF s \in Composites THEN initial[s] ELSE s
Entered(s) == Below(Below(Below(s)))

-----------------------------------------------------------------------------
ReuseInit == Init /\ initial = DefaultInitial

\* Another product is loaded and gets an event, or is released again without one.
OtherProduct ==
  /\ calling = Idle
  /\ \/ \E c \in Served : initial' = ResetInitialStates(InitialAfterLoading(c))
     \/ \E c \in Abandoned : initial' = InitialAfterLoading(c)
  /\ UNCHANGED vars

ReuseSend(e, next) ==
  /\ Send(e, next)
  /\ initial' = InitialAfterLoading(saved.conf)

ReuseUsageStep ==
  \E t \in UsageTransitions :
    /\ conf' = [conf EXCEPT !.usage = Entered(t.target)]
    /\ MicrostepTo(conf.usage, t, Entered(t.target))
    /\ UNCHANGED initial

ReusePaymentStep ==
  \E t \in PaymentTransitions :
    /\ conf' = [conf EXCEPT !.payment = Entered(t.target)]
    /\ MicrostepTo(conf.payment, t, Entered(t.target))
    /\ UNCHANGED initial

Provided(usage, payment, price) ==
  [top |-> "productProvision", usage |-> usage, payment |-> payment, price |-> price]

\* Entering productProvision enters the three regions in the order they were built.
ReuseProvisionStep ==
  \E t \in TopTransitions :
    LET event == Head(queue)
        usage == Entered("usage")
        payment == Entered("payment")
        price == Entered("price")
        first  == OnEntry(usage, event, product)
        second == OnEntry(payment, event, first.product)
        third  == OnEntry(price, event, second.product)
    IN
    /\ t.target = "productProvision"
    /\ EventTest(t)
    /\ conf' = Provided(usage, payment, price)
    /\ status' = StatusOnEntry(usage, status)
    /\ product' = third.product
    /\ queue' = Tail(queue) \o Signal(usage, first.emit) \o EnteredSignal(usage)
                  \o Signal(payment, second.emit)
                  \o Signal(price, third.emit) \o EnteredSignal(price) \o FinishedSignal(conf')
    /\ tasks' = tasks \o first.create \o second.create \o third.create
    /\ deleteTasks' = deleteTasks \o first.delete \o second.delete \o third.delete
    /\ hasTransition' = TRUE
    /\ completed' = (completed \/ first.completed \/ second.completed \/ third.completed
                       \/ usage \in CompletesWhenEntered)
    /\ reason' = Later(Later(Later(reason, first.reason), second.reason), third.reason)
    /\ UNCHANGED <<nextPrice, calling, saved, timers, initial>>

\* No transition of the price region, and none that leaves productProvision, targets
\* a composite state.
SameStep == (PriceStep \/ LeaveStep \/ Drop) /\ UNCHANGED initial

ReuseAnswer == Answer /\ initial' = ResetInitialStates(initial)

ReuseNext ==
  \/ OtherProduct
  \/ \E e \in Events : \E next \in NextPricesFor(e) : ReuseSend(e, next)
  \/ ReuseUsageStep \/ ReusePaymentStep \/ ReuseProvisionStep \/ SameStep
  \/ ReuseAnswer

ReuseSpec == ReuseInit /\ [][ReuseNext]_rvars

-----------------------------------------------------------------------------
(* Properties. *)

\* A machine whose products all get their event treats each as a machine of its own
\* would: the initial states one product was loaded with never show in the next.
ImplementsLifecycle == Init /\ [][Next]_vars

\* What the tests of activation expect of every product: its first answer finds it in
\* service at the price it was sold at, with its first period counted, which is free
\* in a trial and else to be paid.
ActivationStarts ==
  Settled /\ Code = 1 /\ calling \in {"activation_completed", "trial_activation_completed"}
    /\ saved.conf.top = "pendingActivate" =>
  /\ HasPrice(saved.product)
  /\ conf = IF saved.product.price.status = "ACTIVE_TRIAL"
            THEN Provided("activeTrial", "paid", "trial")
            ELSE Provided("active", "waitingPayment", "commercial")
  /\ product.tarificationPeriod = 1
=============================================================================
