----------------------------- MODULE PIReuseProofs -----------------------------
(***************************************************************************)
(* A machine that works off an event of every product it is lent for treats *)
(* each as a machine of its own would: PIReuse implements PILifecycle, for  *)
(* every catalog, every bound and every set of other products.              *)
(***************************************************************************)
EXTENDS PIReuse, PICascadeProofs

\* What the machine remembers of the product it was loaded with never shows: the initial
\* states left over are those of composite states the product cannot enter again.
LoadedInv ==
  /\ TypeOK
  /\ calling = Idle => initial = DefaultInitial
  /\ initial["usageOff"] = "pendingDisconnect" \/ conf.usage \notin UsageOn
  /\ initial["paymentOff"] = "paymentStopping" \/ conf.payment \notin PaymentOn
  /\ initial = DefaultInitial \/ conf.top # "pendingActivate"

-----------------------------------------------------------------------------
(* The table of initial states. *)

LEMMA CompositesAre ==
  Composites = {"usage", "usageOn", "activated", "usageOff", "payment", "paymentOn", "paymentOff",
                "price", "priceOn"}
  BY DEF Composites, DefaultInitial

LEMMA DefaultsAre ==
  /\ DefaultInitial["usage"] = "usageOn" /\ DefaultInitial["usageOn"] = "activated"
  /\ DefaultInitial["activated"] = "activatedEntry" /\ DefaultInitial["usageOff"] = "pendingDisconnect"
  /\ DefaultInitial["payment"] = "paymentOn" /\ DefaultInitial["paymentOn"] = "paymentOnEntry"
  /\ DefaultInitial["paymentOff"] = "paymentStopping"
  /\ DefaultInitial["price"] = "priceOn" /\ DefaultInitial["priceOn"] = "priceOnEntry"
  /\ DefaultInitial = [s \in Composites |-> DefaultInitial[s]]
  BY DEF Composites, DefaultInitial

\* A table that names no state inside a composite state leaves its initial state alone.
LEMMA LoadingKeeps ==
  ASSUME NEW c, WellFormed(c), initial = DefaultInitial
  PROVE  /\ InitialAfterLoading(c)["usageOff"] = "pendingDisconnect" \/ c.usage \notin UsageOn
         /\ InitialAfterLoading(c)["paymentOff"] = "paymentStopping" \/ c.payment \notin PaymentOn
         /\ c.top = "pendingActivate" => InitialAfterLoading(c) = DefaultInitial
  <1> DEFINE child(s) == ChildTowards(s, RegionLeaf(s, c))
  <1>1. InitialAfterLoading(c) =
          [s \in Composites |-> IF child(s) = NoLeaf THEN initial[s] ELSE child(s)]
    BY DEF InitialAfterLoading
  <1>2. c.usage \notin UsageOff => child("usageOff") = NoLeaf
    BY DEF ChildTowards, RegionLeaf
  <1>3. c.payment \notin PaymentOff => child("paymentOff") = NoLeaf
    BY DEF ChildTowards, RegionLeaf
  <1>4. ASSUME c.top = "pendingActivate", NEW s \in Composites PROVE child(s) = NoLeaf
    <2>1. c.usage = NoLeaf /\ c.payment = NoLeaf /\ c.price = NoLeaf
      BY <1>4 DEF WellFormed
    <2>2. NoLeaf \notin UsageLeaves \cup PaymentLeaves \cup PriceLeaves
      BY DEF UsageLeaves, UsageOn, UsageOff, Activated, PaymentLeaves, PaymentOn,
             PaymentOff, PriceLeaves, PriceOn, NoLeaf
    <2> QED BY <1>4, <2>1, <2>2, CompositesAre
            DEF ChildTowards, RegionLeaf, UsageLeaves, UsageOn, PaymentLeaves, PriceLeaves
  <1> HIDE DEF child
  <1>5. "usageOff" \in Composites /\ "paymentOff" \in Composites
    BY CompositesAre
  <1>6. c.top = "pendingActivate" => InitialAfterLoading(c) = DefaultInitial
    <2> SUFFICES ASSUME c.top = "pendingActivate" PROVE InitialAfterLoading(c) = DefaultInitial
      OBVIOUS
    <2>1. InitialAfterLoading(c) = [s \in Composites |-> DefaultInitial[s]]
      BY <1>1, <1>4
    <2> QED BY <2>1, DefaultsAre, Zenon
  <1> QED BY <1>1, <1>2, <1>3, <1>5, <1>6, DefaultsAre
          DEF UsageOn, UsageOff, Activated, PaymentOn, PaymentOff

-----------------------------------------------------------------------------
(* Each transition enters what it would on a machine of its own. *)

LEMMA EnteredUsage ==
  ASSUME LoadedInv, NEW t \in UsageTransitions, EventTest(t)
  PROVE  Entered(t.target) = Descend(t.target)
  <1>1. t.target = "usageOff" => initial["usageOff"] = "pendingDisconnect"
    <2>1. t.target = "usageOff" => Inside(t.source) = UsageOn
      BY DEF UsageTransitions, UsageClosing, T, On, From, Inside
    <2>2. conf.usage \in Inside(t.source)
      BY Sources DEF LoadedInv, TypeOK, MachineTypeOK
    <2> QED BY <2>1, <2>2 DEF LoadedInv
  <1>2. t.target = "usageOff" \/ (t.target \notin Composites /\ t.target # "paymentOff")
    BY CompositesAre DEF UsageTransitions, UsageClosing, T, On, From
  <1>3. "usageOff" \in Composites /\ "pendingDisconnect" \notin Composites
    BY CompositesAre
  <1> QED BY <1>1, <1>2, <1>3 DEF Entered, Below, Descend

LEMMA EnteredPayment ==
  ASSUME LoadedInv, NEW t \in PaymentTransitions, EventTest(t)
  PROVE  Entered(t.target) = Descend(t.target)
  <1>1. t.target = "paymentOff" => initial["paymentOff"] = "paymentStopping"
    <2>1. t.target = "paymentOff" => Inside(t.source) \subseteq PaymentOn
      BY DEF PaymentTransitions, PaymentClosing, T, On, From, Inside, PaymentOn
    <2>2. conf.payment \in Inside(t.source)
      BY Sources DEF LoadedInv, TypeOK, MachineTypeOK
    <2> QED BY <2>1, <2>2 DEF LoadedInv
  <1>2. t.target = "paymentOff" \/ (t.target \notin Composites /\ t.target # "usageOff")
    BY CompositesAre DEF PaymentTransitions, PaymentClosing, T, On, From
  <1>3. "paymentOff" \in Composites /\ "paymentStopping" \notin Composites
    BY CompositesAre
  <1> QED BY <1>1, <1>2, <1>3 DEF Entered, Below, Descend

LEMMA EnteredDefaults ==
  ASSUME initial = DefaultInitial
  PROVE  /\ Entered("usage") = "activatedEntry"
         /\ Entered("payment") = "paymentOnEntry"
         /\ Entered("price") = "priceOnEntry"
  BY CompositesAre, DefaultsAre DEF Entered, Below

\* A microstep of the usage region does not open what is closed, nor one of payment.
LEMMA ReuseUsageIsUsage == LoadedInv /\ ReuseUsageStep => UsageStep
  <1> SUFFICES ASSUME LoadedInv, ReuseUsageStep PROVE UsageStep
    OBVIOUS
  <1>1. PICK t \in UsageTransitions :
          /\ conf' = [conf EXCEPT !.usage = Entered(t.target)]
          /\ MicrostepTo(conf.usage, t, Entered(t.target))
    BY DEF ReuseUsageStep
  <1>2. Entered(t.target) = Descend(t.target)
    BY <1>1, EnteredUsage DEF MicrostepTo
  <1> QED BY <1>1, <1>2 DEF UsageStep, Microstep

LEMMA ReusePaymentIsPayment == LoadedInv /\ ReusePaymentStep => PaymentStep
  <1> SUFFICES ASSUME LoadedInv, ReusePaymentStep PROVE PaymentStep
    OBVIOUS
  <1>1. PICK t \in PaymentTransitions :
          /\ conf' = [conf EXCEPT !.payment = Entered(t.target)]
          /\ MicrostepTo(conf.payment, t, Entered(t.target))
    BY DEF ReusePaymentStep
  <1>2. Entered(t.target) = Descend(t.target)
    BY <1>1, EnteredPayment DEF MicrostepTo
  <1> QED BY <1>1, <1>2 DEF PaymentStep, Microstep

\* Entering productProvision, the handlers of the three entry states only emit.
OnlyEmits(effect, p) ==
  /\ effect.product = p /\ effect.create = <<>> /\ effect.delete = <<>>
  /\ effect.completed = FALSE /\ effect.reason = NoError

LEMMA EntryStatesEmit ==
  \A event, p :
    /\ OnlyEmits(OnEntry("activatedEntry", event, p), p)
    /\ OnlyEmits(OnEntry("paymentOnEntry", event, p), p)
    /\ OnlyEmits(OnEntry("priceOnEntry", event, p), p)
  BY DEF OnlyEmits, OnEntry, PriceOnEntryOnEntry, Emits, Nothing

LEMMA ProvisionSource ==
  \A t \in TopTransitions : t.target = "productProvision" => t.source = "pendingActivate"
  BY DEF TopTransitions, T, On, From

LEMMA ProvisionIsProvision == LoadedInv /\ ReuseProvisionStep => ProvisionStep
  <1> SUFFICES ASSUME LoadedInv, ReuseProvisionStep PROVE ProvisionStep
    OBVIOUS
  <1> DEFINE event  == Head(queue)
             first  == OnEntry(Entered("usage"), event, product)
             second == OnEntry(Entered("payment"), event, first.product)
             third  == OnEntry(Entered("price"), event, second.product)
             emitted(s) == Signal(s, OnEntry(s, event, product).emit)
  <1>1. PICK t \in TopTransitions :
    /\ t.target = "productProvision"
    /\ EventTest(t)
    /\ conf' = Provided(Entered("usage"), Entered("payment"), Entered("price"))
    /\ status' = StatusOnEntry(Entered("usage"), status)
    /\ product' = third.product
    /\ queue' = Tail(queue) \o Signal(Entered("usage"), first.emit) \o EnteredSignal(Entered("usage"))
                  \o Signal(Entered("payment"), second.emit)
                  \o Signal(Entered("price"), third.emit) \o EnteredSignal(Entered("price"))
                  \o FinishedSignal(conf')
    /\ tasks' = tasks \o first.create \o second.create \o third.create
    /\ deleteTasks' = deleteTasks \o first.delete \o second.delete \o third.delete
    /\ hasTransition' = TRUE
    /\ completed' = (completed \/ first.completed \/ second.completed \/ third.completed
                       \/ Entered("usage") \in CompletesWhenEntered)
    /\ reason' = Later(Later(Later(reason, first.reason), second.reason), third.reason)
    /\ UNCHANGED <<nextPrice, calling, saved, timers, initial>>
    BY DEF ReuseProvisionStep
  <1>2. conf.top = "pendingActivate"
    <2>1. t.source = "pendingActivate"
      BY <1>1, ProvisionSource
    <2>2. "pendingActivate" \in ActiveStates
      BY <1>1, <2>1 DEF EventTest, Triggered, Inside
    <2>3. "pendingActivate" \notin UsageLeaves \cup PaymentLeaves \cup PriceLeaves \cup {NoLeaf}
      BY DEF PriceLeaves, PriceOn, UsageLeaves, UsageOn, UsageOff, Activated, PaymentLeaves,
             PaymentOn, PaymentOff, NoLeaf
    <2> QED BY <2>2, <2>3 DEF LoadedInv, TypeOK, MachineTypeOK, WellFormed, Configurations, ActiveStates
  <1>3. /\ Entered("usage") = "activatedEntry"
        /\ Entered("payment") = "paymentOnEntry"
        /\ Entered("price") = "priceOnEntry"
    BY <1>2, EnteredDefaults DEF LoadedInv
  <1>4. /\ first  = OnEntry("activatedEntry", event, product)
        /\ second = OnEntry("paymentOnEntry", event, product)
        /\ third  = OnEntry("priceOnEntry", event, product)
        /\ OnlyEmits(first, product) /\ OnlyEmits(second, product) /\ OnlyEmits(third, product)
    <2>1. first = OnEntry("activatedEntry", event, product)
      BY <1>3
    <2>2. OnlyEmits(first, product) /\ first.product = product
      BY <2>1, EntryStatesEmit DEF OnlyEmits
    <2>3. second = OnEntry("paymentOnEntry", event, product)
      BY <1>3, <2>2
    <2>4. OnlyEmits(second, product) /\ second.product = product
      BY <2>3, EntryStatesEmit DEF OnlyEmits
    <2>5. third = OnEntry("priceOnEntry", event, product)
      BY <1>3, <2>4
    <2>6. OnlyEmits(third, product)
      BY <2>5, EntryStatesEmit
    <2> QED BY <2>1, <2>2, <2>3, <2>4, <2>5, <2>6
  <1> HIDE DEF first, second, third, event
  <1>5. \A effect \in {first, second, third} :
          /\ effect.product = product /\ effect.create = <<>> /\ effect.delete = <<>>
          /\ effect.completed = FALSE /\ effect.reason = NoError
    BY <1>4 DEF OnlyEmits
  <1>6. /\ EnteredSignal("activatedEntry") = <<>> /\ EnteredSignal("priceOnEntry") = <<>>
        /\ conf' = DefaultProvision /\ FinishedSignal(conf') = <<>>
    <2>1. conf' = DefaultProvision
      BY <1>1, <1>3 DEF Provided, DefaultProvision
    <2>2. \A s : Signal(s, <<>>) = <<>>
      BY DEF Signal
    <2>3. ~Finished(conf')
      BY <2>1 DEF Finished, FinalLeaves, DefaultProvision
    <2> QED BY <2>1, <2>2, <2>3 DEF EnteredSignal, FinishedSignal, SignalsWhenEntered
  <1>7. /\ queue \in Seq(Signals) /\ queue # <<>> /\ Tail(queue) \in Seq(Signals) /\ event \in Signals
        /\ tasks \in Seq(Tasks) /\ deleteTasks \in Seq(TimerEvents)
        /\ product \in Products /\ completed \in BOOLEAN
    <2>1. queue \in Seq(Signals) /\ queue # <<>>
      BY <1>1 DEF LoadedInv, TypeOK, MachineTypeOK, EventTest, Triggered
    <2>2. event \in Signals /\ Tail(queue) \in Seq(Signals)
      BY <2>1, HeadTailProperties DEF event
    <2> QED BY <2>1, <2>2 DEF LoadedInv, TypeOK, MachineTypeOK
  <1>8. \A s \in {"activatedEntry", "paymentOnEntry", "priceOnEntry"} : emitted(s) \in Seq(Signals)
    <2>1. {"activatedEntry", "paymentOnEntry", "priceOnEntry"} \subseteq Senders
      BY DEF Senders, UsageLeaves, UsageOn, Activated, PaymentLeaves, PaymentOn, PriceLeaves, PriceOn
    <2> QED BY <1>7, <2>1, EntryType, SignalType DEF Effects
  <1>9. /\ Signal(Entered("usage"), first.emit) = emitted("activatedEntry")
        /\ Signal(Entered("payment"), second.emit) = emitted("paymentOnEntry")
        /\ Signal(Entered("price"), third.emit) = emitted("priceOnEntry")
    BY <1>3, <1>4
  <1> HIDE DEF emitted
  <1>10. queue' = Tail(queue) \o emitted("activatedEntry") \o emitted("paymentOnEntry")
                    \o emitted("priceOnEntry")
    <2>1. queue' = Tail(queue) \o emitted("activatedEntry") \o <<>> \o emitted("paymentOnEntry")
                     \o emitted("priceOnEntry") \o <<>> \o <<>>
      BY <1>1, <1>3, <1>6, <1>9
    <2>2. \A s \in Seq(Signals) : s \o <<>> = s
      OBVIOUS
    <2>3. /\ Tail(queue) \o emitted("activatedEntry") \in Seq(Signals)
          /\ Tail(queue) \o emitted("activatedEntry") \o emitted("paymentOnEntry") \in Seq(Signals)
          /\ Tail(queue) \o emitted("activatedEntry") \o emitted("paymentOnEntry")
               \o emitted("priceOnEntry") \in Seq(Signals)
      BY <1>7, <1>8
    <2> QED BY <2>1, <2>2, <2>3
  <1>11. tasks' = tasks /\ deleteTasks' = deleteTasks
    <2>1. tasks' = tasks \o <<>> \o <<>> \o <<>> /\ deleteTasks' = deleteTasks \o <<>> \o <<>> \o <<>>
      BY <1>1, <1>5
    <2> QED BY <1>7, <2>1
  <1>12. /\ status' = status /\ product' = product /\ completed' = completed /\ reason' = reason
    BY <1>1, <1>3, <1>5, <1>7 DEF StatusOnEntry, CompletesWhenEntered, Later
  <1> QED BY <1>1, <1>6, <1>10, <1>11, <1>12 DEF ProvisionStep, emitted, event

-----------------------------------------------------------------------------
(* The refinement. *)

LEMMA ReuseIsNext == LoadedInv /\ [ReuseNext]_rvars => [Next]_vars
  <1> SUFFICES ASSUME LoadedInv, [ReuseNext]_rvars PROVE [Next]_vars
    OBVIOUS
  <1>1. CASE OtherProduct
    BY <1>1 DEF OtherProduct
  <1>2. ASSUME NEW e \in Events, NEW next \in NextPricesFor(e), ReuseSend(e, next) PROVE Next
    BY <1>2 DEF ReuseSend, Next, CallerStep
  <1>3. CASE ReuseUsageStep \/ ReusePaymentStep \/ ReuseProvisionStep \/ SameStep
    BY <1>3, ReuseUsageIsUsage, ReusePaymentIsPayment, ProvisionIsProvision
       DEF SameStep, Next, MachineStep
  <1>4. CASE ReuseAnswer
    BY <1>4 DEF ReuseAnswer, Next
  <1>5. CASE UNCHANGED rvars
    BY <1>5 DEF rvars
  <1> QED BY <1>1, <1>2, <1>3, <1>4, <1>5 DEF ReuseNext

\* Nothing opens a usage or a payment that is closed, and nothing leads back to
\* pendingActivate.
LEMMA StaysClosed ==
  ASSUME TypeOK, MachineStep
  PROVE  /\ conf'.usage \in UsageOn => conf.usage \in UsageOn \/ conf.top = "pendingActivate"
         /\ conf'.payment \in PaymentOn => conf.payment \in PaymentOn \/ conf.top = "pendingActivate"
         /\ conf'.top = "pendingActivate" => conf.top = "pendingActivate"
  <1>0. WellFormed(conf) /\ conf \in Configurations
    BY DEF TypeOK, MachineTypeOK, WellFormed
  <1>1. CASE PriceStep
    BY <1>0, <1>1 DEF PriceStep, Configurations
  <1>2. CASE UsageStep
    <2>1. PICK t \in UsageTransitions : /\ conf' = [conf EXCEPT !.usage = Descend(t.target)]
                                       /\ EventTest(t)
      BY <1>2 DEF UsageStep, Microstep, MicrostepTo
    <2>2. conf.usage \in Inside(t.source)
      BY <1>0, <2>1, Sources
    <2>3. Descend(t.target) \in UsageOn => Inside(t.source) \cap (UsageOff \cup {"usageFinal"}) = {}
      BY UsageRules DEF UsageOn, UsageOff, Activated
    <2>4. conf.usage \in UsageLeaves
      BY <2>2, UsageSources
    <2> QED BY <1>0, <2>1, <2>2, <2>3, <2>4 DEF Configurations, UsageLeaves
  <1>3. CASE PaymentStep
    <2>1. PICK t \in PaymentTransitions : /\ conf' = [conf EXCEPT !.payment = Descend(t.target)]
                                         /\ EventTest(t)
      BY <1>3 DEF PaymentStep, Microstep, MicrostepTo
    <2>2. conf.payment \in Inside(t.source)
      BY <1>0, <2>1, Sources
    <2>3. Descend(t.target) \in PaymentOn => Inside(t.source) \subseteq PaymentOn
      BY DEF PaymentTransitions, PaymentClosing, T, On, From, Descend, Inside, PaymentOn
    <2> QED BY <1>0, <2>1, <2>2, <2>3 DEF Configurations
  <1>4. CASE ProvisionStep
    <2>1. PICK t \in TopTransitions : t.target = "productProvision" /\ EventTest(t)
      BY <1>4 DEF ProvisionStep
    <2>2. "pendingActivate" \in ActiveStates
      BY <2>1, ProvisionSource DEF EventTest, Triggered, Inside
    <2>3. "pendingActivate" \notin UsageLeaves \cup PaymentLeaves \cup PriceLeaves \cup {NoLeaf}
      BY DEF PriceLeaves, PriceOn, UsageLeaves, UsageOn, UsageOff, Activated, PaymentLeaves,
             PaymentOn, PaymentOff, NoLeaf
    <2> QED BY <1>0, <2>2, <2>3 DEF Configurations, ActiveStates
  <1>5. CASE LeaveStep
    BY <1>5 DEF LeaveStep, Outside, UsageOn, Activated, PaymentOn, NoLeaf
  <1>6. CASE Drop
    BY <1>6 DEF Drop
  <1> QED BY <1>1, <1>2, <1>3, <1>4, <1>5, <1>6 DEF MachineStep

LEMMA LoadedStep == LoadedInv /\ Abandoned = {} /\ [ReuseNext]_rvars => LoadedInv'
  <1> SUFFICES ASSUME LoadedInv, Abandoned = {}, [ReuseNext]_rvars PROVE LoadedInv'
    OBVIOUS
  <1>1. [Next]_vars /\ TypeOK'
    BY ReuseIsNext, NextType DEF LoadedInv
  <1>2. CASE OtherProduct
    BY <1>1, <1>2 DEF OtherProduct, ResetInitialStates, LoadedInv, vars, DefaultInitial
  <1>3. ASSUME NEW e \in Events, NEW next \in NextPricesFor(e), ReuseSend(e, next) PROVE LoadedInv'
    <2>1. /\ initial = DefaultInitial /\ initial' = InitialAfterLoading(saved.conf)
          /\ conf' = saved.conf /\ calling' = e
      BY <1>3 DEF ReuseSend, Send, Call, LoadedInv
    <2>2. WellFormed(saved.conf) /\ e # Idle
      BY DEF LoadedInv, TypeOK, MachineTypeOK, Events, MachineEvents, Idle
    <2> QED BY <1>1, <2>1, <2>2, LoadingKeeps DEF LoadedInv
  <1>4. CASE ReuseUsageStep \/ ReusePaymentStep \/ ReuseProvisionStep \/ SameStep
    <2>1. MachineStep
      BY <1>4, ReuseUsageIsUsage, ReusePaymentIsPayment, ProvisionIsProvision
         DEF SameStep, MachineStep
    <2>2. UNCHANGED initial
      BY <1>4 DEF ReuseUsageStep, ReusePaymentStep, ReuseProvisionStep, SameStep
    <2>3. UNCHANGED calling
      BY <2>1 DEF MachineStep, PriceStep, UsageStep, PaymentStep, ProvisionStep, LeaveStep, Drop,
                  Microstep, MicrostepTo
    <2>4. initial = DefaultInitial =>
            initial["usageOff"] = "pendingDisconnect" /\ initial["paymentOff"] = "paymentStopping"
      BY DefaultsAre
    <2> QED BY <1>1, <2>1, <2>2, <2>3, <2>4, StaysClosed DEF LoadedInv
  <1>5. CASE ReuseAnswer
    BY <1>1, <1>5, DefaultsAre DEF ReuseAnswer, ResetInitialStates, LoadedInv
  <1>6. CASE UNCHANGED rvars
    BY <1>1, <1>6 DEF rvars, vars, LoadedInv
  <1> QED BY <1>2, <1>3, <1>4, <1>5, <1>6 DEF ReuseNext

LEMMA LoadedInit == ReuseInit => LoadedInv
  BY InitType, DefaultsAre DEF ReuseInit, LoadedInv

\* Where no product is released without an event, the machine behaves for each as
\* PILifecycle says: what other products were loaded before never shows.
THEOREM ReuseImplementsLifecycle == Abandoned = {} => (ReuseSpec => ImplementsLifecycle)
  <1> SUFFICES ASSUME Abandoned = {} PROVE ReuseSpec => ImplementsLifecycle
    OBVIOUS
  <1>1. LoadedInv /\ [ReuseNext]_rvars => LoadedInv'
    BY LoadedStep
  <1>2. LoadedInv /\ [ReuseNext]_rvars => [Next]_vars
    BY ReuseIsNext
  <1>3. ReuseInit => Init
    BY DEF ReuseInit
  <1> QED BY <1>1, <1>2, <1>3, LoadedInit, PTL DEF ReuseSpec, ImplementsLifecycle

-----------------------------------------------------------------------------
(* An activation. *)

Activations == {"activation_completed", "trial_activation_completed"}

OnTrial(p) == HasPrice(p) /\ p.price.status = "ACTIVE_TRIAL"
ForSale(p) == HasPrice(p) /\ p.price.status # "ACTIVE_TRIAL"

\* The signal of priceOnEntry is the one for the price the product was stored with.
Offered ==
  LET usage == Sig("activatedEntry", calling)
      pay   == Sig("paymentOnEntry", calling)
      price == Sig("priceOnEntry", IF OnTrial(saved.product) THEN "trial_activation_completed"
                                                            ELSE "activation_completed")
  IN
  /\ product = saved.product
  /\ \E q \in {<<usage, pay, price>>, <<pay, price>>, <<price>>} :
       Activating(q, "paymentOnEntry", "priceOnEntry", Periods0, <<>>)

\* Where the activation ends.
Started ==
  /\ HasPrice(saved.product)
  /\ conf = IF saved.product.price.status = "ACTIVE_TRIAL"
            THEN In("activeTrial", "paid", "trial")
            ELSE In("active", "waitingPayment", "commercial")
  /\ product.tarificationPeriod = 1

\* The phases of an activation, with the price that is being sold.
Sale ==
  \/ Loaded
  \/ Offered
  \/ (Sold \/ Due) /\ ForSale(saved.product)
  \/ (SoldTrial \/ Free) /\ OnTrial(saved.product)
  \/ queue = <<>> /\ (completed => Started)

SaleInv ==
  saved.conf.top = "pendingActivate" =>
    /\ Periods0 = 0
    /\ calling \in Activations => Sale

LEMMA OfferedIsEntering == Offered => Entering
  BY DEF Offered, Entering

\* A cascade at rest says nothing but that its call has been completed or not.
LEMMA SaleSignals ==
  ASSUME Sale
  PROVE  /\ queue # <<>> => ~completed
         /\ Loaded => Head(queue) = Sig("machine", calling) /\ Tail(queue) = <<>>
         /\ Sold => Head(queue) = Sig("commercial", "activation_completed") /\ Tail(queue) = <<>>
         /\ SoldTrial => Head(queue) = Sig("trial", "trial_activation_completed") /\ Tail(queue) = <<>>
         /\ Due => Head(queue) = Sig("waitingPayment", "activation_completed") /\ Tail(queue) = <<>>
         /\ Free => Head(queue) = Sig("paid", "trial_activation_completed") /\ Tail(queue) = <<>>
         /\ queue = <<>> /\ completed => Started
  <1>1. Loaded => Head(queue) = Sig("machine", calling) /\ Tail(queue) = <<>> /\ queue # <<>> /\ ~completed
    BY LoadedStart
  <1>2. Offered => queue # <<>> /\ ~completed
    BY HeadsAndTails DEF Offered, Activating
  <1>3. /\ Sold => Head(queue) = Sig("commercial", "activation_completed") /\ Tail(queue) = <<>>
        /\ SoldTrial => Head(queue) = Sig("trial", "trial_activation_completed") /\ Tail(queue) = <<>>
        /\ Due => Head(queue) = Sig("waitingPayment", "activation_completed") /\ Tail(queue) = <<>>
        /\ Free => Head(queue) = Sig("paid", "trial_activation_completed") /\ Tail(queue) = <<>>
        /\ Sold \/ SoldTrial \/ Due \/ Free => queue # <<>> /\ ~completed
    BY HeadsAndTails DEF Sold, SoldTrial, Due, Free, Activating
  <1> QED BY <1>1, <1>2, <1>3 DEF Sale

\* What the signals of the three initial leaves lead to.
LEMMA OfferedSignals ==
  ASSUME Offered, NEW first, first = (IF OnTrial(saved.product) THEN "trial_activation_completed"
                                                               ELSE "activation_completed")
  PROVE  /\ Head(queue).sender \in {"activatedEntry", "paymentOnEntry", "priceOnEntry"}
         /\ Head(queue).sender = "priceOnEntry" => Head(queue).value = first
         /\ product = saved.product /\ ~completed
         /\ Tail(queue) # <<>> =>
              \E q \in {<<Sig("paymentOnEntry", calling), Sig("priceOnEntry", first)>>,
                        <<Sig("priceOnEntry", first)>>} : Tail(queue) = q
  <1> DEFINE a == Sig("activatedEntry", calling)
             b == Sig("paymentOnEntry", calling)
             c == Sig("priceOnEntry", first)
  <1>1. queue \in {<<a, b, c>>, <<b, c>>, <<c>>} /\ product = saved.product /\ ~completed
    BY DEF Offered, Activating
  <1>2. /\ a.sender = "activatedEntry" /\ b.sender = "paymentOnEntry" /\ c.sender = "priceOnEntry"
        /\ c.value = first
    BY DEF Sig
  <1> HIDE DEF a, b, c
  <1>3. Head(queue) \in {a, b, c} /\ (Tail(queue) # <<>> => Tail(queue) \in {<<b, c>>, <<c>>})
    <2>1. /\ Head(<<a, b, c>>) = a /\ Head(<<b, c>>) = b /\ Head(<<c>>) = c
          /\ Tail(<<a, b, c>>) = <<b, c>> /\ Tail(<<b, c>>) = <<c>> /\ Tail(<<c>>) = <<>>
      BY HeadsAndTails
    <2> QED BY <1>1, <2>1
  <1> QED BY <1>1, <1>2, <1>3 DEF b, c

\* Each step of the machine leads from one phase of an activation to another.
LEMMA SaleStep ==
  ASSUME CascadeInv, TypeOK, MachineStep, saved.conf.top = "pendingActivate", Periods0 = 0,
         calling \in Activations, Sale
  PROVE  Sale'
  <1>0. queue # <<>> /\ calling # Idle /\ Phase /\ ~completed
    BY StepKinds, SaleSignals DEF CascadeInv
  <1>p. UNCHANGED <<calling, saved, timers>>
    BY MachineStepPhase
  <1>f. PICK first : first = (IF OnTrial(saved.product) THEN "trial_activation_completed"
                                                       ELSE "activation_completed")
    OBVIOUS
  <1>1. CASE Drop
    <2>1. /\ queue' = Tail(queue)
          /\ UNCHANGED <<conf, status, product, tasks, deleteTasks, completed>>
      BY <1>1 DEF Drop
    <2>2. CASE Tail(queue) = <<>>
      BY <1>0, <2>1, <2>2 DEF Sale
    <2>3. CASE Tail(queue) # <<>>
      <3>1. Offered
        BY <1>0, <2>3, SaleSignals DEF Sale
      <3>2. \E q \in {<<Sig("paymentOnEntry", calling), Sig("priceOnEntry", first)>>,
                      <<Sig("priceOnEntry", first)>>} : Tail(queue) = q
        BY <1>f, <2>3, <3>1, OfferedSignals
      <3>3. Activating(queue, "paymentOnEntry", "priceOnEntry", Periods0, <<>>) /\ product = saved.product
        BY <3>1 DEF Offered, Activating
      <3>4. Offered'
        BY <1>f, <1>p, <2>1, <3>2, <3>3 DEF Offered, Activating, Periods0
      <3> QED BY <3>4 DEF Sale
    <2> QED BY <2>2, <2>3
  <1>2. CASE ProvisionStep
    <2>1. PICK v \in {"activation_completed", "trial_activation_completed"} :
            /\ OnEntry("priceOnEntry", Head(queue), product).emit = <<v>>
            /\ queue' = <<Sig("activatedEntry", calling), Sig("paymentOnEntry", calling),
                         Sig("priceOnEntry", v)>>
            /\ Activating(queue, "paymentOnEntry", "priceOnEntry", Periods0, <<>>)'
      BY <1>0, <1>2, StepEntering
    <2>2. product' = saved.product /\ product = saved.product
      BY <1>0, <1>2, StepEntering DEF Loaded
    <2>3. v = first
      <3>1. OnEntry("priceOnEntry", Head(queue), product).emit = <<first>>
        BY <1>f, <2>2 DEF OnEntry, PriceOnEntryOnEntry, Emits, Nothing, OnTrial
      <3> QED BY <2>1, <3>1, HeadsAndTails
    <2>4. Offered'
      BY <1>f, <1>p, <2>1, <2>2, <2>3 DEF Offered, Activating
    <2> QED BY <2>4 DEF Sale
  <1>3. ~LeaveStep
    <2> SUFFICES ASSUME LeaveStep PROVE FALSE
      OBVIOUS
    <2>1. PICK t \in TopTransitions : t.target \in {"aborted", "disconnect"} /\ EventTest(t)
      BY DEF LeaveStep
    <2>2. \/ Head(queue).sender = "machine" /\ Head(queue).value = "activation_aborted"
          \/ Head(queue).sender = "productProvision"
      BY <2>1, TopKinds DEF TypeOK, MachineTypeOK
    <2>3. CASE Head(queue).sender = "machine" /\ Head(queue).value = "activation_aborted"
      BY <1>0, <2>3, PhaseOfHead, LoadedStart DEF Sig, Activations
    <2>4. CASE Head(queue).sender = "productProvision"
      BY <1>0, <2>4, PhaseOfHead DEF Finishing, At
    <2> QED BY <2>2, <2>3, <2>4
  <1>4. CASE ~(ProvisionStep \/ LeaveStep \/ Drop)
    <2>0. conf.top = "productProvision"
      BY <1>4, StepKinds
    <2>1. ~Loaded
      BY <2>0 DEF Loaded
    <2>2. CASE \E to \in PriceLeaves : PriceMoved(to)
      <3>1. PICK to \in PriceLeaves : PriceMoved(to)
        BY <2>2
      <3>2. PriceMove(conf.price, to)
        BY <3>1 DEF PriceMoved
      <3>3. Offered
        BY <1>0, <2>1, <3>2, SaleSignals DEF Sale, PriceMove, Heard, Sig
      <3>4. /\ Heard("priceOnEntry", first)
            /\ \/ first = "activation_completed" /\ to = "commercial" /\ ~OnTrial(saved.product)
               \/ first = "trial_activation_completed" /\ to = "trial" /\ OnTrial(saved.product)
        BY <1>f, <3>2, <3>3, OfferedSignals DEF PriceMove, Heard
      <3>5. Entering /\ product = saved.product
        BY <3>3, OfferedIsEntering DEF Offered
      <3>6. CASE ~HasPeriodType(product)
        BY <3>1, <3>4, <3>5, <3>6, StepUnsold, StepUnsoldTrial DEF Sale
      <3>7. CASE HasPeriodType(product) /\ ~OnTrial(saved.product)
        <4>1. Sold'
          BY <3>1, <3>4, <3>5, <3>7, StepSold
        <4>2. ForSale(saved.product)'
          BY <1>p, <3>5, <3>7 DEF ForSale, OnTrial, HasPeriodType
        <4> QED BY <4>1, <4>2 DEF Sale
      <3>8. CASE HasPeriodType(product) /\ OnTrial(saved.product)
        <4>1. SoldTrial'
          BY <3>1, <3>4, <3>5, <3>8, StepSoldTrial
        <4>2. OnTrial(saved.product)'
          BY <1>p, <3>8
        <4> QED BY <4>1, <4>2 DEF Sale
      <3> QED BY <3>6, <3>7, <3>8
    <2>3. CASE \E to \in PaymentLeaves : PaymentMoved(to)
      <3>1. PICK to \in PaymentLeaves : PaymentMoved(to)
        BY <2>3
      <3>2. PaymentMove(conf.payment, to)
        BY <3>1 DEF PaymentMoved
      <3>3. ~Offered
        BY <1>f, <3>2, OfferedSignals DEF PaymentMove, Heard
      <3>4. \/ Sold /\ ForSale(saved.product) /\ to = "waitingPayment"
            \/ SoldTrial /\ OnTrial(saved.product) /\ to = "paid"
        BY <1>0, <2>1, <3>2, <3>3, SaleSignals DEF Sale, PaymentMove, Heard, Sig
      <3>5. CASE Sold /\ ForSale(saved.product) /\ to = "waitingPayment"
        <4>1. Due' /\ ForSale(saved.product)'
          BY <1>p, <3>1, <3>5, StepDue
        <4> QED BY <4>1 DEF Sale
      <3>6. CASE SoldTrial /\ OnTrial(saved.product) /\ to = "paid"
        <4>1. Free' /\ OnTrial(saved.product)'
          BY <1>p, <3>1, <3>6, StepFree
        <4> QED BY <4>1 DEF Sale
      <3> QED BY <3>4, <3>5, <3>6
    <2>4. CASE \E to \in UsageLeaves : UsageMoved(to)
      <3>1. PICK to \in UsageLeaves : UsageMoved(to)
        BY <2>4
      <3>2. UsageMove(conf.usage, to)
        BY <3>1 DEF UsageMoved
      <3>3. ~Offered
        BY <1>f, <3>2, OfferedSignals DEF UsageMove, Heard
      <3>4. \/ Due /\ ForSale(saved.product) /\ to = "active"
            \/ Free /\ OnTrial(saved.product) /\ to = "activeTrial"
        <4>1. (Due /\ ForSale(saved.product)) \/ (Free /\ OnTrial(saved.product))
          BY <1>0, <2>1, <3>2, <3>3, SaleSignals DEF Sale, UsageMove, Heard, Sig
        <4>2. (Due => conf.usage = "activatedEntry") /\ (Free => conf.usage = "activatedEntry")
          BY DEF Due, Free, Activating, In
        <4> QED BY <3>2, <4>1, <4>2, SaleSignals DEF UsageMove, Heard, Sig
      <3>5. CASE Due /\ ForSale(saved.product) /\ to = "active"
        <4>1. queue' = <<>> /\ conf' = In("active", "waitingPayment", "commercial") /\ product' = product
          BY <3>1, <3>5, StepInService
        <4>2. product.tarificationPeriod = 1
          BY <3>5 DEF Due, Activating
        <4>3. Started'
          BY <1>p, <3>5, <4>1, <4>2 DEF Started, ForSale, HasPrice
        <4> QED BY <4>1, <4>3 DEF Sale
      <3>6. CASE Free /\ OnTrial(saved.product) /\ to = "activeTrial"
        <4>1. queue' = <<>> /\ conf' = In("activeTrial", "paid", "trial") /\ product' = product
          BY <3>1, <3>6, StepInTrial
        <4>2. product.tarificationPeriod = 1
          BY <3>6 DEF Free, Activating
        <4>3. Started'
          BY <1>p, <3>6, <4>1, <4>2 DEF Started, OnTrial, HasPrice
        <4> QED BY <4>1, <4>3 DEF Sale
      <3> QED BY <3>4, <3>5, <3>6
    <2> QED BY <1>4, <2>2, <2>3, <2>4, StepKinds
  <1> QED BY <1>1, <1>2, <1>3, <1>4

LEMMA SaleInit == Init => SaleInv
  BY DEF Init, SaleInv, Periods0, Activations, Idle

\* A product is only ever stored in pendingActivate as it was.
LEMMA UnsoldKept ==
  ASSUME CascadeInv, TypeOK, Settled, Code = 1, conf.top = "pendingActivate"
  PROVE  saved.conf.top = "pendingActivate" /\ product.tarificationPeriod = Periods0
  <1>1. Result(conf, status, product.tarificationPeriod, ToSet(tasks), ToSet(deleteTasks))
    BY SuccessOutcome DEF Outcome
  <1>2. status = "PENDING_ACTIVATE"
    BY <1>1 DEF Result, Rests, StatusFits
  <1>3. Status0 = "PENDING_ACTIVATE" /\ product.tarificationPeriod = Periods0
    BY <1>1, <1>2 DEF Result, Moves, InService
  <1>4. /\ saved.conf \in Configurations /\ WellFormed(saved.conf)
        /\ Rests(saved.conf, Status0, Periods0)
    BY DEF TypeOK, MachineTypeOK, SavedProducts, CascadeInv
  <1>5. saved.conf.top = "pendingActivate"
    BY <1>3, <1>4 DEF WellFormed, Configurations, TopStates, Rests, StatusFits, UsageClosed,
       UsageLeaves, UsageOn, UsageOff, Activated
  <1> QED BY <1>3, <1>5

LEMMA SaleNext == CascadeInv /\ TypeOK /\ SaleInv /\ [Next]_vars => SaleInv'
  <1> SUFFICES ASSUME CascadeInv, TypeOK, SaleInv, [Next]_vars PROVE SaleInv'
    OBVIOUS
  <1>1. CASE MachineStep
    <2>1. UNCHANGED <<calling, saved, timers>> /\ Periods0' = Periods0
      BY <1>1, MachineStepPhase DEF Periods0
    <2> QED BY <1>1, <2>1, SaleStep DEF SaleInv
  <1>2. CASE CallerStep
    <2>1. PICK e \in Events : \E next \in NextPricesFor(e) : Send(e, next)
      BY <1>2 DEF CallerStep
    <2>2. Loaded' /\ UNCHANGED saved
      BY <2>1, StatusLoadedAtRest DEF Send, Call, Loaded, Status0, Sig
    <2> QED BY <2>2 DEF SaleInv, Sale, Periods0
  <1>3. CASE Answer
    <2>1. calling' = Idle /\ Settled
      BY <1>3 DEF Answer
    <2>2. CASE Code = 1
      BY <1>3, <2>1, <2>2, UnsoldKept DEF Answer, SaleInv, Periods0, Activations, Idle
    <2>3. CASE Code # 1
      BY <1>3, <2>1, <2>3 DEF Answer, SaleInv, Periods0, Activations, Idle
    <2> QED BY <2>2, <2>3
  <1>4. CASE UNCHANGED vars
    <2>1. UNCHANGED <<conf, status, product, queue, tasks, deleteTasks, completed, reason,
                      calling, saved, timers>>
      BY <1>4 DEF vars
    <2> QED
      BY <2>1
      DEF SaleInv, Sale, Loaded, Offered, Sold, SoldTrial, Due, Free, Started, Activating, Periods0, Status0
  <1> QED BY <1>1, <1>2, <1>3, <1>4 DEF Next

\* Where no product is released without an event, the first answer to a product's activation
\* finds it in service at the price it was sold at, with one period counted, whatever was
\* loaded on the machine before (loadStateOnly, resetInitialStates).
THEOREM ActivationsStart == Abandoned = {} => (ReuseSpec => []ActivationStarts)
  <1> SUFFICES ASSUME Abandoned = {} PROVE ReuseSpec => []ActivationStarts
    OBVIOUS
  <1>1. TypeOK /\ [Next]_vars => TypeOK'
    BY NextType
  <1>2. CascadeInv /\ TypeOK /\ [Next]_vars => CascadeInv'
    BY CascadeNext
  <1>3. CascadeInv /\ TypeOK /\ SaleInv /\ [Next]_vars => SaleInv'
    BY SaleNext
  <1>4. SaleInv /\ TypeOK => ActivationStarts
    <2> SUFFICES ASSUME SaleInv, TypeOK, Settled, Code = 1, calling \in Activations,
                        saved.conf.top = "pendingActivate"
                 PROVE  Started
      BY DEF ActivationStarts, Started, Activations, Provided, In
    <2>1. Sale /\ queue = <<>> /\ completed
      BY Completed DEF SaleInv, Settled
    <2> QED BY <2>1, SaleSignals
  <1> QED
    BY <1>1, <1>2, <1>3, <1>4, InitType, CascadeInit, SaleInit, ReuseImplementsLifecycle, PTL
       DEF ImplementsLifecycle
=============================================================================
