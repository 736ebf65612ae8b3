--------------------------- MODULE PILifecycleProofs ---------------------------
(***************************************************************************)
(* Proofs about PILifecycle, for every catalog and every bound: its types,  *)
(* that a signal never has a choice of transitions, and the order in which  *)
(* a product is shut down (usage ends after tarification, tarification      *)
(* after payment, and nothing is billed once the payments have ended).      *)
(* The lemmas about what each handler and each step does are here too, for  *)
(* the proofs about the modules that build on PILifecycle.                  *)
(***************************************************************************)
EXTENDS PILifecycle, SequenceTheorems, TLAPS

-----------------------------------------------------------------------------
(* The tables: where the transitions of each region lead. *)

Reasons == {NoError, QfsmlibError, IllegalEventError}

\* The values signals carry.
Names == MachineEvents \cup CascadeValues \cup {"unknown"}

Effects == [emit : Seq(Names), create : Seq(Tasks), delete : Seq(TimerEvents),
            product : Products, completed : BOOLEAN, reason : Reasons]

LEMMA PriceTargets == \A t \in PriceTransitions : Descend(t.target) \in PriceLeaves
  BY DEF PriceTransitions, PriceClosing, T, On, From, Descend, PriceLeaves, PriceOn

LEMMA UsageTargets == \A t \in UsageTransitions : Descend(t.target) \in UsageLeaves
  BY DEF UsageTransitions, UsageClosing, T, On, From, Descend, UsageLeaves, UsageOn, UsageOff, Activated

LEMMA PaymentTargets == \A t \in PaymentTransitions : Descend(t.target) \in PaymentLeaves
  BY DEF PaymentTransitions, PaymentClosing, T, On, From, Descend, PaymentLeaves, PaymentOn, PaymentOff

LEMMA NothingType ==
  ASSUME NEW p \in Products PROVE Nothing(p) \in Effects
  BY DEF Nothing, Effects, Reasons

LEMMA IncreasePeriodsType ==
  ASSUME NEW p \in Products, HasPrice(p) PROVE IncreasePeriods(p) \in Products
  <1> DEFINE more == IF p.price.alteration = NoAlteration THEN NoAlteration
                     ELSE OnePeriodMore(p.price.alteration)
  <1>1. p.price \in Prices /\ p.tarificationPeriod \in Int
    BY DEF HasPrice, Products
  <1>2. more \in Alterations \cup {NoAlteration}
    BY <1>1 DEF Prices, Alterations, OnePeriodMore
  <1>3. OnePeriodMore(p.price) \in Prices
    BY <1>1 DEF Prices, OnePeriodMore
  <1>4. [OnePeriodMore(p.price) EXCEPT !.alteration = more] \in Prices
    <2> HIDE DEF more
    <2> QED BY <1>2, <1>3 DEF Prices
  <1> QED BY <1>1, <1>4 DEF IncreasePeriods, Products

LEMMA EffectUpdates ==
  ASSUME NEW e \in Effects
  PROVE  /\ \A v \in Seq(Names) : [e EXCEPT !.emit = v] \in Effects
         /\ \A v \in Seq(Tasks) : [e EXCEPT !.create = v] \in Effects
         /\ \A v \in Seq(TimerEvents) : [e EXCEPT !.delete = v] \in Effects
         /\ \A v \in BOOLEAN : [e EXCEPT !.completed = v] \in Effects
         /\ \A v \in Reasons : [e EXCEPT !.reason = v] \in Effects
  BY DEF Effects

LEMMA HandlerValues ==
  {"off_price", "stop_pay", "off_usage", "not_change_price", "resume_tarification",
   "activate_completed", "prolong", "suspend", "resume", "entered", "finished",
   "activation_completed", "trial_activation_completed", "change_price_completed",
   "wait_payment"} \subseteq Names
  BY DEF Names, MachineEvents, CascadeValues

LEMMA Singleton ==
  ASSUME NEW S, NEW x \in S PROVE <<x>> \in Seq(S)
  OBVIOUS

LEMMA HandlerEffects ==
  ASSUME NEW p \in Products
  PROVE  /\ \A x \in Names : Emits(p, <<x>>) \in Effects
         /\ \A x \in Tasks : [Nothing(p) EXCEPT !.create = <<x>>] \in Effects
         /\ \A x \in Tasks : CreatesAndCompletes(p, <<x>>) \in Effects
         /\ \A r \in Reasons : Fails(p, r) \in Effects
         /\ CurrentPriceReason(p) \in Reasons
         /\ <<"trial_ended", "commercial_ended">> \in Seq(TimerEvents)
         /\ <<"off_price", "stop_pay">> \in Seq(Names)
         /\ Emits(p, <<"off_price", "stop_pay">>) \in Effects
  <1>1. \A x \in Tasks : <<x>> \in Seq(Tasks)
    BY Singleton
  <1>2. \A x \in Names : <<x>> \in Seq(Names)
    BY Singleton
  <1>3. \A x \in Tasks : [Nothing(p) EXCEPT !.create = <<x>>] \in Effects
    BY <1>1, NothingType, EffectUpdates
  <1>4. CurrentPriceReason(p) \in Reasons
    BY DEF CurrentPriceReason, Reasons
  <1>5. <<"trial_ended", "commercial_ended">> \in Seq(TimerEvents)
    BY DEF TimerEvents
  <1>6. <<"off_price", "stop_pay">> \in Seq(Names)
    BY HandlerValues
  <1> QED
    BY <1>1, <1>2, <1>3, <1>4, <1>5, <1>6, NothingType, EffectUpdates
    DEF Emits, CreatesAndCompletes, Fails

LEMMA UsageEntryTypes ==
  ASSUME NEW p \in Products
  PROVE  /\ SuspendingOnEntry(p) \in Effects
         /\ ProlongationOnEntry(p) \in Effects
         /\ ResumingOnEntry(p) \in Effects
         /\ SuspendedOnEntry(p) \in Effects
         /\ PendingDisconnectOnEntry(p) \in Effects
         /\ DisconnectionOnEntry(p) \in Effects
  <1>1. {"SUSPEND", "ACTIVATE", "RESUME", "suspend_ended", "disconnect", "DISCONNECT"} \subseteq Tasks
    BY DEF Tasks, Orders, TimerEvents
  <1>a. SuspendingOnEntry(p) \in Effects
    BY <1>1, HandlerEffects, EffectUpdates DEF SuspendingOnEntry
  <1>b. ProlongationOnEntry(p) \in Effects
    BY <1>1, HandlerEffects, HandlerValues, EffectUpdates DEF ProlongationOnEntry
  <1>c. ResumingOnEntry(p) \in Effects /\ SuspendedOnEntry(p) \in Effects
        /\ DisconnectionOnEntry(p) \in Effects
    BY <1>1, HandlerEffects DEF ResumingOnEntry, SuspendedOnEntry, DisconnectionOnEntry
  <1>d. PendingDisconnectOnEntry(p) \in Effects
    BY <1>1, HandlerEffects, EffectUpdates DEF PendingDisconnectOnEntry
  <1> QED BY <1>a, <1>b, <1>c, <1>d

LEMMA PriceEntryTypes ==
  ASSUME NEW p \in Products, NEW event \in Signals
  PROVE  /\ PriceOnEntryOnEntry(p) \in Effects
         /\ PriceChangingOnEntry(p) \in Effects
         /\ PriceChangedOnEntry(p) \in Effects
         /\ PriceNotChangedOnEntry(p) \in Effects
         /\ CommercialOnEntry(event, p) \in Effects
         /\ TrialOnEntry(event, p) \in Effects
         /\ PriceOffOnEntry(p) \in Effects
  <1>1. {"change_price", "CHANGE_PRICE", "commercial_ended", "trial_ended"} \subseteq Tasks
    BY DEF Tasks, Orders, TimerEvents
  <1>2. event.value \in Names /\ <<event.value>> \in Seq(Names)
    BY DEF Signals, Names
  <1>3. <<"wait_payment">> \in Seq(Names) /\ QfsmlibError \in Reasons
    BY HandlerValues DEF Reasons
  <1>4. PriceOnEntryOnEntry(p) \in Effects
    BY HandlerEffects, HandlerValues DEF PriceOnEntryOnEntry
  <1>5. PriceChangingOnEntry(p) \in Effects
    BY <1>1, HandlerEffects, HandlerValues, EffectUpdates DEF PriceChangingOnEntry
  <1>6. PriceChangedOnEntry(p) \in Effects /\ PriceNotChangedOnEntry(p) \in Effects
        /\ PriceOffOnEntry(p) \in Effects
    BY <1>1, HandlerEffects, HandlerValues DEF PriceChangedOnEntry, PriceNotChangedOnEntry, PriceOffOnEntry
  <1>7. HasPeriodType(p) => \A x \in Tasks : [Nothing(IncreasePeriods(p)) EXCEPT !.create = <<x>>] \in Effects
    BY IncreasePeriodsType, HandlerEffects DEF HasPeriodType
  <1>8. CommercialOnEntry(event, p) \in Effects
    BY <1>1, <1>2, <1>3, <1>7, HandlerEffects, EffectUpdates DEF CommercialOnEntry
  <1>9. TrialOnEntry(event, p) \in Effects
    BY <1>1, <1>2, <1>3, <1>7, HandlerEffects, EffectUpdates DEF TrialOnEntry
  <1> QED BY <1>4, <1>5, <1>6, <1>8, <1>9

LEMMA PaymentEntryTypes ==
  ASSUME NEW p \in Products, NEW event \in Signals
  PROVE  /\ PaidOnEntry(event, p) \in Effects
         /\ WaitingPaymentOnEntry(event, p) \in Effects
         /\ NotPaidOnEntry(p) \in Effects
         /\ PaymentStoppingOnEntry(p) \in Effects
         /\ PaymentStoppedOnEntry(p) \in Effects
  <1>1. {"waiting_pay_ended", "DISCONNECT_EXTERNAL"} \subseteq Tasks
    BY DEF Tasks, Orders, TimerEvents
  <1>2. event.value \in Names /\ <<event.value>> \in Seq(Names)
    BY DEF Signals, Names
  <1>3. PaidOnEntry(event, p) \in Effects
    BY <1>2, HandlerEffects, NothingType DEF PaidOnEntry
  <1>4. WaitingPaymentOnEntry(event, p) \in Effects
    BY <1>1, <1>2, HandlerEffects, EffectUpdates DEF WaitingPaymentOnEntry
  <1>5. [p EXCEPT !.tarificationPeriod = @ - 1] \in Products
    BY DEF Products
  <1>6. NotPaidOnEntry(p) \in Effects
    BY <1>5, NothingType DEF NotPaidOnEntry
  <1>7. PaymentStoppingOnEntry(p) \in Effects
    BY <1>1, HandlerEffects DEF PaymentStoppingOnEntry
  <1>8. PaymentStoppedOnEntry(p) \in Effects
    BY HandlerEffects DEF PaymentStoppedOnEntry
  <1> QED BY <1>3, <1>4, <1>6, <1>7, <1>8

\* Whatever state is entered, its handler leaves a product and asks for known tasks.
LEMMA EntryType ==
  ASSUME NEW p \in Products, NEW event \in Signals, NEW s
  PROVE  OnEntry(s, event, p) \in Effects
  <1>1. Emits(p, <<event.value>>) \in Effects
    BY HandlerEffects DEF Signals, Names
  <1> QED
    BY <1>1, UsageEntryTypes, PriceEntryTypes, PaymentEntryTypes, NothingType DEF OnEntry

LEMMA ExitType ==
  ASSUME NEW p \in Products, NEW next \in Prices \cup {NoPrice}, NEW event \in Signals, NEW s
  PROVE  OnExit(s, event, p, next) \in Effects
  <1>1. <<"suspend_ended">> \in Seq(TimerEvents) /\ <<"waiting_pay_ended">> \in Seq(TimerEvents)
    BY DEF TimerEvents
  <1>2. [p EXCEPT !.price = next] \in Products
    BY DEF Products
  <1>3. SuspendedOnExit(p) \in Effects
    BY <1>1, HandlerEffects, HandlerValues, EffectUpdates DEF SuspendedOnExit
  <1>4. PriceChangedOnExit(event, p, next) \in Effects
    BY <1>2, HandlerEffects, NothingType DEF PriceChangedOnExit, Reasons
  <1>5. WaitingPaymentOnExit(event, p) \in Effects
    <2> DEFINE values == IF event.value \in ClosingEvents THEN <<>>
                         ELSE IF event.value = "payment_processed" THEN <<"prolong">>
                         ELSE <<"suspend">>
    <2>1. values \in Seq(Names)
      BY HandlerValues
    <2> HIDE DEF values
    <2> QED BY <1>1, <2>1, NothingType, EffectUpdates DEF WaitingPaymentOnExit, values
  <1>6. NotPaidOnExit(event, p) \in Effects
    BY HandlerEffects, HandlerValues, NothingType DEF NotPaidOnExit
  <1> QED BY <1>3, <1>4, <1>5, <1>6, NothingType DEF OnExit
-----------------------------------------------------------------------------
(* Type correctness. *)

Senders == {"machine"} \cup TopStates \cup UsageLeaves \cup PaymentLeaves \cup PriceLeaves

LEMMA SignalType ==
  ASSUME NEW s \in Senders, NEW values \in Seq(Names)
  PROVE  Signal(s, values) \in Seq(Signals)
  <1>1. Signal(s, values) = [i \in 1 .. Len(values) |-> [sender |-> s, value |-> values[i]]]
    BY DEF Signal
  <1>2. \A i \in 1 .. Len(values) : [sender |-> s, value |-> values[i]] \in Signals
    BY DEF Signals, Senders, Names
  <1> QED BY <1>1, <1>2, IsASeq

LEMMA StateSignalTypes ==
  /\ \A s \in Senders : EnteredSignal(s) \in Seq(Signals)
  /\ \A c : FinishedSignal(c) \in Seq(Signals)
  <1>1. /\ <<"entered">> \in Seq(Names) /\ <<"finished">> \in Seq(Names)
        /\ <<>> \in Seq(Names)
    BY HandlerValues
  <1>2. ASSUME NEW s \in Senders PROVE EnteredSignal(s) \in Seq(Signals)
    BY <1>1, SignalType DEF EnteredSignal
  <1>3. ASSUME NEW c PROVE FinishedSignal(c) \in Seq(Signals)
    <2>1. "productProvision" \in Senders
      BY DEF Senders, TopStates
    <2> QED BY <1>1, <2>1, SignalType DEF FinishedSignal
  <1> QED BY <1>2, <1>3

LEMMA PriceSources == \A t \in PriceTransitions : Inside(t.source) \subseteq PriceLeaves
  BY DEF PriceTransitions, PriceClosing, T, On, From, Inside, PriceLeaves, PriceOn

LEMMA UsageSources == \A t \in UsageTransitions : Inside(t.source) \subseteq UsageLeaves
  BY DEF UsageTransitions, UsageClosing, T, On, From, Inside, UsageLeaves, UsageOn, UsageOff, Activated

LEMMA PaymentSources == \A t \in PaymentTransitions : Inside(t.source) \subseteq PaymentLeaves
  BY DEF PaymentTransitions, PaymentClosing, T, On, From, Inside, PaymentLeaves, PaymentOn, PaymentOff

\* A transition of a region fires only while the region is in the transition's source.
LEMMA Sources ==
  ASSUME WellFormed(conf)
  PROVE  /\ \A t \in PriceTransitions :
              EventTest(t) => conf.price \in Inside(t.source) /\ conf.top = "productProvision"
         /\ \A t \in UsageTransitions :
              EventTest(t) => conf.usage \in Inside(t.source) /\ conf.top = "productProvision"
         /\ \A t \in PaymentTransitions :
              EventTest(t) => conf.payment \in Inside(t.source) /\ conf.top = "productProvision"
  <1> USE DEF EventTest, Triggered, ActiveStates
  <1>1. /\ conf.top \in TopStates
        /\ conf.usage \in UsageLeaves \cup {NoLeaf}
        /\ conf.payment \in PaymentLeaves \cup {NoLeaf}
        /\ conf.price \in PriceLeaves \cup {NoLeaf}
        /\ conf.top # "productProvision" =>
             conf.usage = NoLeaf /\ conf.payment = NoLeaf /\ conf.price = NoLeaf
    BY DEF WellFormed, Configurations
  <1>2. /\ TopStates \cap (UsageLeaves \cup PaymentLeaves \cup PriceLeaves) = {}
        /\ UsageLeaves \cap (PaymentLeaves \cup PriceLeaves) = {}
        /\ PaymentLeaves \cap PriceLeaves = {}
        /\ NoLeaf \notin UsageLeaves \cup PaymentLeaves \cup PriceLeaves
    BY DEF TopStates, UsageLeaves, UsageOn, UsageOff, Activated, PaymentLeaves, PaymentOn,
           PaymentOff, PriceLeaves, PriceOn, NoLeaf
  <1>3. ASSUME NEW t \in PriceTransitions, EventTest(t)
        PROVE  conf.price \in Inside(t.source) /\ conf.top = "productProvision"
    BY <1>1, <1>2, <1>3, PriceSources
  <1>4. ASSUME NEW t \in UsageTransitions, EventTest(t)
        PROVE  conf.usage \in Inside(t.source) /\ conf.top = "productProvision"
    BY <1>1, <1>2, <1>4, UsageSources
  <1>5. ASSUME NEW t \in PaymentTransitions, EventTest(t)
        PROVE  conf.payment \in Inside(t.source) /\ conf.top = "productProvision"
    BY <1>1, <1>2, <1>5, PaymentSources
  <1> QED BY <1>3, <1>4, <1>5

LEMMA TestReasonType == TestReason \in Reasons
  <1> DEFINE reasons == {GuardReason(t.guard, product, nextPrice) :
                           t \in {u \in Transitions : Triggered(u)}} \ {NoError}
  <1>1. \A g : GuardReason(g, product, nextPrice) \in Reasons
    BY DEF GuardReason, PricesEqualReason, CurrentPriceReason, Reasons
  <1>2. reasons \subseteq Reasons
    BY <1>1
  <1>3. TestReason = IF reasons = {} THEN NoError ELSE CHOOSE r \in reasons : TRUE
    BY DEF TestReason
  <1> HIDE DEF reasons
  <1> QED BY <1>2, <1>3 DEF Reasons

LEMMA StatusType ==
  ASSUME NEW s, NEW was \in Statuses PROVE StatusOnEntry(s, was) \in Statuses
  BY DEF StatusOnEntry, Statuses

\* What a microstep within a region keeps well typed, its configuration apart.
LEMMA MicrostepType ==
  ASSUME MachineTypeOK, NEW from \in Senders, NEW t, Descend(t.target) \in Senders, Microstep(from, t)
  PROVE  /\ status' \in Statuses
         /\ product' \in Products
         /\ queue' \in Seq(Signals)
         /\ tasks' \in Seq(Tasks)
         /\ deleteTasks' \in Seq(TimerEvents)
         /\ hasTransition' \in BOOLEAN /\ completed' \in BOOLEAN
         /\ reason' \in Reasons
         /\ UNCHANGED <<nextPrice, calling, saved, timers>>
  <1> DEFINE event == Head(queue)
             to    == Descend(t.target)
             exit  == OnExit(from, event, product, nextPrice)
             entry == OnEntry(to, event, exit.product)
  <1>1. /\ queue # <<>>
        /\ status' = StatusOnEntry(to, status)
        /\ product' = entry.product
        /\ queue' = Tail(queue) \o Signal(from, exit.emit) \o Signal(to, entry.emit)
                      \o EnteredSignal(to) \o FinishedSignal(conf')
        /\ tasks' = tasks \o exit.create \o entry.create
        /\ deleteTasks' = deleteTasks \o exit.delete \o entry.delete
        /\ hasTransition' = (hasTransition \/ IsStringTransition(t))
        /\ completed' = (completed \/ exit.completed \/ entry.completed
                            \/ to \in CompletesWhenEntered)
        /\ reason' = Later(Later(Later(reason, TestReason), exit.reason), entry.reason)
        /\ UNCHANGED <<nextPrice, calling, saved, timers>>
    BY DEF Microstep, MicrostepTo, EventTest, Triggered
  <1>2. queue \in Seq(Signals) /\ event \in Signals /\ Tail(queue) \in Seq(Signals)
    <2>1. queue \in Seq(Signals)
      BY DEF MachineTypeOK
    <2> QED BY <1>1, <2>1, HeadTailProperties
  <1>3. exit \in Effects
    BY <1>2, ExitType DEF MachineTypeOK
  <1>4. entry \in Effects
    <2>1. exit.product \in Products
      BY <1>3 DEF Effects
    <2> HIDE DEF exit
    <2> QED BY <1>2, <2>1, EntryType
  <1>5. EnteredSignal(to) \in Seq(Signals) /\ FinishedSignal(conf') \in Seq(Signals)
    BY StateSignalTypes
  <1> HIDE DEF event, to, exit, entry
  <1>7. queue' \in Seq(Signals)
    <2>1. Signal(from, exit.emit) \in Seq(Signals)
      BY <1>3, SignalType DEF Effects
    <2>2. Signal(to, entry.emit) \in Seq(Signals)
      BY <1>4, SignalType DEF Effects, to
    <2> QED BY <1>1, <1>2, <1>5, <2>1, <2>2
  <1>8. reason' \in Reasons
    BY <1>1, <1>3, <1>4, TestReasonType DEF Later, Effects, Reasons, MachineTypeOK
  <1> QED BY <1>1, <1>3, <1>4, <1>7, <1>8, StatusType DEF Effects, MachineTypeOK

\* The empty sequence has every type.
LEMMA EmptySequences ==
  <<>> \in Seq(Signals) /\ <<>> \in Seq(Tasks) /\ <<>> \in Seq(TimerEvents)
  OBVIOUS

LEMMA InitType == Init => TypeOK
  <1> SUFFICES ASSUME Init PROVE TypeOK
    OBVIOUS
  <1>1. product \in Products
    BY CatalogAssumption DEF Init, Products
  <1>2. conf \in Configurations /\ WellFormed(conf)
    BY DEF Init, Outside, Configurations, TopStates, WellFormed, NoLeaf
  <1>3. status \in Statuses
    BY DEF Init, Statuses
  <1>4. saved \in SavedProducts /\ WellFormed(saved.conf)
    BY <1>1, <1>2, <1>3 DEF Init, SavedProducts
  <1>5. queue \in Seq(Signals) /\ tasks \in Seq(Tasks) /\ deleteTasks \in Seq(TimerEvents)
    BY EmptySequences DEF Init
  <1>6. hasTransition \in BOOLEAN /\ completed \in BOOLEAN
    BY DEF Init
  <1>7. /\ nextPrice \in Prices \cup {NoPrice}
        /\ reason \in {NoError, QfsmlibError, IllegalEventError}
        /\ calling \in Events \cup {Idle}
        /\ timers \subseteq TimerEvents
    BY DEF Init
  <1> QED BY <1>1, <1>2, <1>3, <1>4, <1>5, <1>6, <1>7 DEF TypeOK, MachineTypeOK

\* A step of the machine keeps what the machine holds well typed, and leaves its caller alone.
LEMMA MachineKept ==
  ASSUME MachineTypeOK, MachineStep
  PROVE  MachineTypeOK' /\ UNCHANGED <<nextPrice, calling, saved, timers>>
  <1>c. conf \in Configurations /\ WellFormed(conf)
    BY DEF MachineTypeOK, WellFormed
  <1>d. PriceLeaves \cup UsageLeaves \cup PaymentLeaves \subseteq Senders
    BY DEF Senders
  <1>2. CASE PriceStep
    <2>1. PICK t \in PriceTransitions : /\ conf' = [conf EXCEPT !.price = Descend(t.target)]
                                       /\ Microstep(conf.price, t)
      BY <1>2 DEF PriceStep
    <2>2. /\ conf.price \in Inside(t.source) /\ conf.top = "productProvision"
          /\ Descend(t.target) \in PriceLeaves /\ conf.price \in PriceLeaves
      BY <1>c, <2>1, Sources, PriceTargets, PriceSources DEF Microstep, MicrostepTo
    <2>3. WellFormed(conf')
      BY <1>c, <2>1, <2>2 DEF WellFormed, Configurations, PriceLeaves, PriceOn, NoLeaf
    <2> QED BY <1>d, <2>1, <2>2, <2>3, MicrostepType DEF MachineTypeOK, Reasons
  <1>3. CASE UsageStep
    <2>1. PICK t \in UsageTransitions : /\ conf' = [conf EXCEPT !.usage = Descend(t.target)]
                                       /\ Microstep(conf.usage, t)
      BY <1>3 DEF UsageStep
    <2>2. /\ conf.usage \in Inside(t.source) /\ conf.top = "productProvision"
          /\ Descend(t.target) \in UsageLeaves /\ conf.usage \in UsageLeaves
      BY <1>c, <2>1, Sources, UsageTargets, UsageSources DEF Microstep, MicrostepTo
    <2>3. WellFormed(conf')
      BY <1>c, <2>1, <2>2
      DEF WellFormed, Configurations, UsageLeaves, UsageOn, UsageOff, Activated, NoLeaf
    <2> QED BY <1>d, <2>1, <2>2, <2>3, MicrostepType DEF MachineTypeOK, Reasons
  <1>4. CASE PaymentStep
    <2>1. PICK t \in PaymentTransitions : /\ conf' = [conf EXCEPT !.payment = Descend(t.target)]
                                         /\ Microstep(conf.payment, t)
      BY <1>4 DEF PaymentStep
    <2>2. /\ conf.payment \in Inside(t.source) /\ conf.top = "productProvision"
          /\ Descend(t.target) \in PaymentLeaves /\ conf.payment \in PaymentLeaves
      BY <1>c, <2>1, Sources, PaymentTargets, PaymentSources DEF Microstep, MicrostepTo
    <2>3. WellFormed(conf')
      BY <1>c, <2>1, <2>2
      DEF WellFormed, Configurations, PaymentLeaves, PaymentOn, PaymentOff, NoLeaf
    <2> QED BY <1>d, <2>1, <2>2, <2>3, MicrostepType DEF MachineTypeOK, Reasons
  <1>5. CASE ProvisionStep
    <2> DEFINE event == Head(queue)
               emitted(s) == Signal(s, OnEntry(s, Head(queue), product).emit)
    <2>1. /\ queue # <<>> /\ conf' = DefaultProvision
          /\ queue' = Tail(queue) \o emitted("activatedEntry") \o emitted("paymentOnEntry")
                        \o emitted("priceOnEntry")
          /\ hasTransition' = TRUE
          /\ UNCHANGED <<status, product, nextPrice, tasks, deleteTasks, completed, reason,
                         calling, saved, timers>>
      BY <1>5 DEF ProvisionStep, EventTest, Triggered
    <2>2. queue \in Seq(Signals) /\ Head(queue) \in Signals /\ Tail(queue) \in Seq(Signals)
      <3>1. queue \in Seq(Signals)
        BY DEF MachineTypeOK
      <3> QED BY <2>1, <3>1, HeadTailProperties
    <2>3. \A s \in Senders : emitted(s) \in Seq(Signals)
      BY <2>2, EntryType, SignalType DEF Effects, MachineTypeOK
    <2>4. {"activatedEntry", "paymentOnEntry", "priceOnEntry"} \subseteq Senders
      BY DEF Senders, UsageLeaves, UsageOn, Activated, PaymentLeaves, PaymentOn, PriceLeaves, PriceOn
    <2> HIDE DEF emitted
    <2>5. queue' \in Seq(Signals)
      BY <2>1, <2>2, <2>3, <2>4
    <2>6. WellFormed(conf')
      BY <2>1 DEF DefaultProvision, WellFormed, Configurations, TopStates, UsageLeaves, UsageOn,
                  Activated, PaymentLeaves, PaymentOn, PriceLeaves, PriceOn, NoLeaf
    <2> QED BY <2>1, <2>5, <2>6 DEF MachineTypeOK
  <1>6. CASE LeaveStep
    <2>1. PICK t \in TopTransitions :
            /\ t.target \in {"aborted", "disconnect"}
            /\ queue # <<>>
            /\ conf' = Outside(t.target)
            /\ status' = StatusOnEntry(t.target, status)
            /\ queue' = Tail(queue)
            /\ hasTransition' = (hasTransition \/ IsStringTransition(t))
            /\ completed' = (completed \/ t.target \in CompletesWhenEntered)
            /\ UNCHANGED <<product, nextPrice, tasks, deleteTasks, reason, calling, saved, timers>>
      BY <1>6 DEF LeaveStep, EventTest, Triggered
    <2>2. WellFormed(conf')
      BY <2>1 DEF Outside, WellFormed, Configurations, TopStates, NoLeaf
    <2>3. queue' \in Seq(Signals)
      BY <2>1 DEF MachineTypeOK
    <2> QED BY <2>1, <2>2, <2>3, StatusType DEF MachineTypeOK
  <1>7. CASE Drop
    <2>1. queue' \in Seq(Signals)
      BY <1>7 DEF Drop, MachineTypeOK
    <2>2. reason' \in Reasons
      BY <1>7, TestReasonType DEF Drop, Later, MachineTypeOK, Reasons
    <2> QED BY <1>7, <2>1, <2>2 DEF Drop, MachineTypeOK, Reasons
  <1> QED BY <1>2, <1>3, <1>4, <1>5, <1>6, <1>7 DEF MachineStep

LEMMA NextType == TypeOK /\ [Next]_vars => TypeOK'
  <1> SUFFICES ASSUME TypeOK, [Next]_vars PROVE TypeOK'
    OBVIOUS
  <1>c. conf \in Configurations /\ WellFormed(conf)
    BY DEF TypeOK, MachineTypeOK, WellFormed
  <1>1. ASSUME NEW e \in Events, NEW next \in NextPricesFor(e), Send(e, next) PROVE TypeOK'
    <2>1. next \in Prices \cup {NoPrice}
      BY CatalogAssumption DEF NextPricesFor
    <2>2. [sender |-> "machine", value |-> e] \in Signals
      BY DEF Signals, Events
    <2>3. /\ saved.conf \in Configurations /\ saved.status \in Statuses
          /\ saved.product \in Products /\ WellFormed(saved.conf)
      BY DEF TypeOK, MachineTypeOK, SavedProducts
    <2>4. StatusLoaded(saved) \in Statuses
      BY <2>3, StatusType DEF StatusLoaded
    <2>5. queue' \in Seq(Signals)
      BY <1>1, <2>2, Singleton DEF Send, Call
    <2>6. tasks' \in Seq(Tasks) /\ deleteTasks' \in Seq(TimerEvents)
      BY <1>1, EmptySequences DEF Send, Call
    <2>7. hasTransition' \in BOOLEAN /\ completed' \in BOOLEAN
      BY <1>1 DEF Send, Call
    <2>8. /\ conf' = saved.conf /\ status' = StatusLoaded(saved) /\ product' = saved.product
          /\ nextPrice' = next /\ calling' = e /\ reason' = NoError
          /\ UNCHANGED <<saved, timers>>
      BY <1>1 DEF Send, Call
    <2> QED BY <2>1, <2>3, <2>4, <2>5, <2>6, <2>7, <2>8 DEF TypeOK, MachineTypeOK
  <1>2. CASE MachineStep
    BY <1>2, MachineKept DEF TypeOK
  <1>3. CASE Answer
    <2>1. saved' \in SavedProducts /\ WellFormed(saved'.conf)
      BY <1>3, <1>c DEF Answer, TypeOK, MachineTypeOK, SavedProducts
    <2>2. timers' \subseteq TimerEvents
      BY <1>3 DEF Answer, TimersAfter, TypeOK, MachineTypeOK
    <2> QED BY <1>3, <2>1, <2>2 DEF Answer, TypeOK, MachineTypeOK, work
  <1>4. CASE UNCHANGED vars
    BY <1>4 DEF vars, TypeOK, MachineTypeOK
  <1> QED
    BY <1>1, <1>2, <1>3, <1>4 DEF Next, CallerStep

\* Whatever the catalog, the machine stays in a configuration of the chart, its
\* queue holds signals of the chart, and what the caller stores is a product again.
THEOREM TypeCorrect == Spec => []TypeOK
  BY InitType, NextType, PTL DEF Spec

-----------------------------------------------------------------------------
(* The shutdown. *)

\* Neither property is inductive: a signal under way is a promise about a region
\* that its receiver does not look at.  So the invariant says what each signal of
\* the queue tells about its sender's region,
Informed(c) ==
  {x \in Signals :
     /\ x.sender = "paymentStopped" => PaymentClosed(c) \/ c.top \in {"aborted", "disconnect"}
     /\ x.sender = "priceOff" => PriceClosed(c) \/ c.top \in {"aborted", "disconnect"}}

\* that the caller's event is never behind or before another signal,
CascadeSignals == {x \in Signals : x.sender # "machine"}

CallersEventAlone == queue \in Seq(CascadeSignals) \/ (queue # <<>> /\ Tail(queue) = <<>>)

\* and that between the end of the payments and the end of the tarification
\* nothing comes first that could still move the price region.
OffPrice == [sender |-> "paymentStopped", value |-> "off_price"]

OffPriceNext ==
  calling # Idle /\ PaymentClosed(conf) /\ ~PriceClosed(conf) =>
    queue # <<>> /\ Head(queue) = OffPrice

InOrder(c) == /\ PriceClosed(c) => PaymentClosed(c)
              /\ UsageClosed(c) => PriceClosed(c)

ShutdownInv ==
  /\ TypeOK
  /\ InOrder(conf)
  /\ InOrder(saved.conf)
  /\ PaymentClosed(saved.conf) => PriceClosed(saved.conf)
  /\ queue \in Seq(Informed(conf))
  /\ CallersEventAlone
  /\ OffPriceNext

-----------------------------------------------------------------------------
(* What the tables say about the leaves of a shutdown. *)

LEMMA PriceRules ==
  \A t \in PriceTransitions :
    /\ Descend(t.target) = "priceOff" <=> t.sender = "paymentStopped"
    /\ t.sender = "paymentStopped" => t.value = "off_price"
    /\ "priceOff" \in Inside(t.source) => Descend(t.target) = "priceFinal"
    /\ "priceFinal" \notin Inside(t.source)
    /\ Descend(t.target) = "priceFinal" => Inside(t.source) = {"priceOff"}
  BY DEF PriceTransitions, PriceClosing, T, On, From, Descend, Inside, PriceOn

LEMMA UsageRules ==
  \A t \in UsageTransitions :
    LET closed == UsageOff \cup {"usageFinal"} IN
    /\ t.sender # "paymentStopped"
    /\ Inside(t.source) \cap closed # {} => Descend(t.target) \in closed
    /\ Descend(t.target) \in closed => t.sender = "priceOff" \/ Inside(t.source) \subseteq closed
  BY DEF UsageTransitions, UsageClosing, T, On, From, Descend, Inside, UsageOn, UsageOff, Activated

LEMMA PaymentRules ==
  \A t \in PaymentTransitions :
    /\ "paymentStopped" \in Inside(t.source) =>
         Descend(t.target) = "paymentFinal" /\ t.value = "stop_pay"
    /\ "paymentFinal" \notin Inside(t.source)
    /\ Descend(t.target) = "paymentFinal" => Inside(t.source) = {"paymentStopped"}
    /\ Descend(t.target) = "paymentStopped" =>
         t.sender = "machine" /\ t.value = "deactivation_started"
  BY DEF PaymentTransitions, PaymentClosing, T, On, From, Descend, Inside, PaymentOn

LEMMA LeavesApart ==
  /\ PriceLeaves \cap {"paymentStopped", "machine", "productProvision"} = {}
  /\ UsageLeaves \cap {"paymentStopped", "priceOff", "machine", "productProvision"} = {}
  /\ PaymentLeaves \cap {"priceOff", "machine", "productProvision"} = {}
  /\ PriceLeaves \cup UsageLeaves \cup PaymentLeaves \subseteq Senders
  BY DEF PriceLeaves, PriceOn, UsageLeaves, UsageOn, UsageOff, Activated, PaymentLeaves,
         PaymentOn, PaymentOff, Senders

-----------------------------------------------------------------------------
(* The queue after a microstep. *)

LEMMA SignalsIn ==
  ASSUME NEW s \in Senders, NEW values \in Seq(Names), NEW S,
         \A x \in Signals : x.sender = s => x \in S
  PROVE  Signal(s, values) \in Seq(S)
  <1>1. Signal(s, values) = [i \in 1 .. Len(values) |-> [sender |-> s, value |-> values[i]]]
    BY DEF Signal
  <1>2. \A i \in 1 .. Len(values) : [sender |-> s, value |-> values[i]] \in S
    BY DEF Signals, Senders, Names
  <1> QED BY <1>1, <1>2, IsASeq

\* A microstep puts signals of the leaf it leaves, of the leaf it enters and of
\* productProvision behind the rest of the queue.
LEMMA MicrostepQueue ==
  ASSUME TypeOK, NEW from \in Senders, NEW t, Descend(t.target) \in Senders, Microstep(from, t),
         NEW S, Tail(queue) \in Seq(S),
         \A x \in Signals : x.sender \in {from, Descend(t.target), "productProvision"} => x \in S
  PROVE  queue' \in Seq(S)
  <1> DEFINE event == Head(queue)
             to    == Descend(t.target)
             exit  == OnExit(from, event, product, nextPrice)
             entry == OnEntry(to, event, exit.product)
  <1>1. /\ queue # <<>>
        /\ queue' = Tail(queue) \o Signal(from, exit.emit) \o Signal(to, entry.emit)
                      \o EnteredSignal(to) \o FinishedSignal(conf')
    BY DEF Microstep, MicrostepTo, EventTest, Triggered
  <1>2. event \in Signals
    <2>1. queue \in Seq(Signals)
      BY DEF TypeOK, MachineTypeOK
    <2> QED BY <1>1, <2>1, HeadTailProperties
  <1>3. exit \in Effects
    BY <1>2, ExitType DEF TypeOK, MachineTypeOK
  <1>4. entry \in Effects
    <2>1. exit.product \in Products
      BY <1>3 DEF Effects
    <2> HIDE DEF exit
    <2> QED BY <1>2, <2>1, EntryType
  <1>5. /\ <<"entered">> \in Seq(Names) /\ <<"finished">> \in Seq(Names) /\ <<>> \in Seq(Names)
        /\ "productProvision" \in Senders
    BY HandlerValues DEF Senders, TopStates
  <1>6. /\ Signal(from, exit.emit) \in Seq(S)
        /\ Signal(to, entry.emit) \in Seq(S)
    <2>1. exit.emit \in Seq(Names) /\ entry.emit \in Seq(Names)
      BY <1>3, <1>4 DEF Effects
    <2> HIDE DEF exit, entry
    <2> QED BY <2>1, SignalsIn
  <1>7. EnteredSignal(to) \in Seq(S)
    BY <1>5, SignalsIn DEF EnteredSignal
  <1>8. FinishedSignal(conf') \in Seq(S)
    BY <1>5, SignalsIn DEF FinishedSignal
  <1> HIDE DEF event, to, exit, entry
  <1> QED BY <1>1, <1>6, <1>7, <1>8

\* The head of the queue knows what its sender's region was doing; the rest of it
\* keeps its knowledge and never holds an event of the caller.
LEMMA QueueParts ==
  ASSUME ShutdownInv, queue # <<>>
  PROVE  /\ Head(queue) \in Informed(conf)
         /\ Tail(queue) \in Seq(Informed(conf))
         /\ Tail(queue) \in Seq(CascadeSignals)
         /\ Head(queue).sender = "machine" => Tail(queue) = <<>>
  <1>1. queue \in Seq(Informed(conf)) /\ CallersEventAlone
    BY DEF ShutdownInv
  <1>2. Head(queue) \in Informed(conf) /\ Tail(queue) \in Seq(Informed(conf))
    BY <1>1, HeadTailProperties
  <1>3. CASE queue \in Seq(CascadeSignals)
    <2>1. Head(queue) \in CascadeSignals /\ Tail(queue) \in Seq(CascadeSignals)
      BY <1>3, HeadTailProperties
    <2> QED BY <1>2, <2>1 DEF CascadeSignals
  <1>4. CASE Tail(queue) = <<>>
    <2>1. <<>> \in Seq(CascadeSignals)
      OBVIOUS
    <2> QED BY <1>2, <1>4, <2>1
  <1> QED BY <1>1, <1>3, <1>4 DEF CallersEventAlone

LEMMA SeqSubset ==
  ASSUME NEW S, NEW R, S \subseteq R, NEW s \in Seq(S) PROVE s \in Seq(R)
  OBVIOUS
-----------------------------------------------------------------------------
(* Each step of the machine preserves the invariant. *)

\* A step of one region, to a configuration c that keeps what is closed closed: its
\* own signals tell the truth about c, and none of them is the caller's.
LEMMA RegionQueue ==
  ASSUME ShutdownInv, NEW from \in Senders, NEW t, Descend(t.target) \in Senders,
         Microstep(from, t), "machine" \notin {from, Descend(t.target)},
         PaymentClosed(conf) => PaymentClosed(conf'),
         PriceClosed(conf) => PriceClosed(conf'),
         conf.top = conf'.top,
         "paymentStopped" \in {from, Descend(t.target)} => PaymentClosed(conf'),
         "priceOff" \in {from, Descend(t.target)} => PriceClosed(conf')
  PROVE  /\ queue' \in Seq(Informed(conf'))
         /\ CallersEventAlone'
         /\ queue # <<>> /\ Head(queue).sender = t.sender /\ Head(queue).value = t.value
         /\ calling # Idle
  <1>1. TypeOK
    BY DEF ShutdownInv
  <1>2. queue # <<>> /\ Head(queue).sender = t.sender /\ Head(queue).value = t.value /\ calling # Idle
    BY DEF Microstep, MicrostepTo, EventTest, Triggered
  <1>3. Informed(conf) \subseteq Informed(conf')
    BY DEF Informed
  <1>4. Tail(queue) \in Seq(Informed(conf')) /\ Tail(queue) \in Seq(CascadeSignals)
    BY <1>2, <1>3, QueueParts, SeqSubset
  <1>5. queue' \in Seq(Informed(conf'))
    <2>1. \A x \in Signals : x.sender \in {from, Descend(t.target), "productProvision"} =>
                               x \in Informed(conf')
      BY DEF Informed
    <2> QED BY <1>1, <1>4, <2>1, MicrostepQueue
  <1>6. queue' \in Seq(CascadeSignals)
    <2>1. \A x \in Signals : x.sender \in {from, Descend(t.target), "productProvision"} =>
                               x \in CascadeSignals
      BY DEF CascadeSignals
    <2> QED BY <1>1, <1>4, <2>1, MicrostepQueue
  <1> QED BY <1>2, <1>5, <1>6 DEF CallersEventAlone

LEMMA PriceStepInv == ShutdownInv /\ TypeOK' /\ PriceStep => ShutdownInv'
  <1> SUFFICES ASSUME ShutdownInv, TypeOK', PriceStep PROVE ShutdownInv'
    OBVIOUS
  <1>1. PICK t \in PriceTransitions : /\ conf' = [conf EXCEPT !.price = Descend(t.target)]
                                     /\ Microstep(conf.price, t)
    BY DEF PriceStep
  <1>2. WellFormed(conf) /\ conf \in Configurations /\ InOrder(conf) /\ TypeOK
    BY DEF ShutdownInv, TypeOK, MachineTypeOK, WellFormed
  <1>3. conf.price \in Inside(t.source) /\ conf.top = "productProvision"
    BY <1>1, <1>2, Sources DEF Microstep, MicrostepTo
  <1>4. conf.price \in PriceLeaves /\ Descend(t.target) \in PriceLeaves
    BY <1>3, PriceSources, PriceTargets
  <1>5. /\ conf'.price = Descend(t.target) /\ conf'.payment = conf.payment
        /\ conf'.usage = conf.usage /\ conf'.top = conf.top
    BY <1>1, <1>2 DEF Configurations
  <1>6. queue # <<>> /\ Head(queue).sender = t.sender /\ Head(queue) \in Informed(conf)
    BY <1>1, QueueParts DEF Microstep, MicrostepTo, EventTest, Triggered
  <1>7. PriceClosed(conf) => PriceClosed(conf')
    BY <1>3, <1>5, PriceRules DEF PriceClosed
  <1>8. PriceClosed(conf') => PaymentClosed(conf')
    <2>1. CASE Descend(t.target) = "priceOff"
      BY <1>3, <1>5, <1>6, <2>1, PriceRules DEF Informed, PaymentClosed
    <2>2. CASE Descend(t.target) = "priceFinal"
      BY <1>2, <1>3, <1>5, <2>2, PriceRules DEF InOrder, PaymentClosed, PriceClosed
    <2> QED BY <1>5, <2>1, <2>2 DEF PriceClosed
  <1>9. InOrder(conf')
    BY <1>2, <1>5, <1>7, <1>8 DEF InOrder, UsageClosed
  <1>10. /\ queue' \in Seq(Informed(conf')) /\ CallersEventAlone'
    <2>1. "priceOff" \in {conf.price, Descend(t.target)} => PriceClosed(conf')
      BY <1>3, <1>5, PriceRules DEF PriceClosed
    <2> QED BY <1>1, <1>4, <1>5, <1>7, <2>1, RegionQueue, LeavesApart DEF PaymentClosed
  <1>11. OffPriceNext'
    <2> SUFFICES ASSUME PaymentClosed(conf'), ~PriceClosed(conf') PROVE FALSE
      BY DEF OffPriceNext
    <2>1. Head(queue) = OffPrice
      BY <1>1, <1>5, <1>7 DEF ShutdownInv, OffPriceNext, PaymentClosed, Microstep, MicrostepTo, EventTest, Triggered
    <2>2. t.sender = "paymentStopped"
      BY <1>6, <2>1 DEF OffPrice
    <2> QED BY <1>5, <2>2, PriceRules DEF PriceClosed
  <1> QED BY <1>1, <1>9, <1>10, <1>11 DEF ShutdownInv, Microstep, MicrostepTo

LEMMA UsageStepInv == ShutdownInv /\ TypeOK' /\ UsageStep => ShutdownInv'
  <1> SUFFICES ASSUME ShutdownInv, TypeOK', UsageStep PROVE ShutdownInv'
    OBVIOUS
  <1>1. PICK t \in UsageTransitions : /\ conf' = [conf EXCEPT !.usage = Descend(t.target)]
                                     /\ Microstep(conf.usage, t)
    BY DEF UsageStep
  <1>2. WellFormed(conf) /\ conf \in Configurations /\ InOrder(conf) /\ TypeOK
    BY DEF ShutdownInv, TypeOK, MachineTypeOK, WellFormed
  <1>3. conf.usage \in Inside(t.source) /\ conf.top = "productProvision"
    BY <1>1, <1>2, Sources DEF Microstep, MicrostepTo
  <1>4. conf.usage \in UsageLeaves /\ Descend(t.target) \in UsageLeaves
    BY <1>3, UsageSources, UsageTargets
  <1>5. /\ conf'.usage = Descend(t.target) /\ conf'.payment = conf.payment
        /\ conf'.price = conf.price /\ conf'.top = conf.top
    BY <1>1, <1>2 DEF Configurations
  <1>6. queue # <<>> /\ Head(queue).sender = t.sender /\ Head(queue) \in Informed(conf)
    BY <1>1, QueueParts DEF Microstep, MicrostepTo, EventTest, Triggered
  <1>7. UsageClosed(conf') => PriceClosed(conf')
    <2> SUFFICES ASSUME UsageClosed(conf') PROVE PriceClosed(conf)
      BY <1>5 DEF PriceClosed
    <2>1. CASE t.sender = "priceOff"
      BY <1>3, <1>6, <2>1 DEF Informed
    <2>2. CASE t.sender # "priceOff"
      <3>1. Inside(t.source) \subseteq UsageOff \cup {"usageFinal"}
        BY <1>5, <2>2, UsageRules DEF UsageClosed
      <3> QED BY <1>2, <1>3, <3>1 DEF InOrder, UsageClosed
    <2> QED BY <2>1, <2>2
  <1>8. InOrder(conf')
    BY <1>2, <1>5, <1>7 DEF InOrder, PaymentClosed, PriceClosed
  <1>9. queue' \in Seq(Informed(conf')) /\ CallersEventAlone'
    BY <1>1, <1>4, <1>5, RegionQueue, LeavesApart DEF PaymentClosed, PriceClosed
  <1>10. OffPriceNext'
    <2> SUFFICES ASSUME PaymentClosed(conf'), ~PriceClosed(conf') PROVE FALSE
      BY DEF OffPriceNext
    <2>1. Head(queue) = OffPrice
      BY <1>1, <1>5 DEF ShutdownInv, OffPriceNext, PaymentClosed, PriceClosed, Microstep, MicrostepTo, EventTest, Triggered
    <2> QED BY <1>6, <2>1, UsageRules DEF OffPrice
  <1> QED BY <1>1, <1>8, <1>9, <1>10 DEF ShutdownInv, Microstep, MicrostepTo

LEMMA HeadOfConcat ==
  ASSUME NEW S, NEW s \in Seq(S), s # <<>>, NEW rest \in Seq(S)
  PROVE  s \o rest \in Seq(S) /\ s \o rest # <<>> /\ Head(s \o rest) = Head(s)
  <1>1. Len(s) \in Nat /\ Len(s) >= 1 /\ Len(rest) \in Nat
    OBVIOUS
  <1>2. s \o rest \in Seq(S) /\ Len(s \o rest) >= 1
    BY <1>1, ConcatProperties
  <1>3. (s \o rest)[1] = s[1]
    BY <1>1, ConcatProperties
  <1> QED BY <1>1, <1>2, <1>3

\* Entering paymentStopped announces the end of the payments before anything else.
LEMMA StoppingQueue ==
  ASSUME TypeOK, NEW from \in PaymentLeaves, NEW t, Descend(t.target) = "paymentStopped",
         Microstep(from, t), Tail(queue) = <<>>, Head(queue).value = "deactivation_started"
  PROVE  queue' # <<>> /\ Head(queue') = OffPrice
  <1> DEFINE event == Head(queue)
             exit  == OnExit(from, event, product, nextPrice)
             entry == OnEntry("paymentStopped", event, exit.product)
             stop  == <<OffPrice, [sender |-> "paymentStopped", value |-> "stop_pay"]>>
  <1>1. queue' = Tail(queue) \o Signal(from, exit.emit) \o Signal("paymentStopped", entry.emit)
                      \o EnteredSignal("paymentStopped") \o FinishedSignal(conf')
    BY DEF Microstep, MicrostepTo
  <1>2. exit.emit = <<>>
    <2>1. WaitingPaymentOnExit(event, product).emit = <<>>
      BY DEF WaitingPaymentOnExit, ClosingEvents, Nothing
    <2>2. NotPaidOnExit(event, product).emit = <<>>
      BY DEF NotPaidOnExit, Nothing
    <2>3. from \notin {"suspended", "priceChanged"}
      BY DEF PaymentLeaves, PaymentOn, PaymentOff
    <2>4. Nothing(product).emit = <<>>
      BY DEF Nothing
    <2> QED BY <2>1, <2>2, <2>3, <2>4 DEF OnExit
  <1>3. entry.emit = <<"off_price", "stop_pay">>
    BY DEF OnEntry, PaymentStoppedOnEntry, Emits, Nothing
  <1>4. Signal(from, <<>>) = <<>>
    BY DEF Signal
  <1>5. Signal("paymentStopped", <<"off_price", "stop_pay">>) = stop
    BY DEF Signal, OffPrice
  <1>6. EnteredSignal("paymentStopped") \in Seq(Signals) /\ FinishedSignal(conf') \in Seq(Signals)
    BY StateSignalTypes DEF Senders, PaymentLeaves, PaymentOff
  <1>7. stop \in Seq(Signals) /\ Len(stop) = 2 /\ stop[1] = OffPrice
    BY DEF OffPrice, Signals, PaymentLeaves, PaymentOff, CascadeValues
  <1> HIDE DEF event, exit, entry, stop
  <1>8. Signal(from, exit.emit) = <<>> /\ Signal("paymentStopped", entry.emit) = stop
    BY <1>2, <1>3, <1>4, <1>5
  <1>9. <<>> \o <<>> \o stop = stop
    BY <1>7, ConcatEmptySeq
  <1>10. queue' = stop \o EnteredSignal("paymentStopped") \o FinishedSignal(conf')
    BY <1>1, <1>8, <1>9
  <1>11. stop # <<>> /\ Head(stop) = OffPrice
    BY <1>7
  <1> QED BY <1>6, <1>7, <1>10, <1>11, HeadOfConcat

LEMMA PaymentStepInv == ShutdownInv /\ TypeOK' /\ PaymentStep => ShutdownInv'
  <1> SUFFICES ASSUME ShutdownInv, TypeOK', PaymentStep PROVE ShutdownInv'
    OBVIOUS
  <1>1. PICK t \in PaymentTransitions : /\ conf' = [conf EXCEPT !.payment = Descend(t.target)]
                                       /\ Microstep(conf.payment, t)
    BY DEF PaymentStep
  <1>2. WellFormed(conf) /\ conf \in Configurations /\ InOrder(conf) /\ TypeOK
    BY DEF ShutdownInv, TypeOK, MachineTypeOK, WellFormed
  <1>3. conf.payment \in Inside(t.source) /\ conf.top = "productProvision"
    BY <1>1, <1>2, Sources DEF Microstep, MicrostepTo
  <1>4. conf.payment \in PaymentLeaves /\ Descend(t.target) \in PaymentLeaves
    BY <1>3, PaymentSources, PaymentTargets
  <1>5. /\ conf'.payment = Descend(t.target) /\ conf'.usage = conf.usage
        /\ conf'.price = conf.price /\ conf'.top = conf.top
    BY <1>1, <1>2 DEF Configurations
  <1>6. /\ queue # <<>> /\ Head(queue).sender = t.sender /\ Head(queue).value = t.value
        /\ Head(queue).sender = "machine" => Tail(queue) = <<>>
    BY <1>1, QueueParts DEF Microstep, MicrostepTo, EventTest, Triggered
  <1>7. PaymentClosed(conf) => PaymentClosed(conf')
    BY <1>3, <1>5, PaymentRules DEF PaymentClosed
  <1>8. InOrder(conf')
    BY <1>2, <1>5, <1>7 DEF InOrder, PriceClosed, UsageClosed
  <1>9. queue' \in Seq(Informed(conf')) /\ CallersEventAlone'
    <2>1. "paymentStopped" \in {conf.payment, Descend(t.target)} => PaymentClosed(conf')
      BY <1>3, <1>5, PaymentRules DEF PaymentClosed
    <2> QED BY <1>1, <1>4, <1>5, <1>7, <2>1, RegionQueue, LeavesApart DEF PriceClosed
  <1>10. OffPriceNext'
    <2> SUFFICES ASSUME PaymentClosed(conf'), ~PriceClosed(conf')
                 PROVE  queue' # <<>> /\ Head(queue') = OffPrice
      BY DEF OffPriceNext
    <2>1. CASE Descend(t.target) = "paymentStopped"
      <3>1. Tail(queue) = <<>> /\ Head(queue).value = "deactivation_started"
        BY <1>6, <2>1, PaymentRules
      <3> QED BY <1>1, <1>2, <1>4, <2>1, <3>1, StoppingQueue
    <2>2. CASE Descend(t.target) = "paymentFinal"
      <3>1. conf.payment = "paymentStopped" /\ t.value = "stop_pay"
        BY <1>3, <2>2, PaymentRules
      <3>2. Head(queue) = OffPrice
        BY <1>1, <1>5, <3>1
        DEF ShutdownInv, OffPriceNext, PaymentClosed, PriceClosed, Microstep, MicrostepTo, EventTest, Triggered
      <3> QED BY <1>6, <3>1, <3>2 DEF OffPrice
    <2> QED BY <1>5, <2>1, <2>2 DEF PaymentClosed
  <1> QED BY <1>1, <1>8, <1>9, <1>10 DEF ShutdownInv, Microstep, MicrostepTo

\* Outside productProvision the invariant says nothing but that the queue is clean.
LEMMA ProvisionStepInv == ShutdownInv /\ TypeOK' /\ ProvisionStep => ShutdownInv'
  <1> SUFFICES ASSUME ShutdownInv, TypeOK', ProvisionStep PROVE ShutdownInv'
    OBVIOUS
  <1> DEFINE emitted(s) == Signal(s, OnEntry(s, Head(queue), product).emit)
  <1>1. PICK t \in TopTransitions :
          /\ t.target = "productProvision" /\ EventTest(t)
          /\ conf' = DefaultProvision
          /\ queue' = Tail(queue) \o emitted("activatedEntry") \o emitted("paymentOnEntry")
                        \o emitted("priceOnEntry")
          /\ UNCHANGED <<product, calling, saved>>
    BY DEF ProvisionStep
  <1>2. conf.top = "pendingActivate" /\ queue # <<>>
    <2>1. t.source = "pendingActivate"
      BY <1>1 DEF TopTransitions, T, On, From
    <2>2. "pendingActivate" \in ActiveStates /\ queue # <<>>
      BY <1>1, <2>1 DEF EventTest, Triggered, Inside
    <2>3. "pendingActivate" \notin UsageLeaves \cup PaymentLeaves \cup PriceLeaves \cup {NoLeaf}
      BY DEF PriceLeaves, PriceOn, UsageLeaves, UsageOn, UsageOff, Activated, PaymentLeaves,
             PaymentOn, PaymentOff, NoLeaf
    <2> QED BY <2>2, <2>3 DEF ShutdownInv, TypeOK, MachineTypeOK, WellFormed, Configurations, ActiveStates
  <1>3. ~PaymentClosed(conf) /\ ~PriceClosed(conf)
    BY <1>2 DEF ShutdownInv, TypeOK, MachineTypeOK, WellFormed, NoLeaf, PaymentClosed, PriceClosed
  <1>4. /\ ~PaymentClosed(conf') /\ ~PriceClosed(conf') /\ ~UsageClosed(conf')
        /\ conf'.top = "productProvision"
    BY <1>1 DEF DefaultProvision, PaymentClosed, PriceClosed, UsageClosed, UsageOff
  <1>5. Informed(conf) \subseteq Informed(conf')
    BY <1>2, <1>3 DEF Informed
  <1>6. Tail(queue) \in Seq(Informed(conf')) /\ Tail(queue) \in Seq(CascadeSignals)
    BY <1>2, <1>5, QueueParts, SeqSubset
  <1>7. \A s \in {"activatedEntry", "paymentOnEntry", "priceOnEntry"} :
          emitted(s) \in Seq(Informed(conf')) /\ emitted(s) \in Seq(CascadeSignals)
    <2> SUFFICES ASSUME NEW s \in {"activatedEntry", "paymentOnEntry", "priceOnEntry"}
                 PROVE  emitted(s) \in Seq(Informed(conf')) /\ emitted(s) \in Seq(CascadeSignals)
      OBVIOUS
    <2>1. s \in Senders
      BY DEF Senders, UsageLeaves, UsageOn, Activated, PaymentLeaves, PaymentOn, PriceLeaves, PriceOn
    <2>2. Head(queue) \in Signals /\ product \in Products
      BY <1>2, QueueParts DEF ShutdownInv, TypeOK, MachineTypeOK, Informed
    <2>3. OnEntry(s, Head(queue), product).emit \in Seq(Names)
      BY <2>2, EntryType DEF Effects
    <2>4. \A x \in Signals : x.sender = s => x \in Informed(conf') /\ x \in CascadeSignals
      BY DEF Informed, CascadeSignals
    <2> QED BY <2>1, <2>3, <2>4, SignalsIn
  <1> HIDE DEF emitted
  <1>8. queue' \in Seq(Informed(conf')) /\ queue' \in Seq(CascadeSignals)
    BY <1>1, <1>6, <1>7
  <1> QED BY <1>1, <1>4, <1>8 DEF ShutdownInv, InOrder, CallersEventAlone, OffPriceNext

LEMMA LeaveStepInv == ShutdownInv /\ TypeOK' /\ LeaveStep => ShutdownInv'
  <1> SUFFICES ASSUME ShutdownInv, TypeOK', LeaveStep PROVE ShutdownInv'
    OBVIOUS
  <1>1. PICK t \in TopTransitions :
          /\ t.target \in {"aborted", "disconnect"} /\ queue # <<>>
          /\ conf' = Outside(t.target)
          /\ queue' = Tail(queue)
          /\ UNCHANGED saved
    BY DEF LeaveStep, EventTest, Triggered
  <1>2. /\ ~PaymentClosed(conf') /\ ~PriceClosed(conf') /\ ~UsageClosed(conf')
        /\ conf'.top \in {"aborted", "disconnect"}
    BY <1>1 DEF Outside, PaymentClosed, PriceClosed, UsageClosed, UsageOff, NoLeaf
  <1>3. Informed(conf) \subseteq Informed(conf')
    BY <1>2 DEF Informed
  <1>4. queue' \in Seq(Informed(conf')) /\ queue' \in Seq(CascadeSignals)
    BY <1>1, <1>3, QueueParts, SeqSubset
  <1> QED BY <1>1, <1>2, <1>4 DEF ShutdownInv, InOrder, CallersEventAlone, OffPriceNext

LEMMA SendInv ==
  ASSUME ShutdownInv, TypeOK', NEW e \in Events, NEW next \in NextPricesFor(e), Send(e, next)
  PROVE  ShutdownInv'
  <1> DEFINE event == [sender |-> "machine", value |-> e]
  <1>1. conf' = saved.conf /\ saved' = saved /\ queue' = <<event>>
    BY DEF Send, Call
  <1>2. event \in Informed(conf')
    BY DEF Informed, Signals, Events
  <1> HIDE DEF event
  <1>3. queue' \in Seq(Informed(conf'))
    BY <1>1, <1>2, Singleton
  <1>4. queue' # <<>> /\ Tail(queue') = <<>>
    BY <1>1
  <1> QED BY <1>1, <1>3, <1>4
          DEF ShutdownInv, InOrder, CallersEventAlone, OffPriceNext, PaymentClosed, PriceClosed, UsageClosed

\* off_price is not dropped: it has a transition from every leaf of priceOn.
LEMMA OffPriceNotDropped ==
  ASSUME ShutdownInv, calling # Idle, PaymentClosed(conf), ~PriceClosed(conf)
  PROVE  EnabledTransitions # {}
  <1> DEFINE t == From("priceOn", "paymentStopped", "off_price", "priceOff")
  <1>1. t \in Transitions
    BY DEF Transitions, PriceTransitions, PriceClosing
  <1>2. queue # <<>> /\ Head(queue) = OffPrice
    BY DEF ShutdownInv, OffPriceNext
  <1>3. conf.price \in PriceOn
    BY DEF ShutdownInv, TypeOK, MachineTypeOK, WellFormed, Configurations, PaymentClosed, PriceClosed, PriceLeaves, NoLeaf
  <1>4. Triggered(t)
    BY <1>2, <1>3 DEF Triggered, From, T, OffPrice, Inside, ActiveStates
  <1>5. Guard(t.guard, conf, product, nextPrice)
    BY DEF From, T, Guard
  <1> HIDE DEF t
  <1> QED BY <1>1, <1>4, <1>5 DEF EnabledTransitions, EventTest

LEMMA DropInv == ShutdownInv /\ TypeOK' /\ Drop => ShutdownInv'
  <1> SUFFICES ASSUME ShutdownInv, TypeOK', Drop PROVE ShutdownInv'
    OBVIOUS
  <1>1. queue # <<>> /\ queue' = Tail(queue) /\ UNCHANGED <<conf, saved, calling>>
    BY DEF Drop
  <1>2. queue' \in Seq(Informed(conf')) /\ queue' \in Seq(CascadeSignals)
    BY <1>1, QueueParts
  <1>3. ~(calling # Idle /\ PaymentClosed(conf) /\ ~PriceClosed(conf))
    BY OffPriceNotDropped DEF Drop
  <1> QED BY <1>1, <1>2, <1>3
          DEF ShutdownInv, InOrder, CallersEventAlone, OffPriceNext, PaymentClosed, PriceClosed, UsageClosed

LEMMA AnswerStepInv == ShutdownInv /\ TypeOK' /\ Answer => ShutdownInv'
  <1> SUFFICES ASSUME ShutdownInv, TypeOK', Answer PROVE ShutdownInv'
    OBVIOUS
  <1>1. /\ conf' = conf /\ queue' = queue /\ queue = <<>> /\ calling # Idle /\ calling' = Idle
        /\ saved' = saved \/ saved'.conf = conf
    BY DEF Answer, Settled, work
  <1>2. PaymentClosed(conf) => PriceClosed(conf)
    BY <1>1 DEF ShutdownInv, OffPriceNext
  <1>3. /\ InOrder(saved'.conf)
        /\ PaymentClosed(saved'.conf) => PriceClosed(saved'.conf)
    BY <1>1, <1>2 DEF ShutdownInv
  <1>4. InOrder(conf') /\ queue' \in Seq(Informed(conf')) /\ CallersEventAlone' /\ OffPriceNext'
    BY <1>1 DEF ShutdownInv, CallersEventAlone, OffPriceNext
  <1> QED BY <1>3, <1>4 DEF ShutdownInv, InOrder, PaymentClosed, PriceClosed, UsageClosed

LEMMA ShutdownInit == Init => ShutdownInv
  <1> SUFFICES ASSUME Init PROVE ShutdownInv
    OBVIOUS
  <1>1. conf = Outside("pendingActivate") /\ saved.conf = conf /\ queue = <<>> /\ calling = Idle
    BY DEF Init
  <1>2. ~PaymentClosed(conf) /\ ~PriceClosed(conf) /\ ~UsageClosed(conf)
    BY <1>1 DEF Outside, PaymentClosed, PriceClosed, UsageClosed, UsageOff, NoLeaf
  <1>3. queue \in Seq(Informed(conf)) /\ queue \in Seq(CascadeSignals)
    BY <1>1
  <1> QED BY <1>1, <1>2, <1>3, InitType DEF ShutdownInv, InOrder, CallersEventAlone, OffPriceNext

LEMMA ShutdownNext == ShutdownInv /\ [Next]_vars => ShutdownInv'
  <1> SUFFICES ASSUME ShutdownInv, [Next]_vars PROVE ShutdownInv'
    OBVIOUS
  <1>1. TypeOK'
    BY NextType DEF ShutdownInv
  <1>2. CASE CallerStep
    BY <1>1, <1>2, SendInv DEF CallerStep
  <1>3. CASE MachineStep
    BY <1>1, <1>3, PriceStepInv, UsageStepInv, PaymentStepInv, ProvisionStepInv, LeaveStepInv,
       DropInv DEF MachineStep
  <1>4. CASE Answer
    BY <1>1, <1>4, AnswerStepInv
  <1>5. CASE UNCHANGED vars
    BY <1>5 DEF vars, ShutdownInv, TypeOK, MachineTypeOK, InOrder, CallersEventAlone, OffPriceNext,
       PaymentClosed, PriceClosed, UsageClosed, WellFormed, Informed
  <1> QED BY <1>2, <1>3, <1>4, <1>5 DEF Next

\* Whatever the three regions were doing, and whichever events have been sent before,
\* usage is switched off only after tarification, and tarification only after payment.
THEOREM ShutdownIsOrdered == Spec => []ShutdownOrder
  <1>1. ShutdownInv => ShutdownOrder
    BY DEF ShutdownInv, InOrder, ShutdownOrder
  <1> QED BY <1>1, ShutdownInit, ShutdownNext, PTL DEF Spec

-----------------------------------------------------------------------------
(* No billing once the payments have ended. *)

\* The handlers of the usage region leave the product alone.
LEMMA UsageKeepsProduct ==
  ASSUME NEW s \in UsageLeaves, NEW event, NEW p, NEW next
  PROVE  OnEntry(s, event, p).product = p /\ OnExit(s, event, p, next).product = p
  <1> USE DEF UsageLeaves, UsageOn, UsageOff, Activated
  <1>1. Nothing(p).product = p /\ \A v : Emits(p, v).product = p /\ CreatesAndCompletes(p, v).product = p
    BY DEF Nothing, Emits, CreatesAndCompletes
  <1>2. /\ SuspendingOnEntry(p).product = p /\ ProlongationOnEntry(p).product = p
        /\ ResumingOnEntry(p).product = p /\ SuspendedOnEntry(p).product = p
        /\ PendingDisconnectOnEntry(p).product = p /\ DisconnectionOnEntry(p).product = p
        /\ SuspendedOnExit(p).product = p
    BY DEF SuspendingOnEntry, ProlongationOnEntry, ResumingOnEntry, SuspendedOnEntry,
           PendingDisconnectOnEntry, DisconnectionOnEntry, SuspendedOnExit, Nothing, Emits, CreatesAndCompletes
  <1>3. OnEntry(s, event, p).product = p
    BY <1>1, <1>2 DEF OnEntry
  <1>4. OnExit(s, event, p, next).product = p
    BY <1>1, <1>2 DEF OnExit
  <1> QED BY <1>3, <1>4

\* Nor do the steps that end the tarification and the payments.
LEMMA ClosingEntry ==
  ASSUME NEW s \in {"priceOff", "priceFinal", "paymentFinal"}, NEW event, NEW p
  PROVE  OnEntry(s, event, p).product = p
  BY DEF OnEntry, PriceOffOnEntry, Nothing, Emits

LEMMA ClosingExit ==
  ASSUME NEW s \in {"priceOff", "paymentStopped"}, NEW event, NEW p, NEW next
  PROVE  OnExit(s, event, p, next).product = p
  BY DEF OnExit, Nothing

\* The exit that takes over the next price does so on change_price_completed only.
LEMMA OffPriceExit ==
  ASSUME NEW s \in PriceOn, NEW event, event.value = "off_price", NEW p, NEW next
  PROVE  OnExit(s, event, p, next).product = p
  <1>1. PriceChangedOnExit(event, p, next).product = p
    BY DEF PriceChangedOnExit, Nothing
  <1> QED BY <1>1 DEF OnExit, PriceOn, Nothing

LEMMA ClosedNotBilled ==
  ShutdownInv /\ [Next]_vars => (calling # Idle /\ PaymentClosed(conf) => product' = product)
  <1> SUFFICES ASSUME ShutdownInv, [Next]_vars, calling # Idle, PaymentClosed(conf)
               PROVE  product' = product
    OBVIOUS
  <1>1. WellFormed(conf) /\ PaymentClosed(conf)
    BY DEF ShutdownInv, TypeOK, MachineTypeOK
  <1>2. CASE PriceStep
    <2>1. PICK t \in PriceTransitions : Microstep(conf.price, t)
      BY <1>2 DEF PriceStep
    <2> DEFINE kept == OnExit(conf.price, Head(queue), product, nextPrice).product
    <2>2. /\ conf.price \in Inside(t.source)
          /\ product' = OnEntry(Descend(t.target), Head(queue), kept).product
          /\ Head(queue).sender = t.sender
      BY <1>1, <2>1, Sources DEF Microstep, MicrostepTo, EventTest, Triggered
    <2>3. CASE PriceClosed(conf)
      <3>1. conf.price = "priceOff" /\ Descend(t.target) = "priceFinal"
        BY <2>2, <2>3, PriceRules DEF PriceClosed
      <3>2. kept = product
          BY <3>1, ClosingExit
        <3> HIDE DEF kept
        <3> QED BY <2>2, <3>1, <3>2, ClosingEntry
    <2>4. CASE ~PriceClosed(conf)
      <3>1. Head(queue) = OffPrice
        BY <2>4 DEF ShutdownInv, OffPriceNext
      <3>2. Descend(t.target) = "priceOff" /\ Head(queue).value = "off_price"
        BY <2>2, <3>1, PriceRules DEF OffPrice
      <3>3. conf.price \in PriceOn
        BY <2>2, <2>4, PriceSources DEF PriceClosed, PriceLeaves
      <3>4. kept = product
        BY <3>2, <3>3, OffPriceExit
      <3> HIDE DEF kept
      <3> QED BY <2>2, <3>2, <3>4, ClosingEntry
    <2> QED BY <2>3, <2>4
  <1>3. CASE UsageStep
    <2>1. PICK t \in UsageTransitions : Microstep(conf.usage, t)
      BY <1>3 DEF UsageStep
    <2> DEFINE kept == OnExit(conf.usage, Head(queue), product, nextPrice).product
    <2>2. /\ conf.usage \in Inside(t.source)
          /\ product' = OnEntry(Descend(t.target), Head(queue), kept).product
      BY <1>1, <2>1, Sources DEF Microstep, MicrostepTo
    <2>3. conf.usage \in UsageLeaves /\ Descend(t.target) \in UsageLeaves
      BY <2>2, UsageSources, UsageTargets
    <2>4. kept = product
      BY <2>3, UsageKeepsProduct
    <2> HIDE DEF kept
    <2> QED BY <2>2, <2>3, <2>4, UsageKeepsProduct
  <1>4. CASE PaymentStep
    <2>1. PICK t \in PaymentTransitions : Microstep(conf.payment, t)
      BY <1>4 DEF PaymentStep
    <2> DEFINE kept == OnExit(conf.payment, Head(queue), product, nextPrice).product
    <2>2. /\ conf.payment \in Inside(t.source)
          /\ product' = OnEntry(Descend(t.target), Head(queue), kept).product
      BY <1>1, <2>1, Sources DEF Microstep, MicrostepTo
    <2>3. conf.payment = "paymentStopped" /\ Descend(t.target) = "paymentFinal"
      BY <1>1, <2>2, PaymentRules DEF PaymentClosed
    <2>4. kept = product
      BY <2>3, ClosingExit
    <2> HIDE DEF kept
    <2> QED BY <2>2, <2>3, <2>4, ClosingEntry
  <1>5. CASE CallerStep
    BY <1>5 DEF CallerStep, Send, Call
  <1>6. CASE ProvisionStep \/ LeaveStep \/ Drop \/ Answer \/ UNCHANGED vars
    BY <1>6 DEF ProvisionStep, LeaveStep, Drop, Answer, work, vars
  <1> QED BY <1>2, <1>3, <1>4, <1>5, <1>6 DEF Next, MachineStep

\* Once its payments have ended a product's price and its count of periods stay as
\* they are: a shutdown passes through handlers that bill, and none of them runs.
THEOREM ClosedIsNotBilled == Spec => NotBilledOncePaymentClosed
  <1>1. ShutdownInv /\ [Next]_vars => [calling # Idle /\ PaymentClosed(conf) => product' = product]_vars
    BY ClosedNotBilled
  <1> QED BY <1>1, ShutdownInit, ShutdownNext, PTL DEF Spec, NotBilledOncePaymentClosed

-----------------------------------------------------------------------------
(* Which transition a signal takes. *)

PriceSignals ==
  { <<"paymentStopped", "off_price">>, <<"priceOff", "entered">>,
    <<"priceOnEntry", "activation_completed">>, <<"priceOnEntry", "trial_activation_completed">>,
    <<"machine", "trial_ended">>, <<"machine", "commercial_ended">>, <<"machine", "change_price">>,
    <<"priceChanging", "not_change_price">>, <<"machine", "change_price_completed">>,
    <<"priceNotChanged", "change_price_completed">>, <<"suspended", "resume_tarification">> }

UsageSignals ==
  { <<"priceOff", "off_usage">>, <<"machine", "disconnect">>, <<"machine", "deactivation_completed">>,
    <<"disconnected", "entered">>, <<"waitingPayment", "activation_completed">>,
    <<"paid", "trial_activation_completed">>, <<"trial", "change_price_completed">>,
    <<"machine", "suspend_completed">>, <<"waitingPayment", "prolong">>,
    <<"prolongation", "activate_completed">>, <<"machine", "prolong_completed">>,
    <<"notPaid", "resume">>, <<"machine", "resume_completed">>, <<"waitingPayment", "suspend">> }

PaymentSignals ==
  { <<"machine", "suspend_ended">>, <<"machine", "end_of_suspend">>, <<"machine", "close_subscriber">>,
    <<"machine", "deactivation_external">>, <<"machine", "deactivation_started">>,
    <<"paymentStopped", "stop_pay">>, <<"commercial", "activation_completed">>,
    <<"trial", "trial_activation_completed">>, <<"machine", "payment_failed">>,
    <<"machine", "waiting_pay_ended">>, <<"machine", "payment_processed">>,
    <<"commercial", "wait_payment">>, <<"machine", "wait_payment">>,
    <<"priceChanged", "prolong">>, <<"priceNotChanged", "prolong">> }

TopSignals ==
  { <<"machine", "trial_activation_completed">>, <<"machine", "activation_completed">>,
    <<"machine", "activation_aborted">>, <<"productProvision", "finished">> }

\* The signals each region waits for.
LEMMA SignalTables ==
  /\ \A t \in PriceTransitions : <<t.sender, t.value>> \in PriceSignals
  /\ \A t \in UsageTransitions : <<t.sender, t.value>> \in UsageSignals
  /\ \A t \in PaymentTransitions : <<t.sender, t.value>> \in PaymentSignals
  /\ \A t \in TopTransitions : <<t.sender, t.value>> \in TopSignals
  <1>1. \A t \in PriceTransitions : <<t.sender, t.value>> \in PriceSignals
    BY DEF PriceTransitions, PriceClosing, T, On, From, PriceSignals
  <1>2. \A t \in UsageTransitions : <<t.sender, t.value>> \in UsageSignals
    BY DEF UsageTransitions, UsageClosing, T, On, From, UsageSignals
  <1>3. \A t \in PaymentTransitions : <<t.sender, t.value>> \in PaymentSignals
    BY DEF PaymentTransitions, PaymentClosing, T, On, From, PaymentSignals
  <1>4. \A t \in TopTransitions : <<t.sender, t.value>> \in TopSignals
    BY DEF TopTransitions, T, On, From, TopSignals
  <1> QED BY <1>1, <1>2, <1>3, <1>4

\* No two regions wait for the same signal.
LEMMA SignalsApart ==
  /\ PriceSignals \cap (UsageSignals \cup PaymentSignals \cup TopSignals) = {}
  /\ UsageSignals \cap (PaymentSignals \cup TopSignals) = {}
  /\ PaymentSignals \cap TopSignals = {}
  BY DEF PriceSignals, UsageSignals, PaymentSignals, TopSignals

Exclusive(g, h) ==
  {g, h} \in {{"nextIsTrial", "nextIsActive"}, {"priceIsTrial", "priceIsActive"}}

\* The two guards of a pair never hold together.
LEMMA GuardsExclude ==
  ASSUME NEW g, NEW h, Exclusive(g, h), NEW c, NEW p, NEW next
  PROVE  ~(Guard(g, c, p, next) /\ Guard(h, c, p, next))
  BY DEF Exclusive, Guard

\* Two transitions of the price region that wait for the same signal in the same leaf have
\* guards that exclude each other.
LEMMA PriceUnique ==
  \A t, u \in PriceTransitions :
    t.sender = u.sender /\ t.value = u.value /\ Inside(t.source) \cap Inside(u.source) # {} =>
      t = u \/ Exclusive(t.guard, u.guard)
  BY DEF PriceTransitions, PriceClosing, T, On, From, Inside, PriceOn, Exclusive

\* The same of the usage region.
LEMMA UsageUnique ==
  \A t, u \in UsageTransitions :
    t.sender = u.sender /\ t.value = u.value /\ Inside(t.source) \cap Inside(u.source) # {} =>
      t = u \/ Exclusive(t.guard, u.guard)
  BY DEF UsageTransitions, UsageClosing, T, On, From, Inside, UsageOn, Activated, Exclusive

\* The same of the payment region.
LEMMA PaymentUnique ==
  \A t, u \in PaymentTransitions :
    t.sender = u.sender /\ t.value = u.value /\ Inside(t.source) \cap Inside(u.source) # {} =>
      t = u \/ Exclusive(t.guard, u.guard)
  BY DEF PaymentTransitions, PaymentClosing, T, On, From, Inside, PaymentOn, Exclusive

\* The same of the top-level states, none of whose transitions has a guard.
LEMMA TopUnique ==
  \A t, u \in TopTransitions :
    t.sender = u.sender /\ t.value = u.value => t = u
  BY DEF TopTransitions, T, On, From

\* A signal has at most one transition to choose from.
LEMMA EnabledUnique == WellFormed(conf) => AtMostOneTransition
  <1> SUFFICES ASSUME WellFormed(conf), NEW t \in EnabledTransitions, NEW u \in EnabledTransitions
               PROVE  t = u
    BY DEF AtMostOneTransition
  <1>1. /\ t \in Transitions /\ u \in Transitions /\ EventTest(t) /\ EventTest(u)
        /\ t.sender = u.sender /\ t.value = u.value
        /\ Guard(t.guard, conf, product, nextPrice) /\ Guard(u.guard, conf, product, nextPrice)
    BY DEF EnabledTransitions, EventTest, Triggered
  <1>2. ~Exclusive(t.guard, u.guard)
    BY <1>1, GuardsExclude
  <1>3. \/ t \in PriceTransitions /\ u \in PriceTransitions
        \/ t \in UsageTransitions /\ u \in UsageTransitions
        \/ t \in PaymentTransitions /\ u \in PaymentTransitions
        \/ t \in TopTransitions /\ u \in TopTransitions
    BY <1>1, SignalTables, SignalsApart DEF Transitions
  <1>4. CASE t \in PriceTransitions /\ u \in PriceTransitions
    BY <1>1, <1>2, <1>4, Sources, PriceUnique
  <1>5. CASE t \in UsageTransitions /\ u \in UsageTransitions
    BY <1>1, <1>2, <1>5, Sources, UsageUnique
  <1>6. CASE t \in PaymentTransitions /\ u \in PaymentTransitions
    BY <1>1, <1>2, <1>6, Sources, PaymentUnique
  <1>7. CASE t \in TopTransitions /\ u \in TopTransitions
    BY <1>1, <1>7, TopUnique
  <1> QED BY <1>3, <1>4, <1>5, <1>6, <1>7

\* A signal never has two transitions to choose from, in one region or in several: each
\* region waits for signals of its own, and where two transitions of a leaf wait for the same
\* one their conditions (PriceIsTrialTransition and the like) exclude each other.
THEOREM TransitionsAreUnique == Spec => []AtMostOneTransition
  <1>1. TypeOK => AtMostOneTransition
    BY EnabledUnique DEF TypeOK, MachineTypeOK
  <1> QED BY <1>1, TypeCorrect, PTL

-----------------------------------------------------------------------------
Has(x, emit, create, delete, p, done) ==
  /\ x.emit = emit /\ x.create = create /\ x.delete = delete
  /\ x.product = p /\ x.completed = done

\* What the onEntry handlers of the usage region do.
LEMMA UsageEntries ==
  ASSUME NEW e, NEW p
  PROVE  /\ Has(OnEntry("suspending", e, p), <<>>, <<"SUSPEND">>, <<"trial_ended", "commercial_ended">>, p, FALSE)
         /\ p.tarificationPeriod = 1 =>
              Has(OnEntry("prolongation", e, p), <<"activate_completed">>, <<>>, <<>>, p, FALSE)
         /\ p.tarificationPeriod # 1 =>
              Has(OnEntry("prolongation", e, p), <<>>, <<"ACTIVATE">>, <<>>, p, TRUE)
         /\ Has(OnEntry("resuming", e, p), <<>>, <<"RESUME">>, <<>>, p, FALSE)
         /\ Has(OnEntry("suspended", e, p), <<>>, <<"suspend_ended">>, <<>>, p, TRUE)
         /\ Has(OnEntry("pendingDisconnect", e, p), <<>>, <<"disconnect">>,
                <<"trial_ended", "commercial_ended">>, p, TRUE)
         /\ Has(OnEntry("disconnection", e, p), <<>>, <<"DISCONNECT">>, <<>>, p, TRUE)
         /\ Has(OnEntry("active", e, p), <<>>, <<>>, <<>>, p, FALSE)
         /\ Has(OnEntry("activeTrial", e, p), <<>>, <<>>, <<>>, p, FALSE)
         /\ Has(OnEntry("disconnected", e, p), <<>>, <<>>, <<>>, p, FALSE)
         /\ Has(OnEntry("usageFinal", e, p), <<>>, <<>>, <<>>, p, FALSE)
  <1> USE DEF Has, OnEntry, Nothing, Emits, CreatesAndCompletes
  <1>1. /\ Has(OnEntry("suspending", e, p), <<>>, <<"SUSPEND">>,
               <<"trial_ended", "commercial_ended">>, p, FALSE)
        /\ Has(OnEntry("resuming", e, p), <<>>, <<"RESUME">>, <<>>, p, FALSE)
        /\ Has(OnEntry("suspended", e, p), <<>>, <<"suspend_ended">>, <<>>, p, TRUE)
    BY DEF SuspendingOnEntry, ResumingOnEntry, SuspendedOnEntry
  <1>2. /\ p.tarificationPeriod = 1 =>
             Has(OnEntry("prolongation", e, p), <<"activate_completed">>, <<>>, <<>>, p, FALSE)
        /\ p.tarificationPeriod # 1 =>
             Has(OnEntry("prolongation", e, p), <<>>, <<"ACTIVATE">>, <<>>, p, TRUE)
    BY DEF ProlongationOnEntry
  <1>3. /\ Has(OnEntry("pendingDisconnect", e, p), <<>>, <<"disconnect">>,
               <<"trial_ended", "commercial_ended">>, p, TRUE)
        /\ Has(OnEntry("disconnection", e, p), <<>>, <<"DISCONNECT">>, <<>>, p, TRUE)
    BY DEF PendingDisconnectOnEntry, DisconnectionOnEntry
  <1>4. /\ Has(OnEntry("active", e, p), <<>>, <<>>, <<>>, p, FALSE)
        /\ Has(OnEntry("activeTrial", e, p), <<>>, <<>>, <<>>, p, FALSE)
        /\ Has(OnEntry("disconnected", e, p), <<>>, <<>>, <<>>, p, FALSE)
        /\ Has(OnEntry("usageFinal", e, p), <<>>, <<>>, <<>>, p, FALSE)
    OBVIOUS
  <1> QED BY <1>1, <1>2, <1>3, <1>4

\* What the onEntry handlers of the price region do.
LEMMA PriceEntries ==
  ASSUME NEW e, NEW p
  PROVE  /\ PriceIsOver(p) => Has(OnEntry("priceChanging", e, p), <<>>, <<"change_price">>, <<>>, p, TRUE)
         /\ ~PriceIsOver(p) => Has(OnEntry("priceChanging", e, p), <<"not_change_price">>, <<>>, <<>>, p, FALSE)
         /\ Has(OnEntry("priceChanged", e, p), <<>>, <<"CHANGE_PRICE">>, <<>>, p, TRUE)
         /\ Has(OnEntry("priceNotChanged", e, p), <<"change_price_completed">>, <<>>, <<>>, p, FALSE)
         /\ Has(OnEntry("priceOff", e, p), <<"off_usage">>, <<>>, <<>>, p, FALSE)
         /\ Has(OnEntry("priceFinal", e, p), <<>>, <<>>, <<>>, p, FALSE)
         /\ ~HasPeriodType(p) => /\ Has(OnEntry("commercial", e, p), <<>>, <<>>, <<>>, p, FALSE)
                                 /\ Has(OnEntry("trial", e, p), <<>>, <<>>, <<>>, p, FALSE)
         /\ HasPeriodType(p) /\ e.sender = "suspended" =>
              Has(OnEntry("commercial", e, p), <<>>, <<"commercial_ended">>, <<>>, IncreasePeriods(p), TRUE)
         /\ HasPeriodType(p) /\ e.sender # "suspended" =>
              Has(OnEntry("commercial", e, p),
                  <<IF e.value = "activation_completed" THEN e.value ELSE "wait_payment">>,
                  <<"commercial_ended">>, <<>>, IncreasePeriods(p), FALSE)
         /\ HasPeriodType(p) /\ e.value \in {"trial_activation_completed", "change_price_completed"} =>
              Has(OnEntry("trial", e, p), <<e.value>>, <<"trial_ended">>, <<>>, IncreasePeriods(p), FALSE)
  <1> USE DEF Has, OnEntry, Nothing, Emits, CreatesAndCompletes, Fails
  <1>1. /\ PriceIsOver(p) => Has(OnEntry("priceChanging", e, p), <<>>, <<"change_price">>, <<>>, p, TRUE)
        /\ ~PriceIsOver(p) => Has(OnEntry("priceChanging", e, p), <<"not_change_price">>, <<>>, <<>>, p, FALSE)
        /\ Has(OnEntry("priceChanged", e, p), <<>>, <<"CHANGE_PRICE">>, <<>>, p, TRUE)
        /\ Has(OnEntry("priceNotChanged", e, p), <<"change_price_completed">>, <<>>, <<>>, p, FALSE)
        /\ Has(OnEntry("priceOff", e, p), <<"off_usage">>, <<>>, <<>>, p, FALSE)
        /\ Has(OnEntry("priceFinal", e, p), <<>>, <<>>, <<>>, p, FALSE)
    BY DEF PriceChangingOnEntry, PriceChangedOnEntry, PriceNotChangedOnEntry, PriceOffOnEntry
  <1>2. ~HasPeriodType(p) => /\ Has(OnEntry("commercial", e, p), <<>>, <<>>, <<>>, p, FALSE)
                             /\ Has(OnEntry("trial", e, p), <<>>, <<>>, <<>>, p, FALSE)
    BY DEF CommercialOnEntry, TrialOnEntry
  <1>3. HasPeriodType(p) /\ e.sender = "suspended" =>
          Has(OnEntry("commercial", e, p), <<>>, <<"commercial_ended">>, <<>>, IncreasePeriods(p), TRUE)
    BY DEF CommercialOnEntry
  <1>4. HasPeriodType(p) /\ e.sender # "suspended" =>
          Has(OnEntry("commercial", e, p),
              <<IF e.value = "activation_completed" THEN e.value ELSE "wait_payment">>,
              <<"commercial_ended">>, <<>>, IncreasePeriods(p), FALSE)
    BY DEF CommercialOnEntry
  <1>5. HasPeriodType(p) /\ e.value \in {"trial_activation_completed", "change_price_completed"} =>
          Has(OnEntry("trial", e, p), <<e.value>>, <<"trial_ended">>, <<>>, IncreasePeriods(p), FALSE)
    BY DEF TrialOnEntry
  <1> QED BY <1>1, <1>2, <1>3, <1>4, <1>5

\* A period that is charged counts once more, and its price stays as long as it was.
LEMMA ChargedProduct ==
  ASSUME NEW p \in Products, HasPeriodType(p)
  PROVE  /\ HasPeriodType(IncreasePeriods(p))
         /\ IncreasePeriods(p).tarificationPeriod = p.tarificationPeriod + 1
  <1>1. p.price \in Prices /\ p.price.known
    BY DEF HasPeriodType, HasPrice, Products
  <1>2. /\ IncreasePeriods(p).price.known = p.price.known
        /\ IncreasePeriods(p).tarificationPeriod = p.tarificationPeriod + 1
    BY <1>1 DEF IncreasePeriods, OnePeriodMore, Prices
  <1>3. IncreasePeriods(p).price \in Prices \cup {NoPrice}
    BY IncreasePeriodsType DEF HasPeriodType, Products
  <1>4. IncreasePeriods(p).price # NoPrice
    <2>1. DOMAIN IncreasePeriods(p).price = DOMAIN p.price
      BY <1>1 DEF IncreasePeriods, OnePeriodMore, Prices
    <2>2. "known" \in DOMAIN p.price /\ "known" \notin DOMAIN NoPrice
      BY <1>1 DEF Prices, NoPrice
    <2> QED BY <2>1, <2>2
  <1> QED BY <1>1, <1>2, <1>4 DEF HasPeriodType, HasPrice

\* What the onEntry handlers of the payment region do.
LEMMA PaymentEntries ==
  ASSUME NEW e, NEW p
  PROVE  /\ e.value = "trial_activation_completed" =>
              Has(OnEntry("paid", e, p), <<"trial_activation_completed">>, <<>>, <<>>, p, FALSE)
         /\ e.value # "trial_activation_completed" =>
              Has(OnEntry("paid", e, p), <<>>, <<>>, <<>>, p, FALSE)
         /\ e.value = "activation_completed" =>
              Has(OnEntry("waitingPayment", e, p), <<"activation_completed">>,
                  <<"waiting_pay_ended">>, <<>>, p, FALSE)
         /\ e.value # "activation_completed" =>
              Has(OnEntry("waitingPayment", e, p), <<>>, <<"waiting_pay_ended">>, <<>>, p, TRUE)
         /\ Has(OnEntry("notPaid", e, p), <<>>, <<>>, <<>>, [p EXCEPT !.tarificationPeriod = @ - 1], FALSE)
         /\ Has(OnEntry("paymentStopping", e, p), <<>>, <<"DISCONNECT_EXTERNAL">>, <<>>, p, TRUE)
         /\ Has(OnEntry("paymentStopped", e, p), <<"off_price", "stop_pay">>, <<>>, <<>>, p, FALSE)
         /\ Has(OnEntry("paymentFinal", e, p), <<>>, <<>>, <<>>, p, FALSE)
  <1> USE DEF Has, OnEntry, Nothing, Emits, CreatesAndCompletes
  <1>1. /\ e.value = "trial_activation_completed" =>
             Has(OnEntry("paid", e, p), <<"trial_activation_completed">>, <<>>, <<>>, p, FALSE)
        /\ e.value # "trial_activation_completed" =>
             Has(OnEntry("paid", e, p), <<>>, <<>>, <<>>, p, FALSE)
    BY DEF PaidOnEntry
  <1>2. /\ e.value = "activation_completed" =>
             Has(OnEntry("waitingPayment", e, p), <<"activation_completed">>,
                 <<"waiting_pay_ended">>, <<>>, p, FALSE)
        /\ e.value # "activation_completed" =>
             Has(OnEntry("waitingPayment", e, p), <<>>, <<"waiting_pay_ended">>, <<>>, p, TRUE)
    BY DEF WaitingPaymentOnEntry
  <1>3. Has(OnEntry("notPaid", e, p), <<>>, <<>>, <<>>, [p EXCEPT !.tarificationPeriod = @ - 1], FALSE)
    BY DEF NotPaidOnEntry
  <1>4. /\ Has(OnEntry("paymentStopping", e, p), <<>>, <<"DISCONNECT_EXTERNAL">>, <<>>, p, TRUE)
        /\ Has(OnEntry("paymentStopped", e, p), <<"off_price", "stop_pay">>, <<>>, <<>>, p, FALSE)
        /\ Has(OnEntry("paymentFinal", e, p), <<>>, <<>>, <<>>, p, FALSE)
    BY DEF PaymentStoppingOnEntry, PaymentStoppedOnEntry
  <1> QED BY <1>1, <1>2, <1>3, <1>4

\* What the onExit handlers do.
LEMMA Exits ==
  ASSUME NEW e, NEW p, NEW next
  PROVE  /\ Has(OnExit("suspended", e, p, next), <<"resume_tarification">>, <<>>, <<"suspend_ended">>, p, FALSE)
         /\ e.value # "change_price_completed" =>
              Has(OnExit("priceChanged", e, p, next), <<>>, <<>>, <<>>, p, FALSE)
         /\ next # NoPrice /\ e.value = "change_price_completed" =>
              Has(OnExit("priceChanged", e, p, next), <<>>, <<>>, <<>>, [p EXCEPT !.price = next], FALSE)
         /\ Has(OnExit("waitingPayment", e, p, next),
                IF e.value \in ClosingEvents THEN <<>>
                ELSE IF e.value = "payment_processed" THEN <<"prolong">> ELSE <<"suspend">>,
                <<>>, <<"waiting_pay_ended">>, p, FALSE)
         /\ Has(OnExit("notPaid", e, p, next),
                IF e.value = "payment_processed" THEN <<"resume">> ELSE <<>>, <<>>, <<>>, p, FALSE)
         /\ \A s : s \notin {"suspended", "priceChanged", "waitingPayment", "notPaid"} =>
              Has(OnExit(s, e, p, next), <<>>, <<>>, <<>>, p, FALSE)
  <1> USE DEF Has, OnExit, Nothing, Emits
  <1>1. /\ Has(OnExit("suspended", e, p, next), <<"resume_tarification">>, <<>>, <<"suspend_ended">>,
               p, FALSE)
        /\ \A s : s \notin {"suspended", "priceChanged", "waitingPayment", "notPaid"} =>
              Has(OnExit(s, e, p, next), <<>>, <<>>, <<>>, p, FALSE)
    BY DEF SuspendedOnExit
  <1>2. /\ e.value # "change_price_completed" =>
              Has(OnExit("priceChanged", e, p, next), <<>>, <<>>, <<>>, p, FALSE)
        /\ next # NoPrice /\ e.value = "change_price_completed" =>
              Has(OnExit("priceChanged", e, p, next), <<>>, <<>>, <<>>, [p EXCEPT !.price = next], FALSE)
    BY DEF PriceChangedOnExit
  <1>3. Has(OnExit("waitingPayment", e, p, next),
            IF e.value \in ClosingEvents THEN <<>>
            ELSE IF e.value = "payment_processed" THEN <<"prolong">> ELSE <<"suspend">>,
            <<>>, <<"waiting_pay_ended">>, p, FALSE)
    BY DEF WaitingPaymentOnExit
  <1>4. Has(OnExit("notPaid", e, p, next),
            IF e.value = "payment_processed" THEN <<"resume">> ELSE <<>>, <<>>, <<>>, p, FALSE)
    BY DEF NotPaidOnExit
  <1> QED BY <1>1, <1>2, <1>3, <1>4

\* Short sequences put together.
LEMMA Tuples ==
  ASSUME NEW a, NEW b, NEW c
  PROVE  /\ <<>> \o <<>> = <<>> /\ <<>> \o <<a>> = <<a>> /\ <<a>> \o <<>> = <<a>>
         /\ <<>> \o <<a, b>> = <<a, b>> /\ <<a, b>> \o <<>> = <<a, b>>
         /\ <<a>> \o <<b>> = <<a, b>>
         /\ <<a>> \o <<b, c>> = <<a, b, c>>
  <1> DEFINE S == {a, b, c}
  <1>1. /\ <<>> \in Seq(S) /\ <<a>> \in Seq(S) /\ <<b>> \in Seq(S)
        /\ <<a, b>> \in Seq(S) /\ <<b, c>> \in Seq(S) /\ <<a, b, c>> \in Seq(S)
    OBVIOUS
  <1>2. /\ <<>> \o <<>> = <<>> /\ <<>> \o <<a>> = <<a>> /\ <<a>> \o <<>> = <<a>>
        /\ <<>> \o <<a, b>> = <<a, b>> /\ <<a, b>> \o <<>> = <<a, b>>
    BY <1>1, ConcatEmptySeq
  <1>3. <<a>> \o <<b>> = <<a, b>>
    <2>1. Len(<<a>> \o <<b>>) = Len(<<a, b>>) /\ <<a>> \o <<b>> \in Seq(S)
      BY <1>1, ConcatProperties
    <2>2. \A i \in 1 .. Len(<<a, b>>) : (<<a>> \o <<b>>)[i] = <<a, b>>[i]
      BY <1>1, ConcatProperties
    <2> QED BY <1>1, <2>1, <2>2, SeqEqual
  <1>4. <<a>> \o <<b, c>> = <<a, b, c>>
    <2>1. Len(<<a>> \o <<b, c>>) = Len(<<a, b, c>>) /\ <<a>> \o <<b, c>> \in Seq(S)
      BY <1>1, ConcatProperties
    <2>2. \A i \in 1 .. Len(<<a, b, c>>) : (<<a>> \o <<b, c>>)[i] = <<a, b, c>>[i]
      BY <1>1, ConcatProperties
    <2> QED BY <1>1, <2>1, <2>2, SeqEqual
  <1> QED BY <1>2, <1>3, <1>4

\* Three in a row.
LEMMA MoreTuples ==
  ASSUME NEW a, NEW b, NEW c
  PROVE  <<a, b>> \o <<c>> = <<a, b, c>> /\ <<a, b, c>> \o <<>> = <<a, b, c>>
  <1> DEFINE S == {a, b, c}
  <1>1. <<a, b>> \in Seq(S) /\ <<c>> \in Seq(S) /\ <<a, b, c>> \in Seq(S)
    OBVIOUS
  <1>2. <<a, b>> \o <<c>> = <<a, b, c>>
    <2>1. Len(<<a, b>> \o <<c>>) = Len(<<a, b, c>>) /\ <<a, b>> \o <<c>> \in Seq(S)
      BY <1>1, ConcatProperties
    <2>2. \A i \in 1 .. Len(<<a, b, c>>) : (<<a, b>> \o <<c>>)[i] = <<a, b, c>>[i]
      BY <1>1, ConcatProperties
    <2> QED BY <1>1, <2>1, <2>2, SeqEqual
  <1> QED BY <1>1, <1>2, ConcatEmptySeq

\* Short sequences taken apart.
LEMMA HeadsAndTails ==
  ASSUME NEW a, NEW b, NEW c
  PROVE  /\ Head(<<a>>) = a /\ Tail(<<a>>) = <<>> /\ <<a>> # <<>>
         /\ Head(<<a, b>>) = a /\ Tail(<<a, b>>) = <<b>> /\ <<a, b>> # <<>>
         /\ Head(<<a, b, c>>) = a /\ Tail(<<a, b, c>>) = <<b, c>> /\ <<a, b, c>> # <<>>
  <1>1. /\ Head(<<a>>) = a /\ Tail(<<a>>) = <<>> /\ <<a>> # <<>>
    OBVIOUS
  <1>2. /\ Head(<<a, b>>) = a /\ Tail(<<a, b>>) = <<b>> /\ <<a, b>> # <<>>
    OBVIOUS
  <1>3. /\ Head(<<a, b, c>>) = a /\ Tail(<<a, b, c>>) = <<b, c>> /\ <<a, b, c>> # <<>>
    OBVIOUS
  <1> QED BY <1>1, <1>2, <1>3

\* The elements of short sequences.
LEMMA SetsOfTuples ==
  ASSUME NEW a, NEW b
  PROVE  ToSet(<<>>) = {} /\ ToSet(<<a>>) = {a} /\ ToSet(<<a, b>>) = {a, b}
  BY DEF ToSet

\* The elements of two sequences put together.
LEMMA SetOfConcat ==
  ASSUME NEW S, NEW s \in Seq(S), NEW t \in Seq(S) PROVE ToSet(s \o t) = ToSet(s) \cup ToSet(t)
  <1>1. /\ Len(s \o t) = Len(s) + Len(t) /\ Len(s) \in Nat /\ Len(t) \in Nat
        /\ \A i \in 1 .. Len(s) : (s \o t)[i] = s[i]
        /\ \A i \in 1 .. Len(t) : (s \o t)[Len(s) + i] = t[i]
        /\ \A i \in 1 .. Len(s) + Len(t) :
             (s \o t)[i] = IF i <= Len(s) THEN s[i] ELSE t[i - Len(s)]
    BY ConcatProperties
  <1>2. /\ DOMAIN s = 1 .. Len(s) /\ DOMAIN t = 1 .. Len(t)
        /\ DOMAIN (s \o t) = 1 .. Len(s) + Len(t)
    BY <1>1, ConcatProperties
  <1>3. ToSet(s \o t) \subseteq ToSet(s) \cup ToSet(t)
    BY <1>1, <1>2 DEF ToSet
  <1>4. ASSUME NEW x \in ToSet(s) PROVE x \in ToSet(s \o t)
    BY <1>1, <1>2 DEF ToSet
  <1>5. ASSUME NEW x \in ToSet(t) PROVE x \in ToSet(s \o t)
    <2>1. PICK i \in 1 .. Len(t) : x = t[i]
      BY <1>2 DEF ToSet
    <2>2. Len(s) + i \in 1 .. Len(s) + Len(t) /\ (s \o t)[Len(s) + i] = x
      BY <1>1, <2>1
    <2> QED BY <1>2, <2>2 DEF ToSet
  <1> QED BY <1>3, <1>4, <1>5

\* Short sequences that hold nothing twice.
LEMMA Injections ==
  ASSUME NEW a, NEW b
  PROVE  IsInjective(<<>>) /\ IsInjective(<<a>>) /\ (a # b => IsInjective(<<a, b>>))
  BY DEF IsInjective

\* The signals of a handler that emits at most two values.
LEMMA SmallSignals ==
  ASSUME NEW s, NEW v, NEW w
  PROVE  /\ Signal(s, <<>>) = <<>>
         /\ Signal(s, <<v>>) = <<Sig(s, v)>>
         /\ Signal(s, <<v, w>>) = <<Sig(s, v), Sig(s, w)>>
  <1>1. Signal(s, <<>>) = <<>>
    BY DEF Signal
  <1>2. Signal(s, <<v>>) = <<Sig(s, v)>>
    BY DEF Signal, Sig
  <1>3. Signal(s, <<v, w>>) = <<Sig(s, v), Sig(s, w)>>
    BY DEF Signal, Sig
  <1> QED BY <1>1, <1>2, <1>3

-----------------------------------------------------------------------------
\* What a step from one leaf of a region to another changes besides the configuration.
Exit(from)      == OnExit(from, Head(queue), product, nextPrice)
Entry(from, to) == OnEntry(to, Head(queue), Exit(from).product)

Does(from, to) ==
  /\ status' = StatusOnEntry(to, status)
  /\ product' = Entry(from, to).product
  /\ queue' = Tail(queue) \o Signal(from, Exit(from).emit) \o Signal(to, Entry(from, to).emit)
                \o EnteredSignal(to) \o FinishedSignal(conf')
  /\ tasks' = tasks \o Exit(from).create \o Entry(from, to).create
  /\ deleteTasks' = deleteTasks \o Exit(from).delete \o Entry(from, to).delete
  /\ completed' = (completed \/ Exit(from).completed \/ Entry(from, to).completed
                     \/ to \in CompletesWhenEntered)
  /\ reason' = Later(Later(Later(reason, TestReason), Exit(from).reason), Entry(from, to).reason)
  /\ UNCHANGED <<nextPrice, calling, saved, timers>>

Heard(s, v) == Head(queue).sender = s /\ Head(queue).value = v

PriceMove(from, to) ==
  \/ Heard("paymentStopped", "off_price") /\ from \in PriceOn /\ to = "priceOff"
  \/ Heard("priceOff", "entered") /\ from = "priceOff" /\ to = "priceFinal"
  \/ Heard("priceOnEntry", "activation_completed") /\ from = "priceOnEntry" /\ to = "commercial"
  \/ Heard("priceOnEntry", "trial_activation_completed") /\ from = "priceOnEntry" /\ to = "trial"
  \/ Heard("machine", "trial_ended") /\ from = "trial" /\ conf.usage = "activeTrial" /\ to = "priceChanging"
  \/ Heard("machine", "commercial_ended") /\ from = "commercial" /\ conf.usage = "active" /\ to = "priceChanging"
  \/ Heard("machine", "change_price") /\ from = "priceChanging" /\ to = "priceChanged"
  \/ Heard("priceChanging", "not_change_price") /\ from = "priceChanging" /\ to = "priceNotChanged"
  \/ Heard("machine", "change_price_completed") /\ from = "priceChanged" /\ nextPrice # NoPrice
       /\ to \in {"trial", "commercial"}
  \/ Heard("priceNotChanged", "change_price_completed") /\ from = "priceNotChanged"
       /\ to \in {"trial", "commercial"}
  \/ Heard("suspended", "resume_tarification") /\ from = "commercial" /\ to = "commercial"

UsageMove(from, to) ==
  \/ Heard("priceOff", "off_usage") /\ from \in UsageOn /\ to = "pendingDisconnect"
  \/ Heard("machine", "disconnect") /\ from = "pendingDisconnect" /\ to = "disconnection"
  \/ Heard("machine", "deactivation_completed") /\ from = "disconnection" /\ to = "disconnected"
  \/ Heard("disconnected", "entered") /\ from = "disconnected" /\ to = "usageFinal"
  \/ Heard("waitingPayment", "activation_completed") /\ from = "activatedEntry" /\ to = "active"
  \/ Heard("paid", "trial_activation_completed") /\ from = "activatedEntry" /\ to = "activeTrial"
  \/ Heard("trial", "change_price_completed") /\ from \in {"active", "activeTrial"} /\ to = "activeTrial"
  \/ Heard("machine", "suspend_completed") /\ from = "suspending" /\ to = "suspended"
  \/ Heard("waitingPayment", "prolong") /\ from \in Activated /\ to = "prolongation"
  \/ Heard("prolongation", "activate_completed") /\ from = "prolongation" /\ to = "active"
  \/ Heard("machine", "prolong_completed") /\ from = "prolongation" /\ to \in {"active", "activeTrial"}
  \/ Heard("notPaid", "resume") /\ from = "suspended" /\ to = "resuming"
  \/ Heard("machine", "resume_completed") /\ from = "resuming" /\ to = "active"
  \/ Heard("waitingPayment", "suspend") /\ from \in {"active", "activeTrial"} /\ to = "suspending"

PaymentMove(from, to) ==
  \/ Head(queue).sender = "machine" /\ Head(queue).value \in {"suspend_ended", "end_of_suspend"}
       /\ from = "notPaid" /\ to = "paymentStopping"
  \/ Head(queue).sender = "machine" /\ Head(queue).value \in {"close_subscriber", "deactivation_external"}
       /\ from \in PaymentOn /\ to = "paymentStopping"
  \/ Heard("machine", "deactivation_started") /\ from \in PaymentOn \cup {"paymentStopping"}
       /\ to = "paymentStopped"
  \/ Heard("paymentStopped", "stop_pay") /\ from = "paymentStopped" /\ to = "paymentFinal"
  \/ Heard("commercial", "activation_completed") /\ from = "paymentOnEntry" /\ to = "waitingPayment"
  \/ Heard("trial", "trial_activation_completed") /\ from = "paymentOnEntry" /\ to = "paid"
  \/ Head(queue).sender = "machine" /\ Head(queue).value \in {"payment_failed", "waiting_pay_ended"}
       /\ from = "waitingPayment" /\ to = "notPaid"
  \/ Heard("machine", "payment_processed") /\ from \in {"notPaid", "waitingPayment"} /\ to = "paid"
  \/ Head(queue).sender \in {"commercial", "machine"} /\ Head(queue).value = "wait_payment"
       /\ from = "paid" /\ to = "waitingPayment"
  \/ Head(queue).sender \in {"priceChanged", "priceNotChanged"} /\ Head(queue).value = "prolong"
       /\ from = "waitingPayment" /\ to = "paid"

\* An enabled transition of the price region makes one of the moves above.
LEMMA PriceMoves ==
  ASSUME NEW t \in PriceTransitions, EventTest(t), conf.price \in Inside(t.source)
  PROVE  PriceMove(conf.price, Descend(t.target))
  <1>1. Heard(t.sender, t.value) /\ Guard(t.guard, conf, product, nextPrice)
    BY DEF EventTest, Triggered, Heard
  <1>2. /\ t.guard = "usageIsTrial" => conf.usage = "activeTrial"
        /\ t.guard = "usageIsActive" => conf.usage = "active"
        /\ t.guard \in {"nextIsTrial", "nextIsActive"} => nextPrice # NoPrice
    BY <1>1 DEF Guard
  <1> QED
    BY <1>1, <1>2 DEF PriceTransitions, PriceClosing, T, On, From, Inside, Descend, PriceMove

\* An enabled transition of the usage region makes one of the moves above.
LEMMA UsageMoves ==
  ASSUME NEW t \in UsageTransitions, EventTest(t), conf.usage \in Inside(t.source)
  PROVE  UsageMove(conf.usage, Descend(t.target))
  <1>1. Heard(t.sender, t.value)
    BY DEF EventTest, Triggered, Heard
  <1> QED
    BY <1>1 DEF UsageTransitions, UsageClosing, T, On, From, Inside, Descend, UsageMove

\* An enabled transition of the payment region makes one of the moves above.
LEMMA PaymentMoves ==
  ASSUME NEW t \in PaymentTransitions, EventTest(t), conf.payment \in Inside(t.source)
  PROVE  PaymentMove(conf.payment, Descend(t.target))
  <1>1. Heard(t.sender, t.value)
    BY DEF EventTest, Triggered, Heard
  <1> QED
    BY <1>1 DEF PaymentTransitions, PaymentClosing, T, On, From, Inside, Descend, PaymentMove, Heard

\* A microstep within a region runs the handlers of the leaf it leaves and of the one it enters.
LEMMA DoesStep ==
  ASSUME NEW from, NEW t, Microstep(from, t)
  PROVE  Does(from, Descend(t.target)) /\ EventTest(t)
  BY DEF Microstep, MicrostepTo, Does, Exit, Entry

\* Every step of the machine, by what it does.
PriceMoved(to) ==
  /\ PriceMove(conf.price, to) /\ Does(conf.price, to)
  /\ conf' = [conf EXCEPT !.price = to]
UsageMoved(to) ==
  /\ UsageMove(conf.usage, to) /\ Does(conf.usage, to)
  /\ conf' = [conf EXCEPT !.usage = to]
PaymentMoved(to) ==
  /\ PaymentMove(conf.payment, to) /\ Does(conf.payment, to)
  /\ conf' = [conf EXCEPT !.payment = to]

\* Every step of the machine moves one region, enters or leaves productProvision, or forgets
\* a signal.
LEMMA MachineSteps ==
  ASSUME WellFormed(conf), MachineStep
  PROVE  /\ calling # Idle /\ queue # <<>>
         /\ \/ \E to \in PriceLeaves : PriceMoved(to)
            \/ \E to \in UsageLeaves : UsageMoved(to)
            \/ \E to \in PaymentLeaves : PaymentMoved(to)
            \/ ProvisionStep
            \/ LeaveStep
            \/ Drop
         /\ ~(ProvisionStep \/ LeaveStep \/ Drop) => conf.top = "productProvision"
  <1>1. CASE PriceStep
    <2>1. PICK t \in PriceTransitions : /\ conf' = [conf EXCEPT !.price = Descend(t.target)]
                                        /\ Microstep(conf.price, t)
      BY <1>1 DEF PriceStep
    <2>2. EventTest(t) /\ Does(conf.price, Descend(t.target)) /\ conf.price \in Inside(t.source)
          /\ conf.top = "productProvision" /\ Descend(t.target) \in PriceLeaves
      BY <2>1, DoesStep, Sources, PriceTargets
    <2> QED BY <2>1, <2>2, PriceMoves DEF PriceMoved, EventTest, Triggered
  <1>2. CASE UsageStep
    <2>1. PICK t \in UsageTransitions : /\ conf' = [conf EXCEPT !.usage = Descend(t.target)]
                                        /\ Microstep(conf.usage, t)
      BY <1>2 DEF UsageStep
    <2>2. EventTest(t) /\ Does(conf.usage, Descend(t.target)) /\ conf.usage \in Inside(t.source)
          /\ conf.top = "productProvision" /\ Descend(t.target) \in UsageLeaves
      BY <2>1, DoesStep, Sources, UsageTargets
    <2> QED BY <2>1, <2>2, UsageMoves DEF UsageMoved, EventTest, Triggered
  <1>3. CASE PaymentStep
    <2>1. PICK t \in PaymentTransitions : /\ conf' = [conf EXCEPT !.payment = Descend(t.target)]
                                          /\ Microstep(conf.payment, t)
      BY <1>3 DEF PaymentStep
    <2>2. EventTest(t) /\ Does(conf.payment, Descend(t.target)) /\ conf.payment \in Inside(t.source)
          /\ conf.top = "productProvision" /\ Descend(t.target) \in PaymentLeaves
      BY <2>1, DoesStep, Sources, PaymentTargets
    <2> QED BY <2>1, <2>2, PaymentMoves DEF PaymentMoved, EventTest, Triggered
  <1>4. ProvisionStep => queue # <<>> /\ calling # Idle
    BY DEF ProvisionStep, EventTest, Triggered
  <1>5. LeaveStep => queue # <<>> /\ calling # Idle
    BY DEF LeaveStep, EventTest, Triggered
  <1>6. Drop => queue # <<>> /\ calling # Idle
    BY DEF Drop
  <1> QED BY <1>1, <1>2, <1>3, <1>4, <1>5, <1>6 DEF MachineStep

\* The same, where the types are known to hold.
LEMMA StepKinds ==
  ASSUME TypeOK, MachineStep
  PROVE  /\ calling # Idle /\ queue # <<>>
         /\ \/ \E to \in PriceLeaves : PriceMoved(to)
            \/ \E to \in UsageLeaves : UsageMoved(to)
            \/ \E to \in PaymentLeaves : PaymentMoved(to)
            \/ ProvisionStep
            \/ LeaveStep
            \/ Drop
         /\ ~(ProvisionStep \/ LeaveStep \/ Drop) => conf.top = "productProvision"
  BY MachineSteps DEF TypeOK, MachineTypeOK

\* What the top-level transitions wait for.
LEMMA TopKinds ==
  ASSUME WellFormed(conf), NEW t \in TopTransitions, EventTest(t)
  PROVE  \/ /\ t.target = "productProvision" /\ conf.top = "pendingActivate" /\ t.value = Head(queue).value
            /\ Head(queue).sender = "machine"
            /\ Head(queue).value \in {"activation_completed", "trial_activation_completed"}
         \/ /\ t.target = "aborted" /\ conf.top = "pendingActivate" /\ t.value = Head(queue).value
            /\ Head(queue).sender = "machine" /\ Head(queue).value = "activation_aborted"
         \/ /\ t.target = "disconnect" /\ conf.top = "productProvision" /\ t.value = Head(queue).value
            /\ Head(queue).sender = "productProvision" /\ Head(queue).value = "finished"
  <1>1. /\ Head(queue).sender = t.sender
        /\ Head(queue).value = t.value /\ Inside(t.source) \cap ActiveStates # {}
    BY DEF EventTest, Triggered
  <1>2. t.source \in {"pendingActivate", "productProvision"} /\ Inside(t.source) = {t.source}
    BY DEF TopTransitions, On, From, T, Inside
  <1>3. conf.top = t.source
    <2>1. /\ conf.usage \in UsageLeaves \cup {NoLeaf} /\ conf.payment \in PaymentLeaves \cup {NoLeaf}
          /\ conf.price \in PriceLeaves \cup {NoLeaf}
      BY DEF WellFormed, Configurations
    <2> QED
      BY <1>1, <1>2, <2>1 DEF ActiveStates, UsageLeaves, UsageOn, UsageOff, Activated, PaymentLeaves,
         PaymentOn, PaymentOff, PriceLeaves, PriceOn, NoLeaf
  <1> QED BY <1>1, <1>3 DEF TopTransitions, On, From, T

\* The queue and the tasks after a step, where little or nothing is added.
LEMMA Shapes ==
  ASSUME NEW x, NEW y, NEW z
  PROVE  /\ <<>> \o <<>> \o <<>> \o <<>> \o <<>> = <<>>
         /\ <<>> \o <<x>> \o <<>> \o <<>> \o <<>> = <<x>>
         /\ <<>> \o <<>> \o <<x>> \o <<>> \o <<>> = <<x>>
         /\ <<>> \o <<>> \o <<>> \o <<>> \o <<x>> = <<x>>
         /\ <<>> \o <<>> \o <<>> \o <<x>> \o <<>> = <<x>>
         /\ <<>> \o <<>> \o <<x, y>> \o <<>> \o <<>> = <<x, y>>
         /\ <<x>> \o <<>> \o <<>> \o <<>> \o <<>> = <<x>>
         /\ <<x>> \o <<y>> \o <<>> \o <<>> \o <<>> = <<x, y>>
         /\ <<x, y>> \o <<>> \o <<>> \o <<>> \o <<>> = <<x, y>>
         /\ <<>> \o <<>> \o <<>> = <<>> /\ <<>> \o <<>> \o <<x>> = <<x>>
         /\ <<x>> \o <<>> \o <<>> = <<x>> /\ <<x>> \o <<>> \o <<y>> = <<x, y>>
         /\ <<x, y>> \o <<>> \o <<>> = <<x, y>>
  BY Tuples

\* The tasks put up for deletion once both handlers have run.
LEMMA DeletedTasks ==
  ASSUME TypeOK, queue # <<>>, NEW from, NEW to, Does(from, to)
  PROVE  ToSet(deleteTasks') = ToSet(deleteTasks) \cup
           (ToSet(Exit(from).delete) \cup ToSet(Entry(from, to).delete))
  <1>1. Head(queue) \in Signals
    <2>1. queue \in Seq(Signals)
      BY DEF TypeOK, MachineTypeOK
    <2> QED BY <2>1, HeadTailProperties
  <1>2. Exit(from) \in Effects
    BY <1>1, ExitType DEF TypeOK, MachineTypeOK, Exit
  <1>3. Entry(from, to) \in Effects
    <2>1. Exit(from).product \in Products
      BY <1>2 DEF Effects
    <2> QED BY <1>1, <2>1, EntryType DEF Entry
  <1> DEFINE x == Exit(from).delete
             y == Entry(from, to).delete
  <1>4. x \in Seq(TimerEvents) /\ y \in Seq(TimerEvents) /\ deleteTasks \in Seq(TimerEvents)
    BY <1>2, <1>3 DEF Effects, TypeOK, MachineTypeOK
  <1>5. deleteTasks' = deleteTasks \o x \o y
    BY DEF Does
  <1> HIDE DEF x, y
  <1>6. deleteTasks \o x \in Seq(TimerEvents)
    BY <1>4
  <1>7. ToSet(deleteTasks \o x) = ToSet(deleteTasks) \cup ToSet(x)
    BY <1>4, SetOfConcat
  <1>8. ToSet((deleteTasks \o x) \o y) = ToSet(deleteTasks \o x) \cup ToSet(y)
    <2> DEFINE z == deleteTasks \o x
    <2>1. z \in Seq(TimerEvents)
      BY <1>6
    <2> HIDE DEF z
    <2>2. ToSet(z \o y) = ToSet(z) \cup ToSet(y)
      BY <1>4, <2>1, SetOfConcat
    <2> QED BY <2>2 DEF z
  <1> QED BY <1>5, <1>7, <1>8 DEF x, y
================================================================================
