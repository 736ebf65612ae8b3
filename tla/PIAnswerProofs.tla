--------------------------- MODULE PIAnswerProofs ----------------------------
(***************************************************************************)
(* What a caller gets to see that looks before the machine is done, for     *)
(* every catalog and every bound: nothing but the configuration changes     *)
(* once transitionCompleted has been emitted; after an error nothing does,   *)
(* but for the one transition that passes in spite of it; what is stored of *)
(* an unfinished cascade settles where the machine came to rest.  The        *)
(* inductive invariant is AnswerInv: each step leads from one shape of the   *)
(* queue to another.                                                        *)
(***************************************************************************)
EXTENDS PIAnswer, PILifecycleProofs

-----------------------------------------------------------------------------
(* Conditions: which signals they are tested on. *)

\* The signals on which a condition is tested that may emit a machineError.
LEMMA TestedSignals ==
  \A t \in Transitions :
    /\ t.guard = "pricesDiffer" => t.sender = "machine" /\ t.value = "change_price"
    /\ t.guard \in {"priceIsTrial", "priceIsActive"} =>
         \/ t.sender = "machine" /\ t.value = "prolong_completed"
         \/ t.sender = "priceNotChanged" /\ t.value = "change_price_completed"
  <1>1. \A t \in PriceTransitions :
          /\ t.guard = "pricesDiffer" => t.sender = "machine" /\ t.value = "change_price"
          /\ t.guard \in {"priceIsTrial", "priceIsActive"} =>
               t.sender = "priceNotChanged" /\ t.value = "change_price_completed"
    BY DEF PriceTransitions, PriceClosing, T, On, From
  <1>2. \A t \in UsageTransitions :
          /\ t.guard # "pricesDiffer"
          /\ t.guard \in {"priceIsTrial", "priceIsActive"} =>
               t.sender = "machine" /\ t.value = "prolong_completed"
    BY DEF UsageTransitions, UsageClosing, T, On, From
  <1>3. \A t \in PaymentTransitions : t.guard = "always"
    BY DEF PaymentTransitions, PaymentClosing, T, On, From
  <1>4. \A t \in TopTransitions : t.guard = "always"
    BY DEF TopTransitions, T, On, From
  <1> QED BY <1>1, <1>2, <1>3, <1>4 DEF Transitions

\* On any other signal, or with the prices they ask for, testing emits no error.
LEMMA Untested ==
  ASSUME Heard("machine", "change_price") => PricesEqualReason(product, nextPrice) = NoError,
         Heard("machine", "prolong_completed") => HasPrice(product),
         Heard("priceNotChanged", "change_price_completed") => HasPrice(product)
  PROVE  TestReason = NoError
  <1> DEFINE reasons == {GuardReason(t.guard, product, nextPrice) :
                           t \in {u \in Transitions : Triggered(u)}} \ {NoError}
  <1>1. ASSUME NEW t \in Transitions, Triggered(t)
        PROVE  GuardReason(t.guard, product, nextPrice) = NoError
    <2>1. Heard(t.sender, t.value)
      BY <1>1 DEF Triggered, Heard
    <2>2. t.guard = "pricesDiffer" => PricesEqualReason(product, nextPrice) = NoError
      BY <2>1, TestedSignals DEF Heard
    <2>3. t.guard \in {"priceIsTrial", "priceIsActive"} => HasPrice(product)
      BY <2>1, TestedSignals DEF Heard
    <2> QED BY <2>2, <2>3 DEF GuardReason, CurrentPriceReason
  <1>2. reasons = {}
    BY <1>1
  <1> QED BY <1>2 DEF TestReason

-----------------------------------------------------------------------------
(* Handlers that fail. *)

\* A handler that emits an error emits no signal, except priceChanging's on a product
\* without a price.
LEMMA FailingEntries ==
  ASSUME NEW s, NEW e, NEW p, OnEntry(s, e, p).reason # NoError
  PROVE  \/ s = "priceChanging" /\ ~HasPrice(p)
         \/ s \in {"suspending", "prolongation", "commercial", "trial"} /\ OnEntry(s, e, p).emit = <<>>
  <1> USE DEF Nothing, Emits, Fails, CreatesAndCompletes
  <1>1. CASE s \in {"activatedEntry", "paymentOnEntry", "resuming", "suspended", "pendingDisconnect",
                    "disconnection", "priceOnEntry", "priceChanged", "priceNotChanged", "priceOff"}
    BY <1>1 DEF OnEntry, ResumingOnEntry, SuspendedOnEntry, PendingDisconnectOnEntry,
       DisconnectionOnEntry, PriceOnEntryOnEntry, PriceChangedOnEntry, PriceNotChangedOnEntry,
       PriceOffOnEntry
  <1>2. CASE s \in {"paid", "waitingPayment", "notPaid", "paymentStopping", "paymentStopped"}
    BY <1>2 DEF OnEntry, PaidOnEntry, WaitingPaymentOnEntry, NotPaidOnEntry, PaymentStoppingOnEntry,
       PaymentStoppedOnEntry
  <1>3. CASE s \in {"suspending", "prolongation"}
    BY <1>3 DEF OnEntry, SuspendingOnEntry, ProlongationOnEntry
  <1>4. CASE s = "commercial"
    BY <1>4 DEF OnEntry, CommercialOnEntry
  <1>5. CASE s = "trial"
    BY <1>5 DEF OnEntry, TrialOnEntry
  <1>6. CASE s = "priceChanging"
    BY <1>6 DEF OnEntry, PriceChangingOnEntry, CurrentPriceReason
  <1>7. CASE s \notin {"activatedEntry", "paymentOnEntry", "resuming", "suspended", "pendingDisconnect",
                       "disconnection", "priceOnEntry", "priceChanged", "priceNotChanged", "priceOff",
                       "paid", "waitingPayment", "notPaid", "paymentStopping", "paymentStopped",
                       "suspending", "prolongation", "commercial", "trial", "priceChanging"}
    BY <1>7 DEF OnEntry
  <1> QED BY <1>1, <1>2, <1>3, <1>4, <1>5, <1>6, <1>7

\* Of the exit handlers, only the one that takes over the next price can fail.
LEMMA FailingExits ==
  ASSUME NEW s, NEW e, NEW p, NEW next, s # "priceChanged" \/ next # NoPrice
  PROVE  OnExit(s, e, p, next).reason = NoError
  BY DEF OnExit, SuspendedOnExit, PriceChangedOnExit, WaitingPaymentOnExit, NotPaidOnExit, Nothing, Emits

\* Without a period of known length neither tarification starts.
LEMMA FailingPeriods ==
  ASSUME NEW s \in {"commercial", "trial"}, NEW e, NEW p, ~HasPeriodType(p)
  PROVE  OnEntry(s, e, p).reason = QfsmlibError
  BY DEF OnEntry, CommercialOnEntry, TrialOnEntry, Fails, Nothing

-----------------------------------------------------------------------------
(* The queue after a step. *)

\* productProvision has not finished before the usage has.
LEMMA NotFinished ==
  ASSUME NEW c, WellFormed(c), c.usage # "usageFinal" PROVE ~Finished(c)
  <1>1. c.payment \in PaymentLeaves \cup {NoLeaf} /\ c.price \in PriceLeaves \cup {NoLeaf}
    BY DEF WellFormed, Configurations
  <1>2. "usageFinal" \notin {c.usage, c.payment, c.price}
    BY <1>1 DEF PaymentLeaves, PaymentOn, PaymentOff, PriceLeaves, PriceOn, NoLeaf
  <1> QED BY <1>2 DEF Finished, FinalLeaves

\* The signals of a step follow what is left of the queue.
LEMMA QueueAfter ==
  ASSUME NEW from, NEW to, Does(from, to), WellFormed(conf)', conf'.usage # "usageFinal"
  PROVE  queue' = Tail(queue) \o Signal(from, Exit(from).emit) \o Signal(to, Entry(from, to).emit)
                    \o (IF to \in SignalsWhenEntered THEN <<Sig(to, "entered")>> ELSE <<>>) \o <<>>
  <1>1. FinishedSignal(conf') = <<>>
    BY NotFinished, SmallSignals DEF FinishedSignal
  <1>2. EnteredSignal(to) = IF to \in SignalsWhenEntered THEN <<Sig(to, "entered")>> ELSE <<>>
    BY SmallSignals DEF EnteredSignal
  <1> QED BY <1>1, <1>2 DEF Does

LEMMA QueueAfterQuiet ==
  ASSUME NEW from, NEW to, Does(from, to), WellFormed(conf)', conf'.usage # "usageFinal",
         to \notin SignalsWhenEntered
  PROVE  queue' = Tail(queue) \o Signal(from, Exit(from).emit) \o Signal(to, Entry(from, to).emit) \o <<>> \o <<>>
  BY QueueAfter

\* The queue after the last signal, where the handlers emit at most two values.
LEMMA QueueAfterLast ==
  ASSUME NEW from, NEW to, Does(from, to), Tail(queue) = <<>>, WellFormed(conf)',
         conf'.usage # "usageFinal", to \notin SignalsWhenEntered,
         NEW v, NEW w
  PROVE  /\ Exit(from).emit = <<>> /\ Entry(from, to).emit = <<>> => queue' = <<>>
         /\ Exit(from).emit = <<>> /\ Entry(from, to).emit = <<v>> => queue' = <<Sig(to, v)>>
         /\ Exit(from).emit = <<v>> /\ Entry(from, to).emit = <<>> => queue' = <<Sig(from, v)>>
         /\ Exit(from).emit = <<>> /\ Entry(from, to).emit = <<v, w>> =>
              queue' = <<Sig(to, v), Sig(to, w)>>
  <1>1. queue' = <<>> \o Signal(from, Exit(from).emit) \o Signal(to, Entry(from, to).emit) \o <<>> \o <<>>
    BY QueueAfter
  <1>2. /\ Signal(from, <<>>) = <<>> /\ Signal(to, <<>>) = <<>>
        /\ Signal(from, <<v>>) = <<Sig(from, v)>> /\ Signal(to, <<v>>) = <<Sig(to, v)>>
        /\ Signal(to, <<v, w>>) = <<Sig(to, v), Sig(to, w)>>
    BY SmallSignals
  <1>3. Exit(from).emit = <<>> /\ Entry(from, to).emit = <<>> => queue' = <<>>
    BY <1>1, <1>2, Shapes
  <1>4. Exit(from).emit = <<>> /\ Entry(from, to).emit = <<v>> => queue' = <<Sig(to, v)>>
    BY <1>1, <1>2, Shapes
  <1>5. Exit(from).emit = <<v>> /\ Entry(from, to).emit = <<>> => queue' = <<Sig(from, v)>>
    BY <1>1, <1>2, Shapes
  <1>6. Exit(from).emit = <<>> /\ Entry(from, to).emit = <<v, w>> =>
              queue' = <<Sig(to, v), Sig(to, w)>>
    <2>1. <<>> \o <<>> \o <<Sig(to, v), Sig(to, w)>> \o <<>> \o <<>> = <<Sig(to, v), Sig(to, w)>>
      BY Shapes
    <2> QED BY <1>1, <1>2, <2>1
  <1> QED BY <1>3, <1>4, <1>5, <1>6

-----------------------------------------------------------------------------
(* Signals that are always forgotten, or never. *)

\* No state waits for what activatedEntry and paymentOnEntry say, nor top-level ones for
\* anything but the caller and productProvision.
LEMMA HeadsHeard ==
  ASSUME WellFormed(conf), MachineStep
  PROVE  /\ Head(queue).sender \in {"activatedEntry", "paymentOnEntry"} => Drop
         /\ ProvisionStep => /\ Head(queue).sender = "machine" /\ conf.top = "pendingActivate"
                             /\ Head(queue).value \in {"activation_completed", "trial_activation_completed"}
         /\ LeaveStep =>
              \/ /\ Head(queue).sender = "machine" /\ conf.top = "pendingActivate"
                 /\ conf' = Outside("aborted") /\ queue' = Tail(queue) /\ completed'
              \/ /\ Heard("productProvision", "finished") /\ conf.top = "productProvision"
                 /\ conf' = Outside("disconnect") /\ queue' = Tail(queue) /\ completed'
  <1>1. ASSUME ProvisionStep
        PROVE  /\ Head(queue).sender = "machine" /\ conf.top = "pendingActivate"
               /\ Head(queue).value \in {"activation_completed", "trial_activation_completed"}
    <2>1. PICK t \in TopTransitions : t.target = "productProvision" /\ EventTest(t)
      BY <1>1 DEF ProvisionStep
    <2> QED BY <2>1, TopKinds
  <1>2. ASSUME LeaveStep
        PROVE  \/ /\ Head(queue).sender = "machine" /\ conf.top = "pendingActivate"
                  /\ conf' = Outside("aborted") /\ queue' = Tail(queue) /\ completed'
               \/ /\ Heard("productProvision", "finished") /\ conf.top = "productProvision"
                  /\ conf' = Outside("disconnect") /\ queue' = Tail(queue) /\ completed'
    <2>1. PICK t \in TopTransitions :
            /\ t.target \in {"aborted", "disconnect"} /\ EventTest(t)
            /\ conf' = Outside(t.target) /\ queue' = Tail(queue)
            /\ completed' = (completed \/ t.target \in CompletesWhenEntered)
      BY <1>2 DEF LeaveStep
    <2> QED BY <2>1, TopKinds DEF Heard, CompletesWhenEntered
  <1>3. ASSUME Head(queue).sender \in {"activatedEntry", "paymentOnEntry"} PROVE Drop
    <2>1. \A to : ~PriceMoved(to)
      BY <1>3 DEF PriceMoved, PriceMove, Heard
    <2>2. \A to : ~UsageMoved(to)
      BY <1>3 DEF UsageMoved, UsageMove, Heard
    <2>3. \A to : ~PaymentMoved(to)
      BY <1>3 DEF PaymentMoved, PaymentMove, Heard
    <2>4. ~ProvisionStep
      BY <1>1, <1>3
    <2>5. ~LeaveStep
      BY <1>2, <1>3 DEF Heard
    <2> QED BY <2>1, <2>2, <2>3, <2>4, <2>5, MachineSteps
  <1> QED BY <1>1, <1>2, <1>3

\* off_price is not forgotten while the tarification runs, nor priceOff's entered().
LEMMA NotForgotten ==
  ASSUME calling # Idle, queue # <<>>, Drop
  PROVE  /\ Heard("paymentStopped", "off_price") => conf.price \notin PriceOn
         /\ Heard("priceOff", "entered") => conf.price # "priceOff"
  <1>1. ASSUME Heard("paymentStopped", "off_price"), conf.price \in PriceOn PROVE FALSE
    <2> DEFINE t == From("priceOn", "paymentStopped", "off_price", "priceOff")
    <2>1. t \in Transitions
      BY DEF Transitions, PriceTransitions, PriceClosing
    <2>2. Triggered(t)
      BY <1>1 DEF Triggered, From, T, Heard, Inside, ActiveStates
    <2>3. Guard(t.guard, conf, product, nextPrice)
      BY DEF From, T, Guard
    <2> HIDE DEF t
    <2> QED BY <2>1, <2>2, <2>3 DEF EnabledTransitions, EventTest, Drop
  <1>2. ASSUME Heard("priceOff", "entered"), conf.price = "priceOff" PROVE FALSE
    <2> DEFINE t == From("priceOff", "priceOff", "entered", "priceFinal")
    <2>1. t \in Transitions
      BY DEF Transitions, PriceTransitions, PriceClosing
    <2>2. Triggered(t)
      BY <1>2 DEF Triggered, From, T, Heard, Inside, ActiveStates
    <2>3. Guard(t.guard, conf, product, nextPrice)
      BY DEF From, T, Guard
    <2> HIDE DEF t
    <2> QED BY <2>1, <2>2, <2>3 DEF EnabledTransitions, EventTest, Drop
  <1> QED BY <1>1, <1>2

-----------------------------------------------------------------------------
(* Where one signal leads. *)

Leads(q, p, done) == queue' = q /\ product' = p /\ completed' = (completed \/ done)

\* The signals the handlers of a step emit, the product they leave, and whether they complete the
\* call.
Work(from, to, xs, ns, p, done) ==
  /\ Exit(from).emit = xs /\ Entry(from, to).emit = ns
  /\ Entry(from, to).product = p
  /\ done = (Exit(from).completed \/ Entry(from, to).completed \/ to \in CompletesWhenEntered)

LEMMA WorkOf ==
  ASSUME NEW from, NEW to,
         NEW xs, NEW xc, NEW xd, NEW p0, Has(Exit(from), xs, xc, xd, p0, FALSE),
         NEW ns, NEW nc, NEW nd, NEW p, NEW done \in BOOLEAN,
         Has(OnEntry(to, Head(queue), p0), ns, nc, nd, p, done)
  PROVE  /\ done \/ to \in CompletesWhenEntered => Work(from, to, xs, ns, p, TRUE)
         /\ ~done /\ to \notin CompletesWhenEntered => Work(from, to, xs, ns, p, FALSE)
  BY DEF Work, Entry, Has

\* What the onExit handlers of a step do.
LEMMA ExitsOf ==
  LET e == Head(queue) IN
  /\ Has(Exit("suspended"), <<"resume_tarification">>, <<>>, <<"suspend_ended">>, product, FALSE)
  /\ Has(Exit("waitingPayment"),
         IF e.value \in ClosingEvents THEN <<>>
         ELSE IF e.value = "payment_processed" THEN <<"prolong">> ELSE <<"suspend">>,
         <<>>, <<"waiting_pay_ended">>, product, FALSE)
  /\ Has(Exit("notPaid"), IF e.value = "payment_processed" THEN <<"resume">> ELSE <<>>, <<>>, <<>>, product, FALSE)
  /\ \A s : s \notin {"suspended", "priceChanged", "waitingPayment", "notPaid"} =>
       Has(Exit(s), <<>>, <<>>, <<>>, product, FALSE)
  BY Exits DEF Exit

\* What the handlers of the payment region do.
LEMMA PaymentWork ==
  ASSUME NEW to, PaymentMove(conf.payment, to)
  PROVE  LET from == conf.payment IN
         \/ /\ to = "paymentStopping" /\ from \in PaymentOn
            /\ Work(from, to, <<>>, <<>>, product, TRUE)
         \/ /\ to = "paymentStopped" /\ from \in PaymentOn \cup {"paymentStopping"}
            /\ Work(from, to, <<>>, <<"off_price", "stop_pay">>, product, FALSE)
         \/ /\ to = "paymentFinal" /\ from = "paymentStopped"
            /\ Work(from, to, <<>>, <<>>, product, FALSE)
         \/ /\ to = "waitingPayment" /\ from = "paymentOnEntry" /\ Heard("commercial", "activation_completed")
            /\ Work(from, to, <<>>, <<"activation_completed">>, product, FALSE)
         \/ /\ to = "paid" /\ from = "paymentOnEntry" /\ Heard("trial", "trial_activation_completed")
            /\ Work(from, to, <<>>, <<"trial_activation_completed">>, product, FALSE)
         \/ /\ to = "notPaid" /\ from = "waitingPayment"
            /\ Work(from, to, <<"suspend">>, <<>>, [product EXCEPT !.tarificationPeriod = @ - 1], FALSE)
         \/ /\ to = "paid" /\ from = "notPaid"
            /\ Work(from, to, <<"resume">>, <<>>, product, FALSE)
         \/ /\ to = "paid" /\ from = "waitingPayment"
            /\ \E v : Work(from, to, <<v>>, <<>>, product, FALSE)
         \/ /\ to = "waitingPayment" /\ from = "paid"
            /\ Head(queue).sender \in {"commercial", "machine"}
            /\ Work(from, to, <<>>, <<>>, product, TRUE)
  <1> DEFINE from == conf.payment
  <1> USE DEF CompletesWhenEntered, ClosingEvents
  <1>1. ASSUME to = "paymentStopping", from \in PaymentOn,
               \/ from = "notPaid" /\ Head(queue).value # "payment_processed"
               \/ Head(queue).value \in {"close_subscriber", "deactivation_external"}
        PROVE  Work(from, to, <<>>, <<>>, product, TRUE)
    <2>1. Has(OnEntry(to, Head(queue), product), <<>>, <<"DISCONNECT_EXTERNAL">>, <<>>, product, TRUE)
      BY <1>1, PaymentEntries
    <2>2. CASE from = "waitingPayment"
      <3>1. Has(Exit(from), <<>>, <<>>, <<"waiting_pay_ended">>, product, FALSE)
        BY <1>1, <2>2, ExitsOf
      <3> QED BY <1>1, <2>1, <3>1, WorkOf
    <2>3. CASE from # "waitingPayment"
      <3>1. Has(Exit(from), <<>>, <<>>, <<>>, product, FALSE)
        BY <1>1, <2>3, ExitsOf DEF PaymentOn
      <3> QED BY <1>1, <2>1, <3>1, WorkOf
    <2> QED BY <2>2, <2>3
  <1>2. ASSUME to = "paymentStopped", from \in PaymentOn \cup {"paymentStopping"},
               Head(queue).value = "deactivation_started"
        PROVE  Work(from, to, <<>>, <<"off_price", "stop_pay">>, product, FALSE)
    <2>1. Has(OnEntry(to, Head(queue), product), <<"off_price", "stop_pay">>, <<>>, <<>>, product, FALSE)
      BY <1>2, PaymentEntries
    <2>2. CASE from = "waitingPayment"
      <3>1. Has(Exit(from), <<>>, <<>>, <<"waiting_pay_ended">>, product, FALSE)
        BY <1>2, <2>2, ExitsOf
      <3> QED BY <1>2, <2>1, <3>1, WorkOf
    <2>3. CASE from # "waitingPayment"
      <3>1. Has(Exit(from), <<>>, <<>>, <<>>, product, FALSE)
        BY <1>2, <2>3, ExitsOf DEF PaymentOn
      <3> QED BY <1>2, <2>1, <3>1, WorkOf
    <2> QED BY <2>2, <2>3
  <1>3. ASSUME to = "paymentFinal", from = "paymentStopped"
        PROVE  Work(from, to, <<>>, <<>>, product, FALSE)
    <2>1. Has(Exit(from), <<>>, <<>>, <<>>, product, FALSE)
      BY <1>3, ExitsOf
    <2>2. Has(OnEntry(to, Head(queue), product), <<>>, <<>>, <<>>, product, FALSE)
      BY <1>3, PaymentEntries
    <2> QED BY <1>3, <2>1, <2>2, WorkOf
  <1>4. ASSUME to = "waitingPayment", from = "paymentOnEntry", Head(queue).value = "activation_completed"
        PROVE  Work(from, to, <<>>, <<"activation_completed">>, product, FALSE)
    <2>1. Has(Exit(from), <<>>, <<>>, <<>>, product, FALSE)
      BY <1>4, ExitsOf
    <2>2. Has(OnEntry(to, Head(queue), product), <<"activation_completed">>, <<"waiting_pay_ended">>, <<>>, product, FALSE)
      BY <1>4, PaymentEntries
    <2> QED BY <1>4, <2>1, <2>2, WorkOf
  <1>5. ASSUME to = "paid", from = "paymentOnEntry", Head(queue).value = "trial_activation_completed"
        PROVE  Work(from, to, <<>>, <<"trial_activation_completed">>, product, FALSE)
    <2>1. Has(Exit(from), <<>>, <<>>, <<>>, product, FALSE)
      BY <1>5, ExitsOf
    <2>2. Has(OnEntry(to, Head(queue), product), <<"trial_activation_completed">>, <<>>, <<>>, product, FALSE)
      BY <1>5, PaymentEntries
    <2> QED BY <1>5, <2>1, <2>2, WorkOf
  <1>6. ASSUME to = "notPaid", from = "waitingPayment",
               Head(queue).value \in {"payment_failed", "waiting_pay_ended"}
        PROVE  Work(from, to, <<"suspend">>, <<>>, [product EXCEPT !.tarificationPeriod = @ - 1], FALSE)
    <2>1. Has(Exit(from), <<"suspend">>, <<>>, <<"waiting_pay_ended">>, product, FALSE)
      BY <1>6, ExitsOf
    <2>2. Has(OnEntry(to, Head(queue), product), <<>>, <<>>, <<>>, [product EXCEPT !.tarificationPeriod = @ - 1], FALSE)
      BY <1>6, PaymentEntries
    <2> QED BY <1>6, <2>1, <2>2, WorkOf
  <1>7. ASSUME to = "paid", from = "notPaid", Head(queue).value = "payment_processed"
        PROVE  Work(from, to, <<"resume">>, <<>>, product, FALSE)
    <2>1. Has(Exit(from), <<"resume">>, <<>>, <<>>, product, FALSE)
      BY <1>7, ExitsOf
    <2>2. Has(OnEntry(to, Head(queue), product), <<>>, <<>>, <<>>, product, FALSE)
      BY <1>7, PaymentEntries
    <2> QED BY <1>7, <2>1, <2>2, WorkOf
  <1>8. ASSUME to = "paid", from = "waitingPayment", Head(queue).value = "payment_processed"
        PROVE  Work(from, to, <<"prolong">>, <<>>, product, FALSE)
    <2>1. Has(Exit(from), <<"prolong">>, <<>>, <<"waiting_pay_ended">>, product, FALSE)
      BY <1>8, ExitsOf
    <2>2. Has(OnEntry(to, Head(queue), product), <<>>, <<>>, <<>>, product, FALSE)
      BY <1>8, PaymentEntries
    <2> QED BY <1>8, <2>1, <2>2, WorkOf
  <1>9. ASSUME to = "paid", from = "waitingPayment", Head(queue).value = "prolong"
        PROVE  Work(from, to, <<"suspend">>, <<>>, product, FALSE)
    <2>1. Has(Exit(from), <<"suspend">>, <<>>, <<"waiting_pay_ended">>, product, FALSE)
      BY <1>9, ExitsOf
    <2>2. Has(OnEntry(to, Head(queue), product), <<>>, <<>>, <<>>, product, FALSE)
      BY <1>9, PaymentEntries
    <2> QED BY <1>9, <2>1, <2>2, WorkOf
  <1>10. ASSUME to = "waitingPayment", from = "paid", Head(queue).value = "wait_payment"
        PROVE  Work(from, to, <<>>, <<>>, product, TRUE)
    <2>1. Has(Exit(from), <<>>, <<>>, <<>>, product, FALSE)
      BY <1>10, ExitsOf
    <2>2. Has(OnEntry(to, Head(queue), product), <<>>, <<"waiting_pay_ended">>, <<>>, product, TRUE)
      BY <1>10, PaymentEntries
    <2> QED BY <1>10, <2>1, <2>2, WorkOf
  <1>11. CASE to \in {"paymentStopping", "paymentStopped", "paymentFinal", "notPaid"}
    BY <1>1, <1>2, <1>3, <1>6, <1>11 DEF PaymentMove, PaymentOn, Heard
  <1>12. CASE to = "waitingPayment"
    BY <1>4, <1>10, <1>12 DEF PaymentMove, Heard
  <1>13. CASE to = "paid"
    BY <1>5, <1>7, <1>8, <1>9, <1>13 DEF PaymentMove, Heard
  <1>14. to \in {"paymentStopping", "paymentStopped", "paymentFinal", "notPaid", "waitingPayment", "paid"}
    BY DEF PaymentMove
  <1> QED BY <1>11, <1>12, <1>13, <1>14

\* What the handlers of the usage region do.
LEMMA UsageWork ==
  ASSUME NEW to, UsageMove(conf.usage, to)
  PROVE  LET from == conf.usage IN
         \/ /\ to = "pendingDisconnect" /\ Heard("priceOff", "off_usage")
            /\ \/ Work(from, to, <<>>, <<>>, product, TRUE)
               \/ Work(from, to, <<"resume_tarification">>, <<>>, product, TRUE) /\ from = "suspended"
         \/ /\ to \in {"disconnection", "active", "activeTrial", "suspended", "suspending"}
            /\ Head(queue).sender \in {"machine", "waitingPayment", "paid", "trial", "prolongation"}
            /\ Work(from, to, <<>>, <<>>, product, TRUE)
         \/ /\ to = "disconnected" /\ Heard("machine", "deactivation_completed")
            /\ Work(from, to, <<>>, <<>>, product, FALSE)
         \/ /\ to = "usageFinal" /\ Heard("disconnected", "entered") /\ from = "disconnected"
            /\ Work(from, to, <<>>, <<>>, product, FALSE)
         \/ /\ to = "prolongation" /\ Heard("waitingPayment", "prolong")
            /\ \/ Work(from, to, <<>>, <<"activate_completed">>, product, FALSE)
               \/ Work(from, to, <<>>, <<>>, product, TRUE)
         \/ /\ to = "resuming" /\ Heard("notPaid", "resume") /\ from = "suspended"
            /\ Work(from, to, <<"resume_tarification">>, <<>>, product, FALSE)
  <1> DEFINE from == conf.usage
  <1> USE DEF CompletesWhenEntered
  <1>1. ASSUME from \in UsageOn, to = "pendingDisconnect"
        PROVE  \/ Work(from, to, <<>>, <<>>, product, TRUE)
               \/ Work(from, to, <<"resume_tarification">>, <<>>, product, TRUE) /\ from = "suspended"
    <2>1. Has(OnEntry(to, Head(queue), product), <<>>, <<"disconnect">>, <<"trial_ended", "commercial_ended">>,
              product, TRUE)
      BY <1>1, UsageEntries
    <2>2. CASE from = "suspended"
      <3>1. Has(Exit(from), <<"resume_tarification">>, <<>>, <<"suspend_ended">>, product, FALSE)
        BY <2>2, ExitsOf
      <3>2. Work(from, to, <<"resume_tarification">>, <<>>, product, TRUE)
        BY <1>1, <2>1, <3>1, WorkOf
      <3> QED BY <2>2, <3>2
    <2>3. CASE from # "suspended"
      <3>1. Has(Exit(from), <<>>, <<>>, <<>>, product, FALSE)
        BY <1>1, <2>3, ExitsOf DEF UsageOn, Activated
      <3>2. Work(from, to, <<>>, <<>>, product, TRUE)
        BY <1>1, <2>1, <3>1, WorkOf
      <3> QED BY <3>2
    <2> QED BY <2>2, <2>3
  <1>2. ASSUME from = "pendingDisconnect", to = "disconnection"
        PROVE  Work(from, to, <<>>, <<>>, product, TRUE)
    <2>1. Has(Exit(from), <<>>, <<>>, <<>>, product, FALSE)
      BY <1>2, ExitsOf
    <2>2. Has(OnEntry(to, Head(queue), product), <<>>, <<"DISCONNECT">>, <<>>, product, TRUE)
      BY <1>2, UsageEntries
    <2> QED BY <1>2, <2>1, <2>2, WorkOf
  <1>3. ASSUME from = "disconnection", to = "disconnected"
        PROVE  Work(from, to, <<>>, <<>>, product, FALSE)
    <2>1. Has(Exit(from), <<>>, <<>>, <<>>, product, FALSE)
      BY <1>3, ExitsOf
    <2>2. Has(OnEntry(to, Head(queue), product), <<>>, <<>>, <<>>, product, FALSE)
      BY <1>3, UsageEntries
    <2> QED BY <1>3, <2>1, <2>2, WorkOf
  <1>4. ASSUME from = "disconnected", to = "usageFinal"
        PROVE  Work(from, to, <<>>, <<>>, product, FALSE)
    <2>1. Has(Exit(from), <<>>, <<>>, <<>>, product, FALSE)
      BY <1>4, ExitsOf
    <2>2. Has(OnEntry(to, Head(queue), product), <<>>, <<>>, <<>>, product, FALSE)
      BY <1>4, UsageEntries
    <2> QED BY <1>4, <2>1, <2>2, WorkOf
  <1>5. ASSUME from \in {"activatedEntry", "active", "activeTrial", "prolongation", "resuming"},
               to \in {"active", "activeTrial"}
        PROVE  Work(from, to, <<>>, <<>>, product, TRUE)
    <2>1. Has(Exit(from), <<>>, <<>>, <<>>, product, FALSE)
      BY <1>5, ExitsOf
    <2>2. Has(OnEntry(to, Head(queue), product), <<>>, <<>>, <<>>, product, FALSE)
      BY <1>5, UsageEntries
    <2> QED BY <1>5, <2>1, <2>2, WorkOf
  <1>6. ASSUME from \in {"suspending", "active", "activeTrial"}, to \in {"suspended", "suspending"}
        PROVE  Work(from, to, <<>>, <<>>, product, TRUE)
    <2>1. Has(Exit(from), <<>>, <<>>, <<>>, product, FALSE)
      BY <1>6, ExitsOf
    <2>2. CASE to = "suspended"
      <3>1. Has(OnEntry(to, Head(queue), product), <<>>, <<"suspend_ended">>, <<>>, product, TRUE)
        BY <2>2, UsageEntries
      <3> QED BY <2>1, <2>2, <3>1, WorkOf
    <2>3. CASE to = "suspending"
      <3>1. Has(OnEntry(to, Head(queue), product), <<>>, <<"SUSPEND">>, <<"trial_ended", "commercial_ended">>,
                product, FALSE)
        BY <2>3, UsageEntries
      <3> QED BY <2>1, <2>3, <3>1, WorkOf
    <2> QED BY <1>6, <2>2, <2>3
  <1>7. ASSUME from \in Activated, to = "prolongation"
        PROVE  \/ Work(from, to, <<>>, <<"activate_completed">>, product, FALSE)
               \/ Work(from, to, <<>>, <<>>, product, TRUE)
    <2>1. Has(Exit(from), <<>>, <<>>, <<>>, product, FALSE)
      BY <1>7, ExitsOf DEF Activated
    <2>2. CASE product.tarificationPeriod = 1
      <3>1. Has(OnEntry(to, Head(queue), product), <<"activate_completed">>, <<>>, <<>>, product, FALSE)
        BY <1>7, <2>2, UsageEntries
      <3> QED BY <1>7, <2>1, <3>1, WorkOf
    <2>3. CASE product.tarificationPeriod # 1
      <3>1. Has(OnEntry(to, Head(queue), product), <<>>, <<"ACTIVATE">>, <<>>, product, TRUE)
        BY <1>7, <2>3, UsageEntries
      <3> QED BY <1>7, <2>1, <3>1, WorkOf
    <2> QED BY <2>2, <2>3
  <1>8. ASSUME from = "suspended", to = "resuming"
        PROVE  Work(from, to, <<"resume_tarification">>, <<>>, product, FALSE)
    <2>1. Has(Exit(from), <<"resume_tarification">>, <<>>, <<"suspend_ended">>, product, FALSE)
      BY <1>8, ExitsOf
    <2>2. Has(OnEntry(to, Head(queue), product), <<>>, <<"RESUME">>, <<>>, product, FALSE)
      BY <1>8, UsageEntries
    <2> QED BY <1>8, <2>1, <2>2, WorkOf
  <1>9. CASE to \in {"pendingDisconnect", "disconnection", "disconnected", "usageFinal"}
    BY <1>1, <1>2, <1>3, <1>4, <1>9 DEF UsageMove, Heard
  <1>10. CASE to \in {"active", "activeTrial"}
    BY <1>5, <1>10 DEF UsageMove, Heard
  <1>11. CASE to \in {"suspended", "suspending"}
    BY <1>6, <1>11 DEF UsageMove, Heard
  <1>12. CASE to \in {"prolongation", "resuming"}
    BY <1>7, <1>8, <1>12 DEF UsageMove, Heard
  <1>13. to \in {"pendingDisconnect", "disconnection", "disconnected", "usageFinal", "active", "activeTrial",
                 "suspended", "suspending", "prolongation", "resuming"}
    BY DEF UsageMove
  <1> QED BY <1>9, <1>10, <1>11, <1>12, <1>13

\* A period starts with a product that has a price; or it does not, and that is an error.
StartsPeriod(from, to) ==
  \/ \E v, p : /\ Work(from, to, <<>>, <<v>>, p, FALSE) \/ Work(from, to, <<>>, <<>>, p, TRUE)
               /\ p \in Products /\ HasPrice(p) /\ HasPrice(Exit(from).product)
               /\ p.tarificationPeriod = product.tarificationPeriod + 1
  \/ \E p : /\ Work(from, to, <<>>, <<>>, p, FALSE)
            /\ p.tarificationPeriod = product.tarificationPeriod
            /\ HasPrice(product) => HasPrice(p)
            /\ Entry(from, to).reason # NoError

LEMMA PeriodWork ==
  ASSUME NEW from, NEW to \in {"commercial", "trial"}, NEW p0 \in Products,
         product \in Products, p0.tarificationPeriod = product.tarificationPeriod,
         HasPrice(product) => HasPrice(p0),
         Has(Exit(from), <<>>, <<>>, <<>>, p0, FALSE),
         to = "trial" => Head(queue).value \in {"trial_activation_completed", "change_price_completed"}
  PROVE  StartsPeriod(from, to)
  <1> USE DEF CompletesWhenEntered
  <1>1. CASE ~HasPeriodType(p0)
    <2>1. Work(from, to, <<>>, <<>>, p0, FALSE)
      BY <1>1, PriceEntries, WorkOf
    <2>2. Entry(from, to).reason # NoError
      BY <1>1, FailingPeriods DEF Entry, Has, QfsmlibError, NoError
    <2> QED BY <2>1, <2>2 DEF StartsPeriod
  <1>2. CASE HasPeriodType(p0)
    <2> DEFINE p == IncreasePeriods(p0)
    <2>1. /\ p \in Products /\ HasPrice(p) /\ p.tarificationPeriod = product.tarificationPeriod + 1
          /\ HasPrice(Exit(from).product)
      BY <1>2, IncreasePeriodsType, ChargedProduct DEF HasPeriodType, Has
    <2>2. CASE to = "commercial" /\ Head(queue).sender = "suspended"
      <3>1. Work(from, to, <<>>, <<>>, p, TRUE)
        BY <1>2, <2>2, PriceEntries, WorkOf
      <3> HIDE DEF p
      <3> QED BY <2>1, <3>1 DEF StartsPeriod
    <2>3. CASE to = "commercial" /\ Head(queue).sender # "suspended"
      <3> DEFINE v == IF Head(queue).value = "activation_completed" THEN Head(queue).value ELSE "wait_payment"
      <3>1. Work(from, to, <<>>, <<v>>, p, FALSE)
        BY <1>2, <2>3, PriceEntries, WorkOf
      <3> HIDE DEF p, v
      <3> QED BY <2>1, <3>1 DEF StartsPeriod
    <2>4. CASE to = "trial"
      <3>1. Work(from, to, <<>>, <<Head(queue).value>>, p, FALSE)
        BY <1>2, <2>4, PriceEntries, WorkOf
      <3> HIDE DEF p
      <3> QED BY <2>1, <3>1 DEF StartsPeriod
    <2> QED BY <2>2, <2>3, <2>4
  <1> QED BY <1>1, <1>2

\* What the handlers of the price region do.
LEMMA PriceWork ==
  ASSUME NEW to, PriceMove(conf.price, to), product \in Products, nextPrice \in Prices \cup {NoPrice}
  PROVE  LET from == conf.price IN
         \/ /\ to = "priceOff" /\ Heard("paymentStopped", "off_price") /\ from \in PriceOn
            /\ Work(from, to, <<>>, <<"off_usage">>, product, FALSE)
         \/ /\ to = "priceFinal" /\ Heard("priceOff", "entered") /\ from = "priceOff"
            /\ Work(from, to, <<>>, <<>>, product, FALSE)
         \/ /\ to \in {"priceChanging", "priceChanged"} /\ Head(queue).sender = "machine"
            /\ from \in {"commercial", "trial", "priceChanging"}
            /\ Work(from, to, <<>>, <<>>, product, TRUE)
         \/ /\ to = "priceChanging" /\ from \in {"commercial", "trial"} /\ Head(queue).sender = "machine"
            /\ Work(from, to, <<>>, <<"not_change_price">>, product, FALSE)
         \/ /\ to = "priceNotChanged" /\ from = "priceChanging" /\ Heard("priceChanging", "not_change_price")
            /\ Work(from, to, <<>>, <<"change_price_completed">>, product, FALSE)
         \/ /\ to \in {"commercial", "trial"} /\ from \notin {"priceOff", "priceFinal"}
            /\ from = "priceOnEntry" => Head(queue).sender = "priceOnEntry"
            /\ from = "commercial" => Heard("suspended", "resume_tarification")
            /\ StartsPeriod(from, to)
  <1> DEFINE from == conf.price
  <1> USE DEF CompletesWhenEntered
  <1>1. ASSUME to = "priceOff", from \in PriceOn, Heard("paymentStopped", "off_price")
        PROVE  Work(from, to, <<>>, <<"off_usage">>, product, FALSE)
    <2>1. Has(Exit(from), <<>>, <<>>, <<>>, product, FALSE)
      BY <1>1, Exits DEF Exit, PriceOn, Heard
    <2> QED BY <1>1, <2>1, PriceEntries, WorkOf
  <1>2. ASSUME to = "priceFinal", from = "priceOff"
        PROVE  Work(from, to, <<>>, <<>>, product, FALSE)
    BY <1>2, Exits, PriceEntries, WorkOf DEF Exit
  <1>3. ASSUME to = "priceChanging", from \in {"commercial", "trial"}
        PROVE  \/ Work(from, to, <<>>, <<>>, product, TRUE)
               \/ Work(from, to, <<>>, <<"not_change_price">>, product, FALSE)
    <2>1. Has(Exit(from), <<>>, <<>>, <<>>, product, FALSE)
      BY <1>3, Exits DEF Exit
    <2>2. CASE PriceIsOver(product)
      BY <1>3, <2>1, <2>2, PriceEntries, WorkOf
    <2>3. CASE ~PriceIsOver(product)
      BY <1>3, <2>1, <2>3, PriceEntries, WorkOf
    <2> QED BY <2>2, <2>3
  <1>4. ASSUME to = "priceChanged", from = "priceChanging"
        PROVE  Work(from, to, <<>>, <<>>, product, TRUE)
    BY <1>4, Exits, PriceEntries, WorkOf DEF Exit
  <1>5. ASSUME to = "priceNotChanged", from = "priceChanging"
        PROVE  Work(from, to, <<>>, <<"change_price_completed">>, product, FALSE)
    BY <1>5, Exits, PriceEntries, WorkOf DEF Exit
  <1>6. ASSUME to \in {"commercial", "trial"}, from = "priceChanged", nextPrice # NoPrice,
               Heard("machine", "change_price_completed")
        PROVE  StartsPeriod(from, to)
    <2> DEFINE p0 == [product EXCEPT !.price = nextPrice]
    <2>1. Has(Exit(from), <<>>, <<>>, <<>>, p0, FALSE)
      BY <1>6, Exits DEF Exit, Heard
    <2>2. p0 \in Products /\ p0.tarificationPeriod = product.tarificationPeriod /\ HasPrice(p0)
      BY <1>6 DEF Products, HasPrice
    <2> HIDE DEF p0
    <2> QED BY <1>6, <2>1, <2>2, PeriodWork DEF Heard
  <1>7. ASSUME to \in {"commercial", "trial"}, from \in {"priceOnEntry", "priceNotChanged", "commercial"},
               to = "trial" => Head(queue).value \in {"trial_activation_completed", "change_price_completed"}
        PROVE  StartsPeriod(from, to)
    <2>1. Has(Exit(from), <<>>, <<>>, <<>>, product, FALSE)
      BY <1>7, Exits DEF Exit
    <2> QED BY <1>7, <2>1, PeriodWork
  <1>8. CASE to \in {"priceOff", "priceFinal"}
    BY <1>1, <1>2, <1>8 DEF PriceMove
  <1>9. CASE to \in {"priceChanging", "priceChanged", "priceNotChanged"}
    BY <1>3, <1>4, <1>5, <1>9 DEF PriceMove, Heard
  <1>10. CASE to \in {"commercial", "trial"}
    BY <1>6, <1>7, <1>10 DEF PriceMove, Heard
  <1>11. to \in {"priceOff", "priceFinal", "priceChanging", "priceChanged", "priceNotChanged",
                 "commercial", "trial"}
    BY DEF PriceMove
  <1> QED BY <1>8, <1>9, <1>10, <1>11

-----------------------------------------------------------------------------
(* Where a step leads. *)

\* After the last signal of the queue.
LEMMA WorkLeads ==
  ASSUME NEW from, NEW to, Does(from, to), Tail(queue) = <<>>, WellFormed(conf)',
         conf'.usage # "usageFinal", to \notin SignalsWhenEntered
  PROVE  \A p, done :
           /\ Work(from, to, <<>>, <<>>, p, done) => Leads(<<>>, p, done)
           /\ \A v : Work(from, to, <<>>, <<v>>, p, done) => Leads(<<Sig(to, v)>>, p, done)
           /\ \A v : Work(from, to, <<v>>, <<>>, p, done) => Leads(<<Sig(from, v)>>, p, done)
           /\ \A v, w : Work(from, to, <<>>, <<v, w>>, p, done) =>
                          Leads(<<Sig(to, v), Sig(to, w)>>, p, done)
  <1> SUFFICES ASSUME NEW p, NEW done, NEW v, NEW w
               PROVE  /\ Work(from, to, <<>>, <<>>, p, done) => Leads(<<>>, p, done)
                      /\ Work(from, to, <<>>, <<v>>, p, done) => Leads(<<Sig(to, v)>>, p, done)
                      /\ Work(from, to, <<v>>, <<>>, p, done) => Leads(<<Sig(from, v)>>, p, done)
                      /\ Work(from, to, <<>>, <<v, w>>, p, done) =>
                           Leads(<<Sig(to, v), Sig(to, w)>>, p, done)
    OBVIOUS
  <1>1. \A xs, ns : Work(from, to, xs, ns, p, done) =>
          /\ Exit(from).emit = xs /\ Entry(from, to).emit = ns
          /\ product' = p /\ completed' = (completed \/ done)
    BY DEF Work, Does
  <1>2. /\ Exit(from).emit = <<>> /\ Entry(from, to).emit = <<>> => queue' = <<>>
        /\ Exit(from).emit = <<>> /\ Entry(from, to).emit = <<v>> => queue' = <<Sig(to, v)>>
        /\ Exit(from).emit = <<v>> /\ Entry(from, to).emit = <<>> => queue' = <<Sig(from, v)>>
        /\ Exit(from).emit = <<>> /\ Entry(from, to).emit = <<v, w>> =>
             queue' = <<Sig(to, v), Sig(to, w)>>
    BY QueueAfterLast
  <1> QED BY <1>1, <1>2 DEF Leads

\* The error a step ends with, where testing its condition has emitted none.
LEMMA ReasonAfter ==
  ASSUME NEW from, NEW to, Does(from, to), reason = NoError, TestReason = NoError,
         from # "priceChanged" \/ nextPrice # NoPrice
  PROVE  /\ reason' = Entry(from, to).reason
         /\ \/ reason' = NoError
            \/ to = "priceChanging" /\ ~HasPrice(Exit(from).product)
            \/ to \in {"suspending", "prolongation", "commercial", "trial"} /\ Entry(from, to).emit = <<>>
  <1>1. Exit(from).reason = NoError
    BY FailingExits DEF Exit
  <1>2. reason' = Entry(from, to).reason
    BY <1>1 DEF Does, Later
  <1>3. Entry(from, to).reason # NoError =>
          \/ to = "priceChanging" /\ ~HasPrice(Exit(from).product)
          \/ to \in {"suspending", "prolongation", "commercial", "trial"} /\ Entry(from, to).emit = <<>>
    BY FailingEntries DEF Entry
  <1> QED BY <1>2, <1>3

-----------------------------------------------------------------------------
(* The steps of a cascade.  Each leads from a state of the invariant to another; what has been *)
(* stored matters only once the call has completed.                                            *)

Working == /\ reason # NoError => queue = <<>>
           /\ Progress /\ Priced /\ Counted /\ Uncharged

\* One signal is under way.
UnderWay ==
  /\ MachineTypeOK /\ MachineTypeOK'
  /\ Working /\ ~completed /\ reason = NoError
  /\ calling # Idle /\ queue # <<>>
  /\ conf.usage \notin Disconnecting

\* The signal under way, and how the cascade goes on after it.
LEMMA HeadKnown ==
  ASSUME MachineTypeOK, queue # <<>>
  PROVE  Head(queue) \in Signals /\ Head(queue) = Sig(Head(queue).sender, Head(queue).value)
  <1>1. queue \in Seq(Signals)
    BY DEF MachineTypeOK
  <1>2. Head(queue) \in Signals
    BY <1>1, HeadTailProperties
  <1> QED BY <1>2 DEF Signals, Sig

LEMMA NothingLeft ==
  ASSUME queue' = <<>>, conf'.usage \notin Disconnecting, conf'.price # "priceOff"
  PROVE  Progress'
  BY DEF Progress, Rest

LEMMA OneLeft ==
  ASSUME NEW s, NEW v, queue' = <<Sig(s, v)>>, ~completed', conf'.usage \notin Disconnecting,
         conf'.price # "priceOff", s \notin {"priceOff", "disconnected", "productProvision"}
  PROVE  Progress'
  <1>1. Head(queue') = Sig(s, v) /\ queue' # <<>>
    BY HeadsAndTails
  <1> QED BY <1>1 DEF Progress, Single, Sig

\* The states of the tarification that nobody is in without a price, but for a failed start.
Tariffs == {"commercial", "trial", "priceChanging", "priceChanged", "priceNotChanged"}

\* A product that had a price before a step has one after it, wherever it is.
LEMMA PricedStill ==
  ASSUME Priced, HasPrice(product) => HasPrice(product)',
         product'.tarificationPeriod >= 1 => product.tarificationPeriod >= 1 \/ HasPrice(product)',
         conf'.price = conf.price \/ conf'.price \notin Tariffs, reason' = NoError => reason = NoError,
         queue' # <<>> => Head(queue').sender # "waitingPayment" \/ HasPrice(product)'
  PROVE  Priced'
  BY DEF Priced, Tariffs

\* A product that has a price wherever one is asked for.
LEMMA PricedAnyhow ==
  ASSUME HasPrice(product)' PROVE Priced'
  BY DEF Priced

\* One signal that the payments hear.
LEMMA SinglePayment ==
  ASSUME UnderWay, Single, NEW to \in PaymentLeaves, PaymentMoved(to)
  PROVE  Working'
  <1> DEFINE from == conf.payment
             n    == product.tarificationPeriod
  <1>1. /\ Does(from, to) /\ PaymentMove(from, to)
        /\ conf'.usage = conf.usage /\ conf'.price = conf.price /\ conf'.payment = to
        /\ conf' = [conf EXCEPT !.payment = to]
    BY DEF PaymentMoved, UnderWay, MachineTypeOK, WellFormed, Configurations
  <1>2. /\ conf'.usage # "usageFinal" /\ conf'.usage \notin Disconnecting /\ conf'.price # "priceOff"
        /\ WellFormed(conf)' /\ to \notin SignalsWhenEntered
        /\ Tail(queue) = <<>> /\ queue = <<Head(queue)>> /\ ~completed
    BY <1>1, HeadsAndTails DEF UnderWay, Disconnecting, Single, MachineTypeOK, SignalsWhenEntered, PaymentLeaves,
       PaymentOn, PaymentOff
  <1>3. reason' = NoError
    <2>1. TestReason = NoError
      BY <1>1, Untested DEF PaymentMove, Heard
    <2> QED BY <1>1, <2>1, ReasonAfter DEF UnderWay, PaymentLeaves, PaymentOn, PaymentOff, PaymentMove
  <1>4. /\ n \in Int /\ product \in Products /\ n >= 0
        /\ from = "waitingPayment" => n >= 1
        /\ from = "paid" /\ Head(queue).sender \in {"commercial", "machine"} => n >= 1
        /\ Heard("commercial", "activation_completed") \/ Heard("trial", "trial_activation_completed") => n >= 1
    <2>1. product \in Products /\ Counted
      BY DEF UnderWay, MachineTypeOK, Working
    <2>2. Head(queue) = Sig(Head(queue).sender, Head(queue).value)
      BY HeadKnown DEF UnderWay
    <2>3. Head(queue).sender \in {"commercial", "machine"} => queue \notin {<<>>, <<LateResume>>, <<Resumption>>}
      BY <1>2, HeadsAndTails DEF LateResume, Resumption, Sig
    <2> QED BY <1>2, <2>1, <2>2, <2>3 DEF Counted, Products, Heard
  <1>5. ASSUME product'.price = product.price, product'.tarificationPeriod \in {n, n - 1},
               queue' # <<>> => Head(queue').sender # "waitingPayment" \/ n >= 1
        PROVE  Priced'
    <2>1. Priced /\ reason = NoError /\ HasPrice(product)' = HasPrice(product) /\ (n >= 1 => HasPrice(product))
      BY <1>5 DEF UnderWay, Working, Priced, HasPrice
    <2>2. product'.tarificationPeriod >= 1 => n >= 1
      BY <1>4, <1>5
    <2> QED BY <1>1, <1>5, <2>1, <2>2, PricedStill
  <1>6. ASSUME Leads(<<>>, product, TRUE) \/ Leads(<<>>, product, FALSE),
               to = "waitingPayment" => n >= 1, to \in {"paymentStopping", "paymentFinal", "waitingPayment"},
               to = "paymentFinal" => from = "paymentStopped"
        PROVE  Working'
    <2>1. Progress'
      BY <1>1, <1>2, <1>6, NothingLeft DEF Leads
    <2>2. Priced'
      BY <1>5, <1>6 DEF Leads
    <2>3. Counted'
      BY <1>1, <1>4, <1>6 DEF Leads, Counted, Sig
    <2>4. Uncharged'
      BY <1>1, <1>6 DEF Leads, Uncharged, UnderWay, Working, PaymentClosed, PaymentMove, Heard, Sig
    <2> QED BY <1>3, <2>1, <2>2, <2>3, <2>4 DEF Working
  <1>7. ASSUME NEW v, Leads(<<Sig(to, v)>>, product, FALSE), to \in {"waitingPayment", "paid"}, n >= 1
        PROVE  Working'
    <2>1. Progress'
      BY <1>1, <1>2, <1>7, OneLeft DEF Leads
    <2>2. Priced'
      BY <1>5, <1>7 DEF Leads
    <2>3. Counted'
      BY <1>1, <1>4, <1>7 DEF Leads, Counted
    <2>4. Uncharged'
      BY <1>1, <1>7 DEF Leads, Uncharged, PaymentClosed
    <2> QED BY <1>3, <2>1, <2>2, <2>3, <2>4 DEF Working
  <1>8. ASSUME NEW v, NEW p, Leads(<<Sig(from, v)>>, p, FALSE), p.price = product.price,
               \/ to = "paid" /\ from = "notPaid" /\ v = "resume" /\ p = product
               \/ to = "paid" /\ from = "waitingPayment" /\ p = product
               \/ to = "notPaid" /\ from = "waitingPayment" /\ p.tarificationPeriod = n - 1
        PROVE  Working'
    <2>1. Progress'
      BY <1>1, <1>2, <1>8, OneLeft DEF Leads
    <2>2. Priced'
      <3>1. Head(queue').sender # "waitingPayment" \/ n >= 1
        BY <1>4, <1>8, HeadsAndTails DEF Leads, Sig
      <3> QED BY <1>5, <1>8, <3>1 DEF Leads
    <2>3. Counted'
      <3>1. queue' \notin {<<Sig("commercial", "activation_completed")>>, <<Sig("trial", "trial_activation_completed")>>}
        BY <1>8, HeadsAndTails DEF Leads, Sig
      <3>2. to = "paid" /\ from = "notPaid" => queue' = <<LateResume>> /\ ~completed'
        BY <1>2, <1>8 DEF Leads, LateResume
      <3> QED BY <1>1, <1>4, <1>8, <3>1, <3>2 DEF Leads, Counted
    <2>4. Uncharged'
      BY <1>1, <1>8 DEF Leads, Uncharged, PaymentClosed
    <2> QED BY <1>3, <2>1, <2>2, <2>3, <2>4 DEF Working
  <1>9. ASSUME Leads(<<Sig("paymentStopped", "off_price"), Sig("paymentStopped", "stop_pay")>>, product, FALSE),
               to = "paymentStopped"
        PROVE  Working'
    <2>1. Progress'
      BY <1>1, <1>2, <1>9 DEF Leads, Progress, Closing
    <2>3. Head(queue') = Sig("paymentStopped", "off_price") /\ queue' # <<>> /\ Tail(queue') # <<>>
      BY <1>9, HeadsAndTails DEF Leads
    <2>2. Priced'
      BY <1>5, <1>9, <2>3 DEF Leads, Sig
    <2>4. Counted'
      BY <1>1, <1>4, <1>9, <2>3, HeadsAndTails DEF Leads, Counted
    <2>5. Uncharged'
      BY <2>3 DEF Uncharged, Sig
    <2> QED BY <1>3, <2>1, <2>2, <2>4, <2>5 DEF Working
  <1>10. [product EXCEPT !.tarificationPeriod = @ - 1].price = product.price
         /\ [product EXCEPT !.tarificationPeriod = @ - 1].tarificationPeriod = n - 1
    BY <1>4 DEF Products
  <1>11. \A p, done :
           /\ Work(from, to, <<>>, <<>>, p, done) => Leads(<<>>, p, done)
           /\ \A v : Work(from, to, <<>>, <<v>>, p, done) => Leads(<<Sig(to, v)>>, p, done)
           /\ \A v : Work(from, to, <<v>>, <<>>, p, done) => Leads(<<Sig(from, v)>>, p, done)
           /\ \A v, w : Work(from, to, <<>>, <<v, w>>, p, done) =>
                          Leads(<<Sig(to, v), Sig(to, w)>>, p, done)
    BY <1>1, <1>2, WorkLeads
  <1>12. CASE to = "paymentStopping"
    <2>1. Work(from, to, <<>>, <<>>, product, TRUE)
      BY <1>1, <1>12, PaymentWork
    <2>2. Leads(<<>>, product, TRUE)
      BY <1>11, <2>1
    <2> QED BY <1>6, <1>12, <2>2
  <1>17. CASE to = "paymentFinal"
    <2>1. Work(from, to, <<>>, <<>>, product, FALSE) /\ from = "paymentStopped"
      BY <1>1, <1>17, PaymentWork
    <2>2. Leads(<<>>, product, FALSE)
      BY <1>11, <2>1
    <2> QED BY <1>6, <1>17, <2>1, <2>2
  <1>13. CASE to = "paymentStopped"
    BY <1>1, <1>9, <1>11, <1>13, PaymentWork
  <1>14. CASE to = "waitingPayment"
    BY <1>1, <1>4, <1>6, <1>7, <1>11, <1>14, PaymentWork
  <1>15. CASE to = "paid"
    BY <1>1, <1>4, <1>7, <1>8, <1>11, <1>15, PaymentWork
  <1>16. CASE to = "notPaid"
    BY <1>1, <1>4, <1>8, <1>10, <1>11, <1>16, PaymentWork
  <1> QED
    BY <1>1, <1>12, <1>13, <1>14, <1>15, <1>16, <1>17 DEF PaymentMove

\* One signal that the usage hears.
LEMMA SingleUsage ==
  ASSUME UnderWay, Single, NEW to \in UsageLeaves, UsageMoved(to)
  PROVE  Working'
  <1> DEFINE from == conf.usage
             n    == product.tarificationPeriod
  <1>1. /\ Does(from, to) /\ UsageMove(from, to)
        /\ conf'.usage = to /\ conf'.price = conf.price /\ conf'.payment = conf.payment
    BY DEF UsageMoved, UnderWay, MachineTypeOK, WellFormed, Configurations
  <1>2. /\ conf'.price # "priceOff" /\ WellFormed(conf)'
        /\ Tail(queue) = <<>> /\ queue = <<Head(queue)>> /\ ~completed
        /\ to \notin {"pendingDisconnect", "usageFinal"}
        /\ Head(queue).sender # "paymentStopped"
    BY <1>1, HeadsAndTails DEF UnderWay, Single, MachineTypeOK, UsageMove, Heard
  <1>3. /\ n \in Int /\ n >= 0
        /\ conf.payment = "waitingPayment" => n >= 1
        /\ conf.payment = "paid" /\ Head(queue).sender \notin {"notPaid", "suspended"} => n >= 1
    <2>1. product \in Products /\ Counted
      BY DEF UnderWay, MachineTypeOK, Working
    <2>2. Head(queue).sender \notin {"notPaid", "suspended"} => queue \notin {<<>>, <<LateResume>>, <<Resumption>>}
      BY <1>2, HeadsAndTails DEF LateResume, Resumption, Sig
    <2> QED BY <2>1, <2>2 DEF Counted, Products
  <1>4. product' = product /\ (queue' # <<>> => Head(queue').sender # "waitingPayment") => Priced'
    BY <1>1, PricedStill DEF UnderWay, Working
  <1>5. PaymentClosed(conf') => conf'.price \in {"priceOff", "priceFinal", "priceOnEntry"}
    BY <1>1, <1>2 DEF Uncharged, UnderWay, Working, PaymentClosed, Sig
  <1>6. \A p, done :
           /\ to \notin SignalsWhenEntered /\ Work(from, to, <<>>, <<>>, p, done) => Leads(<<>>, p, done)
           /\ \A v : to \notin SignalsWhenEntered /\ Work(from, to, <<>>, <<v>>, p, done) =>
                       Leads(<<Sig(to, v)>>, p, done)
           /\ \A v : to \notin SignalsWhenEntered /\ Work(from, to, <<v>>, <<>>, p, done) =>
                       Leads(<<Sig(from, v)>>, p, done)
    BY <1>1, <1>2, WorkLeads
  <1>7. CASE Leads(<<>>, product, TRUE) /\ to # "disconnected"
             /\ Head(queue).sender \in {"machine", "waitingPayment", "paid", "trial", "prolongation"}
    <2>1. Progress'
      BY <1>1, <1>2, <1>7, NothingLeft DEF Leads, Disconnecting
    <2>2. Counted'
      BY <1>1, <1>3, <1>7 DEF Leads, Counted, Sig
    <2>3. Uncharged'
      BY <1>5, <1>7 DEF Leads, Uncharged
    <2> QED BY <1>4, <1>7, <2>1, <2>2, <2>3 DEF Working, Leads
  <1>8. CASE to = "disconnected"
    <2>1. Work(from, to, <<>>, <<>>, product, FALSE) /\ Heard("machine", "deactivation_completed")
      BY <1>1, <1>8, UsageWork
    <2>2. product' = product /\ ~completed' /\ Exit(from).emit = <<>> /\ Entry(from, to).emit = <<>>
      BY <1>1, <1>2, <2>1 DEF Work, Does
    <2>3. queue' = <<Sig("disconnected", "entered")>>
      <3>1. queue' = <<>> \o Signal(from, <<>>) \o Signal(to, <<>>) \o <<Sig(to, "entered")>> \o <<>>
        BY <1>1, <1>2, <1>8, <2>2, QueueAfter DEF SignalsWhenEntered
      <3>2. Signal(from, <<>>) = <<>> /\ Signal(to, <<>>) = <<>>
        BY SmallSignals
      <3> QED BY <1>8, <3>1, <3>2, Shapes
    <2>4. reason' = NoError
      <3>1. TestReason = NoError
        BY <2>1, Untested DEF Heard
      <3> QED BY <1>1, <1>8, <3>1, ReasonAfter DEF UnderWay, UsageMove
    <2>5. Head(queue') = Sig("disconnected", "entered")
      BY <2>3, HeadsAndTails
    <2>6. Progress'
      BY <1>1, <1>8, <2>2, <2>3 DEF Progress, Ending, Disconnecting
    <2>7. Counted'
      BY <1>1, <1>3, <2>1, <2>2, <2>3, <2>5, HeadsAndTails DEF Counted, Heard, Sig
    <2>8. Uncharged'
      BY <1>5, <2>5 DEF Uncharged, Sig
    <2> QED BY <1>4, <2>2, <2>4, <2>5, <2>6, <2>7, <2>8 DEF Working, Sig
  <1>9. CASE Work(from, to, <<>>, <<"activate_completed">>, product, FALSE) /\ to = "prolongation"
             /\ Heard("waitingPayment", "prolong")
    <2>1. Leads(<<Sig("prolongation", "activate_completed")>>, product, FALSE)
      BY <1>6, <1>9 DEF SignalsWhenEntered
    <2>2. reason' = NoError
      <3>1. TestReason = NoError
        BY <1>9, Untested DEF Heard
      <3>2. Entry(from, to).emit # <<>>
        BY <1>9 DEF Work
      <3>3. from # "priceChanged" /\ reason = NoError
        BY <1>1, <1>9 DEF UnderWay, UsageMove, Activated
      <3> HIDE DEF from
      <3> QED BY <1>1, <1>9, <3>1, <3>2, <3>3, ReasonAfter
    <2>3. Progress'
      BY <1>1, <1>2, <1>9, <2>1, OneLeft DEF Leads, Disconnecting
    <2>4. Head(queue') = Sig("prolongation", "activate_completed")
      BY <2>1, HeadsAndTails DEF Leads
    <2>5. Counted'
      BY <1>1, <1>3, <1>9, <2>1, <2>4, HeadsAndTails DEF Leads, Counted, Heard, Sig
    <2>6. Uncharged'
      BY <1>5, <2>4 DEF Uncharged, Sig
    <2> QED BY <1>4, <2>1, <2>2, <2>3, <2>4, <2>5, <2>6 DEF Working, Leads, Sig
  <1>10. CASE Work(from, to, <<"resume_tarification">>, <<>>, product, FALSE) /\ to = "resuming"
              /\ from = "suspended" /\ Heard("notPaid", "resume")
    <2>1. Leads(<<Resumption>>, product, FALSE)
      BY <1>6, <1>10 DEF SignalsWhenEntered, Resumption
    <2>2. reason' = NoError
      <3>1. TestReason = NoError
        BY <1>10, Untested DEF Heard
      <3> QED BY <1>1, <1>10, <3>1, ReasonAfter DEF UnderWay
    <2>3. Progress'
      BY <1>1, <1>2, <1>10, <2>1, OneLeft DEF Leads, Disconnecting, Resumption
    <2>4. Head(queue') = Resumption
      BY <2>1, HeadsAndTails DEF Leads
    <2>5. Counted'
      BY <1>1, <1>2, <1>3, <2>1, <2>4, HeadsAndTails DEF Leads, Counted, Resumption, Sig
    <2>6. Uncharged'
      BY <1>5, <2>4 DEF Uncharged, Sig, Resumption
    <2> QED BY <1>4, <2>1, <2>2, <2>3, <2>4, <2>5, <2>6 DEF Working, Leads, Sig, Resumption
  <1>11. to # "disconnected" => to \notin SignalsWhenEntered
    BY DEF SignalsWhenEntered, UsageLeaves, UsageOn, UsageOff, Activated
  <1>12. CASE to \in {"disconnection", "active", "activeTrial", "suspended", "suspending"}
    <2>1. Work(from, to, <<>>, <<>>, product, TRUE)
          /\ Head(queue).sender \in {"machine", "waitingPayment", "paid", "trial", "prolongation"}
      BY <1>1, <1>12, UsageWork
    <2> QED BY <1>6, <1>7, <1>11, <1>12, <2>1
  <1>13. CASE to = "prolongation"
    <2>1. /\ Heard("waitingPayment", "prolong")
          /\ \/ Work(from, to, <<>>, <<"activate_completed">>, product, FALSE)
             \/ Work(from, to, <<>>, <<>>, product, TRUE)
      BY <1>1, <1>13, UsageWork
    <2>2. Work(from, to, <<>>, <<>>, product, TRUE) => Leads(<<>>, product, TRUE)
      BY <1>6, <1>11, <1>13
    <2> QED BY <1>7, <1>9, <1>13, <2>1, <2>2 DEF Heard
  <1>14. CASE to = "resuming"
    <2>1. /\ Heard("notPaid", "resume") /\ from = "suspended"
          /\ Work(from, to, <<"resume_tarification">>, <<>>, product, FALSE)
      BY <1>1, <1>14, UsageWork
    <2> QED BY <1>10, <1>14, <2>1
  <1> QED BY <1>1, <1>2, <1>8, <1>12, <1>13, <1>14 DEF UsageMove

\* One signal that the tarification hears.
LEMMA SinglePrice ==
  ASSUME UnderWay, Single, NEW to \in PriceLeaves, PriceMoved(to)
  PROVE  Working'
  <1> DEFINE from == conf.price
             n    == product.tarificationPeriod
  <1>1. /\ Does(from, to) /\ PriceMove(from, to)
        /\ conf'.price = to /\ conf'.usage = conf.usage /\ conf'.payment = conf.payment
    BY DEF PriceMoved, UnderWay, MachineTypeOK, WellFormed, Configurations
  <1>2. /\ conf'.usage \notin Disconnecting /\ conf'.usage # "usageFinal" /\ WellFormed(conf)'
        /\ Tail(queue) = <<>> /\ queue = <<Head(queue)>> /\ ~completed /\ reason = NoError
        /\ Head(queue) = Sig(Head(queue).sender, Head(queue).value)
        /\ to # "priceFinal" /\ from # "priceOff"
    BY <1>1, HeadsAndTails, HeadKnown DEF UnderWay, Single, MachineTypeOK, Disconnecting, PriceMove, Heard
  <1>3. /\ n \in Int /\ product \in Products /\ n >= 0 /\ nextPrice \in Prices \cup {NoPrice}
        /\ conf.payment = "waitingPayment" => n >= 1
        /\ conf.payment = "paid" /\ Head(queue).sender \notin {"notPaid", "suspended"} => n >= 1
    <2>1. product \in Products /\ Counted /\ nextPrice \in Prices \cup {NoPrice}
      BY DEF UnderWay, MachineTypeOK, Working
    <2>2. Head(queue).sender \notin {"notPaid", "suspended"} => queue \notin {<<>>, <<LateResume>>, <<Resumption>>}
      BY <1>2, HeadsAndTails DEF LateResume, Resumption, Sig
    <2> QED BY <1>2, <2>1, <2>2 DEF Counted, Products
  <1>4. PaymentClosed(conf') => to = "priceOff"
    <2>1. SUFFICES ASSUME PaymentClosed(conf'), to # "priceOff" PROVE FALSE
      OBVIOUS
    <2>2. PaymentClosed(conf) /\ queue # <<>> /\ Uncharged
      BY <1>1, <2>1 DEF PaymentClosed, UnderWay, Working
    <2>3. \/ from \in {"priceFinal", "priceOnEntry"}
          \/ Heard("paymentStopped", "off_price")
      BY <1>2, <2>2 DEF Uncharged, Heard, Sig
    <2>4. Head(queue).sender # "priceOnEntry"
      BY <2>2 DEF Uncharged
    <2> QED BY <1>1, <1>2, <2>1, <2>3, <2>4 DEF PriceMove, Heard
  <1>5. \A p, done :
          to # "priceOff" =>
            /\ Work(from, to, <<>>, <<>>, p, done) => Leads(<<>>, p, done)
            /\ \A v : Work(from, to, <<>>, <<v>>, p, done) => Leads(<<Sig(to, v)>>, p, done)
    BY <1>1, <1>2, WorkLeads DEF SignalsWhenEntered, PriceMove
  <1>6. CASE to = "priceOff"
    <2>1. Work(from, to, <<>>, <<"off_usage">>, product, FALSE) /\ Heard("paymentStopped", "off_price")
      BY <1>1, <1>3, <1>6, PriceWork
    <2>2. product' = product /\ ~completed' /\ Exit(from).emit = <<>> /\ Entry(from, to).emit = <<"off_usage">>
      BY <1>1, <1>2, <2>1 DEF Work, Does
    <2>3. queue' = <<Sig("priceOff", "off_usage"), Entered>>
      <3>1. queue' = <<>> \o Signal(from, <<>>) \o Signal(to, <<"off_usage">>) \o <<Sig(to, "entered")>> \o <<>>
        BY <1>1, <1>2, <1>6, <2>2, QueueAfter DEF SignalsWhenEntered
      <3>2. Signal(from, <<>>) = <<>> /\ Signal(to, <<"off_usage">>) = <<Sig(to, "off_usage")>>
        BY SmallSignals
      <3>3. \A x, y : <<>> \o <<>> \o <<x>> \o <<y>> \o <<>> = <<x, y>>
        BY Tuples
      <3> QED BY <1>6, <3>1, <3>2, <3>3 DEF Entered
    <2>4. reason' = NoError
      <3>1. TestReason = NoError
        BY <2>1, Untested DEF Heard
      <3>2. from # "priceChanged" \/ nextPrice # NoPrice \/ Exit(from).reason = NoError
        BY <2>1 DEF Exit, OnExit, PriceChangedOnExit, Nothing, Heard
      <3>3. Entry(from, to).reason = NoError
        BY <1>6, FailingEntries DEF Entry
      <3>4. Exit(from).reason = NoError
        BY <3>2, FailingExits DEF Exit
      <3> QED BY <1>1, <1>2, <3>1, <3>3, <3>4 DEF Does, Later
    <2>5. Head(queue') = Sig("priceOff", "off_usage") /\ Tail(queue') # <<>> /\ queue' # <<>>
      BY <2>3, HeadsAndTails
    <2>6. Progress'
      BY <1>1, <1>2, <1>6, <2>2, <2>3 DEF Progress, Closing
    <2>7. Priced' /\ Uncharged'
      <3>1. Priced'
        BY <1>1, <1>2, <1>6, <2>2, <2>5, PricedStill DEF Tariffs, Sig, UnderWay, Working
      <3>2. Uncharged'
        BY <1>1, <1>6, <2>5 DEF Uncharged, Sig
      <3> QED BY <3>1, <3>2
    <2>8. Counted'
      <3>1. queue' \notin {<<Sig("commercial", "activation_completed")>>, <<Sig("trial", "trial_activation_completed")>>}
        BY <2>5, HeadsAndTails
      <3>2. conf.payment = "paid" => n >= 1
        BY <1>3, <2>1 DEF Heard
      <3> QED BY <1>1, <1>3, <2>2, <3>1, <3>2 DEF Counted
    <2> QED BY <2>4, <2>6, <2>7, <2>8 DEF Working
  <1>7. ASSUME Leads(<<>>, product, TRUE), to \in {"priceChanging", "priceChanged"}, Head(queue).sender = "machine",
               HasPrice(product)
        PROVE  Working'
    <2>1. Progress'
      BY <1>1, <1>2, <1>7, NothingLeft DEF Leads
    <2>2. Priced' /\ Uncharged'
      BY <1>1, <1>4, <1>7, PricedAnyhow DEF Uncharged, Leads
    <2>3. Counted'
      BY <1>1, <1>3, <1>7 DEF Leads, Counted
    <2> QED BY <1>7, <2>1, <2>2, <2>3 DEF Working, Leads
  <1>8. ASSUME NEW v, Leads(<<Sig(to, v)>>, product, FALSE), to \in {"priceChanging", "priceNotChanged"},
               Head(queue).sender \in {"machine", "priceChanging"}, reason' = NoError, HasPrice(product)
        PROVE  Working'
    <2>1. Progress'
      BY <1>1, <1>2, <1>8, OneLeft DEF Leads
    <2>2. Head(queue') = Sig(to, v)
      BY <1>8, HeadsAndTails DEF Leads
    <2>3. Priced' /\ Uncharged'
      BY <1>1, <1>4, <1>8, <2>2, PricedAnyhow DEF Uncharged, Sig, Leads
    <2>4. Counted'
      BY <1>1, <1>3, <1>8, <2>2, HeadsAndTails DEF Leads, Counted, Sig
    <2> QED BY <1>8, <2>1, <2>3, <2>4 DEF Working, Leads
  <1>9. ASSUME to = "priceChanging" PROVE Working'
    <2>1. from \in {"commercial", "trial"} /\ Head(queue).sender = "machine"
          /\ ~Heard("machine", "change_price") /\ ~Heard("machine", "prolong_completed")
      BY <1>1, <1>9 DEF PriceMove, Heard
    <2>2. HasPrice(product)
      BY <1>2, <2>1 DEF UnderWay, Working, Priced
    <2>3. Exit(from).product = product
      <3>1. Has(Exit(from), <<>>, <<>>, <<>>, product, FALSE)
        BY <2>1, Exits DEF Exit
      <3> QED BY <3>1 DEF Has
    <2>4. reason' = NoError \/ Entry(from, to).reason # NoError
      <3>1. TestReason = NoError
        BY <2>1, Untested DEF Heard
      <3> QED BY <1>1, <1>2, <2>1, <3>1, ReasonAfter
    <2>5. Entry(from, to).reason = NoError
      BY <1>9, <2>2, <2>3, FailingEntries DEF Entry
    <2>6. \/ Work(from, to, <<>>, <<>>, product, TRUE)
          \/ Work(from, to, <<>>, <<"not_change_price">>, product, FALSE)
      BY <1>1, <1>3, <1>9, PriceWork
    <2>7. \/ Leads(<<>>, product, TRUE)
          \/ Leads(<<Sig(to, "not_change_price")>>, product, FALSE)
      BY <1>5, <1>9, <2>6
    <2> QED BY <1>7, <1>8, <1>9, <2>1, <2>2, <2>4, <2>5, <2>7
  <1>10. ASSUME to = "priceChanged" PROVE Working'
    <2>1. Work(from, to, <<>>, <<>>, product, TRUE) /\ Head(queue).sender = "machine"
      BY <1>1, <1>3, <1>10, PriceWork
    <2>2. Leads(<<>>, product, TRUE)
      BY <1>5, <1>10, <2>1
    <2>3. HasPrice(product)
      BY <1>1, <1>10 DEF PriceMove, Heard, UnderWay, Working, Priced
    <2> QED BY <1>7, <1>10, <2>1, <2>2, <2>3
  <1>11. ASSUME to = "priceNotChanged" PROVE Working'
    <2>1. /\ Work(from, to, <<>>, <<"change_price_completed">>, product, FALSE)
          /\ Heard("priceChanging", "not_change_price") /\ from = "priceChanging"
      BY <1>1, <1>3, <1>11, PriceWork
    <2>2. Leads(<<Sig(to, "change_price_completed")>>, product, FALSE)
      BY <1>5, <1>11, <2>1
    <2>3. TestReason = NoError
      BY <2>1, Untested DEF Heard
    <2>4. reason' = NoError
      BY <1>1, <1>2, <1>11, <2>1, <2>3, ReasonAfter
    <2>5. HasPrice(product)
      BY <2>1 DEF UnderWay, Working, Priced
    <2> QED BY <1>8, <1>11, <2>1, <2>2, <2>4, <2>5 DEF Heard
  <1>12. ASSUME to \in {"commercial", "trial"} PROVE Working'
    <2>1. StartsPeriod(from, to)
      BY <1>1, <1>3, <1>12, PriceWork
    <2>2. Uncharged'
      BY <1>4, <1>12 DEF Uncharged
    <2>3. ASSUME NEW v, NEW p, p \in Products, HasPrice(p), HasPrice(Exit(from).product),
                 p.tarificationPeriod = n + 1,
                 Work(from, to, <<>>, <<v>>, p, FALSE) \/ Work(from, to, <<>>, <<>>, p, TRUE)
          PROVE  Working'
      <3>1. Leads(<<Sig(to, v)>>, p, FALSE) \/ Leads(<<>>, p, TRUE)
        BY <1>5, <1>12, <2>3
      <3>2. Priced'
        BY <2>3, <3>1, PricedAnyhow DEF Leads
      <3>3. Counted'
        BY <1>3, <2>3, <3>1 DEF Leads, Counted
      <3>4. Progress'
        BY <1>1, <1>2, <1>12, <3>1, NothingLeft, OneLeft DEF Leads
      <3>5. ASSUME Work(from, to, <<>>, <<v>>, p, FALSE) PROVE reason' = NoError
        <4>1. Heard("priceNotChanged", "change_price_completed") => HasPrice(product)
          <5>1. Heard("priceNotChanged", "change_price_completed") => from = "priceNotChanged"
            BY <1>1, <1>12 DEF PriceMove, Heard
          <5>2. from = "priceNotChanged" => Exit(from).product = product
            <6>1. from = "priceNotChanged" => Has(Exit(from), <<>>, <<>>, <<>>, product, FALSE)
              BY Exits DEF Exit
            <6> QED BY <6>1 DEF Has
          <5> QED BY <2>3, <5>1, <5>2
        <4>2. /\ ~Heard("machine", "change_price") /\ ~Heard("machine", "prolong_completed")
              /\ from = "priceChanged" => nextPrice # NoPrice
          BY <1>1, <1>12 DEF PriceMove, Heard
        <4>3. TestReason = NoError
          BY <4>1, <4>2, Untested
        <4>4. Entry(from, to).emit # <<>>
          BY <3>5 DEF Work
        <4> QED BY <1>1, <1>2, <1>12, <4>2, <4>3, <4>4, ReasonAfter
      <3>6. queue' = <<>> \/ reason' = NoError
        <4>1. CASE Work(from, to, <<>>, <<>>, p, TRUE)
          BY <1>5, <1>12, <4>1 DEF Leads
        <4> QED BY <2>3, <3>5, <4>1
      <3> QED BY <2>2, <3>2, <3>3, <3>4, <3>6 DEF Working
    <2>4. ASSUME NEW p, Work(from, to, <<>>, <<>>, p, FALSE), p.tarificationPeriod = n,
                 HasPrice(product) => HasPrice(p), Entry(from, to).reason # NoError
          PROVE  Working'
      <3>1. Leads(<<>>, p, FALSE)
        BY <1>5, <1>12, <2>4
      <3>2. reason' # NoError
        BY <1>1, <2>4 DEF Does, Later
      <3>3. Progress'
        BY <1>1, <1>2, <1>12, <3>1, NothingLeft DEF Leads
      <3>4. Counted'
        BY <1>1, <1>2, <1>3, <2>4, <3>1 DEF Leads, Counted
      <3>5. Priced'
        <4>1. Priced /\ product' = p /\ queue' = <<>>
          BY <3>1 DEF UnderWay, Working, Leads
        <4> QED BY <1>1, <1>12, <2>4, <3>2, <4>1 DEF Priced
      <3> QED BY <2>2, <3>1, <3>2, <3>3, <3>4, <3>5 DEF Working, Leads
    <2> QED BY <2>1, <2>3, <2>4 DEF StartsPeriod
  <1> QED BY <1>1, <1>2, <1>6, <1>9, <1>10, <1>11, <1>12 DEF PriceMove

\* The signal forgotten.
LEMMA SingleDrop == UnderWay /\ Single /\ Drop => Working'
  <1> SUFFICES ASSUME UnderWay, Single, Drop PROVE Working'
    OBVIOUS
  <1>1. /\ queue' = <<>> /\ UNCHANGED <<conf, product, completed>> /\ reason = NoError /\ ~completed
        /\ conf.usage \notin Disconnecting /\ conf.price # "priceOff"
    BY HeadsAndTails DEF Drop, UnderWay, Single
  <1>2. Progress' /\ Priced' /\ Counted'
    BY <1>1, PricedStill DEF Progress, Rest, Counted, UnderWay, Working
  <1>3. PaymentClosed(conf) => conf.price \in {"priceOff", "priceFinal", "priceOnEntry"}
    <2>1. ASSUME PaymentClosed(conf), Heard("paymentStopped", "off_price") PROVE conf.price = "priceFinal"
      <3>1. conf.price \notin PriceOn
        BY <2>1, NotForgotten DEF UnderWay
      <3>2. conf.price \in PriceLeaves
        BY <2>1 DEF UnderWay, MachineTypeOK, WellFormed, Configurations, PaymentClosed, NoLeaf
      <3> QED BY <1>1, <3>1, <3>2 DEF PriceLeaves
    <2> QED BY <2>1 DEF UnderWay, Working, Uncharged, Heard, Sig
  <1> QED BY <1>1, <1>2, <1>3 DEF Working, Uncharged

\* The product has been activated.
LEMMA SingleProvision == UnderWay /\ Single /\ ProvisionStep => Working'
  <1> SUFFICES ASSUME UnderWay, Single, ProvisionStep PROVE Working'
    OBVIOUS
  <1> DEFINE e == Head(queue).value
             v == IF HasPrice(product) /\ product.price.status = "ACTIVE_TRIAL"
                  THEN "trial_activation_completed" ELSE "activation_completed"
  <1>1. e \in {"activation_completed", "trial_activation_completed"}
    BY HeadsHeard DEF UnderWay, MachineTypeOK, MachineStep
  <1>2. /\ queue' = Tail(queue) \o Signal("activatedEntry", OnEntry("activatedEntry", Head(queue), product).emit)
                      \o Signal("paymentOnEntry", OnEntry("paymentOnEntry", Head(queue), product).emit)
                      \o Signal("priceOnEntry", OnEntry("priceOnEntry", Head(queue), product).emit)
        /\ conf' = DefaultProvision /\ UNCHANGED <<product, completed, reason>>
    BY DEF ProvisionStep
  <1>3. Tail(queue) = <<>> /\ ~completed /\ reason = NoError /\ product.tarificationPeriod >= 0
    <2>1. Tail(queue) = <<>>
      BY HeadsAndTails DEF Single
    <2> QED BY <2>1 DEF UnderWay, Working, Counted
  <1>4. /\ OnEntry("activatedEntry", Head(queue), product).emit = <<e>>
        /\ OnEntry("paymentOnEntry", Head(queue), product).emit = <<e>>
        /\ OnEntry("priceOnEntry", Head(queue), product).emit = <<v>>
    BY DEF OnEntry, Emits, Nothing, PriceOnEntryOnEntry
  <1>5. v \in {"activation_completed", "trial_activation_completed"}
    OBVIOUS
  <1> HIDE DEF e, v
  <1>6. queue' = <<Sig("activatedEntry", e), Sig("paymentOnEntry", e), Sig("priceOnEntry", v)>>
    <2>1. queue' = <<>> \o <<Sig("activatedEntry", e)>> \o <<Sig("paymentOnEntry", e)>> \o <<Sig("priceOnEntry", v)>>
      BY <1>2, <1>3, <1>4, SmallSignals
    <2>2. ASSUME NEW x, NEW y, NEW z PROVE <<>> \o <<x>> \o <<y>> \o <<z>> = <<x, y, z>>
      <3>1. <<>> \o <<x>> = <<x>> /\ <<x>> \o <<y>> = <<x, y>>
        BY Tuples
      <3>2. <<x, y>> \o <<z>> = <<x, y, z>>
        BY MoreTuples
      <3> QED BY <3>1, <3>2
    <2> QED BY <2>1, <2>2
  <1>7. Head(queue') = Sig("activatedEntry", e) /\ Tail(queue') # <<>> /\ queue' # <<>>
    BY <1>6, HeadsAndTails
  <1>8. Progress'
    BY <1>1, <1>2, <1>3, <1>5, <1>6 DEF Progress, Starting, DefaultProvision, Disconnecting
  <1>9. Priced' /\ Uncharged'
    <2>1. Priced'
      <3>1. conf'.price \notin Tariffs
        BY <1>2 DEF DefaultProvision, Tariffs
      <3>2. Head(queue').sender # "waitingPayment"
        BY <1>7 DEF Sig
      <3>3. Priced /\ product' = product /\ reason' = reason /\ (HasPrice(product)' <=> HasPrice(product))
        BY <1>2 DEF HasPrice, UnderWay, Working
      <3>4. product'.tarificationPeriod >= 1 => product.tarificationPeriod >= 1
        BY <3>3
      <3> QED BY <3>1, <3>2, <3>3, <3>4, PricedStill
    <2>2. Uncharged'
      BY <1>2 DEF Uncharged, DefaultProvision, PaymentClosed
    <2> QED BY <2>1, <2>2
  <1>10. Counted'
    <2>1. queue' \notin {<<Sig("commercial", "activation_completed")>>, <<Sig("trial", "trial_activation_completed")>>}
      BY <1>7, HeadsAndTails
    <2> QED BY <1>2, <1>3, <2>1 DEF Counted, DefaultProvision
  <1> QED BY <1>2, <1>3, <1>8, <1>9, <1>10 DEF Working

\* The activation has been aborted.
LEMMA SingleLeave == UnderWay /\ Single /\ LeaveStep => Working'
  <1> SUFFICES ASSUME UnderWay, Single, LeaveStep PROVE Working'
    OBVIOUS
  <1>1. conf' = Outside("aborted") /\ queue' = Tail(queue) /\ completed'
    BY HeadsHeard DEF UnderWay, MachineTypeOK, MachineStep, Single, Heard
  <1>2. queue' = <<>> /\ product' = product /\ product.tarificationPeriod >= 0
    BY <1>1, HeadsAndTails DEF Single, UnderWay, Working, Counted, LeaveStep
  <1>3. Priced'
    BY <1>1, <1>2, PricedStill DEF Outside, NoLeaf, Tariffs, UnderWay, Working
  <1> QED
    BY <1>1, <1>2, <1>3 DEF Working, Progress, Rest, Disconnecting, Counted, Uncharged, PaymentClosed, Outside,
       NoLeaf, Sig

LEMMA SingleStep == UnderWay /\ Single /\ MachineStep => Working'
  <1> SUFFICES ASSUME UnderWay, Single, MachineStep PROVE Working'
    OBVIOUS
  <1>1. WellFormed(conf)
    BY DEF UnderWay, MachineTypeOK
  <1> QED
    BY <1>1, MachineSteps, SinglePrice, SingleUsage, SinglePayment, SingleProvision, SingleLeave, SingleDrop

-----------------------------------------------------------------------------
(* A cascade that leaves priceOff. *)

\* Nothing but the price region hears priceOff's entered(), and nobody forgets it.
LEMMA LeavingPriceOff ==
  ASSUME MachineTypeOK, MachineTypeOK', MachineStep, conf.price = "priceOff",
         Heard("priceOff", "entered"), conf.usage # "usageFinal"
  PROVE  /\ conf' = [conf EXCEPT !.price = "priceFinal"]
         /\ queue' = Tail(queue)
         /\ UNCHANGED <<status, product, tasks, deleteTasks, reason, completed>>
  <1>0. WellFormed(conf) /\ queue \in Seq(Signals) /\ tasks \in Seq(Tasks) /\ deleteTasks \in Seq(TimerEvents)
        /\ WellFormed(conf)' /\ queue # <<>> /\ completed \in BOOLEAN
    BY MachineSteps DEF MachineTypeOK
  <1>1. ~Drop
    BY <1>0, NotForgotten DEF Drop
  <1>2. ~ProvisionStep /\ ~LeaveStep
    BY <1>0, HeadsHeard DEF Heard
  <1>3. (\A to : ~UsageMoved(to)) /\ (\A to : ~PaymentMoved(to))
    BY DEF UsageMoved, PaymentMoved, UsageMove, PaymentMove, Heard
  <1>4. PriceMoved("priceFinal")
    <2>1. PICK to \in PriceLeaves : PriceMoved(to)
      BY <1>0, <1>1, <1>2, <1>3, MachineSteps
    <2> QED BY <2>1 DEF PriceMoved, PriceMove, Heard
  <1>5. /\ Does("priceOff", "priceFinal") /\ conf' = [conf EXCEPT !.price = "priceFinal"]
        /\ conf'.usage = conf.usage
    BY <1>0, <1>4 DEF PriceMoved, WellFormed, Configurations
  <1>6. /\ Exit("priceOff").emit = <<>> /\ Exit("priceOff").create = <<>> /\ Exit("priceOff").delete = <<>>
        /\ Exit("priceOff").completed = FALSE /\ Exit("priceOff").reason = NoError
        /\ Entry("priceOff", "priceFinal").emit = <<>> /\ Entry("priceOff", "priceFinal").create = <<>>
        /\ Entry("priceOff", "priceFinal").delete = <<>> /\ Entry("priceOff", "priceFinal").product = product
        /\ Entry("priceOff", "priceFinal").completed = FALSE /\ Entry("priceOff", "priceFinal").reason = NoError
    BY DEF Exit, Entry, OnExit, OnEntry, Nothing
  <1>7. queue' = Tail(queue)
    <2>1. queue' = Tail(queue) \o Signal("priceOff", <<>>) \o Signal("priceFinal", <<>>) \o <<>> \o <<>>
      <3>1. "priceFinal" \notin SignalsWhenEntered
        BY DEF SignalsWhenEntered
      <3> QED BY <1>0, <1>5, <1>6, <3>1, QueueAfterQuiet
    <2>2. Signal("priceOff", <<>>) = <<>> /\ Signal("priceFinal", <<>>) = <<>>
      BY SmallSignals
    <2>3. Tail(queue) \in Seq(Signals)
      BY <1>0, HeadTailProperties
    <2>4. \A q \in Seq(Signals) : q \o <<>> = q
      BY ConcatEmptySeq
    <2> QED BY <2>1, <2>2, <2>3, <2>4
  <1>8. tasks' = tasks /\ deleteTasks' = deleteTasks
    <2>1. tasks' = tasks \o <<>> \o <<>> /\ deleteTasks' = deleteTasks \o <<>> \o <<>>
      BY <1>5, <1>6 DEF Does
    <2>2. tasks \o <<>> = tasks /\ deleteTasks \o <<>> = deleteTasks
      BY <1>0, ConcatEmptySeq
    <2> QED BY <2>1, <2>2
  <1>9. status' = status /\ product' = product /\ completed' = completed
    BY <1>0, <1>5, <1>6 DEF Does, StatusOnEntry, CompletesWhenEntered
  <1>10. reason' = reason
    <2>1. TestReason = NoError
      BY Untested DEF Heard
    <2> QED BY <1>5, <1>6, <2>1 DEF Does, Later
  <1> QED BY <1>5, <1>7, <1>8, <1>9, <1>10

LEMMA ReplayingStep == UnderWay /\ Replaying /\ MachineStep => Working'
  <1> SUFFICES ASSUME UnderWay, Replaying, MachineStep PROVE Working'
    OBVIOUS
  <1>1. /\ Head(queue) = Entered /\ Tail(queue) = <<Sig("machine", calling)>> /\ Tail(queue) # <<>>
        /\ conf.usage # "usageFinal" /\ conf.usage \notin Disconnecting
    BY HeadsAndTails DEF Replaying, UnderWay, Disconnecting
  <1>2. /\ conf' = [conf EXCEPT !.price = "priceFinal"] /\ queue' = <<Sig("machine", calling)>>
        /\ UNCHANGED <<product, reason, completed>>
    BY <1>1, LeavingPriceOff DEF UnderWay, Replaying, Heard, Entered, Sig
  <1>3. /\ conf'.price = "priceFinal" /\ conf'.usage = conf.usage /\ conf'.payment = conf.payment
        /\ reason' = NoError /\ ~completed'
    BY <1>2 DEF UnderWay, MachineTypeOK, WellFormed, Configurations
  <1>4. Head(queue') = Sig("machine", calling)
    BY <1>2, HeadsAndTails
  <1>5. Progress'
    BY <1>1, <1>2, <1>3, OneLeft
  <1>6. Priced' /\ Uncharged'
    <2>1. Priced'
      BY <1>2, <1>3, <1>4, PricedStill DEF Tariffs, Sig, UnderWay, Working
    <2>2. Uncharged'
      BY <1>3, <1>4 DEF Uncharged, Sig
    <2> QED BY <2>1, <2>2
  <1>7. Counted'
    <2>1. queue \notin {<<>>, <<LateResume>>, <<Resumption>>}
      BY <1>1, HeadsAndTails DEF Replaying
    <2>2. queue' \notin {<<Sig("commercial", "activation_completed")>>, <<Sig("trial", "trial_activation_completed")>>}
      BY <1>4, HeadsAndTails DEF Sig
    <2> QED BY <1>2, <1>3, <2>1, <2>2 DEF Counted, UnderWay, Working
  <1> QED BY <1>3, <1>5, <1>6, <1>7 DEF Working

\* What a closed product and its count of periods are like with no billing signal left.
LEMMA StillCounted ==
  ASSUME Counted, product' = product, conf'.payment = conf.payment \/ conf'.payment \in PaymentOff \cup {"paymentFinal"},
         queue \notin {<<>>, <<LateResume>>, <<Resumption>>},
         queue' \notin {<<Sig("commercial", "activation_completed")>>, <<Sig("trial", "trial_activation_completed")>>}
  PROVE  Counted'
  BY DEF Counted, PaymentOff

\* The end of the payments is heard by the tarification, unless that has ended before.
LEMMA ClosingOffPrice ==
  ASSUME UnderWay, MachineStep,
         queue = <<Sig("paymentStopped", "off_price"), Sig("paymentStopped", "stop_pay")>>,
         conf.price # "priceOff"
  PROVE  Working'
  <1>1. /\ Head(queue) = Sig("paymentStopped", "off_price") /\ Heard("paymentStopped", "off_price")
        /\ Tail(queue) = <<Sig("paymentStopped", "stop_pay")>> /\ Tail(queue) # <<>>
        /\ WellFormed(conf) /\ WellFormed(conf)' /\ reason = NoError /\ ~completed
        /\ conf.usage \notin Disconnecting /\ conf.usage # "usageFinal"
        /\ Counted /\ Priced
    BY HeadsAndTails DEF UnderWay, MachineTypeOK, Heard, Sig, Disconnecting, Working
  <1>2. queue \notin {<<>>, <<LateResume>>, <<Resumption>>}
    BY <1>1, HeadsAndTails
  <1>3. TestReason = NoError
    BY <1>1, Untested DEF Heard
  <1>4. CASE Drop
    <2>1. queue' = <<Sig("paymentStopped", "stop_pay")>> /\ UNCHANGED <<conf, product, completed, reason>>
      BY <1>1, <1>3, <1>4 DEF Drop, Later
    <2>2. Head(queue') = Sig("paymentStopped", "stop_pay")
      BY <2>1, HeadsAndTails
    <2>3. PaymentClosed(conf) => conf.price = "priceFinal"
      <3>1. conf.price \notin PriceOn
        BY <1>1, <1>4, NotForgotten DEF UnderWay
      <3>2. PaymentClosed(conf) => conf.price \in PriceLeaves
        BY <1>1 DEF WellFormed, Configurations, PaymentClosed, NoLeaf
      <3> QED BY <3>1, <3>2 DEF PriceLeaves
    <2>4. Progress'
      BY <1>1, <2>1, OneLeft
    <2>5. Priced' /\ Uncharged'
      BY <1>1, <2>1, <2>2, <2>3, PricedStill DEF Uncharged, Sig
    <2>6. Counted'
      <3>1. queue' \notin {<<Sig("commercial", "activation_completed")>>, <<Sig("trial", "trial_activation_completed")>>}
        BY <2>2, HeadsAndTails DEF Sig
      <3> QED BY <1>1, <1>2, <2>1, <3>1, StillCounted
    <2> QED BY <1>1, <2>1, <2>4, <2>5, <2>6 DEF Working
  <1>5. CASE \E to \in PriceLeaves : PriceMoved(to)
    <2>1. PICK to \in PriceLeaves : PriceMoved(to)
      BY <1>5
    <2> DEFINE from == conf.price
    <2>2. /\ Does(from, to) /\ PriceMove(from, to) /\ to = "priceOff"
          /\ conf'.price = to /\ conf'.usage = conf.usage /\ conf'.payment = conf.payment
      BY <1>1, <2>1 DEF PriceMoved, PriceMove, Heard, WellFormed, Configurations
    <2>3. Work(from, to, <<>>, <<"off_usage">>, product, FALSE)
      BY <2>2, PriceWork DEF UnderWay, MachineTypeOK
    <2>4. product' = product /\ ~completed' /\ Exit(from).emit = <<>> /\ Entry(from, to).emit = <<"off_usage">>
      BY <1>1, <2>2, <2>3 DEF Work, Does
    <2>5. queue' = <<Sig("paymentStopped", "stop_pay"), Sig("priceOff", "off_usage"), Entered>>
      <3>1. queue' = <<Sig("paymentStopped", "stop_pay")>> \o Signal(from, <<>>) \o Signal(to, <<"off_usage">>)
                       \o <<Sig(to, "entered")>> \o <<>>
        BY <1>1, <2>2, <2>4, QueueAfter DEF SignalsWhenEntered
      <3>2. Signal(from, <<>>) = <<>> /\ Signal(to, <<"off_usage">>) = <<Sig(to, "off_usage")>>
        BY SmallSignals
      <3>3. ASSUME NEW x, NEW y, NEW z PROVE <<x>> \o <<>> \o <<y>> \o <<z>> \o <<>> = <<x, y, z>>
        <4>1. <<x>> \o <<>> = <<x>> /\ <<x>> \o <<y>> = <<x, y>>
          BY Tuples
        <4>2. <<x, y>> \o <<z>> = <<x, y, z>> /\ <<x, y, z>> \o <<>> = <<x, y, z>>
          BY MoreTuples
        <4> QED BY <4>1, <4>2
      <3> QED BY <2>2, <3>1, <3>2, <3>3 DEF Entered
    <2>6. Head(queue') = Sig("paymentStopped", "stop_pay")
      BY <2>5, HeadsAndTails
    <2>7. reason' = NoError
      <3>1. Exit(from).reason = NoError
        BY <1>1 DEF Exit, OnExit, PriceChangedOnExit, SuspendedOnExit, WaitingPaymentOnExit, NotPaidOnExit, Nothing,
           Emits, Heard
      <3>2. Entry(from, to).reason = NoError
        BY <2>2, FailingEntries DEF Entry
      <3> QED BY <1>1, <1>3, <2>2, <3>1, <3>2 DEF Does, Later
    <2>8. Progress'
      BY <1>1, <2>2, <2>4, <2>5 DEF Progress, Closing
    <2>9. Priced' /\ Uncharged'
      <3>1. Priced'
        BY <1>1, <2>2, <2>4, <2>6, PricedStill DEF Tariffs, Sig
      <3>2. Uncharged'
        BY <2>2, <2>6 DEF Uncharged, Sig
      <3> QED BY <3>1, <3>2
    <2>10. Counted'
      <3>1. queue' \notin {<<Sig("commercial", "activation_completed")>>, <<Sig("trial", "trial_activation_completed")>>}
        BY <2>6, HeadsAndTails DEF Sig
      <3> QED BY <1>1, <1>2, <2>2, <2>4, <3>1, StillCounted
    <2> QED BY <2>7, <2>8, <2>9, <2>10 DEF Working
  <1>6. (\A to : ~UsageMoved(to)) /\ (\A to : ~PaymentMoved(to)) /\ ~ProvisionStep /\ ~LeaveStep
    BY <1>1, HeadsHeard DEF UsageMoved, PaymentMoved, UsageMove, PaymentMove, Heard
  <1> QED BY <1>1, <1>4, <1>5, <1>6, MachineSteps

\* The payments end for good, or have been stopped in a state of another call.
LEMMA ClosingStopPay ==
  ASSUME UnderWay, MachineStep, conf.price = "priceOff",
         queue = <<Sig("paymentStopped", "stop_pay"), Sig("priceOff", "off_usage"), Entered>>
  PROVE  Working'
  <1>1. /\ Head(queue) = Sig("paymentStopped", "stop_pay") /\ Heard("paymentStopped", "stop_pay")
        /\ Tail(queue) = <<Sig("priceOff", "off_usage"), Entered>> /\ Tail(queue) # <<>>
        /\ WellFormed(conf) /\ WellFormed(conf)' /\ reason = NoError /\ ~completed
        /\ conf.usage \notin Disconnecting /\ conf.usage # "usageFinal"
        /\ Counted /\ Priced
    BY HeadsAndTails DEF UnderWay, MachineTypeOK, Heard, Sig, Disconnecting, Working
  <1>2. queue \notin {<<>>, <<LateResume>>, <<Resumption>>}
    BY <1>1, HeadsAndTails
  <1>3. TestReason = NoError
    BY <1>1, Untested DEF Heard
  <1>4. ASSUME queue' = <<Sig("priceOff", "off_usage"), Entered>>, UNCHANGED <<product, completed, reason>>,
               conf'.price = conf.price, conf'.usage = conf.usage,
               conf'.payment = conf.payment \/ conf'.payment = "paymentFinal"
        PROVE  Working'
    <2>1. Head(queue') = Sig("priceOff", "off_usage") /\ Tail(queue') # <<>>
      BY <1>4, HeadsAndTails
    <2>2. Progress'
      BY <1>1, <1>4 DEF Progress, Closing
    <2>3. Priced' /\ Uncharged'
      BY <1>1, <1>4, <2>1, PricedStill DEF Uncharged, Sig
    <2>4. Counted'
      <3>1. queue' \notin {<<Sig("commercial", "activation_completed")>>, <<Sig("trial", "trial_activation_completed")>>}
        BY <2>1, HeadsAndTails
      <3> QED BY <1>1, <1>2, <1>4, <3>1, StillCounted
    <2> QED BY <1>1, <1>4, <2>2, <2>3, <2>4 DEF Working
  <1>5. CASE Drop
    BY <1>1, <1>3, <1>4, <1>5 DEF Drop, Later
  <1>6. CASE \E to \in PaymentLeaves : PaymentMoved(to)
    <2>1. PICK to \in PaymentLeaves : PaymentMoved(to)
      BY <1>6
    <2> DEFINE from == conf.payment
    <2>2. /\ Does(from, to) /\ PaymentMove(from, to) /\ to = "paymentFinal" /\ from = "paymentStopped"
          /\ conf'.price = conf.price /\ conf'.usage = conf.usage /\ conf'.payment = to
      BY <1>1, <2>1 DEF PaymentMoved, PaymentMove, Heard, WellFormed, Configurations
    <2>3. Work(from, to, <<>>, <<>>, product, FALSE)
      BY <2>2, PaymentWork
    <2>4. product' = product /\ completed' = completed /\ Exit(from).emit = <<>> /\ Entry(from, to).emit = <<>>
      BY <1>1, <2>2, <2>3 DEF Work, Does, UnderWay, MachineTypeOK
    <2>5. queue' = <<Sig("priceOff", "off_usage"), Entered>>
      <3>1. queue' = <<Sig("priceOff", "off_usage"), Entered>> \o Signal(from, <<>>) \o Signal(to, <<>>) \o <<>> \o <<>>
        <4>1. to \notin SignalsWhenEntered
          BY <2>2 DEF SignalsWhenEntered
        <4>2. WellFormed(conf)' /\ conf'.usage # "usageFinal" /\ Does(from, to)
          BY <1>1, <2>2
        <4>3. queue' = Tail(queue) \o Signal(from, Exit(from).emit) \o Signal(to, Entry(from, to).emit) \o <<>> \o <<>>
          BY <4>1, <4>2, QueueAfterQuiet
        <4> QED BY <1>1, <2>4, <4>3
      <3>2. Signal(from, <<>>) = <<>> /\ Signal(to, <<>>) = <<>>
        BY SmallSignals
      <3> QED BY <3>1, <3>2, Shapes
    <2>6. reason' = reason
      <3>1. Exit(from).reason = NoError
        BY <2>2 DEF Exit, OnExit, Nothing
      <3>2. Entry(from, to).reason = NoError
        BY <2>2, FailingEntries DEF Entry
      <3> QED BY <1>1, <1>3, <2>2, <3>1, <3>2 DEF Does, Later
    <2> QED BY <1>4, <2>2, <2>4, <2>5, <2>6
  <1>7. (\A to : ~UsageMoved(to)) /\ (\A to : ~PriceMoved(to)) /\ ~ProvisionStep /\ ~LeaveStep
    BY <1>1, HeadsHeard DEF UsageMoved, PriceMoved, UsageMove, PriceMove, Heard
  <1> QED BY <1>1, <1>5, <1>6, <1>7, MachineSteps

\* The end of the tarification ends the usage, which completes the call.
LEMMA ClosingOffUsage ==
  ASSUME UnderWay, MachineStep, conf.price = "priceOff",
         queue = <<Sig("priceOff", "off_usage"), Entered>>
  PROVE  Working'
  <1>1. /\ Head(queue) = Sig("priceOff", "off_usage") /\ Heard("priceOff", "off_usage")
        /\ Tail(queue) = <<Entered>> /\ Tail(queue) # <<>>
        /\ WellFormed(conf) /\ WellFormed(conf)' /\ reason = NoError /\ ~completed
        /\ conf.usage \notin Disconnecting /\ conf.usage # "usageFinal"
        /\ Counted /\ Priced
    BY HeadsAndTails DEF UnderWay, MachineTypeOK, Heard, Sig, Disconnecting, Working
  <1>2. queue \notin {<<>>, <<LateResume>>, <<Resumption>>}
    BY <1>1, HeadsAndTails
  <1>3. TestReason = NoError
    BY <1>1, Untested DEF Heard
  <1>4. ASSUME queue' \in {<<Entered>>, <<Entered, Resumption>>}, reason' = NoError, product' = product,
               conf'.price = conf.price, conf'.payment = conf.payment, Progress'
        PROVE  Working'
    <2>1. Head(queue') = Entered
      BY <1>4, HeadsAndTails
    <2>2. Priced' /\ Uncharged'
      BY <1>1, <1>4, <2>1, PricedStill DEF Uncharged, Sig, Entered
    <2>3. Counted'
      <3>1. queue' \notin {<<Sig("commercial", "activation_completed")>>, <<Sig("trial", "trial_activation_completed")>>}
        BY <2>1, HeadsAndTails DEF Entered, Sig
      <3> QED BY <1>1, <1>2, <1>4, <3>1, StillCounted
    <2> QED BY <1>4, <2>2, <2>3 DEF Working
  <1>5. CASE Drop
    <2>1. queue' = <<Entered>> /\ reason' = NoError /\ UNCHANGED <<conf, product, completed>>
      BY <1>1, <1>3, <1>5 DEF Drop, Later
    <2>2. Progress'
      BY <1>1, <2>1 DEF Progress, Closing
    <2> QED BY <1>4, <2>1, <2>2
  <1>6. CASE \E to \in UsageLeaves : UsageMoved(to)
    <2>1. PICK to \in UsageLeaves : UsageMoved(to)
      BY <1>6
    <2> DEFINE from == conf.usage
    <2>2. /\ Does(from, to) /\ UsageMove(from, to) /\ to = "pendingDisconnect"
          /\ conf'.price = conf.price /\ conf'.usage = to /\ conf'.payment = conf.payment
      BY <1>1, <2>1 DEF UsageMoved, UsageMove, Heard, WellFormed, Configurations
    <2>3. \/ Work(from, to, <<>>, <<>>, product, TRUE)
          \/ Work(from, to, <<"resume_tarification">>, <<>>, product, TRUE) /\ from = "suspended"
      BY <2>2, UsageWork
    <2>4. /\ product' = product /\ completed' /\ Entry(from, to).emit = <<>>
          /\ \/ Exit(from).emit = <<>>
             \/ Exit(from).emit = <<"resume_tarification">> /\ from = "suspended"
      BY <2>2, <2>3 DEF Work, Does
    <2>5. queue' \in {<<Entered>>, <<Entered, Resumption>>}
      <3>1. queue' = <<Entered>> \o Signal(from, Exit(from).emit) \o Signal(to, <<>>) \o <<>> \o <<>>
        <4>1. to \notin SignalsWhenEntered
          BY <2>2 DEF SignalsWhenEntered
        <4>2. WellFormed(conf)' /\ conf'.usage # "usageFinal" /\ Does(from, to)
          BY <1>1, <2>2
        <4>3. queue' = Tail(queue) \o Signal(from, Exit(from).emit) \o Signal(to, Entry(from, to).emit) \o <<>> \o <<>>
          BY <4>1, <4>2, QueueAfterQuiet
        <4> QED BY <1>1, <2>4, <4>3
      <3>2. /\ Signal(from, <<>>) = <<>> /\ Signal(to, <<>>) = <<>>
            /\ Signal(from, <<"resume_tarification">>) = <<Sig(from, "resume_tarification")>>
        BY SmallSignals
      <3>3. /\ <<Entered>> \o <<>> \o <<>> \o <<>> \o <<>> = <<Entered>>
            /\ <<Entered>> \o <<Resumption>> \o <<>> \o <<>> \o <<>> = <<Entered, Resumption>>
        BY Shapes
      <3> QED BY <2>4, <3>1, <3>2, <3>3 DEF Resumption
    <2>6. reason' = NoError
      <3>1. Exit(from).reason = NoError
        BY <1>1 DEF Exit, OnExit, PriceChangedOnExit, SuspendedOnExit, WaitingPaymentOnExit, NotPaidOnExit, Nothing,
           Emits, Heard
      <3>2. Entry(from, to).reason = NoError
        BY <2>2, FailingEntries DEF Entry
      <3> QED BY <1>1, <1>3, <2>2, <3>1, <3>2 DEF Does, Later
    <2>7. Progress'
      BY <2>2, <2>4, <2>5 DEF Progress, Rest, Disconnecting
    <2> QED BY <1>4, <2>2, <2>4, <2>5, <2>6, <2>7
  <1>7. (\A to : ~PaymentMoved(to)) /\ (\A to : ~PriceMoved(to)) /\ ~ProvisionStep /\ ~LeaveStep
    BY <1>1, HeadsHeard DEF PaymentMoved, PriceMoved, PaymentMove, PriceMove, Heard
  <1> QED BY <1>1, <1>5, <1>6, <1>7, MachineSteps

\* The usage had ended before: the tarification is all that is left.
LEMMA ClosingEntered ==
  ASSUME UnderWay, MachineStep, conf.price = "priceOff", queue = <<Entered>>
  PROVE  Working'
  <1>1. /\ Head(queue) = Entered /\ Tail(queue) = <<>> /\ Heard("priceOff", "entered")
        /\ conf.usage \notin Disconnecting /\ conf.usage # "usageFinal"
        /\ Counted /\ Priced /\ reason = NoError /\ ~completed
    BY HeadsAndTails DEF UnderWay, Heard, Sig, Entered, Disconnecting, Working
  <1>2. /\ conf' = [conf EXCEPT !.price = "priceFinal"] /\ queue' = <<>>
        /\ UNCHANGED <<product, reason, completed>>
    BY <1>1, LeavingPriceOff DEF UnderWay
  <1>3. conf'.price = "priceFinal" /\ conf'.usage = conf.usage /\ conf'.payment = conf.payment
    BY <1>2 DEF UnderWay, MachineTypeOK, WellFormed, Configurations
  <1>4. Progress'
    BY <1>1, <1>2, <1>3, NothingLeft
  <1>5. Priced' /\ Uncharged'
    BY <1>1, <1>2, <1>3, PricedStill DEF Uncharged, Tariffs
  <1>6. Counted'
    BY <1>1, <1>2, <1>3 DEF Counted
  <1> QED BY <1>1, <1>2, <1>4, <1>5, <1>6 DEF Working

LEMMA ClosingStep == UnderWay /\ Closing /\ MachineStep => Working'
  BY ClosingOffPrice, ClosingStopPay, ClosingOffUsage, ClosingEntered DEF Closing

\* What activatedEntry and paymentOnEntry say is forgotten.
LEMMA StartingStep == UnderWay /\ Starting /\ MachineStep => Working'
  <1> SUFFICES ASSUME UnderWay, Starting, MachineStep PROVE Working'
    OBVIOUS
  <1>1. PICK e \in {"activation_completed", "trial_activation_completed"},
             v \in {"activation_completed", "trial_activation_completed"} :
          queue \in {<<Sig("activatedEntry", e), Sig("paymentOnEntry", e), Sig("priceOnEntry", v)>>,
                     <<Sig("paymentOnEntry", e), Sig("priceOnEntry", v)>>}
    BY DEF Starting
  <1>2. /\ Head(queue) \in {Sig("activatedEntry", e), Sig("paymentOnEntry", e)} /\ Tail(queue) # <<>> /\ queue # <<>>
        /\ Tail(queue) \in {<<Sig("paymentOnEntry", e), Sig("priceOnEntry", v)>>, <<Sig("priceOnEntry", v)>>}
    <2>1. CASE queue = <<Sig("activatedEntry", e), Sig("paymentOnEntry", e), Sig("priceOnEntry", v)>>
      BY <2>1, HeadsAndTails
    <2>2. CASE queue = <<Sig("paymentOnEntry", e), Sig("priceOnEntry", v)>>
      BY <2>2, HeadsAndTails
    <2> QED BY <1>1, <2>1, <2>2
  <1>3. Head(queue).sender \in {"activatedEntry", "paymentOnEntry"}
    BY <1>2 DEF Sig
  <1>4. Drop
    BY <1>3, HeadsHeard DEF UnderWay, MachineTypeOK
  <1>5. /\ queue' = Tail(queue) /\ UNCHANGED <<conf, product, completed>> /\ reason' = NoError
        /\ ~completed /\ conf.price = "priceOnEntry" /\ conf.usage \notin Disconnecting
    <2>1. TestReason = NoError
      BY <1>3, Untested DEF Heard
    <2> QED BY <1>4, <2>1 DEF Drop, Later, UnderWay, Starting
  <1>6. Progress'
    <2>1. CASE Tail(queue) = <<Sig("priceOnEntry", v)>>
      BY <1>5, <2>1, OneLeft
    <2>2. CASE Tail(queue) = <<Sig("paymentOnEntry", e), Sig("priceOnEntry", v)>>
      BY <1>5, <2>2 DEF Progress, Starting
    <2> QED BY <1>2, <2>1, <2>2
  <1>7. Head(queue') \in {Sig("paymentOnEntry", e), Sig("priceOnEntry", v)}
    <2>1. CASE queue' = <<Sig("paymentOnEntry", e), Sig("priceOnEntry", v)>>
      BY <2>1, HeadsAndTails
    <2>2. CASE queue' = <<Sig("priceOnEntry", v)>>
      BY <2>2, HeadsAndTails
    <2> QED BY <1>2, <1>5, <2>1, <2>2
  <1>8. ~PaymentClosed(conf)
    BY <1>2, <1>3 DEF UnderWay, Working, Uncharged
  <1>9. Priced' /\ Uncharged'
    <2>1. Priced'
      BY <1>5, <1>7, PricedStill DEF Sig, UnderWay, Working
    <2>2. Uncharged'
      BY <1>5, <1>8 DEF Uncharged
    <2> QED BY <2>1, <2>2
  <1>10. Counted'
    <2>1. queue' \notin {<<Sig("commercial", "activation_completed")>>, <<Sig("trial", "trial_activation_completed")>>}
      BY <1>7, HeadsAndTails DEF Sig
    <2>2. queue \notin {<<>>, <<LateResume>>, <<Resumption>>}
      BY <1>2, HeadsAndTails
    <2> QED BY <1>5, <2>1, <2>2, StillCounted DEF UnderWay, Working
  <1> QED BY <1>5, <1>6, <1>9, <1>10 DEF Working

-----------------------------------------------------------------------------
(* The usage ends. *)

\* Once the usage has ended the cascade waits for the other regions, and leaves productProvision
\* when they have.
LEMMA EndingStep ==
  ASSUME MachineTypeOK, MachineTypeOK', Working, ~completed, reason = NoError, calling # Idle, queue # <<>>,
         conf.usage \in Disconnecting, MachineStep
  PROVE  Working'
  <1>1. /\ WellFormed(conf) /\ WellFormed(conf)' /\ Counted /\ Priced /\ Uncharged
        /\ queue \in {<<Sig("disconnected", "entered")>>, <<Sig("productProvision", "finished")>>}
    BY DEF MachineTypeOK, Working, Progress, Ending
  <1>2. /\ queue = <<Head(queue)>> /\ Tail(queue) = <<>>
        /\ \/ queue = <<Sig("disconnected", "entered")>> /\ Heard("disconnected", "entered")
           \/ queue = <<Sig("productProvision", "finished")>> /\ Heard("productProvision", "finished")
    <2>1. CASE queue = <<Sig("disconnected", "entered")>>
      BY <2>1, HeadsAndTails DEF Heard, Sig
    <2>2. CASE queue = <<Sig("productProvision", "finished")>>
      BY <2>2, HeadsAndTails DEF Heard, Sig
    <2> QED BY <1>1, <2>1, <2>2
  <1>3. /\ TestReason = NoError
        /\ queue \notin {<<>>, <<LateResume>>, <<Resumption>>}
        /\ PaymentClosed(conf) => conf.price \in {"priceOff", "priceFinal", "priceOnEntry"}
    <2>1. TestReason = NoError
      BY <1>2, Untested DEF Heard
    <2>2. queue \notin {<<>>, <<LateResume>>, <<Resumption>>}
      BY <1>2, HeadsAndTails DEF Heard, LateResume, Resumption, Sig
    <2>3. PaymentClosed(conf) => conf.price \in {"priceOff", "priceFinal", "priceOnEntry"}
      BY <1>1, <1>2 DEF Uncharged, Heard, Sig
    <2> QED BY <2>1, <2>2, <2>3
  <1>4. CASE Drop
    <2>1. queue' = <<>> /\ UNCHANGED <<conf, product, completed, reason>>
      BY <1>2, <1>3, <1>4 DEF Drop, Later
    <2>2. Progress' /\ Priced' /\ Uncharged'
      BY <1>1, <1>3, <2>1, PricedStill DEF Progress, Ending, Uncharged
    <2>3. Counted'
      BY <1>1, <1>3, <2>1 DEF Counted
    <2> QED BY <2>1, <2>2, <2>3 DEF Working
  <1>5. CASE \E to \in UsageLeaves : UsageMoved(to)
    <2>1. PICK to \in UsageLeaves : UsageMoved(to)
      BY <1>5
    <2> DEFINE from == conf.usage
    <2>2. /\ Does(from, to) /\ UsageMove(from, to) /\ to = "usageFinal" /\ from = "disconnected"
          /\ conf'.price = conf.price /\ conf'.usage = to /\ conf'.payment = conf.payment
      BY <1>1, <1>2, <2>1 DEF UsageMoved, UsageMove, Heard, WellFormed, Configurations
    <2>3. Work(from, to, <<>>, <<>>, product, FALSE)
      BY <2>2, UsageWork DEF UsageMove, Heard
    <2>4. product' = product /\ ~completed' /\ Exit(from).emit = <<>> /\ Entry(from, to).emit = <<>>
      BY <2>2, <2>3 DEF Work, Does
    <2>5. queue' \in {<<>>, <<Sig("productProvision", "finished")>>}
      <3>1. queue' = <<>> \o Signal(from, <<>>) \o Signal(to, <<>>) \o EnteredSignal(to) \o FinishedSignal(conf')
        BY <1>2, <2>2, <2>4 DEF Does
      <3>2. Signal(from, <<>>) = <<>> /\ Signal(to, <<>>) = <<>>
        BY SmallSignals
      <3>3. EnteredSignal(to) = <<>>
        BY <2>2, SmallSignals DEF EnteredSignal, SignalsWhenEntered
      <3>4. FinishedSignal(conf') \in {<<>>, <<Sig("productProvision", "finished")>>}
        BY SmallSignals DEF FinishedSignal
      <3> QED BY <3>1, <3>2, <3>3, <3>4, Shapes
    <2>6. reason' = NoError
      <3>1. Exit(from).reason = NoError
        BY <2>2 DEF Exit, OnExit, Nothing
      <3>2. Entry(from, to).reason = NoError
        BY <2>2, FailingEntries DEF Entry
      <3> QED BY <1>3, <2>2, <3>1, <3>2 DEF Does, Later
    <2>7. queue' # <<>> => Head(queue') = Sig("productProvision", "finished")
      BY <2>5, HeadsAndTails
    <2>8. Progress'
      BY <2>2, <2>4, <2>5 DEF Progress, Ending, Disconnecting
    <2>9. Priced' /\ Uncharged'
      <3>1. Priced'
        BY <1>1, <2>2, <2>4, <2>7, PricedStill DEF Sig
      <3>2. Uncharged'
        BY <1>1, <1>3, <2>2, <2>4, <2>7 DEF Uncharged, PaymentClosed, Sig
      <3> QED BY <3>1, <3>2
    <2>10. Counted'
      <3>1. queue' \notin {<<Sig("commercial", "activation_completed")>>, <<Sig("trial", "trial_activation_completed")>>}
        BY <2>7, HeadsAndTails DEF Sig
      <3> QED BY <1>1, <1>3, <2>2, <2>4, <3>1, StillCounted
    <2> QED BY <2>6, <2>8, <2>9, <2>10 DEF Working
  <1>6. CASE LeaveStep
    <2>1. conf' = Outside("disconnect") /\ queue' = <<>> /\ completed'
      BY <1>1, <1>2, <1>6, HeadsHeard DEF Heard
    <2>2. product' = product /\ product.tarificationPeriod >= 0
      BY <1>1, <1>6 DEF LeaveStep, Counted
    <2>3. Priced'
      BY <1>1, <2>1, <2>2, PricedStill DEF Outside, NoLeaf, Tariffs
    <2> QED
      BY <2>1, <2>2, <2>3 DEF Working, Progress, Rest, Disconnecting, Counted, Uncharged, PaymentClosed, Outside,
         NoLeaf, Sig
  <1>7. (\A to : ~PaymentMoved(to)) /\ (\A to : ~PriceMoved(to)) /\ ~ProvisionStep
    BY <1>1, <1>2, HeadsHeard DEF PaymentMoved, PriceMoved, PaymentMove, PriceMove, Heard
  <1> QED BY <1>1, <1>4, <1>5, <1>6, <1>7, MachineSteps

-----------------------------------------------------------------------------
(* After transitionCompleted. *)

\* All that is left to do is to leave priceOff.
LEMMA AfterCompletion ==
  ASSUME MachineTypeOK, MachineTypeOK', Working, completed, MachineStep
  PROVE  /\ Working'
         /\ UNCHANGED <<status, product, tasks, deleteTasks, reason, completed>>
         /\ \/ conf' = conf
            \/ conf.price = "priceOff" /\ conf' = [conf EXCEPT !.price = "priceFinal"]
  <1>1. /\ WellFormed(conf) /\ Counted /\ Priced /\ Uncharged /\ Rest /\ calling # Idle /\ queue # <<>>
        /\ reason = NoError /\ conf.usage \notin Disconnecting /\ conf.usage # "usageFinal"
    BY MachineSteps DEF MachineTypeOK, Working, Progress, Disconnecting
  <1>2. CASE queue \in {<<Entered>>, <<Entered, Resumption>>} /\ conf.price = "priceOff"
    <2>1. Head(queue) = Entered /\ Tail(queue) \in {<<>>, <<Resumption>>}
      <3>1. CASE queue = <<Entered>>
        BY <3>1, HeadsAndTails
      <3>2. CASE queue = <<Entered, Resumption>>
        BY <3>2, HeadsAndTails
      <3> QED BY <1>2, <3>1, <3>2
    <2>2. Heard("priceOff", "entered")
      BY <2>1 DEF Heard, Entered, Sig
    <2>3. /\ conf' = [conf EXCEPT !.price = "priceFinal"] /\ queue' = Tail(queue)
          /\ UNCHANGED <<status, product, tasks, deleteTasks, reason, completed>>
      BY <1>1, <1>2, <2>2, LeavingPriceOff
    <2>4. conf'.price = "priceFinal" /\ conf'.usage = conf.usage /\ conf'.payment = conf.payment
      BY <1>1, <2>3 DEF WellFormed, Configurations
    <2>5. queue' = <<>> \/ Head(queue') = Resumption
      BY <2>1, <2>3, HeadsAndTails
    <2>6. Progress'
      BY <1>1, <2>1, <2>3, <2>4 DEF Progress, Rest
    <2>7. Priced' /\ Uncharged'
      <3>1. Priced'
        BY <1>1, <2>3, <2>4, <2>5, PricedStill DEF Tariffs, Resumption, Sig
      <3>2. Uncharged'
        BY <2>4, <2>5 DEF Uncharged, Resumption, Sig
      <3> QED BY <3>1, <3>2
    <2>8. Counted'
      <3>1. queue' \notin {<<Sig("commercial", "activation_completed")>>, <<Sig("trial", "trial_activation_completed")>>}
        BY <2>5, HeadsAndTails DEF Resumption, Sig
      <3> QED BY <1>1, <2>3, <2>4, <3>1 DEF Counted
    <2> QED BY <1>1, <1>2, <2>3, <2>6, <2>7, <2>8 DEF Working
  <1>3. CASE queue = <<Resumption>> /\ conf.price = "priceFinal"
    <2>1. Heard("suspended", "resume_tarification") /\ Tail(queue) = <<>>
      BY <1>3, HeadsAndTails DEF Heard, Resumption, Sig
    <2>2. Drop
      <3>1. (\A to : ~PaymentMoved(to)) /\ (\A to : ~UsageMoved(to)) /\ (\A to : ~PriceMoved(to))
        BY <1>3, <2>1 DEF PaymentMoved, PriceMoved, UsageMoved, PaymentMove, PriceMove, UsageMove, Heard
      <3>2. ~ProvisionStep /\ ~LeaveStep
        BY <1>1, <2>1, HeadsHeard DEF Heard
      <3> QED BY <1>1, <3>1, <3>2, MachineSteps
    <2>3. TestReason = NoError
      BY <2>1, Untested DEF Heard
    <2>4. queue' = <<>> /\ UNCHANGED <<conf, status, product, tasks, deleteTasks, reason, completed>>
      BY <1>1, <2>1, <2>2, <2>3 DEF Drop, Later
    <2>5. Progress' /\ Priced' /\ Counted' /\ Uncharged'
      BY <1>1, <1>3, <2>4, PricedStill DEF Progress, Rest, Counted, Uncharged
    <2> QED BY <2>4, <2>5 DEF Working
  <1> QED BY <1>1, <1>2, <1>3 DEF Rest

-----------------------------------------------------------------------------
(* The steps of the machine. *)

\* A test reports an error on two of the caller's events only, and on the second for want of a price.
LEMMA FailedTest ==
  ASSUME Progress, Priced, queue # <<>>, TestReason # NoError
  PROVE  /\ Single /\ ~completed /\ conf.usage \notin Disconnecting
         /\ \/ Heard("machine", "change_price")
            \/ Heard("machine", "prolong_completed") /\ ~HasPrice(product)
            \/ Heard("priceNotChanged", "change_price_completed") /\ ~HasPrice(product)
  <1>1. \/ Heard("machine", "change_price")
        \/ Heard("machine", "prolong_completed") /\ ~HasPrice(product)
        \/ Heard("priceNotChanged", "change_price_completed") /\ ~HasPrice(product)
    BY Untested
  <1>2. Head(queue).sender \in {"machine", "priceNotChanged"}
    BY <1>1 DEF Heard
  <1>3. ~Replaying /\ ~Closing /\ ~Starting
    BY <1>2, HeadsAndTails DEF Replaying, Closing, Starting, Entered, Sig
  <1>4. ~Rest
    BY <1>2, HeadsAndTails DEF Rest, Entered, Resumption, Sig
  <1>5. ~Ending
    BY <1>2, HeadsAndTails DEF Ending, Sig
  <1> QED BY <1>1, <1>3, <1>4, <1>5 DEF Progress

\* Where the machine is to go on to after an error, if it goes on at all: to priceChanged.
LEMMA PassesOnlyOnce ==
  ASSUME MachineTypeOK, MachineTypeOK', Progress, Priced, TestReason # NoError, MachineStep
  PROVE  Drop \/ /\ Heard("machine", "change_price") /\ nextPrice = NoPrice
                 /\ conf.price = "priceChanging" /\ PriceMoved("priceChanged")
  <1>1. WellFormed(conf) /\ queue # <<>>
    BY MachineSteps DEF MachineTypeOK
  <1>2. \/ Heard("machine", "change_price")
        \/ Heard("machine", "prolong_completed") /\ ~HasPrice(product)
        \/ Heard("priceNotChanged", "change_price_completed") /\ ~HasPrice(product)
    BY <1>1, FailedTest
  <1>3. ~ProvisionStep /\ ~LeaveStep
    <2>1. ASSUME NEW t \in TopTransitions, EventTest(t) PROVE FALSE
      BY <1>1, <1>2, <2>1, TopKinds DEF Heard
    <2> QED BY <2>1 DEF ProvisionStep, LeaveStep
  <1>4. ~PaymentStep
    <2>1. \A to : ~PaymentMoved(to)
      BY <1>2 DEF PaymentMoved, PaymentMove, Heard
    <2>2. ASSUME NEW t \in PaymentTransitions, Microstep(conf.payment, t) PROVE PaymentMove(conf.payment, Descend(t.target))
      BY <1>1, <2>2, DoesStep, Sources, PaymentMoves
    <2>3. ASSUME NEW t \in PaymentTransitions, Microstep(conf.payment, t),
                 conf' = [conf EXCEPT !.payment = Descend(t.target)]
          PROVE  PaymentMoved(Descend(t.target))
      BY <2>2, <2>3, DoesStep DEF PaymentMoved
    <2> QED BY <2>1, <2>3 DEF PaymentStep
  <1>5. ~UsageStep
    <2>1. ASSUME NEW t \in UsageTransitions, EventTest(t) PROVE FALSE
      <3>1. Heard(t.sender, t.value) /\ Guard(t.guard, conf, product, nextPrice)
        BY <2>1 DEF EventTest, Triggered, Heard
      <3>2. t.guard \in {"priceIsActive", "priceIsTrial"} /\ ~HasPrice(product)
        BY <1>2, <3>1 DEF UsageTransitions, UsageClosing, T, On, From, Heard
      <3> QED BY <3>1, <3>2 DEF Guard
    <2> QED BY <2>1, DoesStep DEF UsageStep
  <1>6. ASSUME PriceStep
        PROVE  /\ Heard("machine", "change_price") /\ nextPrice = NoPrice
               /\ conf.price = "priceChanging" /\ PriceMoved("priceChanged")
    <2>1. PICK t \in PriceTransitions : /\ conf' = [conf EXCEPT !.price = Descend(t.target)]
                                        /\ Microstep(conf.price, t)
      BY <1>6 DEF PriceStep
    <2>2. EventTest(t) /\ Does(conf.price, Descend(t.target)) /\ PriceMove(conf.price, Descend(t.target))
      BY <1>1, <2>1, DoesStep, Sources, PriceMoves
    <2>3. Heard(t.sender, t.value) /\ Guard(t.guard, conf, product, nextPrice)
      BY <2>2 DEF EventTest, Triggered, Heard
    <2>4. Heard("machine", "change_price") /\ conf.price = "priceChanging" /\ Descend(t.target) = "priceChanged"
      <3>1. conf.price = "priceNotChanged" => HasPrice(product)
        BY DEF Priced
      <3> QED BY <1>2, <2>2, <3>1 DEF PriceMove, Heard
    <2>5. t.guard = "pricesDiffer"
      BY <2>3, <2>4 DEF PriceTransitions, PriceClosing, T, On, From, Heard
    <2>6. nextPrice = NoPrice
      <3>1. SUFFICES ASSUME nextPrice # NoPrice PROVE FALSE
        OBVIOUS
      <3>2. ~PricesEqual(product, nextPrice) /\ HasPrice(product)
        BY <2>3, <2>4, <2>5 DEF Guard, Priced
      <3>3. PricesEqualReason(product, nextPrice) = NoError
        BY <3>1, <3>2 DEF PricesEqualReason
      <3> QED BY <2>4, <3>2, <3>3, Untested
    <2> QED BY <2>1, <2>2, <2>4, <2>6 DEF PriceMoved
  <1> QED BY <1>3, <1>4, <1>5, <1>6 DEF MachineStep

\* What is done on an error: the event is forgotten, or the change of the price is ordered in spite of it.
LEMMA FailedStep ==
  ASSUME MachineTypeOK, MachineTypeOK', Progress, Priced, Counted, Uncharged,
         reason = TestReason, reason # NoError, MachineStep
  PROVE  /\ Working'
         /\ UNCHANGED <<status, product, deleteTasks>>
         /\ UNCHANGED <<conf, tasks>> \/ PassesInSpite
  <1>1. /\ WellFormed(conf) /\ WellFormed(conf)' /\ queue # <<>> /\ calling # Idle
        /\ product \in Products /\ nextPrice \in Prices \cup {NoPrice} /\ completed \in BOOLEAN
        /\ tasks \in Seq(Tasks) /\ deleteTasks \in Seq(TimerEvents)
    BY MachineSteps DEF MachineTypeOK
  <1>2. /\ Single /\ ~completed /\ conf.usage \notin Disconnecting /\ conf.usage # "usageFinal"
        /\ Head(queue).sender \in {"machine", "priceNotChanged"}
    BY <1>1, FailedTest DEF Heard, Disconnecting
  <1>3. /\ Tail(queue) = <<>> /\ queue = <<Head(queue)>> /\ conf.price # "priceOff"
        /\ Head(queue) = Sig(Head(queue).sender, Head(queue).value)
        /\ queue \notin {<<>>, <<LateResume>>, <<Resumption>>}
    <2>1. /\ Tail(queue) = <<>> /\ queue = <<Head(queue)>> /\ conf.price # "priceOff"
          /\ Head(queue) = Sig(Head(queue).sender, Head(queue).value)
      BY <1>1, <1>2, HeadKnown, HeadsAndTails DEF Single
    <2>2. Head(<<LateResume>>).sender = "notPaid" /\ Head(<<Resumption>>).sender = "suspended"
      BY HeadsAndTails DEF LateResume, Resumption, Sig
    <2> QED BY <1>1, <1>2, <2>1, <2>2
  <1>4. PaymentClosed(conf) => conf.price \in {"priceOff", "priceFinal", "priceOnEntry"}
    BY <1>2 DEF Uncharged, Sig
  <1>5. CASE Drop
    <2>1. queue' = <<>> /\ UNCHANGED <<conf, status, product, tasks, deleteTasks, completed>> /\ reason' # NoError
      BY <1>3, <1>5 DEF Drop, Later
    <2>2. Progress' /\ Priced' /\ Counted'
      BY <1>2, <1>3, <2>1, NothingLeft, PricedStill DEF Counted
    <2>3. Uncharged'
      BY <1>4, <2>1 DEF Uncharged
    <2> QED BY <2>1, <2>2, <2>3 DEF Working
  <1>6. CASE /\ Heard("machine", "change_price") /\ nextPrice = NoPrice
             /\ conf.price = "priceChanging" /\ PriceMoved("priceChanged")
    <2> DEFINE from == "priceChanging"
               to   == "priceChanged"
    <2>1. /\ Does(from, to) /\ conf' = [conf EXCEPT !.price = to]
          /\ conf'.price = to /\ conf'.usage = conf.usage /\ conf'.payment = conf.payment
      BY <1>1, <1>6 DEF PriceMoved, WellFormed, Configurations
    <2>2. /\ Has(Exit(from), <<>>, <<>>, <<>>, product, FALSE)
          /\ Has(Entry(from, to), <<>>, <<"CHANGE_PRICE">>, <<>>, product, TRUE)
      <3>1. Has(Exit(from), <<>>, <<>>, <<>>, product, FALSE)
        BY Exits DEF Exit
      <3>2. Exit(from).product = product
        BY <3>1 DEF Has
      <3>3. Has(OnEntry(to, Head(queue), product), <<>>, <<"CHANGE_PRICE">>, <<>>, product, TRUE)
        BY PriceEntries
      <3> QED BY <3>1, <3>2, <3>3 DEF Entry
    <2>3. /\ status' = status /\ product' = product /\ completed'
          /\ tasks' = Append(tasks, "CHANGE_PRICE") /\ deleteTasks' = deleteTasks
      <3>1. /\ tasks' = tasks \o <<>> \o <<"CHANGE_PRICE">> /\ deleteTasks' = deleteTasks \o <<>> \o <<>>
            /\ product' = product /\ completed' /\ status' = StatusOnEntry(to, status)
        BY <2>1, <2>2 DEF Does, Has
      <3>2. tasks \o <<>> = tasks /\ deleteTasks \o <<>> = deleteTasks
        BY <1>1, ConcatEmptySeq
      <3>3. tasks \o <<"CHANGE_PRICE">> = Append(tasks, "CHANGE_PRICE")
        BY <1>1, AppendIsConcat DEF Tasks, Orders
      <3>4. StatusOnEntry(to, status) = status
        BY DEF StatusOnEntry
      <3> QED BY <3>1, <3>2, <3>3, <3>4
    <2>4. Leads(<<>>, product, TRUE)
      <3>1. Work(from, to, <<>>, <<>>, product, TRUE)
        BY <2>2 DEF Work, Has
      <3>2. to \notin SignalsWhenEntered
        BY DEF SignalsWhenEntered
      <3> QED BY <1>1, <1>2, <1>3, <2>1, <3>1, <3>2, WorkLeads
    <2>5. Progress'
      BY <1>2, <2>1, <2>4, NothingLeft DEF Leads
    <2>6. Priced'
      BY <1>6, <2>3, PricedAnyhow DEF Priced
    <2>7. Counted'
      BY <1>3, <2>1, <2>4 DEF Leads, Counted
    <2>8. Uncharged'
      BY <1>4, <1>6, <2>1, <2>4 DEF Leads, Uncharged, PaymentClosed
    <2>9. PassesInSpite
      BY <1>3, <1>6, <2>1, <2>3 DEF PassesInSpite, Heard
    <2> QED BY <2>3, <2>4, <2>5, <2>6, <2>7, <2>8, <2>9 DEF Working, Leads
  <1> QED BY <1>5, <1>6, PassesOnlyOnce

\* A handler that fails asks for no task.
LEMMA FailingHandlers ==
  ASSUME MachineTypeOK, MachineTypeOK', Priced, reason = TestReason, reason = NoError, reason' # NoError,
         MachineStep
  PROVE  UNCHANGED <<tasks, deleteTasks>>
  <1>1. /\ WellFormed(conf) /\ queue # <<>> /\ product \in Products /\ nextPrice \in Prices \cup {NoPrice}
        /\ tasks \in Seq(Tasks) /\ deleteTasks \in Seq(TimerEvents)
    BY MachineSteps DEF MachineTypeOK
  <1>2. ~Drop /\ ~ProvisionStep /\ ~LeaveStep
    BY DEF Drop, ProvisionStep, LeaveStep, Later
  <1>3. ASSUME NEW to \in PaymentLeaves, PaymentMoved(to) PROVE FALSE
    <2>1. Does(conf.payment, to) /\ conf.payment # "priceChanged"
      BY <1>3 DEF PaymentMoved, PaymentMove, PaymentOn, Heard
    <2>2. to \notin {"priceChanging", "suspending", "prolongation", "commercial", "trial"}
      BY DEF PaymentLeaves, PaymentOn, PaymentOff
    <2> QED BY <2>1, <2>2, ReasonAfter
  <1>4. ASSUME NEW to \in UsageLeaves, UsageMoved(to) PROVE FALSE
    <2>1. Does(conf.usage, to) /\ UsageMove(conf.usage, to) /\ conf.usage # "priceChanged"
      BY <1>4 DEF UsageMoved, UsageMove, UsageOn, Activated, Heard
    <2>2. reason' = Entry(conf.usage, to).reason /\ to \in {"suspending", "prolongation"}
      <3>1. to \notin {"priceChanging", "commercial", "trial"}
        BY DEF UsageLeaves, UsageOn, UsageOff, Activated
      <3> QED BY <2>1, <3>1, ReasonAfter
    <2>3. Head(queue).sender = "waitingPayment" /\ conf.usage # "suspended"
      BY <2>1, <2>2 DEF UsageMove, Heard, Activated
    <2>4. Exit(conf.usage).product = product
      BY <2>1, <2>2, ExitsOf DEF Has, UsageMove, Heard, Activated
    <2>5. HasPrice(product)
      BY <1>1, <2>3 DEF Priced
    <2>6. Entry(conf.usage, to).reason = NoError
      BY <2>2, <2>4, <2>5 DEF Entry, OnEntry, SuspendingOnEntry, ProlongationOnEntry, CurrentPriceReason, Emits,
         Nothing, CreatesAndCompletes
    <2> QED BY <2>2, <2>6
  <1>5. ASSUME NEW to \in PriceLeaves, PriceMoved(to) PROVE UNCHANGED <<tasks, deleteTasks>>
    <2> DEFINE from == conf.price
    <2>1. Does(from, to) /\ PriceMove(from, to)
      BY <1>5 DEF PriceMoved
    <2>2. /\ Exit(from).create = <<>> /\ Exit(from).delete = <<>> /\ Exit(from).reason = NoError
          /\ from # "priceChanged" => Exit(from).product = product
      <3>1. CASE from = "priceChanged"
        BY <2>1, <3>1 DEF PriceMove, Heard, Exit, OnExit, PriceChangedOnExit, Nothing
      <3>2. CASE from # "priceChanged"
        <4>1. from \in PriceOn \cup {"priceOff"}
          BY <2>1 DEF PriceMove, PriceOn, Heard
        <4>2. Has(Exit(from), <<>>, <<>>, <<>>, product, FALSE)
          BY <3>2, <4>1, ExitsOf DEF PriceOn
        <4>3. Exit(from).reason = NoError
          BY <3>2, FailingExits DEF Exit
        <4> QED BY <3>2, <4>2, <4>3 DEF Has
      <3> QED BY <3>1, <3>2
    <2>3. reason' = Entry(from, to).reason
      BY <2>1, <2>2 DEF Does, Later
    <2>4. to \in {"commercial", "trial"}
      <3>1. to = "priceChanging" => from \in {"commercial", "trial"} /\ HasPrice(Exit(from).product)
        BY <2>1, <2>2 DEF PriceMove, Heard, Priced
      <3>2. to \notin {"suspending", "prolongation"}
        BY DEF PriceLeaves, PriceOn
      <3> QED BY <2>3, <3>1, <3>2, FailingEntries DEF Entry
    <2>5. Entry(from, to).create = <<>> /\ Entry(from, to).delete = <<>>
      BY <2>3, <2>4 DEF Entry, OnEntry, CommercialOnEntry, TrialOnEntry, Fails, Nothing
    <2>6. tasks' = tasks \o <<>> \o <<>> /\ deleteTasks' = deleteTasks \o <<>> \o <<>>
      BY <2>1, <2>2, <2>5 DEF Does
    <2>7. tasks \o <<>> = tasks /\ deleteTasks \o <<>> = deleteTasks
      BY <1>1, ConcatEmptySeq
    <2> QED BY <2>6, <2>7
  <1> QED BY <1>1, <1>2, <1>3, <1>4, <1>5, MachineSteps

\* Each step of the machine is taken on what its conditions have reported.
LEMMA WorkingStep ==
  ASSUME MachineTypeOK, MachineTypeOK', Progress, Priced, Counted, Uncharged, reason = TestReason, MachineStep
  PROVE  Working'
  <1>1. calling # Idle /\ queue # <<>>
    BY MachineSteps DEF MachineTypeOK
  <1>2. CASE reason # NoError
    BY <1>2, FailedStep
  <1>3. CASE reason = NoError /\ completed
    BY <1>3, AfterCompletion DEF Working
  <1>4. CASE reason = NoError /\ ~completed /\ conf.usage \in Disconnecting
    BY <1>1, <1>4, EndingStep DEF Working
  <1>5. CASE reason = NoError /\ ~completed /\ conf.usage \notin Disconnecting
    <2>1. UnderWay
      BY <1>1, <1>5 DEF UnderWay, Working
    <2>2. Single \/ Replaying \/ Closing \/ Starting
      BY <1>1, <1>5 DEF Progress
    <2> QED BY <2>1, <2>2, SingleStep, ReplayingStep, ClosingStep, StartingStep
  <1> QED BY <1>2, <1>3, <1>4, <1>5

-----------------------------------------------------------------------------
(* What is stored can be loaded. *)

\* The composite states.
LEMMA Parents ==
  /\ \A s \in TopStates : Parent(s) = "machine"
  /\ \A s \in UsageLeaves \ Disconnecting : Parent(s) \in {"activated", "usageOn", "usageOff"}
  /\ \A s \in PaymentLeaves : Parent(s) \in {"payment", "paymentOn", "paymentOff"}
  /\ \A s \in PriceLeaves : Parent(s) \in {"price", "priceOn"}
  <1> USE DEF Activated, UsageOn, UsageOff, PaymentOn, PaymentOff, PriceOn, TopStates
  <1>1. \A s \in TopStates : Parent(s) = "machine"
    BY DEF Parent
  <1>2. \A s \in UsageLeaves \ Disconnecting : Parent(s) \in {"activated", "usageOn", "usageOff"}
    BY DEF Parent, UsageLeaves, Disconnecting
  <1>3. \A s \in PaymentLeaves : Parent(s) \in {"payment", "paymentOn", "paymentOff"}
    BY DEF Parent, PaymentLeaves
  <1>4. \A s \in PriceLeaves : Parent(s) \in {"price", "priceOn"}
    BY DEF Parent, PriceLeaves
  <1> QED BY <1>1, <1>2, <1>3, <1>4

\* Where the machine starts in them, and in a leaf.
LEMMA InitialLeaves ==
  /\ \A s \in UsageLeaves \cup PaymentLeaves \cup PriceLeaves \cup {NoLeaf} : InitialLeaf(s) = s
  /\ \A s \in {"activated", "usageOn", "usageOff"} : InitialLeaf(s) \in {"activatedEntry", "pendingDisconnect"}
  /\ \A s \in {"payment", "paymentOn", "paymentOff"} : InitialLeaf(s) \in {"paymentOnEntry", "paymentStopping"}
  /\ \A s \in {"price", "priceOn"} : InitialLeaf(s) = "priceOnEntry"
  <1>1. \A s \in UsageLeaves \cup {NoLeaf} : InitialLeaf(s) = s
    BY DEF InitialLeaf, UsageLeaves, UsageOn, UsageOff, Activated, NoLeaf
  <1>2. \A s \in PaymentLeaves \cup PriceLeaves : InitialLeaf(s) = s
    BY DEF InitialLeaf, PaymentLeaves, PriceLeaves, PaymentOn, PaymentOff, PriceOn
  <1>3. \A s \in {"activated", "usageOn", "usageOff"} : InitialLeaf(s) \in {"activatedEntry", "pendingDisconnect"}
    BY DEF InitialLeaf
  <1>4. \A s \in {"payment", "paymentOn", "paymentOff"} : InitialLeaf(s) \in {"paymentOnEntry", "paymentStopping"}
    BY DEF InitialLeaf
  <1>5. \A s \in {"price", "priceOn"} : InitialLeaf(s) = "priceOnEntry"
    BY DEF InitialLeaf
  <1> QED BY <1>1, <1>2, <1>3, <1>4, <1>5

\* A configuration with a leaf for each region is loaded as it is.
LEMMA LoadedWhole ==
  ASSUME NEW c, WellFormed(c) PROVE Loaded(c) = {c}
  <1>1. /\ c \in Configurations /\ c.top # "machine"
        /\ c.usage \in UsageLeaves \cup {NoLeaf} /\ c.payment \in PaymentLeaves \cup {NoLeaf}
        /\ c.price \in PriceLeaves \cup {NoLeaf}
    BY DEF WellFormed, Configurations, TopStates
  <1>2. InitialLeaf(c.usage) = c.usage /\ InitialLeaf(c.payment) = c.payment /\ InitialLeaf(c.price) = c.price
    BY <1>1, InitialLeaves
  <1>3. [c EXCEPT !.usage = InitialLeaf(@), !.payment = InitialLeaf(@), !.price = InitialLeaf(@)] = c
    BY <1>1, <1>2 DEF Configurations
  <1> QED BY <1>1, <1>3 DEF Loaded

\* A table that names no state leaves the machine in any of its top states.
LEMMA LoadedEmpty ==
  ASSUME NEW c, c.top = "machine", NEW p, p.tarificationPeriod >= 0,
         p.tarificationPeriod >= 1 => HasPrice(p), NEW d \in Loaded(c)
  PROVE  Storable(d, p)
  <1>1. \/ \E top \in TopStates \ {"productProvision"} : d = Outside(top)
        \/ d = DefaultProvision
    BY DEF Loaded
  <1>2. ASSUME NEW top \in TopStates \ {"productProvision"}, d = Outside(top) PROVE Storable(d, p)
    BY <1>2 DEF Storable, Outside, WellFormed, Configurations, NoLeaf, Disconnecting, PaymentClosed, PriceOn
  <1>3. CASE d = DefaultProvision
    BY <1>3 DEF Storable, DefaultProvision, WellFormed, Configurations, NoLeaf, Disconnecting, PaymentClosed,
       UsageLeaves, UsageOn, Activated, PaymentLeaves, PaymentOn, PriceLeaves, PriceOn, TopStates
  <1> QED BY <1>1, <1>2, <1>3

\* A region without its leaf starts over, in a state the machine can be loaded into.
LEMMA LoadedPart ==
  ASSUME NEW c, WellFormed(c), c.top = "productProvision", c.usage \notin Disconnecting, NEW p, Storable(c, p),
         NEW region \in {"usage", "payment", "price"},
         NEW d \in Loaded([c EXCEPT ![region] = Parent(@)])
  PROVE  Storable(d, p)
  <1> DEFINE s == [c EXCEPT ![region] = Parent(@)]
  <1>1. /\ c \in Configurations
        /\ c.usage \in UsageLeaves /\ c.payment \in PaymentLeaves /\ c.price \in PriceLeaves
        /\ InitialLeaf(c.usage) = c.usage /\ InitialLeaf(c.payment) = c.payment /\ InitialLeaf(c.price) = c.price
    BY InitialLeaves DEF WellFormed, Configurations
  <1>2. d = [s EXCEPT !.usage = InitialLeaf(@), !.payment = InitialLeaf(@), !.price = InitialLeaf(@)]
    BY <1>1 DEF Loaded, Configurations
  <1>3. ASSUME region = "usage", NEW leaf, leaf = InitialLeaf(Parent(c.usage)) PROVE Storable(d, p)
    <2>1. leaf \in {"activatedEntry", "pendingDisconnect"}
      BY <1>1, <1>3, Parents, InitialLeaves
    <2>2. d = [c EXCEPT !.usage = leaf]
      BY <1>1, <1>2, <1>3 DEF Configurations
    <2> QED BY <1>1, <2>1, <2>2 DEF Storable, WellFormed, Configurations, Disconnecting, PaymentClosed, UsageLeaves,
             UsageOn, UsageOff, Activated, NoLeaf
  <1>4. ASSUME region = "payment", NEW leaf, leaf = InitialLeaf(Parent(c.payment)) PROVE Storable(d, p)
    <2>1. leaf \in {"paymentOnEntry", "paymentStopping"}
      BY <1>1, <1>4, Parents, InitialLeaves
    <2>2. d = [c EXCEPT !.payment = leaf]
      BY <1>1, <1>2, <1>4 DEF Configurations
    <2> QED BY <1>1, <2>1, <2>2 DEF Storable, WellFormed, Configurations, PaymentClosed, PaymentLeaves,
             PaymentOn, PaymentOff, NoLeaf
  <1>5. ASSUME region = "price", NEW leaf, leaf = InitialLeaf(Parent(c.price)) PROVE Storable(d, p)
    <2>1. leaf = "priceOnEntry"
      BY <1>1, <1>5, Parents, InitialLeaves
    <2>2. d = [c EXCEPT !.price = leaf]
      BY <1>1, <1>2, <1>5 DEF Configurations
    <2> QED BY <1>1, <2>1, <2>2 DEF Storable, WellFormed, Configurations, PaymentClosed, PriceLeaves,
             PriceOn, NoLeaf
  <1> QED BY <1>3, <1>4, <1>5

\* What is stored on transitionCompleted can be loaded, wherever the machine is by then.
LEMMA SeenStorable ==
  ASSUME MachineTypeOK, EnteringOK, Progress, Priced, Counted, Uncharged, completed, reason = NoError
  PROVE  /\ \A c \in Loaded(Seen) : Storable(c, product)
         /\ Seen.payment \in {"paid", "waitingPayment"} => product.tarificationPeriod >= 1
         /\ Seen \in Configurations => Seen = conf
  <1>1. /\ WellFormed(conf) /\ conf \in Configurations /\ conf.usage \notin Disconnecting
        /\ Rest /\ conf.top \in TopStates
    BY DEF MachineTypeOK, WellFormed, Configurations, Progress
  <1>2. /\ product.tarificationPeriod >= 0
        /\ conf.payment \in {"paid", "waitingPayment"} => product.tarificationPeriod >= 1
        /\ product.tarificationPeriod >= 1 => HasPrice(product)
        /\ conf.price \in PriceOn \ {"priceOnEntry"} => HasPrice(product)
    BY <1>1 DEF Counted, Priced, PriceOn
  <1>3. queue # <<>> => Head(queue) \in {Entered, Resumption}
    <2>1. queue \in {<<>>, <<Entered>>, <<Entered, Resumption>>, <<Resumption>>}
      BY <1>1 DEF Rest
    <2> QED BY <2>1, HeadsAndTails
  <1>4. Storable(conf, product)
    BY <1>1, <1>2, <1>3 DEF Storable, Uncharged, Entered, Resumption, Sig
  <1>5. CASE entering = NoRegion
    BY <1>1, <1>2, <1>4, <1>5, LoadedWhole DEF Seen
  <1>6. CASE entering = "top"
    <2>1. Seen = [conf EXCEPT !.top = "machine"]
      BY <1>1, <1>6, Parents DEF Seen, NoRegion
    <2>2. Seen.top = "machine" /\ Seen.payment = conf.payment /\ "machine" \notin TopStates
      BY <1>1, <2>1 DEF Configurations, TopStates
    <2>3. \A c \in Loaded(Seen) : Storable(c, product)
      BY <1>2, <2>2, LoadedEmpty
    <2> QED BY <1>2, <2>2, <2>3 DEF Configurations
  <1>7. ASSUME NEW region \in {"usage", "payment", "price"}, entering = region
        PROVE  /\ \A c \in Loaded(Seen) : Storable(c, product)
               /\ Seen.payment \in {"paid", "waitingPayment"} => product.tarificationPeriod >= 1
               /\ Seen \in Configurations => Seen = conf
    <2>1. Seen = [conf EXCEPT ![region] = Parent(@)] /\ conf.top = "productProvision"
      BY <1>7 DEF Seen, NoRegion, EnteringOK
    <2>2. \A c \in Loaded(Seen) : Storable(c, product)
      BY <1>1, <1>4, <2>1, LoadedPart
    <2>3. /\ conf.usage \in UsageLeaves \ Disconnecting /\ conf.payment \in PaymentLeaves
          /\ conf.price \in PriceLeaves
      BY <1>1, <2>1 DEF WellFormed, Configurations
    <2>4. /\ Parent(conf.usage) \in {"activated", "usageOn", "usageOff"}
          /\ Parent(conf.payment) \in {"payment", "paymentOn", "paymentOff"}
          /\ Parent(conf.price) \in {"price", "priceOn"}
      BY <2>3, Parents
    <2>5. /\ {"activated", "usageOn", "usageOff"} \cap (UsageLeaves \cup {NoLeaf}) = {}
          /\ {"payment", "paymentOn", "paymentOff"} \cap (PaymentLeaves \cup {NoLeaf}) = {}
          /\ {"price", "priceOn"} \cap (PriceLeaves \cup {NoLeaf}) = {}
      BY DEF UsageLeaves, UsageOn, UsageOff, Activated, PaymentLeaves, PaymentOn, PaymentOff, PriceLeaves, PriceOn,
         NoLeaf
    <2>6. Seen[region] = Parent(conf[region])
      BY <1>1, <2>1 DEF Configurations
    <2>7. Seen \notin Configurations
      BY <1>7, <2>4, <2>5, <2>6 DEF Configurations
    <2>8. Seen.payment = conf.payment \/ Seen.payment \in {"payment", "paymentOn", "paymentOff"}
      BY <1>1, <2>1, <2>4 DEF Configurations
    <2> QED BY <1>2, <2>2, <2>7, <2>8
  <1> QED BY <1>5, <1>6, <1>7 DEF EnteringOK

-----------------------------------------------------------------------------
(* AnswerInv is inductive. *)

\* It holds of a product that has not been activated.
LEMMA StartsInv == AnswerInit => AnswerInv
  <1> SUFFICES ASSUME AnswerInit PROVE AnswerInv
    OBVIOUS
  <1>1. MachineTypeOK /\ WellFormed(conf)
    BY InitType DEF AnswerInit, TypeOK, MachineTypeOK
  <1>2. /\ saved = [conf |-> conf, status |-> status, product |-> product]
        /\ conf = Outside("pendingActivate") /\ product.tarificationPeriod = 0 /\ product \in Products
        /\ status \in Statuses
        /\ queue = <<>> /\ calling = Idle /\ entering = NoRegion /\ answered = Not /\ tested = FALSE
    BY <1>1 DEF AnswerInit, Init, MachineTypeOK
  <1>3. Storable(conf, product)
    BY <1>1, <1>2 DEF Storable, Outside, Disconnecting, PaymentClosed, NoLeaf, PriceOn
  <1>4. \A c \in Loaded(conf) : Storable(c, product)
    BY <1>1, <1>3, LoadedWhole
  <1>5. /\ saved = [conf |-> saved.conf, status |-> saved.status, product |-> saved.product]
        /\ saved.conf = conf /\ saved.status = status /\ saved.product = product
    BY <1>2
  <1>6. conf.payment = "none"
    BY <1>2 DEF Outside, NoLeaf
  <1>7. SavedOK
    BY <1>2, <1>4, <1>5, <1>6 DEF SavedOK
  <1> QED BY <1>1, <1>2, <1>7 DEF AnswerInv, EnteringOK, TestedOK, NoRegion

\* A product is loaded, and the caller's event follows what its states say when they are entered.
LEMMA SendLoadedInv ==
  ASSUME AnswerInv, NEW e \in Events, NEW next \in NextPricesFor(e), SendLoaded(e, next)
  PROVE  AnswerInv'
  <1>1. /\ calling = Idle /\ calling' = e /\ nextPrice' = next /\ product' = saved.product
        /\ tasks' = <<>> /\ deleteTasks' = <<>> /\ hasTransition' = FALSE /\ completed' = FALSE
        /\ reason' = NoError /\ UNCHANGED <<saved, timers, tested, entering, answered>>
        /\ conf' \in Loaded(saved.conf)
        /\ status' = StatusLoaded([saved EXCEPT !.conf = conf'])
        /\ queue' = Replayed(conf') \o <<Sig("machine", e)>>
    BY DEF SendLoaded, Call, Sig
  <1>2. SavedOK /\ EnteringOK /\ entering = NoRegion /\ answered = Not /\ tested = FALSE
    BY <1>1 DEF AnswerInv, TestedOK
  <1>3. Storable(conf', product') /\ product' \in Products
    BY <1>1, <1>2 DEF SavedOK
  <1>4. /\ WellFormed(conf') /\ conf' \in Configurations /\ conf'.usage \notin Disconnecting
        /\ conf'.price \in PriceOn \ {"priceOnEntry"} => HasPrice(product')
        /\ product'.tarificationPeriod >= 1 => HasPrice(product')
        /\ PaymentClosed(conf') => conf'.price \in {"priceOff", "priceFinal", "priceOnEntry"}
        /\ product'.tarificationPeriod >= 0
        /\ conf'.payment \in {"paid", "waitingPayment"} => product'.tarificationPeriod >= 1
    BY <1>3 DEF Storable, WellFormed
  <1>5. Idle # e
    BY DEF Idle, Events, MachineEvents
  <1>6. Replayed(conf') = IF conf'.price = "priceOff" THEN <<Entered>> ELSE <<>>
    <2>1. EnteredSignal(conf'.usage) = <<>>
      <3>1. conf'.usage \notin SignalsWhenEntered
        <4>1. conf'.usage \in UsageLeaves \cup {NoLeaf}
          BY <1>4 DEF Configurations
        <4> QED BY <1>4, <4>1 DEF Disconnecting, SignalsWhenEntered, UsageLeaves, UsageOn, UsageOff, Activated, NoLeaf
      <3> QED BY <3>1, SmallSignals DEF EnteredSignal
    <2>2. EnteredSignal(conf'.price) = IF conf'.price = "priceOff" THEN <<Entered>> ELSE <<>>
      <3>1. conf'.price \in SignalsWhenEntered <=> conf'.price = "priceOff"
        <4>1. conf'.price \in PriceLeaves \cup {NoLeaf}
          BY <1>4 DEF Configurations
        <4> QED BY <4>1 DEF SignalsWhenEntered, PriceLeaves, PriceOn, NoLeaf
      <3> QED BY <3>1, SmallSignals DEF EnteredSignal, Entered
    <2> QED BY <2>1, <2>2, Tuples DEF Replayed
  <1>7. /\ conf'.price = "priceOff" => queue' = <<Entered, Sig("machine", e)>>
        /\ conf'.price # "priceOff" => queue' = <<Sig("machine", e)>>
    BY <1>1, <1>6, Tuples
  <1>8. queue' # <<>> /\ Head(queue') \in {Entered, Sig("machine", e)}
    <2>1. CASE conf'.price = "priceOff"
      BY <1>7, <2>1, HeadsAndTails
    <2>2. CASE conf'.price # "priceOff"
      BY <1>7, <2>2, HeadsAndTails
    <2> QED BY <2>1, <2>2
  <1>9. MachineTypeOK'
    <2>1. next \in Prices \cup {NoPrice}
      BY CatalogAssumption DEF NextPricesFor
    <2>2. queue' \in Seq(Signals)
      <3>1. Sig("machine", e) \in Signals /\ Entered \in Signals
        BY DEF Signals, Events, Sig, Entered, PriceLeaves, CascadeValues
      <3>2. ASSUME NEW x \in Signals, NEW y \in Signals PROVE <<x>> \in Seq(Signals) /\ <<x, y>> \in Seq(Signals)
        OBVIOUS
      <3> QED BY <1>7, <3>1, <3>2
    <2>3. status' \in Statuses
      <3>1. [saved EXCEPT !.conf = conf'].status = saved.status /\ [saved EXCEPT !.conf = conf'].conf = conf'
            /\ saved.status \in Statuses
        BY <1>2 DEF SavedOK
      <3> QED BY <1>1, <3>1, StatusType DEF StatusLoaded
    <2>4. tasks' \in Seq(Tasks) /\ deleteTasks' \in Seq(TimerEvents)
      BY <1>1, EmptySequences
    <2>5. WellFormed(conf)'
      BY <1>4 DEF WellFormed
    <2> QED BY <1>1, <1>3, <2>1, <2>2, <2>3, <2>4, <2>5 DEF MachineTypeOK
  <1>10. Progress'
    <2>1. CASE conf'.price = "priceOff"
      BY <1>1, <1>4, <1>7, <2>1 DEF Progress, Replaying
    <2>2. CASE conf'.price # "priceOff"
      BY <1>1, <1>4, <1>7, <2>2, OneLeft
    <2> QED BY <2>1, <2>2
  <1>11. Priced' /\ Uncharged'
    BY <1>4, <1>8 DEF Priced, PriceOn, Uncharged, Entered, Sig
  <1>12. Counted'
    <2>1. queue' \notin {<<Sig("commercial", "activation_completed")>>, <<Sig("trial", "trial_activation_completed")>>}
      BY <1>8, HeadsAndTails DEF Entered, Sig
    <2> QED BY <1>4, <2>1 DEF Counted
  <1>13. SavedOK' /\ EnteringOK' /\ TestedOK' /\ StoredIsClose'
    BY <1>1, <1>2 DEF SavedOK, EnteringOK, TestedOK, StoredIsClose, Not, Stored, NoRegion
  <1> QED BY <1>1, <1>5, <1>9, <1>10, <1>11, <1>12, <1>13 DEF AnswerInv

\* What has been reported of the head of the queue stays so while nothing is done about it.
LEMMA TestedKept ==
  ASSUME TestedOK, UNCHANGED <<conf, product, nextPrice, queue, reason, calling, tested, entering>>
  PROVE  TestedOK'
  BY DEF TestedOK, TestReason, Triggered, ActiveStates

\* The conditions are tested once.
LEMMA TestConditionsInv ==
  ASSUME AnswerInv, TestConditions PROVE AnswerInv'
  <1>1. /\ calling # Idle /\ queue # <<>> /\ entering = NoRegion /\ tested = FALSE /\ tested' = TRUE
        /\ reason' = Later(reason, TestReason)
        /\ UNCHANGED <<conf, status, product, nextPrice, queue, tasks, deleteTasks, hasTransition, completed,
                       calling, saved, timers, entering, answered>>
    BY DEF TestConditions, AnswerInv, TestedOK
  <1>2. /\ MachineTypeOK /\ SavedOK /\ EnteringOK /\ reason = NoError
        /\ Progress /\ Priced /\ Counted /\ Uncharged /\ StoredIsClose
    BY <1>1 DEF AnswerInv
  <1>3. reason' = TestReason /\ reason' \in Reasons
    BY <1>1, <1>2, TestReasonType DEF Later
  <1>4. TestReason' = TestReason
    BY <1>1 DEF TestReason, Triggered, ActiveStates
  <1>5. MachineTypeOK'
    BY <1>1, <1>2, <1>3 DEF MachineTypeOK, WellFormed, Reasons
  <1>6. SavedOK' /\ EnteringOK' /\ TestedOK' /\ StoredIsClose'
    BY <1>1, <1>2, <1>3, <1>4 DEF SavedOK, EnteringOK, TestedOK, StoredIsClose
  <1>7. Progress' /\ Priced' /\ Counted' /\ Uncharged'
    BY <1>1, <1>2 DEF Progress, Rest, Single, Replaying, Closing, Starting, Ending, Priced, Counted, Uncharged
  <1> QED BY <1>1, <1>5, <1>6, <1>7 DEF AnswerInv

\* A step of the machine, and the region whose new leaf is not active yet.
LEMMA RunHandlersInv ==
  ASSUME AnswerInv, RunHandlers PROVE AnswerInv'
  <1>1. /\ MachineStep /\ answered' = answered /\ tested' = FALSE
        /\ queue # <<>> /\ entering = NoRegion /\ reason = TestReason
    BY DEF RunHandlers, MachineStep, AnswerInv, TestedOK
  <1>2. MachineTypeOK /\ MachineTypeOK' /\ UNCHANGED <<calling, saved>> /\ WellFormed(conf) /\ WellFormed(conf)'
    BY <1>1, MachineKept DEF AnswerInv, MachineTypeOK
  <1>3. calling # Idle
    BY <1>1, <1>2, MachineSteps
  <1>4. Progress /\ Priced /\ Counted /\ Uncharged /\ StoredIsClose /\ SavedOK
    BY <1>3 DEF AnswerInv
  <1>5. Working'
    BY <1>1, <1>2, <1>4, WorkingStep
  <1>6. StoredIsClose'
    <2>1. SUFFICES ASSUME answered = Stored PROVE StoredIsClose'
      BY <1>1 DEF StoredIsClose
    <2>2. /\ completed
          /\ saved.conf \in Configurations =>
               \/ saved.conf = conf
               \/ saved.conf.price = "priceOff" /\ conf = [saved.conf EXCEPT !.price = "priceFinal"]
      BY <1>4, <2>1 DEF StoredIsClose
    <2>3. /\ completed'
          /\ \/ conf' = conf
             \/ conf.price = "priceOff" /\ conf' = [conf EXCEPT !.price = "priceFinal"]
      <3>1. Working
        BY <1>1, <1>4, <2>2, FailedTest DEF Working
      <3> QED BY <1>1, <1>2, <2>2, <3>1, AfterCompletion
    <2>4. saved.conf \in Configurations /\ conf = [saved.conf EXCEPT !.price = "priceFinal"] =>
            conf.price = "priceFinal"
      BY DEF Configurations
    <2> QED BY <1>2, <2>2, <2>3, <2>4 DEF StoredIsClose
  <1>7. SavedOK'
    BY <1>2, <1>4 DEF SavedOK
  <1>8. EnteringOK'
    <2>1. ASSUME NEW t \in PriceTransitions \cup UsageTransitions \cup PaymentTransitions, EventTest(t)
          PROVE  conf.top = "productProvision"
      BY <1>2, <2>1, Sources
    <2>2. PriceStep \/ UsageStep \/ PaymentStep => conf'.top = "productProvision"
      BY <1>2, <2>1 DEF PriceStep, UsageStep, PaymentStep, Microstep, MicrostepTo, WellFormed, Configurations
    <2>3. LeaveStep => conf'.top # "productProvision"
      BY <1>1, <1>2, HeadsHeard DEF Outside
    <2>4. \/ entering' \in {"price", "usage", "payment"} /\ (PriceStep \/ UsageStep \/ PaymentStep)
          \/ entering' = "top" /\ LeaveStep
          \/ entering' = NoRegion
      BY <1>1 DEF RunHandlers
    <2> QED BY <2>2, <2>3, <2>4 DEF EnteringOK, NoRegion
  <1>9. TestedOK'
    BY <1>1 DEF TestedOK
  <1> QED BY <1>2, <1>3, <1>5, <1>6, <1>7, <1>8, <1>9 DEF AnswerInv, Working

\* What the machine works on is not touched by its caller.
LEMMA WorkKept ==
  ASSUME UNCHANGED <<conf, product, queue, completed, reason, calling>>
  PROVE  (Progress /\ Priced /\ Counted /\ Uncharged)' <=> (Progress /\ Priced /\ Counted /\ Uncharged)
  BY DEF Progress, Rest, Single, Replaying, Closing, Starting, Ending, Priced, Counted, Uncharged

LEMMA TypeKept ==
  ASSUME MachineTypeOK, UNCHANGED <<work, nextPrice, calling>> PROVE MachineTypeOK'
  BY DEF MachineTypeOK, work, WellFormed

\* The state entered becomes active.
LEMMA BecomeActiveInv ==
  ASSUME AnswerInv, BecomeActive PROVE AnswerInv'
  <1>1. /\ UNCHANGED <<conf, status, product, nextPrice, queue, tasks, deleteTasks, hasTransition, completed,
                       reason, calling, saved, timers, answered>>
        /\ entering # NoRegion /\ entering' = NoRegion /\ tested' = tested
    BY DEF BecomeActive, vars
  <1>2. /\ calling # Idle /\ MachineTypeOK /\ SavedOK /\ StoredIsClose /\ tested = FALSE
        /\ Progress /\ Priced /\ Counted /\ Uncharged /\ (reason # NoError => queue = <<>>)
    BY <1>1 DEF AnswerInv, TestedOK
  <1>3. MachineTypeOK' /\ Progress' /\ Priced' /\ Counted' /\ Uncharged'
    BY <1>1, <1>2, WorkKept, TypeKept DEF work
  <1>4. SavedOK' /\ StoredIsClose' /\ EnteringOK' /\ TestedOK'
    BY <1>1, <1>2 DEF SavedOK, StoredIsClose, EnteringOK, TestedOK, NoRegion
  <1> QED BY <1>1, <1>2, <1>3, <1>4 DEF AnswerInv

\* The caller stores what it sees.
LEMMA AnswerCompletedInv ==
  ASSUME AnswerInv, AnswerCompleted PROVE AnswerInv'
  <1>1. /\ calling # Idle /\ completed /\ reason = NoError
        /\ answered' = Stored /\ saved' = [conf |-> Seen, status |-> status, product |-> product]
        /\ UNCHANGED <<conf, status, product, queue, tasks, deleteTasks, hasTransition, completed, reason,
                       nextPrice, calling, tested, entering>>
    BY DEF AnswerCompleted, work
  <1>2. /\ MachineTypeOK /\ EnteringOK /\ TestedOK
        /\ Progress /\ Priced /\ Counted /\ Uncharged /\ (reason # NoError => queue = <<>> \/ tested)
    BY <1>1 DEF AnswerInv
  <1>3. /\ saved'.conf = Seen /\ saved'.status = status /\ saved'.product = product
        /\ saved' = [conf |-> saved'.conf, status |-> saved'.status, product |-> saved'.product]
    BY <1>1
  <1>4. /\ \A c \in Loaded(Seen) : Storable(c, product)
        /\ Seen.payment \in {"paid", "waitingPayment"} => product.tarificationPeriod >= 1
        /\ Seen \in Configurations => Seen = conf
    BY <1>1, <1>2, SeenStorable
  <1>5. SavedOK'
    BY <1>2, <1>3, <1>4 DEF SavedOK, MachineTypeOK
  <1>6. StoredIsClose'
    BY <1>1, <1>3, <1>4 DEF StoredIsClose
  <1>7. MachineTypeOK' /\ Progress' /\ Priced' /\ Counted' /\ Uncharged' /\ EnteringOK' /\ TestedOK'
    BY <1>1, <1>2, WorkKept, TypeKept, TestedKept DEF work, EnteringOK
  <1> QED BY <1>1, <1>2, <1>5, <1>6, <1>7 DEF AnswerInv

\* The caller gives up.
LEMMA AnswerFailedInv ==
  ASSUME AnswerInv, AnswerFailed PROVE AnswerInv'
  <1>1. /\ calling # Idle /\ answered' = Failed
        /\ UNCHANGED <<conf, status, product, queue, tasks, deleteTasks, hasTransition, completed, reason,
                       nextPrice, calling, saved, timers, tested, entering>>
    BY DEF AnswerFailed, vars
  <1>2. /\ MachineTypeOK /\ SavedOK /\ EnteringOK /\ TestedOK
        /\ Progress /\ Priced /\ Counted /\ Uncharged /\ (reason # NoError => queue = <<>> \/ tested)
    BY <1>1 DEF AnswerInv
  <1>3. MachineTypeOK' /\ Progress' /\ Priced' /\ Counted' /\ Uncharged' /\ TestedOK'
    BY <1>1, <1>2, WorkKept, TypeKept, TestedKept DEF work
  <1>4. SavedOK' /\ StoredIsClose' /\ EnteringOK'
    BY <1>1, <1>2 DEF SavedOK, StoredIsClose, EnteringOK, Failed, Stored
  <1> QED BY <1>1, <1>2, <1>3, <1>4 DEF AnswerInv

\* The next call stops the machine.
LEMMA StopInv ==
  ASSUME AnswerInv, Stop PROVE AnswerInv'
  <1>1. /\ calling' = Idle /\ queue' = <<>> /\ answered' = Not /\ entering' = NoRegion
        /\ ~tested /\ tested' = tested
        /\ UNCHANGED <<conf, status, product, nextPrice, tasks, deleteTasks, hasTransition, completed, reason,
                       saved, timers>>
    BY DEF Stop
  <1>2. MachineTypeOK /\ SavedOK
    BY DEF AnswerInv
  <1>3. MachineTypeOK'
    BY <1>1, <1>2, EmptySequences DEF MachineTypeOK, WellFormed
  <1>4. SavedOK' /\ EnteringOK' /\ TestedOK'
    BY <1>1, <1>2 DEF SavedOK, EnteringOK, TestedOK, NoRegion, AnswerInv
  <1> QED BY <1>1, <1>3, <1>4 DEF AnswerInv

LEMMA AnswerNextInv == AnswerInv /\ [AnswerNext]_avars => AnswerInv'
  <1> SUFFICES ASSUME AnswerInv, [AnswerNext]_avars PROVE AnswerInv'
    OBVIOUS
  <1>1. CASE UNCHANGED avars
    <2>1. UNCHANGED <<conf, status, product, nextPrice, queue, tasks, deleteTasks, hasTransition, completed,
                      reason, calling, saved, timers, answered, tested, entering>>
      BY <1>1 DEF avars, vars
    <2>2. /\ MachineTypeOK' /\ TestedOK'
          /\ (Progress /\ Priced /\ Counted /\ Uncharged)' <=> (Progress /\ Priced /\ Counted /\ Uncharged)
      BY <2>1, WorkKept, TypeKept, TestedKept DEF AnswerInv, work
    <2>3. SavedOK' /\ EnteringOK' /\ (StoredIsClose' <=> StoredIsClose)
      BY <2>1 DEF AnswerInv, SavedOK, EnteringOK, StoredIsClose
    <2> QED BY <2>1, <2>2, <2>3 DEF AnswerInv
  <1> QED
    BY <1>1, SendLoadedInv, TestConditionsInv, RunHandlersInv, BecomeActiveInv, AnswerCompletedInv, AnswerFailedInv, StopInv
       DEF AnswerNext

\* Whatever is stored, in the middle of a cascade too, can be loaded again, and each cascade keeps to
\* the shapes that AnswerInv lists.
THEOREM AnswerCorrect == AnswerSpec => []AnswerInv
  BY StartsInv, AnswerNextInv, PTL DEF AnswerSpec

-----------------------------------------------------------------------------
(* What follows for the caller. *)

\* Where entered() takes a leaf of a call that has completed.
LEMMA SettledLeaves ==
  /\ \A s : s \notin SignalsWhenEntered => AfterEntered(s) = s
  /\ AfterEntered("priceOff") = "priceFinal"
  <1>1. \A s : s \notin SignalsWhenEntered => AfterEntered(s) = s
    BY DEF AfterEntered
  <1>2. \A t \in Transitions : t.sender = "priceOff" /\ t.value = "entered" => t.target = "priceFinal"
    <2>1. \A t \in PriceTransitions : t.sender = "priceOff" /\ t.value = "entered" => t.target = "priceFinal"
      BY DEF PriceTransitions, PriceClosing, T, On, From
    <2>2. \A t \in UsageTransitions : ~(t.sender = "priceOff" /\ t.value = "entered")
      BY DEF UsageTransitions, UsageClosing, T, On, From
    <2>3. \A t \in PaymentTransitions : t.sender # "priceOff"
      BY DEF PaymentTransitions, PaymentClosing, T, On, From
    <2>4. \A t \in TopTransitions : t.sender # "priceOff"
      BY DEF TopTransitions, T, On, From
    <2> QED BY <2>1, <2>2, <2>3, <2>4 DEF Transitions
  <1>3. \E t \in Transitions : t.sender = "priceOff" /\ t.value = "entered"
    <2> DEFINE t == From("priceOff", "priceOff", "entered", "priceFinal")
    <2>1. t \in Transitions /\ t.sender = "priceOff" /\ t.value = "entered"
      BY DEF Transitions, PriceTransitions, PriceClosing, From, T
    <2> HIDE DEF t
    <2> QED BY <2>1
  <1>4. AfterEntered("priceOff") = "priceFinal"
    <2>1. AfterEntered("priceOff") = (CHOOSE t \in Transitions : t.sender = "priceOff" /\ t.value = "entered").target
      BY DEF AfterEntered, SignalsWhenEntered
    <2> QED BY <1>2, <1>3, <2>1
  <1> QED BY <1>1, <1>4

\* What the caller stored of an unfinished cascade settles, once it is loaded again, where the machine
\* itself came to rest.
THEOREM WhatIsStoredSettles == AnswerSpec => []StoredSettles
  <1>1. ASSUME AnswerInv PROVE StoredSettles
    <2>1. SUFFICES ASSUME answered = Stored, queue = <<>>, saved.conf \in Configurations
                   PROVE  Settle(saved.conf) = conf
      BY DEF StoredSettles
    <2>2. WellFormed(conf) /\ calling # Idle /\ Progress /\ StoredIsClose
      BY <1>1, <2>1 DEF AnswerInv, MachineTypeOK, Stored, Not
    <2>3. /\ completed /\ conf.usage \notin Disconnecting
          /\ \/ saved.conf = conf
             \/ saved.conf.price = "priceOff" /\ conf = [saved.conf EXCEPT !.price = "priceFinal"]
      BY <2>1, <2>2 DEF StoredIsClose, Progress
    <2>4. Rest
      BY <2>2, <2>3 DEF Progress
    <2>5. conf.price # "priceOff" /\ conf \in Configurations
      BY <2>1, <2>2, <2>4, HeadsAndTails DEF Rest, WellFormed
    <2>6. saved.conf.usage = conf.usage /\ conf.usage \notin SignalsWhenEntered
      <3>1. saved.conf.usage = conf.usage
        BY <2>1, <2>3 DEF Configurations
      <3>2. conf.usage \notin SignalsWhenEntered
        <4>1. conf.usage \in UsageLeaves \cup {NoLeaf}
          BY <2>5 DEF Configurations
        <4> QED BY <2>3, <4>1 DEF SignalsWhenEntered, Disconnecting, UsageLeaves, UsageOn, UsageOff, Activated, NoLeaf
      <3> QED BY <3>1, <3>2
    <2>7. AfterEntered(saved.conf.usage) = saved.conf.usage
      BY <2>6, SettledLeaves
    <2>8. CASE saved.conf = conf
      <3>1. AfterEntered(conf.price) = conf.price
        <4>1. conf.price \in PriceLeaves \cup {NoLeaf}
          BY <2>5 DEF Configurations
        <4>2. conf.price \notin SignalsWhenEntered
          BY <2>5, <4>1 DEF SignalsWhenEntered, PriceLeaves, PriceOn, NoLeaf
        <4> QED BY <4>2, SettledLeaves
      <3> QED BY <2>5, <2>7, <2>8, <3>1 DEF Settle, Configurations
    <2>9. CASE saved.conf.price = "priceOff" /\ conf = [saved.conf EXCEPT !.price = "priceFinal"]
      BY <2>1, <2>7, <2>9, SettledLeaves DEF Settle, Configurations
    <2> QED BY <2>3, <2>8, <2>9
  <1> QED BY <1>1, AnswerCorrect, PTL

\* During a call the conditions are tested, or the step they decide is taken, or the work is left alone.
LEMMA CallSteps ==
  ASSUME AnswerInv, [AnswerNext]_avars, calling # Idle, calling' # Idle
  PROVE  /\ Progress /\ Priced /\ Counted /\ Uncharged
         /\ \/ UNCHANGED <<conf, status, product, tasks, deleteTasks, reason>>
            \/ /\ queue # <<>> /\ reason' = Later(reason, TestReason)
               /\ UNCHANGED <<conf, status, product, tasks, deleteTasks>>
            \/ /\ MachineTypeOK /\ MachineTypeOK' /\ queue # <<>> /\ reason = TestReason /\ MachineStep
  <1>1. CASE RunHandlers
    <2>1. MachineStep /\ queue # <<>> /\ reason = TestReason
      BY <1>1 DEF RunHandlers, MachineStep, AnswerInv, TestedOK
    <2> QED BY <2>1, MachineKept DEF AnswerInv
  <1>2. CASE AnswerCompleted \/ AnswerFailed \/ BecomeActive \/ UNCHANGED avars
    BY <1>2 DEF AnswerInv, AnswerCompleted, AnswerFailed, BecomeActive, avars, vars, work
  <1>3. CASE TestConditions
    BY <1>3 DEF AnswerInv, TestConditions
  <1>4. ~Stop /\ \A e, next : ~SendLoaded(e, next)
    BY DEF Stop, SendLoaded, Call
  <1> QED BY <1>1, <1>2, <1>3, <1>4 DEF AnswerNext

\* Once transitionCompleted has been emitted no handler changes the product, its status or its tasks,
\* and none fails.
THEOREM AnswersAreWhole == AnswerSpec => AnswerIsWhole
  <1>1. AnswerInv /\ [AnswerNext]_avars =>
          [calling # Idle /\ calling' # Idle /\ completed =>
             UNCHANGED <<status, product, tasks, deleteTasks, reason>>]_avars
    <2> SUFFICES ASSUME AnswerInv, [AnswerNext]_avars, calling # Idle, calling' # Idle, completed
                 PROVE  UNCHANGED <<status, product, tasks, deleteTasks, reason>>
      OBVIOUS
    <2>1. queue # <<>> => TestReason = NoError
      BY CallSteps, FailedTest
    <2>2. CASE queue # <<>> /\ reason = TestReason /\ MachineTypeOK /\ MachineTypeOK' /\ MachineStep
      <3>1. Working
        BY <2>1, <2>2, CallSteps DEF Working
      <3> QED BY <2>2, <3>1, AfterCompletion
    <2> QED BY <2>1, <2>2, CallSteps DEF Later
  <1> QED BY <1>1, AnswerCorrect, PTL DEF AnswerSpec, AnswerIsWhole

\* After an error no task is asked for, and product, status and configuration stay as they are, unless the
\* transition to priceChanged passes in spite of it.
THEOREM ErrorsStopCascades == AnswerSpec => ErrorStopsCascade
  <1>1. AnswerInv /\ [AnswerNext]_avars =>
          [calling # Idle /\ calling' # Idle /\ reason' # NoError =>
             /\ UNCHANGED deleteTasks
             /\ UNCHANGED tasks \/ PassesInSpite
             /\ reason # NoError => UNCHANGED <<status, product>> /\ (UNCHANGED conf \/ PassesInSpite)]_avars
    <2> SUFFICES ASSUME AnswerInv, [AnswerNext]_avars, calling # Idle, calling' # Idle, reason' # NoError
                 PROVE  /\ UNCHANGED deleteTasks
                        /\ UNCHANGED tasks \/ PassesInSpite
                        /\ reason # NoError => UNCHANGED <<status, product>> /\ (UNCHANGED conf \/ PassesInSpite)
      OBVIOUS
    <2>1. CASE UNCHANGED <<conf, status, product, tasks, deleteTasks>>
      BY <2>1
    <2>2. CASE reason = TestReason /\ MachineTypeOK /\ MachineTypeOK' /\ MachineStep
      <3>1. CASE reason = NoError
        BY <2>2, <3>1, CallSteps, FailingHandlers
      <3>2. CASE reason # NoError
        BY <2>2, <3>2, CallSteps, FailedStep
      <3> QED BY <3>1, <3>2
    <2> QED BY <2>1, <2>2, CallSteps
  <1> QED BY <1>1, AnswerCorrect, PTL DEF AnswerSpec, ErrorStopsCascade

\* The count of periods covers what is paid or to be paid, in what is stored of an unfinished cascade
\* too.
THEOREM StoredPeriodsAreCovered == AnswerSpec => []PeriodsCovered
  <1>1. ASSUME AnswerInv PROVE PeriodsCovered
    <2>1. SavedOK
      BY <1>1 DEF AnswerInv
    <2>2. Loaded(saved.conf) # {}
      <3>1. CASE saved.conf.top = "machine"
        BY <3>1 DEF Loaded
      <3>2. CASE saved.conf.top # "machine"
        BY <3>2 DEF Loaded
      <3> QED BY <3>1, <3>2
    <2>3. saved.product.tarificationPeriod >= 0
      BY <2>1, <2>2 DEF SavedOK, Storable
    <2>4. Account(saved.conf) \in {"clear", "due"} => saved.conf.payment \in {"paid", "waitingPayment"}
      BY DEF Account
    <2> QED BY <2>1, <2>3, <2>4 DEF SavedOK, PeriodsCovered, Contract!PeriodsCovered
  <1> QED BY <1>1, AnswerCorrect, PTL

\* What a step of the machine does to a product whose payments have ended.
LEMMA ClosedStep ==
  ASSUME MachineTypeOK, MachineTypeOK', Uncharged, MachineStep, PaymentClosed(conf)
  PROVE  product' = product
  <1>1. /\ WellFormed(conf) /\ product \in Products /\ nextPrice \in Prices \cup {NoPrice}
        /\ queue # <<>> /\ Uncharged
    BY MachineSteps DEF MachineTypeOK
  <1>2. ASSUME NEW to \in PriceLeaves, PriceMoved(to) PROVE product' = product
    <2>1. PriceMove(conf.price, to) /\ Does(conf.price, to)
      BY <1>2 DEF PriceMoved
    <2>2. to \in {"priceOff", "priceFinal"}
      <3>1. \/ conf.price \in {"priceOff", "priceFinal"} \/ Heard("paymentStopped", "off_price")
            \/ conf.price = "priceOnEntry" /\ Head(queue).sender # "priceOnEntry"
        BY <1>1 DEF Uncharged, Heard, Sig
      <3> QED BY <2>1, <3>1 DEF PriceMove, Heard
    <2>3. \E ns : Work(conf.price, to, <<>>, ns, product, FALSE)
      BY <1>1, <2>1, <2>2, PriceWork
    <2> QED BY <2>1, <2>3 DEF Work, Does
  <1>3. ASSUME NEW to \in UsageLeaves, UsageMoved(to) PROVE product' = product
    <2>1. UsageMove(conf.usage, to) /\ Does(conf.usage, to)
      BY <1>3 DEF UsageMoved
    <2>2. \E xs, ns, done : Work(conf.usage, to, xs, ns, product, done)
      BY <2>1, UsageWork
    <2> QED BY <2>1, <2>2 DEF Work, Does
  <1>4. ASSUME NEW to \in PaymentLeaves, PaymentMoved(to) PROVE product' = product
    <2>1. PaymentMove(conf.payment, to) /\ Does(conf.payment, to)
      BY <1>4 DEF PaymentMoved
    <2>2. to = "paymentFinal"
      BY <2>1 DEF PaymentMove, PaymentClosed, PaymentOn
    <2>3. \E xs, ns, done : Work(conf.payment, to, xs, ns, product, done)
      BY <2>1, <2>2, PaymentWork
    <2> QED BY <2>1, <2>3 DEF Work, Does
  <1>5. ProvisionStep \/ LeaveStep \/ Drop => product' = product
    BY DEF ProvisionStep, LeaveStep, Drop
  <1> QED BY <1>1, <1>2, <1>3, <1>4, <1>5, MachineSteps

\* Nor is a product billed after its payments have ended that was stored at any moment of the shutdown.
THEOREM StoredIsNotBilled == AnswerSpec => NotBilledOncePaymentClosed
  <1>1. AnswerInv /\ [AnswerNext]_avars => [calling # Idle /\ PaymentClosed(conf) => product' = product]_vars
    <2> SUFFICES ASSUME AnswerInv, [AnswerNext]_avars, calling # Idle, PaymentClosed(conf)
                 PROVE  product' = product
      OBVIOUS
    <2>1. CASE calling' = Idle
      <3>1. ~RunHandlers /\ \A e, next : ~SendLoaded(e, next)
        BY <2>1, MachineKept DEF AnswerInv, RunHandlers, MachineStep, SendLoaded, Call
      <3> QED BY <3>1 DEF AnswerNext, TestConditions, AnswerCompleted, AnswerFailed, BecomeActive, Stop, avars, vars, work
    <2>2. CASE calling' # Idle
      BY <2>2, CallSteps, ClosedStep
    <2> QED BY <2>1, <2>2
  <1> QED BY <1>1, AnswerCorrect, PTL DEF AnswerSpec, NotBilledOncePaymentClosed
==============================================================================
