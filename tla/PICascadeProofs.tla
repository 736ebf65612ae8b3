--------------------------- MODULE PICascadeProofs ----------------------------
(***************************************************************************)
(* What the caller stores and carries out after each call: a product at    *)
(* rest, the status and the periods the contract allows, timers that wake  *)
(* the product up and no others.  The inductive invariant is CascadeInv: each *)
(* step of the machine leads from one phase of a cascade to another, one   *)
(* lemma for each step, and a cascade that ends leaves a product at rest.  *)
(***************************************************************************)
EXTENDS PICascade, PILifecycleProofs

-----------------------------------------------------------------------------
(* What the phases and the endings of a cascade have in common. *)

\* The effect of a step to a leaf: what the queue is after it, what tasks there are to
\* create and to delete, the product it leaves, and whether it completes the call.
Flows(to, rest, made, gone, p, done) ==
  /\ status' = StatusOnEntry(to, status)
  /\ queue' = rest
  /\ tasks' = made
  /\ ToSet(deleteTasks') = gone
  /\ product' = p
  /\ completed' = done
  /\ UNCHANGED <<nextPrice, calling, saved, timers>>

\* The signal at the head of the queue tells the phase.
LEMMA PhaseOfHead ==
  ASSUME Phase, queue # <<>>
  PROVE  /\ Head(queue).sender = "machine" => Loaded
         /\ Head(queue).sender = "priceChanging" => NotChanging
         /\ Head(queue).sender = "priceNotChanged" => NotChanged
         /\ Heard("commercial", "wait_payment") => Charged
         /\ Heard("commercial", "activation_completed") => Sold
         /\ Heard("trial", "change_price_completed") => ChargedTrial
         /\ Heard("trial", "trial_activation_completed") => SoldTrial
         /\ Heard("waitingPayment", "prolong") => Paid
         /\ Heard("waitingPayment", "suspend") => Unpaid
         /\ Heard("waitingPayment", "activation_completed") => Due
         /\ Head(queue).sender = "prolongation" => Prolonged
         /\ Head(queue).sender = "notPaid" => PaidLate
         /\ Head(queue).sender = "suspended" => Resumed \/ Ended
         /\ Heard("paymentStopped", "off_price") => Stopped
         /\ Heard("paymentStopped", "stop_pay") => PriceStopped
         /\ Heard("priceOff", "off_usage") => PaymentEnded
         /\ Heard("priceOff", "entered") => UsageStopped
         /\ Head(queue).sender = "disconnected" => Disconnected
         /\ Head(queue).sender = "productProvision" => Finishing
         /\ Head(queue).sender \in {"activatedEntry", "paymentOnEntry", "priceOnEntry"} => Entering
         /\ Head(queue).sender = "paid" => Free
         /\ Head(queue).sender \notin {"priceChanged"}
  <1> USE HeadsAndTails DEF Heard, Sig
  <1>1. /\ Loaded => Head(queue).sender = "machine"
        /\ Ended => Head(queue).sender = "suspended"
    BY DEF Loaded, Ended, Resumption
  <1>2. /\ NotChanging => Head(queue).sender = "priceChanging"
        /\ NotChanged => Head(queue).sender = "priceNotChanged"
        /\ Charged => Heard("commercial", "wait_payment")
        /\ ChargedTrial => Heard("trial", "change_price_completed")
    BY DEF NotChanging, NotChanged, Charged, ChargedTrial, At
  <1>3. /\ Paid => Heard("waitingPayment", "prolong")
        /\ Prolonged => Head(queue).sender = "prolongation"
        /\ Unpaid => Heard("waitingPayment", "suspend")
        /\ PaidLate => Head(queue).sender = "notPaid"
        /\ Resumed => Head(queue).sender = "suspended"
    BY DEF Paid, Prolonged, Unpaid, PaidLate, Resumed, At, Resumption
  <1>4. /\ Stopped => Heard("paymentStopped", "off_price")
        /\ PriceStopped => Heard("paymentStopped", "stop_pay")
        /\ PaymentEnded => Heard("priceOff", "off_usage")
        /\ UsageStopped => Heard("priceOff", "entered")
    BY DEF Stopped, PriceStopped, PaymentEnded, UsageStopped, At
  <1>5. /\ Disconnected => Head(queue).sender = "disconnected"
        /\ Finishing => Head(queue).sender = "productProvision"
    BY DEF Disconnected, Finishing, At
  <1>6. Entering => Head(queue).sender \in {"activatedEntry", "paymentOnEntry", "priceOnEntry"}
    BY DEF Entering, Activating
  <1>7. /\ Sold => Heard("commercial", "activation_completed")
        /\ SoldTrial => Heard("trial", "trial_activation_completed")
        /\ Due => Heard("waitingPayment", "activation_completed")
        /\ Free => Head(queue).sender = "paid"
    BY DEF Sold, SoldTrial, Due, Free, Activating
  <1> QED
    BY ONLY Phase, <1>1, <1>2, <1>3, <1>4, <1>5, <1>6, <1>7 DEF Phase, Heard

\* A completed call whose last step leaves the product at rest has ended.
LEMMA EndsCompleted ==
  ASSUME NEW to, NEW c, NEW made, NEW gone, NEW p, Flows(to, <<>>, made, gone, p, TRUE), conf' = c,
         Result(c, StatusOnEntry(to, status), p.tarificationPeriod, ToSet(made), gone),
         IsInjective(made), ~Deactivates
  PROVE  Ended'
  <1>1. /\ queue' = <<>> /\ completed' = TRUE /\ tasks' = made /\ ToSet(deleteTasks') = gone
        /\ saved' = saved /\ calling' = calling /\ timers' = timers
        /\ status' = StatusOnEntry(to, status) /\ product' = p
    BY DEF Flows
  <1>2. ~Deactivates'
    BY <1>1 DEF Deactivates, Payment0
  <1>3. Result(conf, status, product.tarificationPeriod, ToSet(tasks), ToSet(deleteTasks))'
    BY <1>1 DEF Result, Status0, Periods0
  <1>4. Outcome'
    BY <1>1, <1>3 DEF Outcome
  <1> QED BY <1>1, <1>2, <1>4 DEF Ended

\* A call that is not completed is answered with an error, and nothing is stored.
LEMMA EndsUncompleted ==
  ASSUME queue' = <<>>, ~completed', ~Deactivates, saved' = saved, calling' = calling
  PROVE  Ended'
  BY DEF Ended, Deactivates, Payment0

\* The account of each leaf of the payment region.
LEMMA Accounts ==
  ASSUME NEW c
  PROVE  /\ c.payment = "paid" => Account(c) = "clear"
         /\ c.payment = "waitingPayment" => Account(c) = "due"
         /\ c.payment = "notPaid" => Account(c) = "unpaid"
         /\ c.payment = NoLeaf => Account(c) = "none"
         /\ c.payment \notin {"paid", "waitingPayment", "notPaid", NoLeaf} => Account(c) = "closed"
  BY DEF Account, NoLeaf

-----------------------------------------------------------------------------
\* Rests and Fits of a product in productProvision, leaf by leaf.
RestsIn(u, p, r, st, n) ==
  /\ u \in {"active", "activeTrial", "prolongation", "suspending", "suspended", "resuming",
            "pendingDisconnect", "disconnection"}
  /\ p \in {"paid", "notPaid", "waitingPayment", "paymentStopping", "paymentFinal"}
  /\ r \in {"commercial", "trial", "priceChanging", "priceChanged", "priceFinal"}
  /\ u \in {"pendingDisconnect", "disconnection"} <=> p = "paymentFinal"
  /\ u \in {"pendingDisconnect", "disconnection"} <=> r = "priceFinal"
  /\ u = "active" => st = "ACTIVE"
  /\ u = "activeTrial" => st = "ACTIVE_TRIAL"
  /\ u \in {"suspending", "prolongation"} => st \in InService
  /\ u \in {"suspended", "resuming"} => st = "SUSPENDED"
  /\ u \in {"pendingDisconnect", "disconnection"} => st = "PENDING_DISCONNECT"
  /\ u \in {"active", "activeTrial", "prolongation"} => p # "notPaid"
  /\ u \in {"suspending", "suspended"} => p \notin {"paid", "waitingPayment"}
  /\ u = "resuming" => r = "commercial" /\ p # "notPaid"
  /\ n \in Int /\ n >= 0
  /\ p \in {"paid", "waitingPayment"} => n >= 1

FitsIn(u, p, r, tm) ==
  /\ "waiting_pay_ended" \in tm <=> p = "waitingPayment"
  /\ "suspend_ended" \in tm => u = "suspended"
  /\ u = "suspended" /\ p = "notPaid" => "suspend_ended" \in tm
  /\ "disconnect" \in tm <=> u = "pendingDisconnect"
  /\ "change_price" \in tm => r \in {"priceChanging", "priceFinal"}
  /\ r = "priceChanging" => "change_price" \in tm
  /\ "commercial_ended" \in tm <=> r = "commercial" /\ u \notin {"suspending", "suspended"}
  /\ "trial_ended" \in tm <=> r = "trial" /\ u \notin {"suspending", "suspended"}

\* RestsIn is Rests of a product in productProvision.
LEMMA RestsThere ==
  ASSUME NEW u, NEW p, NEW r, NEW st, NEW n, RestsIn(u, p, r, st, n)
  PROVE  Rests(In(u, p, r), st, n)
  BY DEF RestsIn, Rests, StatusFits, UsageClosed, UsageOff, In, InService

\* FitsIn is Fits of a product in productProvision.
LEMMA FitsThere ==
  ASSUME NEW u, NEW p, NEW r, NEW tm PROVE Fits(In(u, p, r), tm) <=> FitsIn(u, p, r, tm)
  BY DEF Fits, FitsIn, In

\* The product before the call, while it is in productProvision.
LEMMA Before ==
  ASSUME CascadeInv, TypeOK, saved.conf.top = "productProvision"
  PROVE  /\ saved.conf = In(Usage0, Payment0, Price0)
         /\ RestsIn(Usage0, Payment0, Price0, Status0, Periods0)
         /\ OnSchedule => FitsIn(Usage0, Payment0, Price0, timers)
  <1>1. /\ saved.conf \in Configurations /\ WellFormed(saved.conf) /\ Periods0 \in Int
    BY DEF TypeOK, MachineTypeOK, SavedProducts, Products, Periods0
  <1>2. saved.conf = In(Usage0, Payment0, Price0)
    BY <1>1 DEF Configurations, In, Usage0, Payment0, Price0
  <1>3. RestsIn(Usage0, Payment0, Price0, Status0, Periods0)
    <2>1. /\ Usage0 \in UsageLeaves /\ Payment0 \in PaymentLeaves /\ Price0 \in PriceLeaves
      BY <1>1 DEF WellFormed, Configurations, Usage0, Payment0, Price0
    <2>2. Rests(saved.conf, Status0, Periods0)
      BY DEF CascadeInv
    <2> QED
      BY <1>1, <2>1, <2>2
      DEF RestsIn, Rests, StatusFits, UsageClosed, Usage0, Payment0, Price0, InService,
          UsageLeaves, UsageOn, UsageOff, Activated, PaymentLeaves, PaymentOn, PaymentOff, PriceLeaves, PriceOn
  <1>4. OnSchedule => FitsIn(Usage0, Payment0, Price0, timers)
    BY <1>2, FitsThere DEF CascadeInv
  <1> QED BY <1>2, <1>3, <1>4

\* The timers after a call, and what a call leaves, of a product in productProvision.
Kept(gone) == (timers \ {calling}) \ gone

\* The result of a call that leaves the product in productProvision.
LEMMA ResultThere ==
  ASSUME NEW u, NEW p, NEW r, NEW st, NEW n, NEW made, NEW gone,
         RestsIn(u, p, r, st, n),
         Moves(Status0, Account(saved.conf), Periods0, st, Account(In(u, p, r)), n),
         made \cap gone = {},
         OnSchedule => /\ FitsIn(u, p, r, Kept(gone) \cup (made \cap TimerEvents))
                       /\ made \cap Kept(gone) = {}
  PROVE  Result(In(u, p, r), st, n, made, gone)
  BY RestsThere, FitsThere DEF Result, Kept

\* The accounts before and after a call.
LEMMA AccountsThere ==
  /\ Payment0 = "paid" => Account(saved.conf) = "clear"
  /\ Payment0 = "waitingPayment" => Account(saved.conf) = "due"
  /\ Payment0 = "notPaid" => Account(saved.conf) = "unpaid"
  /\ Payment0 \in {"paymentStopping", "paymentFinal"} => Account(saved.conf) = "closed"
  /\ Payment0 = NoLeaf => Account(saved.conf) = "none"
  /\ \A u, r : /\ Account(In(u, "paid", r)) = "clear"
               /\ Account(In(u, "waitingPayment", r)) = "due"
               /\ Account(In(u, "notPaid", r)) = "unpaid"
               /\ Account(In(u, "paymentStopping", r)) = "closed"
               /\ Account(In(u, "paymentFinal", r)) = "closed"
               /\ Account(In(u, Payment0, r)) = Account(saved.conf)
  <1>1. \A u, p, r : In(u, p, r).payment = p
    BY DEF In
  <1>2. \A c, d : c.payment = d.payment => Account(c) = Account(d)
    BY DEF Account
  <1>3. "paymentStopping" \notin {"paid", "waitingPayment", "notPaid", NoLeaf}
        /\ "paymentFinal" \notin {"paid", "waitingPayment", "notPaid", NoLeaf}
    BY DEF NoLeaf
  <1> QED BY <1>1, <1>2, <1>3, Accounts DEF Payment0

-----------------------------------------------------------------------------
(* What the completed calls leave. *)

\* A period has been charged, and is to be paid.
LEMMA ChargedResult ==
  ASSUME CascadeInv, TypeOK, Charged, Payment0 = "paid"
  PROVE  Result(In(Usage0, "waitingPayment", "commercial"), Status0, Periods0 + 1,
                {"commercial_ended", "waiting_pay_ended"}, {})
  <1> USE Before, AccountsThere DEF Charged, At, NewPeriod, PeriodOver
  <1>1. RestsIn(Usage0, "waitingPayment", "commercial", Status0, Periods0 + 1)
    BY DEF RestsIn
  <1>2. Moves(Status0, Account(saved.conf), Periods0,
              Status0, Account(In(Usage0, "waitingPayment", "commercial")), Periods0 + 1)
    BY DEF Moves, RestsIn, InService
  <1>3. OnSchedule => /\ FitsIn(Usage0, "waitingPayment", "commercial",
                                Kept({}) \cup ({"commercial_ended", "waiting_pay_ended"} \cap TimerEvents))
                      /\ {"commercial_ended", "waiting_pay_ended"} \cap Kept({}) = {}
    BY DEF FitsIn, RestsIn, Kept, TimerEvents
  <1> QED BY <1>1, <1>2, <1>3, ResultThere

\* A period, or a price, ends and the price has to change.
LEMMA ChangingResult ==
  ASSUME CascadeInv, TypeOK, saved.conf.top = "productProvision", PeriodOver
  PROVE  Result(In(Usage0, Payment0, "priceChanging"), Status0, Periods0, {"change_price"}, {})
  <1> USE Before, AccountsThere DEF PeriodOver
  <1>1. RestsIn(Usage0, Payment0, "priceChanging", Status0, Periods0)
    BY DEF RestsIn
  <1>2. Moves(Status0, Account(saved.conf), Periods0,
              Status0, Account(In(Usage0, Payment0, "priceChanging")), Periods0)
    BY DEF Moves
  <1>3. OnSchedule => /\ FitsIn(Usage0, Payment0, "priceChanging",
                                Kept({}) \cup ({"change_price"} \cap TimerEvents))
                      /\ {"change_price"} \cap Kept({}) = {}
    BY DEF FitsIn, RestsIn, Kept, TimerEvents
  <1> QED BY <1>1, <1>2, <1>3, ResultThere

\* The change of price has been ordered.
LEMMA ChangedResult ==
  ASSUME CascadeInv, TypeOK, saved.conf.top = "productProvision",
         calling = "change_price", Price0 = "priceChanging"
  PROVE  Result(In(Usage0, Payment0, "priceChanged"), Status0, Periods0, {"CHANGE_PRICE"}, {})
  <1> USE Before, AccountsThere
  <1>1. RestsIn(Usage0, Payment0, "priceChanged", Status0, Periods0)
    BY DEF RestsIn
  <1>2. Moves(Status0, Account(saved.conf), Periods0,
              Status0, Account(In(Usage0, Payment0, "priceChanged")), Periods0)
    BY DEF Moves
  <1>3. OnSchedule => /\ FitsIn(Usage0, Payment0, "priceChanged",
                                Kept({}) \cup ({"CHANGE_PRICE"} \cap TimerEvents))
                      /\ {"CHANGE_PRICE"} \cap Kept({}) = {}
    BY DEF FitsIn, RestsIn, Kept, TimerEvents, TypeOK, MachineTypeOK
  <1> QED BY <1>1, <1>2, <1>3, ResultThere

\* The order system has confirmed a prolongation.
LEMMA ProlongResult ==
  ASSUME CascadeInv, TypeOK, saved.conf.top = "productProvision",
         Usage0 = "prolongation", calling = "prolong_completed",
         NEW to \in {"active", "activeTrial"}
  PROVE  Result(In(to, Payment0, Price0), StatusOnEntry(to, Status0), Periods0, {}, {})
  <1> USE Before, AccountsThere
  <1> DEFINE st == StatusOnEntry(to, Status0)
  <1>0. (to = "active" => st = "ACTIVE") /\ (to = "activeTrial" => st = "ACTIVE_TRIAL")
    BY DEF StatusOnEntry
  <1> HIDE DEF st
  <1>1. RestsIn(to, Payment0, Price0, st, Periods0)
    BY <1>0 DEF RestsIn
  <1>2. Moves(Status0, Account(saved.conf), Periods0, st, Account(In(to, Payment0, Price0)), Periods0)
    BY <1>0 DEF Moves, RestsIn, InService
  <1>3. OnSchedule => /\ FitsIn(to, Payment0, Price0, Kept({}) \cup ({} \cap TimerEvents))
                      /\ {} \cap Kept({}) = {}
    BY DEF FitsIn, RestsIn, Kept
  <1>4. Result(In(to, Payment0, Price0), st, Periods0, {}, {})
    BY <1>1, <1>2, <1>3, ResultThere
  <1> QED BY <1>4 DEF st

\* The suspension has been confirmed.
LEMMA SuspendedResult ==
  ASSUME CascadeInv, TypeOK, saved.conf.top = "productProvision",
         Usage0 = "suspending", calling = "suspend_completed"
  PROVE  Result(In("suspended", Payment0, Price0), "SUSPENDED", Periods0, {"suspend_ended"}, {})
  <1> USE Before, AccountsThere
  <1>1. RestsIn("suspended", Payment0, Price0, "SUSPENDED", Periods0)
    BY DEF RestsIn
  <1>2. Moves(Status0, Account(saved.conf), Periods0,
              "SUSPENDED", Account(In("suspended", Payment0, Price0)), Periods0)
    BY DEF Moves, RestsIn, InService
  <1>3. OnSchedule => /\ FitsIn("suspended", Payment0, Price0,
                                Kept({}) \cup ({"suspend_ended"} \cap TimerEvents))
                      /\ {"suspend_ended"} \cap Kept({}) = {}
    BY DEF FitsIn, RestsIn, Kept, TimerEvents
  <1> QED BY <1>1, <1>2, <1>3, ResultThere

\* The resumption has been confirmed.
LEMMA ResumedResult ==
  ASSUME CascadeInv, TypeOK, saved.conf.top = "productProvision",
         Usage0 = "resuming", calling = "resume_completed"
  PROVE  Result(In("active", Payment0, Price0), "ACTIVE", Periods0, {}, {})
  <1> USE Before, AccountsThere
  <1>1. RestsIn("active", Payment0, Price0, "ACTIVE", Periods0)
    BY DEF RestsIn
  <1>2. Moves(Status0, Account(saved.conf), Periods0,
              "ACTIVE", Account(In("active", Payment0, Price0)), Periods0)
    BY DEF Moves, RestsIn, InService
  <1>3. OnSchedule => /\ FitsIn("active", Payment0, Price0, Kept({}) \cup ({} \cap TimerEvents))
                      /\ {} \cap Kept({}) = {}
    BY DEF FitsIn, RestsIn, Kept
  <1> QED BY <1>1, <1>2, <1>3, ResultThere

\* The disconnection has been ordered.
LEMMA DisconnectionResult ==
  ASSUME CascadeInv, TypeOK, saved.conf.top = "productProvision",
         Usage0 = "pendingDisconnect", calling = "disconnect"
  PROVE  Result(In("disconnection", Payment0, Price0), Status0, Periods0, {"DISCONNECT"}, {})
  <1> USE Before, AccountsThere
  <1>1. RestsIn("disconnection", Payment0, Price0, Status0, Periods0)
    BY DEF RestsIn
  <1>2. Moves(Status0, Account(saved.conf), Periods0,
              Status0, Account(In("disconnection", Payment0, Price0)), Periods0)
    BY DEF Moves, RestsIn, InService
  <1>3. OnSchedule => /\ FitsIn("disconnection", Payment0, Price0,
                                Kept({}) \cup ({"DISCONNECT"} \cap TimerEvents))
                      /\ {"DISCONNECT"} \cap Kept({}) = {}
    BY DEF FitsIn, RestsIn, Kept, TimerEvents, TypeOK, MachineTypeOK
  <1> QED BY <1>1, <1>2, <1>3, ResultThere

\* The payments are being stopped.
LEMMA StoppingResult ==
  ASSUME CascadeInv, TypeOK, saved.conf.top = "productProvision",
         \/ calling \in {"suspend_ended", "end_of_suspend"} /\ Payment0 = "notPaid"
         \/ calling \in {"close_subscriber", "deactivation_external"} /\ Payment0 \in PaymentOn
  PROVE  Result(In(Usage0, "paymentStopping", Price0), Status0, Periods0,
                {"DISCONNECT_EXTERNAL"}, Waited)
  <1> USE Before, AccountsThere
  <1>1. RestsIn(Usage0, "paymentStopping", Price0, Status0, Periods0)
    BY DEF RestsIn, PaymentOn
  <1>2. Moves(Status0, Account(saved.conf), Periods0,
              Status0, Account(In(Usage0, "paymentStopping", Price0)), Periods0)
    BY DEF Moves, RestsIn, InService, PaymentOn
  <1>3. OnSchedule => /\ FitsIn(Usage0, "paymentStopping", Price0,
                                Kept(Waited) \cup ({"DISCONNECT_EXTERNAL"} \cap TimerEvents))
                      /\ {"DISCONNECT_EXTERNAL"} \cap Kept(Waited) = {}
    BY DEF FitsIn, RestsIn, Kept, TimerEvents, TypeOK, MachineTypeOK, Waited, PaymentOn
  <1>4. {"DISCONNECT_EXTERNAL"} \cap Waited = {}
    BY DEF Waited
  <1> QED BY <1>1, <1>2, <1>3, <1>4, ResultThere

\* A payment has been asked for in between.
LEMMA WaitingResult ==
  ASSUME CascadeInv, TypeOK, saved.conf.top = "productProvision",
         calling = "wait_payment", Payment0 = "paid"
  PROVE  Result(In(Usage0, "waitingPayment", Price0), Status0, Periods0, {"waiting_pay_ended"}, {})
  <1> USE Before, AccountsThere
  <1>1. RestsIn(Usage0, "waitingPayment", Price0, Status0, Periods0)
    BY DEF RestsIn
  <1>2. Moves(Status0, Account(saved.conf), Periods0,
              Status0, Account(In(Usage0, "waitingPayment", Price0)), Periods0)
    BY DEF Moves
  <1>3. OnSchedule => /\ FitsIn(Usage0, "waitingPayment", Price0,
                                Kept({}) \cup ({"waiting_pay_ended"} \cap TimerEvents))
                      /\ {"waiting_pay_ended"} \cap Kept({}) = {}
    BY DEF FitsIn, RestsIn, Kept, TimerEvents
  <1> QED BY <1>1, <1>2, <1>3, ResultThere

\* A trial period has been charged.
LEMMA ChargedTrialResult ==
  ASSUME CascadeInv, TypeOK, saved.conf.top = "productProvision", NewPeriod,
         Usage0 \in {"active", "activeTrial"}
  PROVE  Result(In("activeTrial", Payment0, "trial"), "ACTIVE_TRIAL", Periods0 + 1, {"trial_ended"}, {})
  <1> USE Before, AccountsThere DEF NewPeriod, PeriodOver
  <1>1. RestsIn("activeTrial", Payment0, "trial", "ACTIVE_TRIAL", Periods0 + 1)
    BY DEF RestsIn
  <1>2. Moves(Status0, Account(saved.conf), Periods0,
              "ACTIVE_TRIAL", Account(In("activeTrial", Payment0, "trial")), Periods0 + 1)
    <2>1. Account(saved.conf) # "unpaid"
      BY Accounts DEF RestsIn, Payment0
    <2> QED BY <2>1 DEF Moves, RestsIn, InService
  <1>3. OnSchedule => /\ FitsIn("activeTrial", Payment0, "trial",
                                Kept({}) \cup ({"trial_ended"} \cap TimerEvents))
                      /\ {"trial_ended"} \cap Kept({}) = {}
    BY DEF FitsIn, RestsIn, Kept, TimerEvents
  <1> QED BY <1>1, <1>2, <1>3, ResultThere

\* A payment in time prolongs the product.
LEMMA PaidResult ==
  ASSUME CascadeInv, TypeOK, saved.conf.top = "productProvision",
         Payment0 = "waitingPayment", calling = "payment_processed", Usage0 \in Activated
  PROVE  /\ Result(In("prolongation", "paid", Price0), Status0, Periods0, {"ACTIVATE"}, {"waiting_pay_ended"})
         /\ Result(In("active", "paid", Price0), "ACTIVE", Periods0, {}, {"waiting_pay_ended"})
  <1> USE Before, AccountsThere DEF Activated
  <1>1. /\ RestsIn("prolongation", "paid", Price0, Status0, Periods0)
        /\ RestsIn("active", "paid", Price0, "ACTIVE", Periods0)
    BY DEF RestsIn, InService
  <1>2. /\ Moves(Status0, Account(saved.conf), Periods0,
                 Status0, Account(In("prolongation", "paid", Price0)), Periods0)
        /\ Moves(Status0, Account(saved.conf), Periods0,
                 "ACTIVE", Account(In("active", "paid", Price0)), Periods0)
    BY DEF Moves
  <1>3. OnSchedule => /\ FitsIn("prolongation", "paid", Price0,
                                Kept({"waiting_pay_ended"}) \cup ({"ACTIVATE"} \cap TimerEvents))
                      /\ {"ACTIVATE"} \cap Kept({"waiting_pay_ended"}) = {}
                      /\ FitsIn("active", "paid", Price0,
                                Kept({"waiting_pay_ended"}) \cup ({} \cap TimerEvents))
                      /\ {} \cap Kept({"waiting_pay_ended"}) = {}
    BY DEF FitsIn, RestsIn, Kept, TimerEvents, TypeOK, MachineTypeOK
  <1>4. /\ {"ACTIVATE"} \cap {"waiting_pay_ended"} = {}
        /\ {} \cap {"waiting_pay_ended"} = {}
    OBVIOUS
  <1>5. Result(In("prolongation", "paid", Price0), Status0, Periods0, {"ACTIVATE"}, {"waiting_pay_ended"})
    BY <1>1, <1>2, <1>3, <1>4, ResultThere
  <1>6. Result(In("active", "paid", Price0), "ACTIVE", Periods0, {}, {"waiting_pay_ended"})
    BY <1>1, <1>2, <1>3, <1>4, ResultThere
  <1> QED BY <1>5, <1>6

\* A period that is not paid suspends the product.
LEMMA UnpaidResult ==
  ASSUME CascadeInv, TypeOK, saved.conf.top = "productProvision",
         Payment0 = "waitingPayment", calling \in {"payment_failed", "waiting_pay_ended"},
         Usage0 \in {"active", "activeTrial"}
  PROVE  Result(In("suspending", "notPaid", Price0), Status0, Periods0 - 1, {"SUSPEND"},
                {"waiting_pay_ended", "trial_ended", "commercial_ended"})
  <1> USE Before, AccountsThere
  <1> DEFINE gone == {"waiting_pay_ended", "trial_ended", "commercial_ended"}
  <1>1. RestsIn("suspending", "notPaid", Price0, Status0, Periods0 - 1)
    BY DEF RestsIn, InService
  <1>2. Moves(Status0, Account(saved.conf), Periods0,
              Status0, Account(In("suspending", "notPaid", Price0)), Periods0 - 1)
    BY DEF Moves, RestsIn, InService
  <1>3. OnSchedule => /\ FitsIn("suspending", "notPaid", Price0, Kept(gone) \cup ({"SUSPEND"} \cap TimerEvents))
                      /\ {"SUSPEND"} \cap Kept(gone) = {}
    BY DEF FitsIn, RestsIn, Kept, TimerEvents, TypeOK, MachineTypeOK
  <1>4. {"SUSPEND"} \cap gone = {}
    OBVIOUS
  <1> QED BY <1>1, <1>2, <1>3, <1>4, ResultThere

\* A late payment resumes the product.
LEMMA LateResult ==
  ASSUME CascadeInv, TypeOK, saved.conf.top = "productProvision",
         Payment0 = "notPaid", Usage0 = "suspended", Price0 = "commercial",
         calling = "payment_processed"
  PROVE  Result(In("resuming", "paid", "commercial"), Status0, Periods0 + 1,
                {"RESUME", "commercial_ended"}, {"suspend_ended"})
  <1> USE Before, AccountsThere
  <1> DEFINE made == {"RESUME", "commercial_ended"}
  <1>1. RestsIn("resuming", "paid", "commercial", Status0, Periods0 + 1)
    BY DEF RestsIn
  <1>2. Moves(Status0, Account(saved.conf), Periods0,
              Status0, Account(In("resuming", "paid", "commercial")), Periods0 + 1)
    BY DEF Moves, RestsIn
  <1>3. OnSchedule => /\ FitsIn("resuming", "paid", "commercial",
                                Kept({"suspend_ended"}) \cup (made \cap TimerEvents))
                      /\ made \cap Kept({"suspend_ended"}) = {}
    BY DEF FitsIn, RestsIn, Kept, TimerEvents, TypeOK, MachineTypeOK
  <1>4. made \cap {"suspend_ended"} = {}
    OBVIOUS
  <1> QED BY <1>1, <1>2, <1>3, <1>4, ResultThere

\* A deactivation has switched everything off.
LEMMA ClosedResult ==
  ASSUME CascadeInv, TypeOK, saved.conf.top = "productProvision", Deactivates
  PROVE  Result(In("pendingDisconnect", "paymentFinal", "priceFinal"), "PENDING_DISCONNECT", Periods0,
                {"disconnect"},
                Waited \cup (IF Usage0 = "suspended" THEN {"suspend_ended"} ELSE {})
                       \cup {"trial_ended", "commercial_ended"})
  <1> USE Before, AccountsThere DEF Deactivates
  <1> DEFINE gone == Waited \cup (IF Usage0 = "suspended" THEN {"suspend_ended"} ELSE {})
                            \cup {"trial_ended", "commercial_ended"}
  <1>1. RestsIn("pendingDisconnect", "paymentFinal", "priceFinal", "PENDING_DISCONNECT", Periods0)
    BY DEF RestsIn
  <1>2. Moves(Status0, Account(saved.conf), Periods0, "PENDING_DISCONNECT",
              Account(In("pendingDisconnect", "paymentFinal", "priceFinal")), Periods0)
    BY DEF Moves, RestsIn, InService, PaymentOn
  <1>3. OnSchedule => /\ FitsIn("pendingDisconnect", "paymentFinal", "priceFinal",
                                Kept(gone) \cup ({"disconnect"} \cap TimerEvents))
                      /\ {"disconnect"} \cap Kept(gone) = {}
    BY DEF FitsIn, RestsIn, Kept, TimerEvents, Waited, PaymentOn
  <1>4. {"disconnect"} \cap gone = {}
    BY DEF Waited
  <1> HIDE DEF gone
  <1>5. Result(In("pendingDisconnect", "paymentFinal", "priceFinal"), "PENDING_DISCONNECT", Periods0,
               {"disconnect"}, gone)
    BY <1>1, <1>2, <1>3, <1>4, ResultThere
  <1> QED BY <1>5 DEF gone

\* A product that is not activated yet.
LEMMA BeforeActivation ==
  ASSUME CascadeInv, TypeOK, saved.conf.top = "pendingActivate"
  PROVE  /\ saved.conf = Outside("pendingActivate") /\ Status0 = "PENDING_ACTIVATE"
         /\ Periods0 \in Int /\ Periods0 >= 0 /\ Account(saved.conf) = "none"
         /\ OnSchedule => timers = {}
  <1>1. /\ saved.conf \in Configurations /\ WellFormed(saved.conf) /\ Periods0 \in Int
    BY DEF TypeOK, MachineTypeOK, SavedProducts, Products, Periods0
  <1>2. saved.conf = Outside("pendingActivate")
    BY <1>1 DEF WellFormed, Configurations, Outside
  <1>3. Status0 = "PENDING_ACTIVATE" /\ Periods0 >= 0
    BY DEF CascadeInv, Rests, StatusFits
  <1>4. Account(saved.conf) = "none"
    BY <1>2, Accounts DEF Outside
  <1>5. OnSchedule => timers = {}
    BY <1>2 DEF CascadeInv, Fits, Outside, NoLeaf, TimerEvents, TypeOK, MachineTypeOK
  <1> QED BY <1>1, <1>2, <1>3, <1>4, <1>5

\* A product has been activated, its first period to be paid.
LEMMA DueResult ==
  ASSUME CascadeInv, TypeOK, saved.conf.top = "pendingActivate"
  PROVE  Result(In("active", "waitingPayment", "commercial"), "ACTIVE", Periods0 + 1,
                {"commercial_ended", "waiting_pay_ended"}, {})
  <1> USE BeforeActivation, AccountsThere
  <1>1. RestsIn("active", "waitingPayment", "commercial", "ACTIVE", Periods0 + 1)
    BY DEF RestsIn
  <1>2. Moves(Status0, Account(saved.conf), Periods0, "ACTIVE",
              Account(In("active", "waitingPayment", "commercial")), Periods0 + 1)
    BY DEF Moves
  <1>3. OnSchedule => /\ FitsIn("active", "waitingPayment", "commercial",
                                Kept({}) \cup ({"commercial_ended", "waiting_pay_ended"} \cap TimerEvents))
                      /\ {"commercial_ended", "waiting_pay_ended"} \cap Kept({}) = {}
    BY DEF FitsIn, Kept, TimerEvents
  <1> QED BY <1>1, <1>2, <1>3, ResultThere

\* A product has been activated on trial.
LEMMA FreeResult ==
  ASSUME CascadeInv, TypeOK, saved.conf.top = "pendingActivate"
  PROVE  Result(In("activeTrial", "paid", "trial"), "ACTIVE_TRIAL", Periods0 + 1, {"trial_ended"}, {})
  <1> USE BeforeActivation, AccountsThere
  <1>1. RestsIn("activeTrial", "paid", "trial", "ACTIVE_TRIAL", Periods0 + 1)
    BY DEF RestsIn
  <1>2. Moves(Status0, Account(saved.conf), Periods0, "ACTIVE_TRIAL",
              Account(In("activeTrial", "paid", "trial")), Periods0 + 1)
    BY DEF Moves
  <1>3. OnSchedule => /\ FitsIn("activeTrial", "paid", "trial",
                                Kept({}) \cup ({"trial_ended"} \cap TimerEvents))
                      /\ {"trial_ended"} \cap Kept({}) = {}
    BY DEF FitsIn, Kept, TimerEvents
  <1> QED BY <1>1, <1>2, <1>3, ResultThere

\* A product outside productProvision rests.
LEMMA RestsOutside ==
  ASSUME NEW top \in {"pendingActivate", "aborted", "disconnect"}, NEW n \in Int, n >= 0
  PROVE  Rests(Outside(top), StatusOnEntry(top, "none"), n)
  BY DEF Rests, StatusFits, Outside, StatusOnEntry, UsageClosed, UsageOff, NoLeaf

\* The activation has been aborted.
LEMMA AbortedResult ==
  ASSUME CascadeInv, TypeOK, saved.conf.top = "pendingActivate"
  PROVE  Result(Outside("aborted"), "ABORTED", Periods0, {}, {})
  <1> USE BeforeActivation
  <1>1. Rests(Outside("aborted"), "ABORTED", Periods0)
    BY RestsOutside DEF StatusOnEntry
  <1>2. Account(Outside("aborted")) = "none"
    BY Accounts DEF Outside
  <1>3. Moves(Status0, Account(saved.conf), Periods0, "ABORTED", Account(Outside("aborted")), Periods0)
    BY <1>2 DEF Moves
  <1>4. OnSchedule => Fits(Outside("aborted"), Kept({}) \cup ({} \cap TimerEvents))
    BY DEF Fits, Kept, Outside, NoLeaf
  <1> QED BY <1>1, <1>3, <1>4 DEF Result, Kept

\* The product is disconnected.
LEMMA GoneResult ==
  ASSUME CascadeInv, TypeOK, saved.conf.top = "productProvision", Usage0 = "disconnection"
  PROVE  Result(Outside("disconnect"), "DISCONNECT", Periods0, {}, {})
  <1> USE Before
  <1>1. Rests(Outside("disconnect"), "DISCONNECT", Periods0)
    BY RestsOutside DEF StatusOnEntry, RestsIn
  <1>2. Account(Outside("disconnect")) = "none" /\ Account(saved.conf) = "closed"
    BY Accounts, AccountsThere DEF Outside, RestsIn
  <1>3. Moves(Status0, Account(saved.conf), Periods0, "DISCONNECT", Account(Outside("disconnect")), Periods0)
    BY <1>2 DEF Moves, RestsIn
  <1>4. OnSchedule => Fits(Outside("disconnect"), Kept({}) \cup ({} \cap TimerEvents))
    BY DEF Fits, FitsIn, RestsIn, Kept, Outside, NoLeaf
  <1> QED BY <1>1, <1>3, <1>4 DEF Result, Kept

\* What a step to a leaf of productProvision changes, unless the state entered
\* announces that it has been entered, or the product that it has finished.
Streams(from, to) ==
  /\ status' = StatusOnEntry(to, status)
  /\ product' = Entry(from, to).product
  /\ queue' = Tail(queue) \o Signal(from, Exit(from).emit) \o Signal(to, Entry(from, to).emit)
                \o <<>> \o <<>>
  /\ tasks' = tasks \o Exit(from).create \o Entry(from, to).create
  /\ ToSet(deleteTasks') = ToSet(deleteTasks) \cup
       (ToSet(Exit(from).delete) \cup ToSet(Entry(from, to).delete))
  /\ completed' = (completed \/ Exit(from).completed \/ Entry(from, to).completed
                     \/ to \in CompletesWhenEntered)
  /\ UNCHANGED <<nextPrice, calling, saved, timers>>

\* A step to such a leaf, with what its two handlers do.
LEMMA Streaming ==
  ASSUME TypeOK, queue # <<>>, NEW from, NEW to, Does(from, to), to \notin SignalsWhenEntered,
         NEW u \in UsageLeaves \ {"usageFinal"}, NEW p \in PaymentLeaves, NEW r \in PriceLeaves,
         conf' = In(u, p, r)
  PROVE  Streams(from, to)
  <1>1. ~Finished(conf')
    BY DEF Finished, FinalLeaves, In, PaymentLeaves, PaymentOn, PaymentOff, PriceLeaves, PriceOn
  <1>2. EnteredSignal(to) = <<>> /\ FinishedSignal(conf') = <<>>
    BY <1>1, SmallSignals DEF EnteredSignal, FinishedSignal
  <1> QED BY <1>2, DeletedTasks DEF Does, Streams

\* Where a call starts.
LEMMA LoadedStart ==
  ASSUME Loaded
  PROVE  /\ queue # <<>> /\ Head(queue) = Sig("machine", calling) /\ Tail(queue) = <<>>
         /\ tasks = <<>> /\ ToSet(deleteTasks) = {} /\ ~completed /\ reason = NoError
         /\ conf = saved.conf /\ status = Status0 /\ product.tarificationPeriod = Periods0
  BY HeadsAndTails, SetsOfTuples DEF Loaded, Periods0

\* Where a call starts, of a product in productProvision.
LEMMA LoadedThere ==
  ASSUME CascadeInv, TypeOK, Loaded, conf.top = "productProvision"
  PROVE  /\ saved.conf.top = "productProvision" /\ conf = In(Usage0, Payment0, Price0)
         /\ queue # <<>> /\ Head(queue) = Sig("machine", calling) /\ Tail(queue) = <<>>
         /\ tasks = <<>> /\ ToSet(deleteTasks) = {} /\ ~completed /\ reason = NoError
         /\ status = Status0 /\ product.tarificationPeriod = Periods0
         /\ Usage0 \in UsageLeaves \ {"usageFinal"} /\ Payment0 \in PaymentLeaves /\ Price0 \in PriceLeaves
  <1>1. saved.conf.top = "productProvision" /\ conf = In(Usage0, Payment0, Price0)
    BY Before DEF Loaded
  <1>2. /\ queue # <<>> /\ Head(queue) = Sig("machine", calling) /\ Tail(queue) = <<>>
        /\ tasks = <<>> /\ ToSet(deleteTasks) = {} /\ ~completed /\ reason = NoError
        /\ status = Status0 /\ product.tarificationPeriod = Periods0
    BY LoadedStart
  <1>3. Usage0 \in UsageLeaves \ {"usageFinal"} /\ Payment0 \in PaymentLeaves /\ Price0 \in PriceLeaves
    BY <1>1, Before DEF RestsIn, UsageLeaves, UsageOn, UsageOff, Activated, PaymentLeaves,
       PaymentOn, PaymentOff, PriceLeaves, PriceOn
  <1> QED BY <1>1, <1>2, <1>3

\* In the middle of a cascade.
LEMMA AtThere ==
  ASSUME CascadeInv, TypeOK, NEW s, NEW c, NEW st, NEW n, NEW made, NEW gone,
         At(<<s>>, c, st, n, made, gone)
  PROVE  /\ saved.conf.top = "productProvision" /\ conf = c
         /\ queue # <<>> /\ Head(queue) = s /\ Tail(queue) = <<>>
         /\ tasks = made /\ ToSet(deleteTasks) = gone /\ ~completed
         /\ status = st /\ product.tarificationPeriod = n
         /\ Usage0 \in UsageLeaves \ {"usageFinal"} /\ Payment0 \in PaymentLeaves /\ Price0 \in PriceLeaves
  <1>1. Usage0 \in UsageLeaves \ {"usageFinal"} /\ Payment0 \in PaymentLeaves /\ Price0 \in PriceLeaves
    BY Before DEF At, RestsIn, UsageLeaves, UsageOn, UsageOff, Activated, PaymentLeaves,
       PaymentOn, PaymentOff, PriceLeaves, PriceOn
  <1> QED BY <1>1, HeadsAndTails DEF At

\* An activation, once the signals of the price region are heard.
LEMMA EnteringThere ==
  ASSUME Entering, Head(queue).sender = "priceOnEntry"
  PROVE  /\ queue # <<>> /\ Tail(queue) = <<>>
         /\ Head(queue) = Sig("priceOnEntry", Head(queue).value)
         /\ Activating(queue, "paymentOnEntry", "priceOnEntry", Periods0, <<>>)
  <1>1. PICK v \in {"activation_completed", "trial_activation_completed"} :
          \E q \in {<<Sig("activatedEntry", calling), Sig("paymentOnEntry", calling), Sig("priceOnEntry", v)>>,
                    <<Sig("paymentOnEntry", calling), Sig("priceOnEntry", v)>>,
                    <<Sig("priceOnEntry", v)>>} :
            Activating(q, "paymentOnEntry", "priceOnEntry", Periods0, <<>>)
    BY DEF Entering
  <1>2. queue = <<Sig("priceOnEntry", v)>>
    BY <1>1, HeadsAndTails DEF Activating, Sig
  <1> QED BY <1>1, <1>2, HeadsAndTails DEF Activating, Sig

-----------------------------------------------------------------------------
(* From the caller's event. *)

\* The price has run its time.
LEMMA StepChanging ==
  ASSUME CascadeInv, TypeOK, Loaded, conf.top = "productProvision", PriceMoved("priceChanging"),
         PriceIsOver(product)
  PROVE  Phase'
  <1> USE LoadedThere
  <1>1. /\ Does(Price0, "priceChanging")
        /\ conf' = In(Usage0, Payment0, "priceChanging")
        /\ PeriodOver
        /\ Price0 \in {"commercial", "trial"}
        /\ calling # "deactivation_started"
    BY DEF PriceMoved, PriceMove, Heard, Sig, In, PeriodOver
  <1>2. Has(Exit(Price0), <<>>, <<>>, <<>>, product, FALSE)
    BY <1>1, Exits DEF Exit
  <1>e. Entry(Price0, "priceChanging") = OnEntry("priceChanging", Head(queue), product)
    BY <1>2 DEF Has, Entry
  <1>3. Has(Entry(Price0, "priceChanging"), <<>>, <<"change_price">>, <<>>, product, TRUE)
    BY <1>1, <1>e, PriceEntries DEF Sig
  <1>4. /\ "priceChanging" \in PriceLeaves /\ "priceChanging" \notin SignalsWhenEntered
        /\ "priceChanging" \notin CompletesWhenEntered
        /\ StatusOnEntry("priceChanging", status) = Status0
    BY DEF PriceLeaves, PriceOn, SignalsWhenEntered, CompletesWhenEntered, StatusOnEntry
  <1>5. Streams(Price0, "priceChanging")
    BY <1>1, <1>4, Streaming DEF UsageLeaves, UsageOn, UsageOff, Activated, PaymentLeaves, PaymentOn,
       PaymentOff, PriceLeaves, PriceOn
  <1>6. /\ Tail(queue) \o Signal(Price0, <<>>) \o Signal("priceChanging", <<>>) \o <<>> \o <<>>
             = <<>>
        /\ tasks \o <<>> \o <<"change_price">> = <<"change_price">>
        /\ ToSet(deleteTasks) \cup (ToSet(<<>>) \cup ToSet(<<>>)) = {}
    BY <1>1, SmallSignals, Shapes, SetsOfTuples
  <1>7. Flows("priceChanging", <<>>, <<"change_price">>, {}, product, TRUE)
    BY <1>2, <1>3, <1>4, <1>5, <1>6 DEF Streams, Flows, Has
  <1>8. Result(In(Usage0, Payment0, "priceChanging"), StatusOnEntry("priceChanging", status),
               product.tarificationPeriod, ToSet(<<"change_price">>), {})
    BY <1>1, <1>4, SetsOfTuples, ChangingResult
  <1>9. Ended'
    BY <1>1, <1>7, <1>8, EndsCompleted, Injections DEF Deactivates
  <1> QED BY <1>9 DEF Phase

\* From commercial or trial to priceChanging, whose price stays as it is.
LEMMA StepNotChanging ==
  ASSUME CascadeInv, TypeOK, Loaded, conf.top = "productProvision", PriceMoved("priceChanging"),
         ~PriceIsOver(product)
  PROVE  Phase'
  <1> USE LoadedThere
  <1>1. /\ Does(Price0, "priceChanging")
        /\ conf' = In(Usage0, Payment0, "priceChanging")
        /\ PeriodOver
        /\ Price0 \in {"commercial", "trial"}
        /\ calling # "deactivation_started"
    BY DEF PriceMoved, PriceMove, Heard, Sig, In, PeriodOver
  <1>2. Has(Exit(Price0), <<>>, <<>>, <<>>, product, FALSE)
    BY <1>1, Exits DEF Exit
  <1>e. Entry(Price0, "priceChanging") = OnEntry("priceChanging", Head(queue), product)
    BY <1>2 DEF Has, Entry
  <1>3. Has(Entry(Price0, "priceChanging"), <<"not_change_price">>, <<>>, <<>>, product, FALSE)
    BY <1>1, <1>e, PriceEntries DEF Sig
  <1>4. /\ "priceChanging" \in PriceLeaves /\ "priceChanging" \notin SignalsWhenEntered
        /\ "priceChanging" \notin CompletesWhenEntered
        /\ StatusOnEntry("priceChanging", status) = Status0
    BY DEF PriceLeaves, PriceOn, SignalsWhenEntered, CompletesWhenEntered, StatusOnEntry
  <1>5. Streams(Price0, "priceChanging")
    BY <1>1, <1>4, Streaming DEF UsageLeaves, UsageOn, UsageOff, Activated, PaymentLeaves, PaymentOn,
       PaymentOff, PriceLeaves, PriceOn
  <1>6. /\ Tail(queue) \o Signal(Price0, <<>>) \o Signal("priceChanging", <<"not_change_price">>)
             \o <<>> \o <<>>
             = <<Sig("priceChanging", "not_change_price")>>
        /\ tasks \o <<>> \o <<>> = <<>>
        /\ ToSet(deleteTasks) \cup (ToSet(<<>>) \cup ToSet(<<>>)) = {}
    <2>1. /\ Signal(Price0, <<>>) = <<>>
          /\ Signal("priceChanging", <<"not_change_price">>)
               = <<Sig("priceChanging", "not_change_price")>>
      BY SmallSignals
    <2>2. ToSet(<<>>) = {} /\ ToSet(<<>>) = {}
      BY SetsOfTuples
    <2>3. Tail(queue) \o Signal(Price0, <<>>) \o Signal("priceChanging", <<"not_change_price">>)
            \o <<>> \o <<>>
               = <<Sig("priceChanging", "not_change_price")>>
      BY <2>1, <1>1, Shapes
    <2> QED BY <2>2, <2>3, <1>1, Shapes
  <1>7. Flows("priceChanging", <<Sig("priceChanging", "not_change_price")>>, <<>>, {}, product, FALSE)
    BY <1>2, <1>3, <1>4, <1>5, <1>6 DEF Streams, Flows, Has
  <1>8. NotChanging'
    BY <1>1, <1>4, <1>7
    DEF Flows, NotChanging, At, Usage0, Payment0, Price0, Status0, Periods0, PeriodOver
  <1> QED BY <1>8 DEF Phase

\* From priceChanging to priceChanged: the call ends.
LEMMA StepChanged ==
  ASSUME CascadeInv, TypeOK, Loaded, conf.top = "productProvision", PriceMoved("priceChanged")
  PROVE  Phase'
  <1> USE LoadedThere
  <1>1. /\ Does(Price0, "priceChanged")
        /\ conf' = In(Usage0, Payment0, "priceChanged")
        /\ calling = "change_price"
        /\ Price0 = "priceChanging"
    BY DEF PriceMoved, PriceMove, Heard, Sig, In
  <1>2. Has(Exit(Price0), <<>>, <<>>, <<>>, product, FALSE)
    BY <1>1, Exits DEF Exit
  <1>e. Entry(Price0, "priceChanged") = OnEntry("priceChanged", Head(queue), product)
    BY <1>2 DEF Has, Entry
  <1>3. Has(Entry(Price0, "priceChanged"), <<>>, <<"CHANGE_PRICE">>, <<>>, product, TRUE)
    BY <1>1, <1>e, PriceEntries DEF Sig
  <1>4. /\ "priceChanged" \in PriceLeaves /\ "priceChanged" \notin SignalsWhenEntered
        /\ "priceChanged" \notin CompletesWhenEntered
        /\ StatusOnEntry("priceChanged", status) = Status0
    BY DEF PriceLeaves, PriceOn, SignalsWhenEntered, CompletesWhenEntered, StatusOnEntry
  <1>5. Streams(Price0, "priceChanged")
    BY <1>1, <1>4, Streaming DEF UsageLeaves, UsageOn, UsageOff, Activated, PaymentLeaves, PaymentOn,
       PaymentOff, PriceLeaves, PriceOn
  <1>6. /\ Tail(queue) \o Signal(Price0, <<>>) \o Signal("priceChanged", <<>>) \o <<>> \o <<>>
             = <<>>
        /\ tasks \o <<>> \o <<"CHANGE_PRICE">> = <<"CHANGE_PRICE">>
        /\ ToSet(deleteTasks) \cup (ToSet(<<>>) \cup ToSet(<<>>)) = {}
    BY <1>1, SmallSignals, Shapes, SetsOfTuples
  <1>7. Flows("priceChanged", <<>>, <<"CHANGE_PRICE">>, {}, product, TRUE)
    BY <1>2, <1>3, <1>4, <1>5, <1>6 DEF Streams, Flows, Has
  <1>8. Result(In(Usage0, Payment0, "priceChanged"), StatusOnEntry("priceChanged", status),
               product.tarificationPeriod, ToSet(<<"CHANGE_PRICE">>), {})
    BY <1>1, <1>4, SetsOfTuples, ChangedResult
  <1>9. Ended'
    BY <1>1, <1>7, <1>8, EndsCompleted, Injections DEF Deactivates
  <1> QED BY <1>9 DEF Phase

\* From pendingDisconnect to disconnection: the call ends.
LEMMA StepDisconnection ==
  ASSUME CascadeInv, TypeOK, Loaded, conf.top = "productProvision", UsageMoved("disconnection")
  PROVE  Phase'
  <1> USE LoadedThere
  <1>1. /\ Does(Usage0, "disconnection")
        /\ conf' = In("disconnection", Payment0, Price0)
        /\ calling = "disconnect"
        /\ Usage0 = "pendingDisconnect"
    BY DEF UsageMoved, UsageMove, Heard, Sig, In
  <1>2. Has(Exit(Usage0), <<>>, <<>>, <<>>, product, FALSE)
    BY <1>1, Exits DEF Exit
  <1>e. Entry(Usage0, "disconnection") = OnEntry("disconnection", Head(queue), product)
    BY <1>2 DEF Has, Entry
  <1>3. Has(Entry(Usage0, "disconnection"), <<>>, <<"DISCONNECT">>, <<>>, product, TRUE)
    BY <1>1, <1>e, UsageEntries DEF Sig
  <1>4. /\ "disconnection" \in UsageLeaves /\ "disconnection" \notin SignalsWhenEntered
        /\ "disconnection" \notin CompletesWhenEntered
        /\ StatusOnEntry("disconnection", status) = Status0
    BY DEF UsageLeaves, UsageOn, UsageOff, Activated, SignalsWhenEntered, CompletesWhenEntered,
       StatusOnEntry
  <1>5. Streams(Usage0, "disconnection")
    BY <1>1, <1>4, Streaming DEF UsageLeaves, UsageOn, UsageOff, Activated, PaymentLeaves, PaymentOn,
       PaymentOff, PriceLeaves, PriceOn
  <1>6. /\ Tail(queue) \o Signal(Usage0, <<>>) \o Signal("disconnection", <<>>) \o <<>> \o <<>>
             = <<>>
        /\ tasks \o <<>> \o <<"DISCONNECT">> = <<"DISCONNECT">>
        /\ ToSet(deleteTasks) \cup (ToSet(<<>>) \cup ToSet(<<>>)) = {}
    BY <1>1, SmallSignals, Shapes, SetsOfTuples
  <1>7. Flows("disconnection", <<>>, <<"DISCONNECT">>, {}, product, TRUE)
    BY <1>2, <1>3, <1>4, <1>5, <1>6 DEF Streams, Flows, Has
  <1>8. Result(In("disconnection", Payment0, Price0), StatusOnEntry("disconnection", status),
               product.tarificationPeriod, ToSet(<<"DISCONNECT">>), {})
    BY <1>1, <1>4, SetsOfTuples, DisconnectionResult
  <1>9. Ended'
    BY <1>1, <1>7, <1>8, EndsCompleted, Injections DEF Deactivates
  <1> QED BY <1>9 DEF Phase

\* From suspending to suspended: the call ends.
LEMMA StepSuspended ==
  ASSUME CascadeInv, TypeOK, Loaded, conf.top = "productProvision", UsageMoved("suspended")
  PROVE  Phase'
  <1> USE LoadedThere
  <1>1. /\ Does(Usage0, "suspended")
        /\ conf' = In("suspended", Payment0, Price0)
        /\ calling = "suspend_completed"
        /\ Usage0 = "suspending"
    BY DEF UsageMoved, UsageMove, Heard, Sig, In
  <1>2. Has(Exit(Usage0), <<>>, <<>>, <<>>, product, FALSE)
    BY <1>1, Exits DEF Exit
  <1>e. Entry(Usage0, "suspended") = OnEntry("suspended", Head(queue), product)
    BY <1>2 DEF Has, Entry
  <1>3. Has(Entry(Usage0, "suspended"), <<>>, <<"suspend_ended">>, <<>>, product, TRUE)
    BY <1>1, <1>e, UsageEntries DEF Sig
  <1>4. /\ "suspended" \in UsageLeaves /\ "suspended" \notin SignalsWhenEntered
        /\ "suspended" \notin CompletesWhenEntered /\ StatusOnEntry("suspended", status) = "SUSPENDED"
    BY DEF UsageLeaves, UsageOn, UsageOff, Activated, SignalsWhenEntered, CompletesWhenEntered,
       StatusOnEntry
  <1>5. Streams(Usage0, "suspended")
    BY <1>1, <1>4, Streaming DEF UsageLeaves, UsageOn, UsageOff, Activated, PaymentLeaves, PaymentOn,
       PaymentOff, PriceLeaves, PriceOn
  <1>6. /\ Tail(queue) \o Signal(Usage0, <<>>) \o Signal("suspended", <<>>) \o <<>> \o <<>>
             = <<>>
        /\ tasks \o <<>> \o <<"suspend_ended">> = <<"suspend_ended">>
        /\ ToSet(deleteTasks) \cup (ToSet(<<>>) \cup ToSet(<<>>)) = {}
    BY <1>1, SmallSignals, Shapes, SetsOfTuples
  <1>7. Flows("suspended", <<>>, <<"suspend_ended">>, {}, product, TRUE)
    BY <1>2, <1>3, <1>4, <1>5, <1>6 DEF Streams, Flows, Has
  <1>8. Result(In("suspended", Payment0, Price0), StatusOnEntry("suspended", status),
               product.tarificationPeriod, ToSet(<<"suspend_ended">>), {})
    BY <1>1, <1>4, SetsOfTuples, SuspendedResult
  <1>9. Ended'
    BY <1>1, <1>7, <1>8, EndsCompleted, Injections DEF Deactivates
  <1> QED BY <1>9 DEF Phase

\* From paid to waitingPayment, when the caller asks for a payment: the call ends.
LEMMA StepWaiting ==
  ASSUME CascadeInv, TypeOK, Loaded, conf.top = "productProvision", PaymentMoved("waitingPayment")
  PROVE  Phase'
  <1> USE LoadedThere
  <1>1. /\ Does(Payment0, "waitingPayment")
        /\ conf' = In(Usage0, "waitingPayment", Price0)
        /\ calling = "wait_payment"
        /\ Payment0 = "paid"
    BY DEF PaymentMoved, PaymentMove, Heard, Sig, In
  <1>2. Has(Exit(Payment0), <<>>, <<>>, <<>>, product, FALSE)
    BY <1>1, Exits DEF Exit
  <1>e. Entry(Payment0, "waitingPayment") = OnEntry("waitingPayment", Head(queue), product)
    BY <1>2 DEF Has, Entry
  <1>3. Has(Entry(Payment0, "waitingPayment"), <<>>, <<"waiting_pay_ended">>, <<>>, product, TRUE)
    BY <1>1, <1>e, PaymentEntries DEF Sig
  <1>4. /\ "waitingPayment" \in PaymentLeaves /\ "waitingPayment" \notin SignalsWhenEntered
        /\ "waitingPayment" \notin CompletesWhenEntered
        /\ StatusOnEntry("waitingPayment", status) = Status0
    BY DEF PaymentLeaves, PaymentOn, PaymentOff, SignalsWhenEntered, CompletesWhenEntered,
       StatusOnEntry
  <1>5. Streams(Payment0, "waitingPayment")
    BY <1>1, <1>4, Streaming DEF UsageLeaves, UsageOn, UsageOff, Activated, PaymentLeaves, PaymentOn,
       PaymentOff, PriceLeaves, PriceOn
  <1>6. /\ Tail(queue) \o Signal(Payment0, <<>>) \o Signal("waitingPayment", <<>>) \o <<>> \o <<>>
             = <<>>
        /\ tasks \o <<>> \o <<"waiting_pay_ended">> = <<"waiting_pay_ended">>
        /\ ToSet(deleteTasks) \cup (ToSet(<<>>) \cup ToSet(<<>>)) = {}
    BY <1>1, SmallSignals, Shapes, SetsOfTuples
  <1>7. Flows("waitingPayment", <<>>, <<"waiting_pay_ended">>, {}, product, TRUE)
    BY <1>2, <1>3, <1>4, <1>5, <1>6 DEF Streams, Flows, Has
  <1>8. Result(In(Usage0, "waitingPayment", Price0), StatusOnEntry("waitingPayment", status),
               product.tarificationPeriod, ToSet(<<"waiting_pay_ended">>), {})
    BY <1>1, <1>4, SetsOfTuples, WaitingResult
  <1>9. Ended'
    BY <1>1, <1>7, <1>8, EndsCompleted, Injections DEF Deactivates
  <1> QED BY <1>9 DEF Phase

\* From prolongation to active: the call ends.
LEMMA StepProlonged ==
  ASSUME CascadeInv, TypeOK, Loaded, conf.top = "productProvision", UsageMoved("active"), Usage0
         = "prolongation"
  PROVE  Phase'
  <1> USE LoadedThere
  <1>1. /\ Does(Usage0, "active")
        /\ conf' = In("active", Payment0, Price0)
        /\ calling = "prolong_completed"
    BY DEF UsageMoved, UsageMove, Heard, Sig, In
  <1>2. Has(Exit(Usage0), <<>>, <<>>, <<>>, product, FALSE)
    BY <1>1, Exits DEF Exit
  <1>e. Entry(Usage0, "active") = OnEntry("active", Head(queue), product)
    BY <1>2 DEF Has, Entry
  <1>3. Has(Entry(Usage0, "active"), <<>>, <<>>, <<>>, product, FALSE)
    BY <1>1, <1>e, UsageEntries DEF Sig
  <1>4. /\ "active" \in UsageLeaves /\ "active" \notin SignalsWhenEntered
        /\ "active" \in CompletesWhenEntered
        /\ StatusOnEntry("active", status) = StatusOnEntry("active", Status0)
    BY DEF UsageLeaves, UsageOn, UsageOff, Activated, SignalsWhenEntered, CompletesWhenEntered,
       StatusOnEntry
  <1>5. Streams(Usage0, "active")
    BY <1>1, <1>4, Streaming DEF UsageLeaves, UsageOn, UsageOff, Activated, PaymentLeaves, PaymentOn,
       PaymentOff, PriceLeaves, PriceOn
  <1>6. /\ Tail(queue) \o Signal(Usage0, <<>>) \o Signal("active", <<>>) \o <<>> \o <<>>
             = <<>>
        /\ tasks \o <<>> \o <<>> = <<>>
        /\ ToSet(deleteTasks) \cup (ToSet(<<>>) \cup ToSet(<<>>)) = {}
    BY <1>1, SmallSignals, Shapes, SetsOfTuples
  <1>7. Flows("active", <<>>, <<>>, {}, product, TRUE)
    BY <1>2, <1>3, <1>4, <1>5, <1>6 DEF Streams, Flows, Has
  <1>8. Result(In("active", Payment0, Price0), StatusOnEntry("active", status),
               product.tarificationPeriod, ToSet(<<>>), {})
    BY <1>1, <1>4, SetsOfTuples, ProlongResult
  <1>9. Ended'
    BY <1>1, <1>7, <1>8, EndsCompleted, Injections DEF Deactivates
  <1> QED BY <1>9 DEF Phase

\* From prolongation to activeTrial: the call ends.
LEMMA StepProlongedTrial ==
  ASSUME CascadeInv, TypeOK, Loaded, conf.top = "productProvision", UsageMoved("activeTrial"), Usage0
         = "prolongation"
  PROVE  Phase'
  <1> USE LoadedThere
  <1>1. /\ Does(Usage0, "activeTrial")
        /\ conf' = In("activeTrial", Payment0, Price0)
        /\ calling = "prolong_completed"
    BY DEF UsageMoved, UsageMove, Heard, Sig, In
  <1>2. Has(Exit(Usage0), <<>>, <<>>, <<>>, product, FALSE)
    BY <1>1, Exits DEF Exit
  <1>e. Entry(Usage0, "activeTrial") = OnEntry("activeTrial", Head(queue), product)
    BY <1>2 DEF Has, Entry
  <1>3. Has(Entry(Usage0, "activeTrial"), <<>>, <<>>, <<>>, product, FALSE)
    BY <1>1, <1>e, UsageEntries DEF Sig
  <1>4. /\ "activeTrial" \in UsageLeaves /\ "activeTrial" \notin SignalsWhenEntered
        /\ "activeTrial" \in CompletesWhenEntered
        /\ StatusOnEntry("activeTrial", status) = StatusOnEntry("activeTrial", Status0)
    BY DEF UsageLeaves, UsageOn, UsageOff, Activated, SignalsWhenEntered, CompletesWhenEntered,
       StatusOnEntry
  <1>5. Streams(Usage0, "activeTrial")
    BY <1>1, <1>4, Streaming DEF UsageLeaves, UsageOn, UsageOff, Activated, PaymentLeaves, PaymentOn,
       PaymentOff, PriceLeaves, PriceOn
  <1>6. /\ Tail(queue) \o Signal(Usage0, <<>>) \o Signal("activeTrial", <<>>) \o <<>> \o <<>>
             = <<>>
        /\ tasks \o <<>> \o <<>> = <<>>
        /\ ToSet(deleteTasks) \cup (ToSet(<<>>) \cup ToSet(<<>>)) = {}
    BY <1>1, SmallSignals, Shapes, SetsOfTuples
  <1>7. Flows("activeTrial", <<>>, <<>>, {}, product, TRUE)
    BY <1>2, <1>3, <1>4, <1>5, <1>6 DEF Streams, Flows, Has
  <1>8. Result(In("activeTrial", Payment0, Price0), StatusOnEntry("activeTrial", status),
               product.tarificationPeriod, ToSet(<<>>), {})
    BY <1>1, <1>4, SetsOfTuples, ProlongResult
  <1>9. Ended'
    BY <1>1, <1>7, <1>8, EndsCompleted, Injections DEF Deactivates
  <1> QED BY <1>9 DEF Phase

\* From resuming to active: the call ends.
LEMMA StepResumed ==
  ASSUME CascadeInv, TypeOK, Loaded, conf.top = "productProvision", UsageMoved("active"), Usage0
         = "resuming"
  PROVE  Phase'
  <1> USE LoadedThere
  <1>1. /\ Does(Usage0, "active")
        /\ conf' = In("active", Payment0, Price0)
        /\ calling = "resume_completed"
    BY DEF UsageMoved, UsageMove, Heard, Sig, In
  <1>2. Has(Exit(Usage0), <<>>, <<>>, <<>>, product, FALSE)
    BY <1>1, Exits DEF Exit
  <1>e. Entry(Usage0, "active") = OnEntry("active", Head(queue), product)
    BY <1>2 DEF Has, Entry
  <1>3. Has(Entry(Usage0, "active"), <<>>, <<>>, <<>>, product, FALSE)
    BY <1>1, <1>e, UsageEntries DEF Sig
  <1>4. /\ "active" \in UsageLeaves /\ "active" \notin SignalsWhenEntered
        /\ "active" \in CompletesWhenEntered /\ StatusOnEntry("active", status) = "ACTIVE"
    BY DEF UsageLeaves, UsageOn, UsageOff, Activated, SignalsWhenEntered, CompletesWhenEntered,
       StatusOnEntry
  <1>5. Streams(Usage0, "active")
    BY <1>1, <1>4, Streaming DEF UsageLeaves, UsageOn, UsageOff, Activated, PaymentLeaves, PaymentOn,
       PaymentOff, PriceLeaves, PriceOn
  <1>6. /\ Tail(queue) \o Signal(Usage0, <<>>) \o Signal("active", <<>>) \o <<>> \o <<>>
             = <<>>
        /\ tasks \o <<>> \o <<>> = <<>>
        /\ ToSet(deleteTasks) \cup (ToSet(<<>>) \cup ToSet(<<>>)) = {}
    BY <1>1, SmallSignals, Shapes, SetsOfTuples
  <1>7. Flows("active", <<>>, <<>>, {}, product, TRUE)
    BY <1>2, <1>3, <1>4, <1>5, <1>6 DEF Streams, Flows, Has
  <1>8. Result(In("active", Payment0, Price0), StatusOnEntry("active", status),
               product.tarificationPeriod, ToSet(<<>>), {})
    BY <1>1, <1>4, SetsOfTuples, ResumedResult
  <1>9. Ended'
    BY <1>1, <1>7, <1>8, EndsCompleted, Injections DEF Deactivates
  <1> QED BY <1>9 DEF Phase

\* To paymentStopping, with no payment due: the call ends.
LEMMA StepStopping ==
  ASSUME CascadeInv, TypeOK, Loaded, conf.top = "productProvision", PaymentMoved("paymentStopping"),
         Payment0 # "waitingPayment"
  PROVE  Phase'
  <1> USE LoadedThere
  <1>1. /\ Does(Payment0, "paymentStopping")
        /\ conf' = In(Usage0, "paymentStopping", Price0)
        /\ \/ calling \in {"suspend_ended", "end_of_suspend"} /\ Payment0 = "notPaid"
           \/ calling \in {"close_subscriber", "deactivation_external"} /\ Payment0 \in PaymentOn
        /\ Payment0 \in PaymentOn
    BY DEF PaymentMoved, PaymentMove, Heard, Sig, In, PaymentOn
  <1>2. Has(Exit(Payment0), <<>>, <<>>, <<>>, product, FALSE)
    BY <1>1, Exits DEF Exit, Sig, PaymentOn
  <1>e. Entry(Payment0, "paymentStopping") = OnEntry("paymentStopping", Head(queue), product)
    BY <1>2 DEF Has, Entry
  <1>3. Has(Entry(Payment0, "paymentStopping"), <<>>, <<"DISCONNECT_EXTERNAL">>, <<>>, product, TRUE)
    BY <1>1, <1>e, PaymentEntries DEF Sig
  <1>4. /\ "paymentStopping" \in PaymentLeaves /\ "paymentStopping" \notin SignalsWhenEntered
        /\ "paymentStopping" \notin CompletesWhenEntered
        /\ StatusOnEntry("paymentStopping", status) = Status0
    BY DEF PaymentLeaves, PaymentOn, PaymentOff, SignalsWhenEntered, CompletesWhenEntered,
       StatusOnEntry
  <1>5. Streams(Payment0, "paymentStopping")
    BY <1>1, <1>4, Streaming DEF UsageLeaves, UsageOn, UsageOff, Activated, PaymentLeaves, PaymentOn,
       PaymentOff, PriceLeaves, PriceOn
  <1>6. /\ Tail(queue) \o Signal(Payment0, <<>>) \o Signal("paymentStopping", <<>>) \o <<>> \o <<>>
             = <<>>
        /\ tasks \o <<>> \o <<"DISCONNECT_EXTERNAL">> = <<"DISCONNECT_EXTERNAL">>
        /\ ToSet(deleteTasks) \cup (ToSet(<<>>) \cup ToSet(<<>>)) = {}
    BY <1>1, SmallSignals, Shapes, SetsOfTuples
  <1>7. Flows("paymentStopping", <<>>, <<"DISCONNECT_EXTERNAL">>, {}, product, TRUE)
    BY <1>2, <1>3, <1>4, <1>5, <1>6 DEF Streams, Flows, Has
  <1>8. Result(In(Usage0, "paymentStopping", Price0), StatusOnEntry("paymentStopping", status),
               product.tarificationPeriod, ToSet(<<"DISCONNECT_EXTERNAL">>), {})
    BY <1>1, <1>4, SetsOfTuples, StoppingResult DEF Waited
  <1>9. Ended'
    BY <1>1, <1>7, <1>8, EndsCompleted, Injections DEF Deactivates
  <1> QED BY <1>9 DEF Phase

\* From waitingPayment to paymentStopping: the call ends, and no payment is waited for.
LEMMA StepStoppingWait ==
  ASSUME CascadeInv, TypeOK, Loaded, conf.top = "productProvision", PaymentMoved("paymentStopping"),
         Payment0 = "waitingPayment"
  PROVE  Phase'
  <1> USE LoadedThere
  <1>1. /\ Does(Payment0, "paymentStopping")
        /\ conf' = In(Usage0, "paymentStopping", Price0)
        /\ calling \in {"close_subscriber", "deactivation_external"}
        /\ Payment0 \in PaymentOn
    BY DEF PaymentMoved, PaymentMove, Heard, Sig, In, PaymentOn
  <1>2. Has(Exit(Payment0), <<>>, <<>>, <<"waiting_pay_ended">>, product, FALSE)
    BY <1>1, Exits DEF Exit, Sig, ClosingEvents
  <1>e. Entry(Payment0, "paymentStopping") = OnEntry("paymentStopping", Head(queue), product)
    BY <1>2 DEF Has, Entry
  <1>3. Has(Entry(Payment0, "paymentStopping"), <<>>, <<"DISCONNECT_EXTERNAL">>, <<>>, product, TRUE)
    BY <1>1, <1>e, PaymentEntries DEF Sig
  <1>4. /\ "paymentStopping" \in PaymentLeaves /\ "paymentStopping" \notin SignalsWhenEntered
        /\ "paymentStopping" \notin CompletesWhenEntered
        /\ StatusOnEntry("paymentStopping", status) = Status0
    BY DEF PaymentLeaves, PaymentOn, PaymentOff, SignalsWhenEntered, CompletesWhenEntered,
       StatusOnEntry
  <1>5. Streams(Payment0, "paymentStopping")
    BY <1>1, <1>4, Streaming DEF UsageLeaves, UsageOn, UsageOff, Activated, PaymentLeaves, PaymentOn,
       PaymentOff, PriceLeaves, PriceOn
  <1>6. /\ Tail(queue) \o Signal(Payment0, <<>>) \o Signal("paymentStopping", <<>>) \o <<>> \o <<>>
             = <<>>
        /\ tasks \o <<>> \o <<"DISCONNECT_EXTERNAL">> = <<"DISCONNECT_EXTERNAL">>
        /\ ToSet(deleteTasks) \cup (ToSet(<<"waiting_pay_ended">>) \cup ToSet(<<>>))
             = {"waiting_pay_ended"}
    BY <1>1, SmallSignals, Shapes, SetsOfTuples
  <1>7. Flows("paymentStopping", <<>>, <<"DISCONNECT_EXTERNAL">>, {"waiting_pay_ended"}, product,
              TRUE)
    BY <1>2, <1>3, <1>4, <1>5, <1>6 DEF Streams, Flows, Has
  <1>8. Result(In(Usage0, "paymentStopping", Price0), StatusOnEntry("paymentStopping", status),
               product.tarificationPeriod, ToSet(<<"DISCONNECT_EXTERNAL">>), {"waiting_pay_ended"})
    BY <1>1, <1>4, SetsOfTuples, StoppingResult DEF Waited
  <1>9. Ended'
    BY <1>1, <1>7, <1>8, EndsCompleted, Injections DEF Deactivates
  <1> QED BY <1>9 DEF Phase

\* From waitingPayment to notPaid: the period is taken back, the usage told to suspend.
LEMMA StepUnpaid ==
  ASSUME CascadeInv, TypeOK, Loaded, conf.top = "productProvision", PaymentMoved("notPaid")
  PROVE  Phase'
  <1> USE LoadedThere
  <1>1. /\ Does(Payment0, "notPaid")
        /\ conf' = In(Usage0, "notPaid", Price0)
        /\ Payment0 = "waitingPayment"
        /\ calling \in {"payment_failed", "waiting_pay_ended"}
    BY DEF PaymentMoved, PaymentMove, Heard, Sig, In
  <1>2. Has(Exit(Payment0), <<"suspend">>, <<>>, <<"waiting_pay_ended">>, product, FALSE)
    BY <1>1, Exits DEF Exit, Sig, ClosingEvents
  <1>e. Entry(Payment0, "notPaid") = OnEntry("notPaid", Head(queue), product)
    BY <1>2 DEF Has, Entry
  <1>3. Has(Entry(Payment0, "notPaid"), <<>>, <<>>, <<>>,
            [product EXCEPT !.tarificationPeriod = @ - 1], FALSE)
    BY <1>1, <1>e, PaymentEntries DEF Sig
  <1>4. /\ "notPaid" \in PaymentLeaves /\ "notPaid" \notin SignalsWhenEntered
        /\ "notPaid" \notin CompletesWhenEntered /\ StatusOnEntry("notPaid", status) = Status0
    BY DEF PaymentLeaves, PaymentOn, PaymentOff, SignalsWhenEntered, CompletesWhenEntered,
       StatusOnEntry
  <1>5. Streams(Payment0, "notPaid")
    BY <1>1, <1>4, Streaming DEF UsageLeaves, UsageOn, UsageOff, Activated, PaymentLeaves, PaymentOn,
       PaymentOff, PriceLeaves, PriceOn
  <1>6. /\ Tail(queue) \o Signal(Payment0, <<"suspend">>) \o Signal("notPaid", <<>>) \o <<>> \o <<>>
             = <<Sig(Payment0, "suspend")>>
        /\ tasks \o <<>> \o <<>> = <<>>
        /\ ToSet(deleteTasks) \cup (ToSet(<<"waiting_pay_ended">>) \cup ToSet(<<>>))
             = {"waiting_pay_ended"}
    <2>1. /\ Signal(Payment0, <<"suspend">>) = <<Sig(Payment0, "suspend")>>
          /\ Signal("notPaid", <<>>) = <<>>
      BY SmallSignals
    <2>2. ToSet(<<"waiting_pay_ended">>) = {"waiting_pay_ended"} /\ ToSet(<<>>) = {}
      BY SetsOfTuples
    <2>3. Tail(queue) \o Signal(Payment0, <<"suspend">>) \o Signal("notPaid", <<>>) \o <<>> \o <<>>
               = <<Sig(Payment0, "suspend")>>
      BY <2>1, <1>1, Shapes
    <2> QED BY <2>2, <2>3, <1>1, Shapes
  <1>7. Flows("notPaid", <<Sig(Payment0, "suspend")>>, <<>>, {"waiting_pay_ended"},
              [product EXCEPT !.tarificationPeriod = @ - 1], FALSE)
    BY <1>2, <1>3, <1>4, <1>5, <1>6 DEF Streams, Flows, Has
  <1>8. Unpaid'
    BY <1>1, <1>4, <1>7
    DEF Flows, Unpaid, At, Usage0, Payment0, Price0, Status0, Periods0, TypeOK, MachineTypeOK, Products
  <1> QED BY <1>8 DEF Phase

\* From notPaid to paid: the usage is told to resume.
LEMMA StepPaidLate ==
  ASSUME CascadeInv, TypeOK, Loaded, conf.top = "productProvision", PaymentMoved("paid"), Payment0
         = "notPaid", calling = "payment_processed"
  PROVE  Phase'
  <1> USE LoadedThere
  <1>1. /\ Does(Payment0, "paid")
        /\ conf' = In(Usage0, "paid", Price0)
    BY DEF PaymentMoved, PaymentMove, Heard, Sig, In
  <1>2. Has(Exit(Payment0), <<"resume">>, <<>>, <<>>, product, FALSE)
    BY <1>1, Exits DEF Exit, Sig
  <1>e. Entry(Payment0, "paid") = OnEntry("paid", Head(queue), product)
    BY <1>2 DEF Has, Entry
  <1>3. Has(Entry(Payment0, "paid"), <<>>, <<>>, <<>>, product, FALSE)
    BY <1>1, <1>e, PaymentEntries DEF Sig
  <1>4. /\ "paid" \in PaymentLeaves /\ "paid" \notin SignalsWhenEntered
        /\ "paid" \notin CompletesWhenEntered /\ StatusOnEntry("paid", status) = Status0
    BY DEF PaymentLeaves, PaymentOn, PaymentOff, SignalsWhenEntered, CompletesWhenEntered,
       StatusOnEntry
  <1>5. Streams(Payment0, "paid")
    BY <1>1, <1>4, Streaming DEF UsageLeaves, UsageOn, UsageOff, Activated, PaymentLeaves, PaymentOn,
       PaymentOff, PriceLeaves, PriceOn
  <1>6. /\ Tail(queue) \o Signal(Payment0, <<"resume">>) \o Signal("paid", <<>>) \o <<>> \o <<>>
             = <<Sig(Payment0, "resume")>>
        /\ tasks \o <<>> \o <<>> = <<>>
        /\ ToSet(deleteTasks) \cup (ToSet(<<>>) \cup ToSet(<<>>)) = {}
    <2>1. Signal(Payment0, <<"resume">>) = <<Sig(Payment0, "resume")>> /\ Signal("paid", <<>>) = <<>>
      BY SmallSignals
    <2>2. ToSet(<<>>) = {} /\ ToSet(<<>>) = {}
      BY SetsOfTuples
    <2>3. Tail(queue) \o Signal(Payment0, <<"resume">>) \o Signal("paid", <<>>) \o <<>> \o <<>>
               = <<Sig(Payment0, "resume")>>
      BY <2>1, <1>1, Shapes
    <2> QED BY <2>2, <2>3, <1>1, Shapes
  <1>7. Flows("paid", <<Sig(Payment0, "resume")>>, <<>>, {}, product, FALSE)
    BY <1>2, <1>3, <1>4, <1>5, <1>6 DEF Streams, Flows, Has
  <1>8. PaidLate'
    BY <1>1, <1>4, <1>7
    DEF Flows, PaidLate, At, Usage0, Payment0, Price0, Status0, Periods0
  <1> QED BY <1>8 DEF Phase

\* From waitingPayment to paid: the usage is told to prolong.
LEMMA StepPaid ==
  ASSUME CascadeInv, TypeOK, Loaded, conf.top = "productProvision", PaymentMoved("paid"), Payment0
         = "waitingPayment", calling = "payment_processed"
  PROVE  Phase'
  <1> USE LoadedThere
  <1>1. /\ Does(Payment0, "paid")
        /\ conf' = In(Usage0, "paid", Price0)
    BY DEF PaymentMoved, PaymentMove, Heard, Sig, In
  <1>2. Has(Exit(Payment0), <<"prolong">>, <<>>, <<"waiting_pay_ended">>, product, FALSE)
    BY <1>1, Exits DEF Exit, Sig, ClosingEvents
  <1>e. Entry(Payment0, "paid") = OnEntry("paid", Head(queue), product)
    BY <1>2 DEF Has, Entry
  <1>3. Has(Entry(Payment0, "paid"), <<>>, <<>>, <<>>, product, FALSE)
    BY <1>1, <1>e, PaymentEntries DEF Sig
  <1>4. /\ "paid" \in PaymentLeaves /\ "paid" \notin SignalsWhenEntered
        /\ "paid" \notin CompletesWhenEntered /\ StatusOnEntry("paid", status) = Status0
    BY DEF PaymentLeaves, PaymentOn, PaymentOff, SignalsWhenEntered, CompletesWhenEntered,
       StatusOnEntry
  <1>5. Streams(Payment0, "paid")
    BY <1>1, <1>4, Streaming DEF UsageLeaves, UsageOn, UsageOff, Activated, PaymentLeaves, PaymentOn,
       PaymentOff, PriceLeaves, PriceOn
  <1>6. /\ Tail(queue) \o Signal(Payment0, <<"prolong">>) \o Signal("paid", <<>>) \o <<>> \o <<>>
             = <<Sig(Payment0, "prolong")>>
        /\ tasks \o <<>> \o <<>> = <<>>
        /\ ToSet(deleteTasks) \cup (ToSet(<<"waiting_pay_ended">>) \cup ToSet(<<>>))
             = {"waiting_pay_ended"}
    <2>1. /\ Signal(Payment0, <<"prolong">>) = <<Sig(Payment0, "prolong")>>
          /\ Signal("paid", <<>>) = <<>>
      BY SmallSignals
    <2>2. ToSet(<<"waiting_pay_ended">>) = {"waiting_pay_ended"} /\ ToSet(<<>>) = {}
      BY SetsOfTuples
    <2>3. Tail(queue) \o Signal(Payment0, <<"prolong">>) \o Signal("paid", <<>>) \o <<>> \o <<>>
               = <<Sig(Payment0, "prolong")>>
      BY <2>1, <1>1, Shapes
    <2> QED BY <2>2, <2>3, <1>1, Shapes
  <1>7. Flows("paid", <<Sig(Payment0, "prolong")>>, <<>>, {"waiting_pay_ended"}, product, FALSE)
    BY <1>2, <1>3, <1>4, <1>5, <1>6 DEF Streams, Flows, Has
  <1>8. Paid'
    BY <1>1, <1>4, <1>7
    DEF Flows, Paid, At, Usage0, Payment0, Price0, Status0, Periods0
  <1> QED BY <1>8 DEF Phase

\* From priceChanged to commercial: the first period of the new price is charged.
LEMMA StepNewCharged ==
  ASSUME CascadeInv, TypeOK, Loaded, conf.top = "productProvision", PriceMoved("commercial"),
         HasPeriodType([product EXCEPT !.price = nextPrice])
  PROVE  Phase'
  <1> USE LoadedThere
  <1>1. /\ Does(Price0, "commercial")
        /\ conf' = In(Usage0, Payment0, "commercial")
        /\ Price0 = "priceChanged"
        /\ calling = "change_price_completed"
        /\ nextPrice # NoPrice
    BY DEF PriceMoved, PriceMove, Heard, Sig, In
  <1>a. [product EXCEPT !.price = nextPrice].tarificationPeriod = Periods0
    BY DEF TypeOK, MachineTypeOK, Products
  <1>2. Has(Exit(Price0), <<>>, <<>>, <<>>, [product EXCEPT !.price = nextPrice], FALSE)
    BY <1>1, Exits DEF Exit, Sig
  <1>e. Entry(Price0, "commercial")
          = OnEntry("commercial", Head(queue), [product EXCEPT !.price = nextPrice])
    BY <1>2 DEF Has, Entry
  <1>3. Has(Entry(Price0, "commercial"), <<"wait_payment">>, <<"commercial_ended">>, <<>>,
            IncreasePeriods([product EXCEPT !.price = nextPrice]), FALSE)
    BY <1>1, <1>e, PriceEntries DEF Sig
  <1>4. /\ "commercial" \in PriceLeaves /\ "commercial" \notin SignalsWhenEntered
        /\ "commercial" \notin CompletesWhenEntered /\ StatusOnEntry("commercial", status) = Status0
    BY DEF PriceLeaves, PriceOn, SignalsWhenEntered, CompletesWhenEntered, StatusOnEntry
  <1>5. Streams(Price0, "commercial")
    BY <1>1, <1>4, Streaming DEF UsageLeaves, UsageOn, UsageOff, Activated, PaymentLeaves, PaymentOn,
       PaymentOff, PriceLeaves, PriceOn
  <1>6. /\ Tail(queue) \o Signal(Price0, <<>>) \o Signal("commercial", <<"wait_payment">>) \o <<>>
             \o <<>>
             = <<Sig("commercial", "wait_payment")>>
        /\ tasks \o <<>> \o <<"commercial_ended">> = <<"commercial_ended">>
        /\ ToSet(deleteTasks) \cup (ToSet(<<>>) \cup ToSet(<<>>)) = {}
    <2>1. /\ Signal(Price0, <<>>) = <<>>
          /\ Signal("commercial", <<"wait_payment">>) = <<Sig("commercial", "wait_payment")>>
      BY SmallSignals
    <2>2. ToSet(<<>>) = {} /\ ToSet(<<>>) = {}
      BY SetsOfTuples
    <2>3. Tail(queue) \o Signal(Price0, <<>>) \o Signal("commercial", <<"wait_payment">>) \o <<>>
            \o <<>>
               = <<Sig("commercial", "wait_payment")>>
      BY <2>1, <1>1, Shapes
    <2> QED BY <2>2, <2>3, <1>1, Shapes
  <1>7. Flows("commercial", <<Sig("commercial", "wait_payment")>>, <<"commercial_ended">>, {},
              IncreasePeriods([product EXCEPT !.price = nextPrice]), FALSE)
    BY <1>2, <1>3, <1>4, <1>5, <1>6 DEF Streams, Flows, Has
  <1>8. Charged'
    BY <1>1, <1>a, <1>4, <1>7
    DEF Flows, Charged, At, Usage0, Payment0, Price0, Status0, Periods0, NewPeriod, IncreasePeriods
  <1> QED BY <1>8 DEF Phase

\* From priceChanged to commercial at a price without a period: the call is left uncompleted.
LEMMA StepNewUncharged ==
  ASSUME CascadeInv, TypeOK, Loaded, conf.top = "productProvision", PriceMoved("commercial"),
         ~HasPeriodType([product EXCEPT !.price = nextPrice])
  PROVE  Phase'
  <1> USE LoadedThere
  <1>1. /\ Does(Price0, "commercial")
        /\ conf' = In(Usage0, Payment0, "commercial")
        /\ Price0 = "priceChanged"
        /\ calling = "change_price_completed"
        /\ nextPrice # NoPrice
    BY DEF PriceMoved, PriceMove, Heard, Sig, In
  <1>2. Has(Exit(Price0), <<>>, <<>>, <<>>, [product EXCEPT !.price = nextPrice], FALSE)
    BY <1>1, Exits DEF Exit, Sig
  <1>e. Entry(Price0, "commercial")
          = OnEntry("commercial", Head(queue), [product EXCEPT !.price = nextPrice])
    BY <1>2 DEF Has, Entry
  <1>3. Has(Entry(Price0, "commercial"), <<>>, <<>>, <<>>, [product EXCEPT !.price = nextPrice],
            FALSE)
    BY <1>1, <1>e, PriceEntries DEF Sig
  <1>4. /\ "commercial" \in PriceLeaves /\ "commercial" \notin SignalsWhenEntered
        /\ "commercial" \notin CompletesWhenEntered /\ StatusOnEntry("commercial", status) = Status0
    BY DEF PriceLeaves, PriceOn, SignalsWhenEntered, CompletesWhenEntered, StatusOnEntry
  <1>5. Streams(Price0, "commercial")
    BY <1>1, <1>4, Streaming DEF UsageLeaves, UsageOn, UsageOff, Activated, PaymentLeaves, PaymentOn,
       PaymentOff, PriceLeaves, PriceOn
  <1>6. /\ Tail(queue) \o Signal(Price0, <<>>) \o Signal("commercial", <<>>) \o <<>> \o <<>>
             = <<>>
        /\ tasks \o <<>> \o <<>> = <<>>
        /\ ToSet(deleteTasks) \cup (ToSet(<<>>) \cup ToSet(<<>>)) = {}
    BY <1>1, SmallSignals, Shapes, SetsOfTuples
  <1>7. Flows("commercial", <<>>, <<>>, {}, [product EXCEPT !.price = nextPrice], FALSE)
    BY <1>2, <1>3, <1>4, <1>5, <1>6 DEF Streams, Flows, Has
  <1>8. Ended'
    BY <1>1, <1>7, EndsUncompleted DEF Flows, Deactivates
  <1> QED BY <1>8 DEF Phase

\* From priceChanged to trial: the first period of the new price is charged.
LEMMA StepNewChargedTrial ==
  ASSUME CascadeInv, TypeOK, Loaded, conf.top = "productProvision", PriceMoved("trial"),
         HasPeriodType([product EXCEPT !.price = nextPrice])
  PROVE  Phase'
  <1> USE LoadedThere
  <1>1. /\ Does(Price0, "trial")
        /\ conf' = In(Usage0, Payment0, "trial")
        /\ Price0 = "priceChanged"
        /\ calling = "change_price_completed"
        /\ nextPrice # NoPrice
    BY DEF PriceMoved, PriceMove, Heard, Sig, In
  <1>a. [product EXCEPT !.price = nextPrice].tarificationPeriod = Periods0
    BY DEF TypeOK, MachineTypeOK, Products
  <1>2. Has(Exit(Price0), <<>>, <<>>, <<>>, [product EXCEPT !.price = nextPrice], FALSE)
    BY <1>1, Exits DEF Exit, Sig
  <1>e. Entry(Price0, "trial") = OnEntry("trial", Head(queue), [product EXCEPT !.price = nextPrice])
    BY <1>2 DEF Has, Entry
  <1>3. Has(Entry(Price0, "trial"), <<"change_price_completed">>, <<"trial_ended">>, <<>>,
            IncreasePeriods([product EXCEPT !.price = nextPrice]), FALSE)
    BY <1>1, <1>e, PriceEntries DEF Sig
  <1>4. /\ "trial" \in PriceLeaves /\ "trial" \notin SignalsWhenEntered
        /\ "trial" \notin CompletesWhenEntered /\ StatusOnEntry("trial", status) = Status0
    BY DEF PriceLeaves, PriceOn, SignalsWhenEntered, CompletesWhenEntered, StatusOnEntry
  <1>5. Streams(Price0, "trial")
    BY <1>1, <1>4, Streaming DEF UsageLeaves, UsageOn, UsageOff, Activated, PaymentLeaves, PaymentOn,
       PaymentOff, PriceLeaves, PriceOn
  <1>6. /\ Tail(queue) \o Signal(Price0, <<>>) \o Signal("trial", <<"change_price_completed">>)
             \o <<>> \o <<>>
             = <<Sig("trial", "change_price_completed")>>
        /\ tasks \o <<>> \o <<"trial_ended">> = <<"trial_ended">>
        /\ ToSet(deleteTasks) \cup (ToSet(<<>>) \cup ToSet(<<>>)) = {}
    <2>1. /\ Signal(Price0, <<>>) = <<>>
          /\ Signal("trial", <<"change_price_completed">>)
               = <<Sig("trial", "change_price_completed")>>
      BY SmallSignals
    <2>2. ToSet(<<>>) = {} /\ ToSet(<<>>) = {}
      BY SetsOfTuples
    <2>3. Tail(queue) \o Signal(Price0, <<>>) \o Signal("trial", <<"change_price_completed">>)
            \o <<>> \o <<>>
               = <<Sig("trial", "change_price_completed")>>
      BY <2>1, <1>1, Shapes
    <2> QED BY <2>2, <2>3, <1>1, Shapes
  <1>7. Flows("trial", <<Sig("trial", "change_price_completed")>>, <<"trial_ended">>, {},
              IncreasePeriods([product EXCEPT !.price = nextPrice]), FALSE)
    BY <1>2, <1>3, <1>4, <1>5, <1>6 DEF Streams, Flows, Has
  <1>8. ChargedTrial'
    BY <1>1, <1>a, <1>4, <1>7
    DEF Flows, ChargedTrial, At, Usage0, Payment0, Price0, Status0, Periods0, NewPeriod,
       IncreasePeriods
  <1> QED BY <1>8 DEF Phase

\* From priceChanged to trial at a price without a period: the call is left uncompleted.
LEMMA StepNewUnchargedTrial ==
  ASSUME CascadeInv, TypeOK, Loaded, conf.top = "productProvision", PriceMoved("trial"),
         ~HasPeriodType([product EXCEPT !.price = nextPrice])
  PROVE  Phase'
  <1> USE LoadedThere
  <1>1. /\ Does(Price0, "trial")
        /\ conf' = In(Usage0, Payment0, "trial")
        /\ Price0 = "priceChanged"
        /\ calling = "change_price_completed"
        /\ nextPrice # NoPrice
    BY DEF PriceMoved, PriceMove, Heard, Sig, In
  <1>2. Has(Exit(Price0), <<>>, <<>>, <<>>, [product EXCEPT !.price = nextPrice], FALSE)
    BY <1>1, Exits DEF Exit, Sig
  <1>e. Entry(Price0, "trial") = OnEntry("trial", Head(queue), [product EXCEPT !.price = nextPrice])
    BY <1>2 DEF Has, Entry
  <1>3. Has(Entry(Price0, "trial"), <<>>, <<>>, <<>>, [product EXCEPT !.price = nextPrice], FALSE)
    BY <1>1, <1>e, PriceEntries DEF Sig
  <1>4. /\ "trial" \in PriceLeaves /\ "trial" \notin SignalsWhenEntered
        /\ "trial" \notin CompletesWhenEntered /\ StatusOnEntry("trial", status) = Status0
    BY DEF PriceLeaves, PriceOn, SignalsWhenEntered, CompletesWhenEntered, StatusOnEntry
  <1>5. Streams(Price0, "trial")
    BY <1>1, <1>4, Streaming DEF UsageLeaves, UsageOn, UsageOff, Activated, PaymentLeaves, PaymentOn,
       PaymentOff, PriceLeaves, PriceOn
  <1>6. /\ Tail(queue) \o Signal(Price0, <<>>) \o Signal("trial", <<>>) \o <<>> \o <<>>
             = <<>>
        /\ tasks \o <<>> \o <<>> = <<>>
        /\ ToSet(deleteTasks) \cup (ToSet(<<>>) \cup ToSet(<<>>)) = {}
    BY <1>1, SmallSignals, Shapes, SetsOfTuples
  <1>7. Flows("trial", <<>>, <<>>, {}, [product EXCEPT !.price = nextPrice], FALSE)
    BY <1>2, <1>3, <1>4, <1>5, <1>6 DEF Streams, Flows, Has
  <1>8. Ended'
    BY <1>1, <1>7, EndsUncompleted DEF Flows, Deactivates
  <1> QED BY <1>8 DEF Phase

-----------------------------------------------------------------------------
(* From a signal to the next. *)

\* From priceChanging to priceNotChanged.
LEMMA StepNotChanged ==
  ASSUME CascadeInv, TypeOK, NotChanging, PriceMoved("priceNotChanged")
  PROVE  Phase'
  <1>0. /\ saved.conf.top = "productProvision" /\ conf = In(Usage0, Payment0, "priceChanging")
        /\ queue # <<>> /\ Head(queue) = Sig("priceChanging", "not_change_price")
        /\ Tail(queue) = <<>>
        /\ tasks = <<>> /\ ToSet(deleteTasks) = {} /\ ~completed
        /\ status = Status0 /\ product.tarificationPeriod = Periods0
        /\ Usage0 \in UsageLeaves \ {"usageFinal"} /\ Payment0 \in PaymentLeaves
        /\ Price0 \in PriceLeaves
        /\ PeriodOver
    BY AtThere DEF NotChanging
  <1> USE <1>0
  <1>1. /\ Does("priceChanging", "priceNotChanged")
        /\ conf' = In(Usage0, Payment0, "priceNotChanged")
    BY DEF PriceMoved, PriceMove, Heard, Sig, In
  <1>2. Has(Exit("priceChanging"), <<>>, <<>>, <<>>, product, FALSE)
    BY <1>1, Exits DEF Exit
  <1>e. Entry("priceChanging", "priceNotChanged") = OnEntry("priceNotChanged", Head(queue), product)
    BY <1>2 DEF Has, Entry
  <1>3. Has(Entry("priceChanging", "priceNotChanged"), <<"change_price_completed">>, <<>>, <<>>,
            product, FALSE)
    BY <1>1, <1>e, PriceEntries DEF Sig
  <1>4. /\ "priceNotChanged" \in PriceLeaves /\ "priceNotChanged" \notin SignalsWhenEntered
        /\ "priceNotChanged" \notin CompletesWhenEntered
        /\ StatusOnEntry("priceNotChanged", status) = Status0
    BY DEF PriceLeaves, PriceOn, SignalsWhenEntered, CompletesWhenEntered, StatusOnEntry
  <1>5. Streams("priceChanging", "priceNotChanged")
    BY <1>1, <1>4, Streaming DEF UsageLeaves, UsageOn, UsageOff, Activated, PaymentLeaves, PaymentOn,
       PaymentOff, PriceLeaves, PriceOn
  <1>6. /\ Tail(queue) \o Signal("priceChanging", <<>>)
             \o Signal("priceNotChanged", <<"change_price_completed">>) \o <<>> \o <<>>
             = <<Sig("priceNotChanged", "change_price_completed")>>
        /\ tasks \o <<>> \o <<>> = <<>>
        /\ ToSet(deleteTasks) \cup (ToSet(<<>>) \cup ToSet(<<>>)) = {}
    <2>1. /\ Signal("priceChanging", <<>>) = <<>>
          /\ Signal("priceNotChanged", <<"change_price_completed">>)
               = <<Sig("priceNotChanged", "change_price_completed")>>
      BY SmallSignals
    <2>2. ToSet(<<>>) = {} /\ ToSet(<<>>) = {}
      BY SetsOfTuples
    <2>3. Tail(queue) \o Signal("priceChanging", <<>>)
            \o Signal("priceNotChanged", <<"change_price_completed">>) \o <<>> \o <<>>
               = <<Sig("priceNotChanged", "change_price_completed")>>
      BY <2>1, <1>1, Shapes
    <2> QED BY <2>2, <2>3, <1>1, Shapes
  <1>7. Flows("priceNotChanged", <<Sig("priceNotChanged", "change_price_completed")>>, <<>>, {},
              product, FALSE)
    BY <1>2, <1>3, <1>4, <1>5, <1>6 DEF Streams, Flows, Has
  <1>8. NotChanged'
    BY <1>1, <1>4, <1>7
    DEF Flows, NotChanged, At, Usage0, Payment0, Price0, Status0, Periods0, PeriodOver
  <1> QED BY <1>8 DEF Phase

\* From priceNotChanged to commercial: the next period is charged.
LEMMA StepCharged ==
  ASSUME CascadeInv, TypeOK, NotChanged, PriceMoved("commercial"), HasPeriodType(product)
  PROVE  Phase'
  <1>0. /\ saved.conf.top = "productProvision" /\ conf = In(Usage0, Payment0, "priceNotChanged")
        /\ queue # <<>> /\ Head(queue) = Sig("priceNotChanged", "change_price_completed")
        /\ Tail(queue) = <<>>
        /\ tasks = <<>> /\ ToSet(deleteTasks) = {} /\ ~completed
        /\ status = Status0 /\ product.tarificationPeriod = Periods0
        /\ Usage0 \in UsageLeaves \ {"usageFinal"} /\ Payment0 \in PaymentLeaves
        /\ Price0 \in PriceLeaves
        /\ PeriodOver
    BY AtThere DEF NotChanged
  <1> USE <1>0
  <1>1. /\ Does("priceNotChanged", "commercial")
        /\ conf' = In(Usage0, Payment0, "commercial")
    BY DEF PriceMoved, PriceMove, Heard, Sig, In
  <1>2. Has(Exit("priceNotChanged"), <<>>, <<>>, <<>>, product, FALSE)
    BY <1>1, Exits DEF Exit
  <1>e. Entry("priceNotChanged", "commercial") = OnEntry("commercial", Head(queue), product)
    BY <1>2 DEF Has, Entry
  <1>3. Has(Entry("priceNotChanged", "commercial"), <<"wait_payment">>, <<"commercial_ended">>, <<>>,
            IncreasePeriods(product), FALSE)
    BY <1>1, <1>e, PriceEntries DEF Sig
  <1>4. /\ "commercial" \in PriceLeaves /\ "commercial" \notin SignalsWhenEntered
        /\ "commercial" \notin CompletesWhenEntered /\ StatusOnEntry("commercial", status) = Status0
    BY DEF PriceLeaves, PriceOn, SignalsWhenEntered, CompletesWhenEntered, StatusOnEntry
  <1>5. Streams("priceNotChanged", "commercial")
    BY <1>1, <1>4, Streaming DEF UsageLeaves, UsageOn, UsageOff, Activated, PaymentLeaves, PaymentOn,
       PaymentOff, PriceLeaves, PriceOn
  <1>6. /\ Tail(queue) \o Signal("priceNotChanged", <<>>) \o Signal("commercial", <<"wait_payment">>)
             \o <<>> \o <<>>
             = <<Sig("commercial", "wait_payment")>>
        /\ tasks \o <<>> \o <<"commercial_ended">> = <<"commercial_ended">>
        /\ ToSet(deleteTasks) \cup (ToSet(<<>>) \cup ToSet(<<>>)) = {}
    <2>1. /\ Signal("priceNotChanged", <<>>) = <<>>
          /\ Signal("commercial", <<"wait_payment">>) = <<Sig("commercial", "wait_payment")>>
      BY SmallSignals
    <2>2. ToSet(<<>>) = {} /\ ToSet(<<>>) = {}
      BY SetsOfTuples
    <2>3. Tail(queue) \o Signal("priceNotChanged", <<>>) \o Signal("commercial", <<"wait_payment">>)
            \o <<>> \o <<>>
               = <<Sig("commercial", "wait_payment")>>
      BY <2>1, <1>1, Shapes
    <2> QED BY <2>2, <2>3, <1>1, Shapes
  <1>7. Flows("commercial", <<Sig("commercial", "wait_payment")>>, <<"commercial_ended">>, {},
              IncreasePeriods(product), FALSE)
    BY <1>2, <1>3, <1>4, <1>5, <1>6 DEF Streams, Flows, Has
  <1>8. Charged'
    BY <1>1, <1>4, <1>7
    DEF Flows, Charged, At, Usage0, Payment0, Price0, Status0, Periods0, NewPeriod, PeriodOver,
       IncreasePeriods
  <1> QED BY <1>8 DEF Phase

\* From priceNotChanged to commercial at a price without a period: the call is left uncompleted.
LEMMA StepUncharged ==
  ASSUME CascadeInv, TypeOK, NotChanged, PriceMoved("commercial"), ~HasPeriodType(product)
  PROVE  Phase'
  <1>0. /\ saved.conf.top = "productProvision" /\ conf = In(Usage0, Payment0, "priceNotChanged")
        /\ queue # <<>> /\ Head(queue) = Sig("priceNotChanged", "change_price_completed")
        /\ Tail(queue) = <<>>
        /\ tasks = <<>> /\ ToSet(deleteTasks) = {} /\ ~completed
        /\ status = Status0 /\ product.tarificationPeriod = Periods0
        /\ Usage0 \in UsageLeaves \ {"usageFinal"} /\ Payment0 \in PaymentLeaves
        /\ Price0 \in PriceLeaves
        /\ PeriodOver
    BY AtThere DEF NotChanged
  <1> USE <1>0
  <1>1. /\ Does("priceNotChanged", "commercial")
        /\ conf' = In(Usage0, Payment0, "commercial")
        /\ calling # "deactivation_started"
    BY DEF PriceMoved, PriceMove, Heard, Sig, In, PeriodOver
  <1>2. Has(Exit("priceNotChanged"), <<>>, <<>>, <<>>, product, FALSE)
    BY <1>1, Exits DEF Exit
  <1>e. Entry("priceNotChanged", "commercial") = OnEntry("commercial", Head(queue), product)
    BY <1>2 DEF Has, Entry
  <1>3. Has(Entry("priceNotChanged", "commercial"), <<>>, <<>>, <<>>, product, FALSE)
    BY <1>1, <1>e, PriceEntries DEF Sig
  <1>4. /\ "commercial" \in PriceLeaves /\ "commercial" \notin SignalsWhenEntered
        /\ "commercial" \notin CompletesWhenEntered /\ StatusOnEntry("commercial", status) = Status0
    BY DEF PriceLeaves, PriceOn, SignalsWhenEntered, CompletesWhenEntered, StatusOnEntry
  <1>5. Streams("priceNotChanged", "commercial")
    BY <1>1, <1>4, Streaming DEF UsageLeaves, UsageOn, UsageOff, Activated, PaymentLeaves, PaymentOn,
       PaymentOff, PriceLeaves, PriceOn
  <1>6. /\ Tail(queue) \o Signal("priceNotChanged", <<>>) \o Signal("commercial", <<>>) \o <<>>
             \o <<>>
             = <<>>
        /\ tasks \o <<>> \o <<>> = <<>>
        /\ ToSet(deleteTasks) \cup (ToSet(<<>>) \cup ToSet(<<>>)) = {}
    BY <1>1, SmallSignals, Shapes, SetsOfTuples
  <1>7. Flows("commercial", <<>>, <<>>, {}, product, FALSE)
    BY <1>2, <1>3, <1>4, <1>5, <1>6 DEF Streams, Flows, Has
  <1>8. Ended'
    BY <1>1, <1>7, EndsUncompleted DEF Flows, Deactivates
  <1> QED BY <1>8 DEF Phase

\* From priceNotChanged to trial: the next period is charged.
LEMMA StepChargedTrial ==
  ASSUME CascadeInv, TypeOK, NotChanged, PriceMoved("trial"), HasPeriodType(product)
  PROVE  Phase'
  <1>0. /\ saved.conf.top = "productProvision" /\ conf = In(Usage0, Payment0, "priceNotChanged")
        /\ queue # <<>> /\ Head(queue) = Sig("priceNotChanged", "change_price_completed")
        /\ Tail(queue) = <<>>
        /\ tasks = <<>> /\ ToSet(deleteTasks) = {} /\ ~completed
        /\ status = Status0 /\ product.tarificationPeriod = Periods0
        /\ Usage0 \in UsageLeaves \ {"usageFinal"} /\ Payment0 \in PaymentLeaves
        /\ Price0 \in PriceLeaves
        /\ PeriodOver
    BY AtThere DEF NotChanged
  <1> USE <1>0
  <1>1. /\ Does("priceNotChanged", "trial")
        /\ conf' = In(Usage0, Payment0, "trial")
    BY DEF PriceMoved, PriceMove, Heard, Sig, In
  <1>2. Has(Exit("priceNotChanged"), <<>>, <<>>, <<>>, product, FALSE)
    BY <1>1, Exits DEF Exit
  <1>e. Entry("priceNotChanged", "trial") = OnEntry("trial", Head(queue), product)
    BY <1>2 DEF Has, Entry
  <1>3. Has(Entry("priceNotChanged", "trial"), <<"change_price_completed">>, <<"trial_ended">>, <<>>,
            IncreasePeriods(product), FALSE)
    BY <1>1, <1>e, PriceEntries DEF Sig
  <1>4. /\ "trial" \in PriceLeaves /\ "trial" \notin SignalsWhenEntered
        /\ "trial" \notin CompletesWhenEntered /\ StatusOnEntry("trial", status) = Status0
    BY DEF PriceLeaves, PriceOn, SignalsWhenEntered, CompletesWhenEntered, StatusOnEntry
  <1>5. Streams("priceNotChanged", "trial")
    BY <1>1, <1>4, Streaming DEF UsageLeaves, UsageOn, UsageOff, Activated, PaymentLeaves, PaymentOn,
       PaymentOff, PriceLeaves, PriceOn
  <1>6. /\ Tail(queue) \o Signal("priceNotChanged", <<>>)
             \o Signal("trial", <<"change_price_completed">>) \o <<>> \o <<>>
             = <<Sig("trial", "change_price_completed")>>
        /\ tasks \o <<>> \o <<"trial_ended">> = <<"trial_ended">>
        /\ ToSet(deleteTasks) \cup (ToSet(<<>>) \cup ToSet(<<>>)) = {}
    <2>1. /\ Signal("priceNotChanged", <<>>) = <<>>
          /\ Signal("trial", <<"change_price_completed">>)
               = <<Sig("trial", "change_price_completed")>>
      BY SmallSignals
    <2>2. ToSet(<<>>) = {} /\ ToSet(<<>>) = {}
      BY SetsOfTuples
    <2>3. Tail(queue) \o Signal("priceNotChanged", <<>>)
            \o Signal("trial", <<"change_price_completed">>) \o <<>> \o <<>>
               = <<Sig("trial", "change_price_completed")>>
      BY <2>1, <1>1, Shapes
    <2> QED BY <2>2, <2>3, <1>1, Shapes
  <1>7. Flows("trial", <<Sig("trial", "change_price_completed")>>, <<"trial_ended">>, {},
              IncreasePeriods(product), FALSE)
    BY <1>2, <1>3, <1>4, <1>5, <1>6 DEF Streams, Flows, Has
  <1>8. ChargedTrial'
    BY <1>1, <1>4, <1>7
    DEF Flows, ChargedTrial, At, Usage0, Payment0, Price0, Status0, Periods0, NewPeriod, PeriodOver,
       IncreasePeriods
  <1> QED BY <1>8 DEF Phase

\* From priceNotChanged to trial at a price without a period: the call is left uncompleted.
LEMMA StepUnchargedTrial ==
  ASSUME CascadeInv, TypeOK, NotChanged, PriceMoved("trial"), ~HasPeriodType(product)
  PROVE  Phase'
  <1>0. /\ saved.conf.top = "productProvision" /\ conf = In(Usage0, Payment0, "priceNotChanged")
        /\ queue # <<>> /\ Head(queue) = Sig("priceNotChanged", "change_price_completed")
        /\ Tail(queue) = <<>>
        /\ tasks = <<>> /\ ToSet(deleteTasks) = {} /\ ~completed
        /\ status = Status0 /\ product.tarificationPeriod = Periods0
        /\ Usage0 \in UsageLeaves \ {"usageFinal"} /\ Payment0 \in PaymentLeaves
        /\ Price0 \in PriceLeaves
        /\ PeriodOver
    BY AtThere DEF NotChanged
  <1> USE <1>0
  <1>1. /\ Does("priceNotChanged", "trial")
        /\ conf' = In(Usage0, Payment0, "trial")
        /\ calling # "deactivation_started"
    BY DEF PriceMoved, PriceMove, Heard, Sig, In, PeriodOver
  <1>2. Has(Exit("priceNotChanged"), <<>>, <<>>, <<>>, product, FALSE)
    BY <1>1, Exits DEF Exit
  <1>e. Entry("priceNotChanged", "trial") = OnEntry("trial", Head(queue), product)
    BY <1>2 DEF Has, Entry
  <1>3. Has(Entry("priceNotChanged", "trial"), <<>>, <<>>, <<>>, product, FALSE)
    BY <1>1, <1>e, PriceEntries DEF Sig
  <1>4. /\ "trial" \in PriceLeaves /\ "trial" \notin SignalsWhenEntered
        /\ "trial" \notin CompletesWhenEntered /\ StatusOnEntry("trial", status) = Status0
    BY DEF PriceLeaves, PriceOn, SignalsWhenEntered, CompletesWhenEntered, StatusOnEntry
  <1>5. Streams("priceNotChanged", "trial")
    BY <1>1, <1>4, Streaming DEF UsageLeaves, UsageOn, UsageOff, Activated, PaymentLeaves, PaymentOn,
       PaymentOff, PriceLeaves, PriceOn
  <1>6. /\ Tail(queue) \o Signal("priceNotChanged", <<>>) \o Signal("trial", <<>>) \o <<>> \o <<>>
             = <<>>
        /\ tasks \o <<>> \o <<>> = <<>>
        /\ ToSet(deleteTasks) \cup (ToSet(<<>>) \cup ToSet(<<>>)) = {}
    BY <1>1, SmallSignals, Shapes, SetsOfTuples
  <1>7. Flows("trial", <<>>, <<>>, {}, product, FALSE)
    BY <1>2, <1>3, <1>4, <1>5, <1>6 DEF Streams, Flows, Has
  <1>8. Ended'
    BY <1>1, <1>7, EndsUncompleted DEF Flows, Deactivates
  <1> QED BY <1>8 DEF Phase

\* From paid to waitingPayment, once a period is charged: the call ends.
LEMMA StepChargedWaiting ==
  ASSUME CascadeInv, TypeOK, Charged, PaymentMoved("waitingPayment")
  PROVE  Phase'
  <1>0. /\ saved.conf.top = "productProvision" /\ conf = In(Usage0, Payment0, "commercial")
        /\ queue # <<>> /\ Head(queue) = Sig("commercial", "wait_payment") /\ Tail(queue) = <<>>
        /\ tasks = <<"commercial_ended">> /\ ToSet(deleteTasks) = {} /\ ~completed
        /\ status = Status0 /\ product.tarificationPeriod = Periods0 + 1
        /\ Usage0 \in UsageLeaves \ {"usageFinal"} /\ Payment0 \in PaymentLeaves
        /\ Price0 \in PriceLeaves
        /\ NewPeriod
    BY AtThere DEF Charged
  <1> USE <1>0
  <1>1. /\ Does(Payment0, "waitingPayment")
        /\ conf' = In(Usage0, "waitingPayment", "commercial")
        /\ Payment0 = "paid"
        /\ calling # "deactivation_started"
    BY DEF PaymentMoved, PaymentMove, Heard, Sig, In, NewPeriod, PeriodOver
  <1>2. Has(Exit(Payment0), <<>>, <<>>, <<>>, product, FALSE)
    BY <1>1, Exits DEF Exit
  <1>e. Entry(Payment0, "waitingPayment") = OnEntry("waitingPayment", Head(queue), product)
    BY <1>2 DEF Has, Entry
  <1>3. Has(Entry(Payment0, "waitingPayment"), <<>>, <<"waiting_pay_ended">>, <<>>, product, TRUE)
    BY <1>1, <1>e, PaymentEntries DEF Sig
  <1>4. /\ "waitingPayment" \in PaymentLeaves /\ "waitingPayment" \notin SignalsWhenEntered
        /\ "waitingPayment" \notin CompletesWhenEntered
        /\ StatusOnEntry("waitingPayment", status) = Status0
    BY DEF PaymentLeaves, PaymentOn, PaymentOff, SignalsWhenEntered, CompletesWhenEntered,
       StatusOnEntry
  <1>5. Streams(Payment0, "waitingPayment")
    BY <1>1, <1>4, Streaming DEF UsageLeaves, UsageOn, UsageOff, Activated, PaymentLeaves, PaymentOn,
       PaymentOff, PriceLeaves, PriceOn
  <1>6. /\ Tail(queue) \o Signal(Payment0, <<>>) \o Signal("waitingPayment", <<>>) \o <<>> \o <<>>
             = <<>>
        /\ tasks \o <<>> \o <<"waiting_pay_ended">> = <<"commercial_ended", "waiting_pay_ended">>
        /\ ToSet(deleteTasks) \cup (ToSet(<<>>) \cup ToSet(<<>>)) = {}
    BY <1>1, SmallSignals, Shapes, SetsOfTuples
  <1>7. Flows("waitingPayment", <<>>, <<"commercial_ended", "waiting_pay_ended">>, {}, product, TRUE)
    BY <1>2, <1>3, <1>4, <1>5, <1>6 DEF Streams, Flows, Has
  <1>8. Result(In(Usage0, "waitingPayment", "commercial"), StatusOnEntry("waitingPayment", status),
               product.tarificationPeriod, ToSet(<<"commercial_ended", "waiting_pay_ended">>), {})
    <2>1. ToSet(<<"commercial_ended", "waiting_pay_ended">>)
            = {"commercial_ended", "waiting_pay_ended"}
      BY SetsOfTuples
    <2> QED BY <2>1, <1>1, <1>4, ChargedResult
  <1>9. Ended'
    BY <1>1, <1>7, <1>8, EndsCompleted, Injections DEF Deactivates
  <1> QED BY <1>9 DEF Phase

\* To activeTrial, once a trial period is charged: the call ends.
LEMMA StepChargedTrialActive ==
  ASSUME CascadeInv, TypeOK, ChargedTrial, UsageMoved("activeTrial")
  PROVE  Phase'
  <1>0. /\ saved.conf.top = "productProvision" /\ conf = In(Usage0, Payment0, "trial")
        /\ queue # <<>> /\ Head(queue) = Sig("trial", "change_price_completed") /\ Tail(queue) = <<>>
        /\ tasks = <<"trial_ended">> /\ ToSet(deleteTasks) = {} /\ ~completed
        /\ status = Status0 /\ product.tarificationPeriod = Periods0 + 1
        /\ Usage0 \in UsageLeaves \ {"usageFinal"} /\ Payment0 \in PaymentLeaves
        /\ Price0 \in PriceLeaves
        /\ NewPeriod
    BY AtThere DEF ChargedTrial
  <1> USE <1>0
  <1>1. /\ Does(Usage0, "activeTrial")
        /\ conf' = In("activeTrial", Payment0, "trial")
        /\ Usage0 \in {"active", "activeTrial"}
        /\ calling # "deactivation_started"
    BY DEF UsageMoved, UsageMove, Heard, Sig, In, NewPeriod, PeriodOver
  <1>2. Has(Exit(Usage0), <<>>, <<>>, <<>>, product, FALSE)
    BY <1>1, Exits DEF Exit
  <1>e. Entry(Usage0, "activeTrial") = OnEntry("activeTrial", Head(queue), product)
    BY <1>2 DEF Has, Entry
  <1>3. Has(Entry(Usage0, "activeTrial"), <<>>, <<>>, <<>>, product, FALSE)
    BY <1>1, <1>e, UsageEntries DEF Sig
  <1>4. /\ "activeTrial" \in UsageLeaves /\ "activeTrial" \notin SignalsWhenEntered
        /\ "activeTrial" \in CompletesWhenEntered
        /\ StatusOnEntry("activeTrial", status) = "ACTIVE_TRIAL"
    BY DEF UsageLeaves, UsageOn, UsageOff, Activated, SignalsWhenEntered, CompletesWhenEntered,
       StatusOnEntry
  <1>5. Streams(Usage0, "activeTrial")
    BY <1>1, <1>4, Streaming DEF UsageLeaves, UsageOn, UsageOff, Activated, PaymentLeaves, PaymentOn,
       PaymentOff, PriceLeaves, PriceOn
  <1>6. /\ Tail(queue) \o Signal(Usage0, <<>>) \o Signal("activeTrial", <<>>) \o <<>> \o <<>>
             = <<>>
        /\ tasks \o <<>> \o <<>> = <<"trial_ended">>
        /\ ToSet(deleteTasks) \cup (ToSet(<<>>) \cup ToSet(<<>>)) = {}
    BY <1>1, SmallSignals, Shapes, SetsOfTuples
  <1>7. Flows("activeTrial", <<>>, <<"trial_ended">>, {}, product, TRUE)
    BY <1>2, <1>3, <1>4, <1>5, <1>6 DEF Streams, Flows, Has
  <1>8. Result(In("activeTrial", Payment0, "trial"), StatusOnEntry("activeTrial", status),
               product.tarificationPeriod, ToSet(<<"trial_ended">>), {})
    BY <1>1, <1>4, SetsOfTuples, ChargedTrialResult
  <1>9. Ended'
    BY <1>1, <1>7, <1>8, EndsCompleted, Injections DEF Deactivates
  <1> QED BY <1>9 DEF Phase

\* From active or activeTrial to prolongation, after the first period: the order system is
\* asked, and the call ends.
LEMMA StepProlongation ==
  ASSUME CascadeInv, TypeOK, Paid, UsageMoved("prolongation"), product.tarificationPeriod # 1
  PROVE  Phase'
  <1>0. /\ saved.conf.top = "productProvision" /\ conf = In(Usage0, "paid", Price0)
        /\ queue # <<>> /\ Head(queue) = Sig("waitingPayment", "prolong") /\ Tail(queue) = <<>>
        /\ tasks = <<>> /\ ToSet(deleteTasks) = {"waiting_pay_ended"} /\ ~completed
        /\ status = Status0 /\ product.tarificationPeriod = Periods0
        /\ Usage0 \in UsageLeaves \ {"usageFinal"} /\ Payment0 \in PaymentLeaves
        /\ Price0 \in PriceLeaves
        /\ Payment0 = "waitingPayment" /\ calling = "payment_processed"
    BY AtThere DEF Paid
  <1> USE <1>0
  <1>1. /\ Does(Usage0, "prolongation")
        /\ conf' = In("prolongation", "paid", Price0)
        /\ Usage0 \in Activated
        /\ calling # "deactivation_started"
    BY DEF UsageMoved, UsageMove, Heard, Sig, In, Activated
  <1>2. Has(Exit(Usage0), <<>>, <<>>, <<>>, product, FALSE)
    BY <1>1, Exits DEF Exit, Activated
  <1>e. Entry(Usage0, "prolongation") = OnEntry("prolongation", Head(queue), product)
    BY <1>2 DEF Has, Entry
  <1>3. Has(Entry(Usage0, "prolongation"), <<>>, <<"ACTIVATE">>, <<>>, product, TRUE)
    BY <1>1, <1>e, UsageEntries DEF Sig
  <1>4. /\ "prolongation" \in UsageLeaves /\ "prolongation" \notin SignalsWhenEntered
        /\ "prolongation" \notin CompletesWhenEntered
        /\ StatusOnEntry("prolongation", status) = Status0
    BY DEF UsageLeaves, UsageOn, UsageOff, Activated, SignalsWhenEntered, CompletesWhenEntered,
       StatusOnEntry
  <1>5. Streams(Usage0, "prolongation")
    BY <1>1, <1>4, Streaming DEF UsageLeaves, UsageOn, UsageOff, Activated, PaymentLeaves, PaymentOn,
       PaymentOff, PriceLeaves, PriceOn
  <1>6. /\ Tail(queue) \o Signal(Usage0, <<>>) \o Signal("prolongation", <<>>) \o <<>> \o <<>>
             = <<>>
        /\ tasks \o <<>> \o <<"ACTIVATE">> = <<"ACTIVATE">>
        /\ ToSet(deleteTasks) \cup (ToSet(<<>>) \cup ToSet(<<>>)) = {"waiting_pay_ended"}
    BY <1>1, SmallSignals, Shapes, SetsOfTuples
  <1>7. Flows("prolongation", <<>>, <<"ACTIVATE">>, {"waiting_pay_ended"}, product, TRUE)
    BY <1>2, <1>3, <1>4, <1>5, <1>6 DEF Streams, Flows, Has
  <1>8. Result(In("prolongation", "paid", Price0), StatusOnEntry("prolongation", status),
               product.tarificationPeriod, ToSet(<<"ACTIVATE">>), {"waiting_pay_ended"})
    BY <1>1, <1>4, SetsOfTuples, PaidResult
  <1>9. Ended'
    BY <1>1, <1>7, <1>8, EndsCompleted, Injections DEF Deactivates
  <1> QED BY <1>9 DEF Phase

\* From active or activeTrial to prolongation, in the first period: nobody is asked.
LEMMA StepProlonging ==
  ASSUME CascadeInv, TypeOK, Paid, UsageMoved("prolongation"), product.tarificationPeriod = 1
  PROVE  Phase'
  <1>0. /\ saved.conf.top = "productProvision" /\ conf = In(Usage0, "paid", Price0)
        /\ queue # <<>> /\ Head(queue) = Sig("waitingPayment", "prolong") /\ Tail(queue) = <<>>
        /\ tasks = <<>> /\ ToSet(deleteTasks) = {"waiting_pay_ended"} /\ ~completed
        /\ status = Status0 /\ product.tarificationPeriod = Periods0
        /\ Usage0 \in UsageLeaves \ {"usageFinal"} /\ Payment0 \in PaymentLeaves
        /\ Price0 \in PriceLeaves
        /\ Payment0 = "waitingPayment" /\ calling = "payment_processed"
    BY AtThere DEF Paid
  <1> USE <1>0
  <1>1. /\ Does(Usage0, "prolongation")
        /\ conf' = In("prolongation", "paid", Price0)
        /\ Usage0 \in Activated
        /\ calling # "deactivation_started"
    BY DEF UsageMoved, UsageMove, Heard, Sig, In, Activated
  <1>a. Usage0 \in {"active", "activeTrial"}
    BY <1>1, Before DEF Activated, RestsIn
  <1>2. Has(Exit(Usage0), <<>>, <<>>, <<>>, product, FALSE)
    BY <1>1, Exits DEF Exit, Activated
  <1>e. Entry(Usage0, "prolongation") = OnEntry("prolongation", Head(queue), product)
    BY <1>2 DEF Has, Entry
  <1>3. Has(Entry(Usage0, "prolongation"), <<"activate_completed">>, <<>>, <<>>, product, FALSE)
    BY <1>1, <1>e, UsageEntries DEF Sig
  <1>4. /\ "prolongation" \in UsageLeaves /\ "prolongation" \notin SignalsWhenEntered
        /\ "prolongation" \notin CompletesWhenEntered
        /\ StatusOnEntry("prolongation", status) = Status0
    BY DEF UsageLeaves, UsageOn, UsageOff, Activated, SignalsWhenEntered, CompletesWhenEntered,
       StatusOnEntry
  <1>5. Streams(Usage0, "prolongation")
    BY <1>1, <1>4, Streaming DEF UsageLeaves, UsageOn, UsageOff, Activated, PaymentLeaves, PaymentOn,
       PaymentOff, PriceLeaves, PriceOn
  <1>6. /\ Tail(queue) \o Signal(Usage0, <<>>) \o Signal("prolongation", <<"activate_completed">>)
             \o <<>> \o <<>>
             = <<Sig("prolongation", "activate_completed")>>
        /\ tasks \o <<>> \o <<>> = <<>>
        /\ ToSet(deleteTasks) \cup (ToSet(<<>>) \cup ToSet(<<>>)) = {"waiting_pay_ended"}
    <2>1. /\ Signal(Usage0, <<>>) = <<>>
          /\ Signal("prolongation", <<"activate_completed">>)
               = <<Sig("prolongation", "activate_completed")>>
      BY SmallSignals
    <2>2. ToSet(<<>>) = {} /\ ToSet(<<>>) = {}
      BY SetsOfTuples
    <2>3. Tail(queue) \o Signal(Usage0, <<>>) \o Signal("prolongation", <<"activate_completed">>)
            \o <<>> \o <<>>
               = <<Sig("prolongation", "activate_completed")>>
      BY <2>1, <1>1, Shapes
    <2> QED BY <2>2, <2>3, <1>1, Shapes
  <1>7. Flows("prolongation", <<Sig("prolongation", "activate_completed")>>, <<>>,
              {"waiting_pay_ended"}, product, FALSE)
    BY <1>2, <1>3, <1>4, <1>5, <1>6 DEF Streams, Flows, Has
  <1>8. Prolonged'
    BY <1>1, <1>a, <1>4, <1>7
    DEF Flows, Prolonged, At, Usage0, Payment0, Price0, Status0, Periods0
  <1> QED BY <1>8 DEF Phase

\* From prolongation to active, by its own signal: the call ends.
LEMMA StepActive ==
  ASSUME CascadeInv, TypeOK, Prolonged, UsageMoved("active")
  PROVE  Phase'
  <1>0. /\ saved.conf.top = "productProvision" /\ conf = In("prolongation", "paid", Price0)
        /\ queue # <<>> /\ Head(queue) = Sig("prolongation", "activate_completed")
        /\ Tail(queue) = <<>>
        /\ tasks = <<>> /\ ToSet(deleteTasks) = {"waiting_pay_ended"} /\ ~completed
        /\ status = Status0 /\ product.tarificationPeriod = Periods0
        /\ Usage0 \in UsageLeaves \ {"usageFinal"} /\ Payment0 \in PaymentLeaves
        /\ Price0 \in PriceLeaves
        /\ Payment0 = "waitingPayment" /\ calling = "payment_processed" /\ Usage0 \in Activated
    BY AtThere DEF Prolonged, Activated
  <1> USE <1>0
  <1>1. /\ Does("prolongation", "active")
        /\ conf' = In("active", "paid", Price0)
    BY DEF UsageMoved, UsageMove, Heard, Sig, In
  <1>2. Has(Exit("prolongation"), <<>>, <<>>, <<>>, product, FALSE)
    BY <1>1, Exits DEF Exit
  <1>e. Entry("prolongation", "active") = OnEntry("active", Head(queue), product)
    BY <1>2 DEF Has, Entry
  <1>3. Has(Entry("prolongation", "active"), <<>>, <<>>, <<>>, product, FALSE)
    BY <1>1, <1>e, UsageEntries DEF Sig
  <1>4. /\ "active" \in UsageLeaves /\ "active" \notin SignalsWhenEntered
        /\ "active" \in CompletesWhenEntered /\ StatusOnEntry("active", status) = "ACTIVE"
    BY DEF UsageLeaves, UsageOn, UsageOff, Activated, SignalsWhenEntered, CompletesWhenEntered,
       StatusOnEntry
  <1>5. Streams("prolongation", "active")
    BY <1>1, <1>4, Streaming DEF UsageLeaves, UsageOn, UsageOff, Activated, PaymentLeaves, PaymentOn,
       PaymentOff, PriceLeaves, PriceOn
  <1>6. /\ Tail(queue) \o Signal("prolongation", <<>>) \o Signal("active", <<>>) \o <<>> \o <<>>
             = <<>>
        /\ tasks \o <<>> \o <<>> = <<>>
        /\ ToSet(deleteTasks) \cup (ToSet(<<>>) \cup ToSet(<<>>)) = {"waiting_pay_ended"}
    BY <1>1, SmallSignals, Shapes, SetsOfTuples
  <1>7. Flows("active", <<>>, <<>>, {"waiting_pay_ended"}, product, TRUE)
    BY <1>2, <1>3, <1>4, <1>5, <1>6 DEF Streams, Flows, Has
  <1>8. Result(In("active", "paid", Price0), StatusOnEntry("active", status),
               product.tarificationPeriod, ToSet(<<>>), {"waiting_pay_ended"})
    BY <1>1, <1>4, SetsOfTuples, PaidResult
  <1>9. Ended'
    BY <1>1, <1>7, <1>8, EndsCompleted, Injections DEF Deactivates
  <1> QED BY <1>9 DEF Phase

\* From active or activeTrial to suspending: the call is left uncompleted.
LEMMA StepSuspending ==
  ASSUME CascadeInv, TypeOK, Unpaid, UsageMoved("suspending")
  PROVE  Phase'
  <1>0. /\ saved.conf.top = "productProvision" /\ conf = In(Usage0, "notPaid", Price0)
        /\ queue # <<>> /\ Head(queue) = Sig("waitingPayment", "suspend") /\ Tail(queue) = <<>>
        /\ tasks = <<>> /\ ToSet(deleteTasks) = {"waiting_pay_ended"} /\ ~completed
        /\ status = Status0 /\ product.tarificationPeriod = Periods0 - 1
        /\ Usage0 \in UsageLeaves \ {"usageFinal"} /\ Payment0 \in PaymentLeaves
        /\ Price0 \in PriceLeaves
        /\ Payment0 = "waitingPayment" /\ calling \in {"payment_failed", "waiting_pay_ended"}
    BY AtThere DEF Unpaid
  <1> USE <1>0
  <1>1. /\ Does(Usage0, "suspending")
        /\ conf' = In("suspending", "notPaid", Price0)
        /\ Usage0 \in {"active", "activeTrial"}
    BY DEF UsageMoved, UsageMove, Heard, Sig, In
  <1>2. Has(Exit(Usage0), <<>>, <<>>, <<>>, product, FALSE)
    BY <1>1, Exits DEF Exit
  <1>e. Entry(Usage0, "suspending") = OnEntry("suspending", Head(queue), product)
    BY <1>2 DEF Has, Entry
  <1>3. Has(Entry(Usage0, "suspending"), <<>>, <<"SUSPEND">>, <<"trial_ended", "commercial_ended">>,
            product, FALSE)
    BY <1>1, <1>e, UsageEntries DEF Sig
  <1>4. /\ "suspending" \in UsageLeaves /\ "suspending" \notin SignalsWhenEntered
        /\ "suspending" \in CompletesWhenEntered /\ StatusOnEntry("suspending", status) = Status0
    BY DEF UsageLeaves, UsageOn, UsageOff, Activated, SignalsWhenEntered, CompletesWhenEntered,
       StatusOnEntry
  <1>5. Streams(Usage0, "suspending")
    BY <1>1, <1>4, Streaming DEF UsageLeaves, UsageOn, UsageOff, Activated, PaymentLeaves, PaymentOn,
       PaymentOff, PriceLeaves, PriceOn
  <1>6. /\ Tail(queue) \o Signal(Usage0, <<>>) \o Signal("suspending", <<>>) \o <<>> \o <<>>
             = <<>>
        /\ tasks \o <<>> \o <<"SUSPEND">> = <<"SUSPEND">>
        /\ ToSet(deleteTasks) \cup (ToSet(<<>>) \cup ToSet(<<"trial_ended", "commercial_ended">>))
             = {"waiting_pay_ended", "trial_ended", "commercial_ended"}
    <2>1. Signal(Usage0, <<>>) = <<>> /\ Signal("suspending", <<>>) = <<>>
      BY SmallSignals
    <2>2. /\ ToSet(<<>>) = {}
          /\ ToSet(<<"trial_ended", "commercial_ended">>) = {"trial_ended", "commercial_ended"}
      BY SetsOfTuples
    <2>3. Tail(queue) \o Signal(Usage0, <<>>) \o Signal("suspending", <<>>) \o <<>> \o <<>>
               = <<>>
      BY <2>1, <1>1, Shapes
    <2> QED BY <2>2, <2>3, <1>1, Shapes
  <1>7. Flows("suspending", <<>>, <<"SUSPEND">>,
              {"waiting_pay_ended", "trial_ended", "commercial_ended"}, product, TRUE)
    BY <1>2, <1>3, <1>4, <1>5, <1>6 DEF Streams, Flows, Has
  <1>8. Result(In("suspending", "notPaid", Price0), StatusOnEntry("suspending", status),
               product.tarificationPeriod, ToSet(<<"SUSPEND">>),
                 {"waiting_pay_ended", "trial_ended", "commercial_ended"})
    BY <1>1, <1>4, SetsOfTuples, UnpaidResult
  <1>9. Ended'
    BY <1>1, <1>7, <1>8, EndsCompleted, Injections DEF Deactivates
  <1> QED BY <1>9 DEF Phase

\* From suspended to resuming: the tarification is told to resume.
LEMMA StepResuming ==
  ASSUME CascadeInv, TypeOK, PaidLate, UsageMoved("resuming")
  PROVE  Phase'
  <1>0. /\ saved.conf.top = "productProvision" /\ conf = In(Usage0, "paid", Price0)
        /\ queue # <<>> /\ Head(queue) = Sig("notPaid", "resume") /\ Tail(queue) = <<>>
        /\ tasks = <<>> /\ ToSet(deleteTasks) = {} /\ ~completed
        /\ status = Status0 /\ product.tarificationPeriod = Periods0
        /\ Usage0 \in UsageLeaves \ {"usageFinal"} /\ Payment0 \in PaymentLeaves
        /\ Price0 \in PriceLeaves
        /\ Payment0 = "notPaid" /\ calling = "payment_processed"
    BY AtThere DEF PaidLate
  <1> USE <1>0
  <1>1. /\ Does("suspended", "resuming")
        /\ conf' = In("resuming", "paid", Price0)
        /\ Usage0 = "suspended"
    BY DEF UsageMoved, UsageMove, Heard, Sig, In
  <1>2. Has(Exit("suspended"), <<"resume_tarification">>, <<>>, <<"suspend_ended">>, product, FALSE)
    BY <1>1, Exits DEF Exit
  <1>e. Entry("suspended", "resuming") = OnEntry("resuming", Head(queue), product)
    BY <1>2 DEF Has, Entry
  <1>3. Has(Entry("suspended", "resuming"), <<>>, <<"RESUME">>, <<>>, product, FALSE)
    BY <1>1, <1>e, UsageEntries DEF Sig
  <1>4. /\ "resuming" \in UsageLeaves /\ "resuming" \notin SignalsWhenEntered
        /\ "resuming" \notin CompletesWhenEntered /\ StatusOnEntry("resuming", status) = Status0
    BY DEF UsageLeaves, UsageOn, UsageOff, Activated, SignalsWhenEntered, CompletesWhenEntered,
       StatusOnEntry
  <1>5. Streams("suspended", "resuming")
    BY <1>1, <1>4, Streaming DEF UsageLeaves, UsageOn, UsageOff, Activated, PaymentLeaves, PaymentOn,
       PaymentOff, PriceLeaves, PriceOn
  <1>6. /\ Tail(queue) \o Signal("suspended", <<"resume_tarification">>) \o Signal("resuming", <<>>)
             \o <<>> \o <<>>
             = <<Sig("suspended", "resume_tarification")>>
        /\ tasks \o <<>> \o <<"RESUME">> = <<"RESUME">>
        /\ ToSet(deleteTasks) \cup (ToSet(<<"suspend_ended">>) \cup ToSet(<<>>)) = {"suspend_ended"}
    <2>1. /\ Signal("suspended", <<"resume_tarification">>)
               = <<Sig("suspended", "resume_tarification")>>
          /\ Signal("resuming", <<>>) = <<>>
      BY SmallSignals
    <2>2. ToSet(<<"suspend_ended">>) = {"suspend_ended"} /\ ToSet(<<>>) = {}
      BY SetsOfTuples
    <2>3. Tail(queue) \o Signal("suspended", <<"resume_tarification">>) \o Signal("resuming", <<>>)
            \o <<>> \o <<>>
               = <<Sig("suspended", "resume_tarification")>>
      BY <2>1, <1>1, Shapes
    <2> QED BY <2>2, <2>3, <1>1, Shapes
  <1>7. Flows("resuming", <<Sig("suspended", "resume_tarification")>>, <<"RESUME">>,
              {"suspend_ended"}, product, FALSE)
    BY <1>2, <1>3, <1>4, <1>5, <1>6 DEF Streams, Flows, Has
  <1>8. Resumed'
    BY <1>1, <1>4, <1>7
    DEF Flows, Resumed, At, Usage0, Payment0, Price0, Status0, Periods0, Resumption
  <1> QED BY <1>8 DEF Phase

\* From commercial to commercial, on a resumption: a period is charged and the call ends.
LEMMA StepCommercial ==
  ASSUME CascadeInv, TypeOK, Resumed, PriceMoved("commercial"), HasPeriodType(product)
  PROVE  Phase'
  <1>0. /\ saved.conf.top = "productProvision" /\ conf = In("resuming", "paid", Price0)
        /\ queue # <<>> /\ Head(queue) = Sig("suspended", "resume_tarification") /\ Tail(queue) = <<>>
        /\ tasks = <<"RESUME">> /\ ToSet(deleteTasks) = {"suspend_ended"} /\ ~completed
        /\ status = Status0 /\ product.tarificationPeriod = Periods0
        /\ Usage0 \in UsageLeaves \ {"usageFinal"} /\ Payment0 \in PaymentLeaves
        /\ Price0 \in PriceLeaves
        /\ Payment0 = "notPaid" /\ Usage0 = "suspended" /\ calling = "payment_processed"
    BY AtThere DEF Resumed, Resumption
  <1> USE <1>0
  <1>1. /\ Does("commercial", "commercial")
        /\ conf' = In("resuming", "paid", "commercial")
        /\ Price0 = "commercial"
    BY DEF PriceMoved, PriceMove, Heard, Sig, In
  <1>a. IncreasePeriods(product).tarificationPeriod = Periods0 + 1
    BY DEF IncreasePeriods
  <1>2. Has(Exit("commercial"), <<>>, <<>>, <<>>, product, FALSE)
    BY <1>1, Exits DEF Exit
  <1>e. Entry("commercial", "commercial") = OnEntry("commercial", Head(queue), product)
    BY <1>2 DEF Has, Entry
  <1>3. Has(Entry("commercial", "commercial"), <<>>, <<"commercial_ended">>, <<>>,
            IncreasePeriods(product), TRUE)
    BY <1>1, <1>e, PriceEntries DEF Sig
  <1>4. /\ "commercial" \in PriceLeaves /\ "commercial" \notin SignalsWhenEntered
        /\ "commercial" \notin CompletesWhenEntered /\ StatusOnEntry("commercial", status) = Status0
    BY DEF PriceLeaves, PriceOn, SignalsWhenEntered, CompletesWhenEntered, StatusOnEntry
  <1>5. Streams("commercial", "commercial")
    BY <1>1, <1>4, Streaming DEF UsageLeaves, UsageOn, UsageOff, Activated, PaymentLeaves, PaymentOn,
       PaymentOff, PriceLeaves, PriceOn
  <1>6. /\ Tail(queue) \o Signal("commercial", <<>>) \o Signal("commercial", <<>>) \o <<>> \o <<>>
             = <<>>
        /\ tasks \o <<>> \o <<"commercial_ended">> = <<"RESUME", "commercial_ended">>
        /\ ToSet(deleteTasks) \cup (ToSet(<<>>) \cup ToSet(<<>>)) = {"suspend_ended"}
    BY <1>1, SmallSignals, Shapes, SetsOfTuples
  <1>7. Flows("commercial", <<>>, <<"RESUME", "commercial_ended">>, {"suspend_ended"},
              IncreasePeriods(product), TRUE)
    BY <1>2, <1>3, <1>4, <1>5, <1>6 DEF Streams, Flows, Has
  <1>8. Result(In("resuming", "paid", "commercial"), StatusOnEntry("commercial", status),
               IncreasePeriods(product).tarificationPeriod, ToSet(<<"RESUME", "commercial_ended">>),
                 {"suspend_ended"})
    <2>1. ToSet(<<"RESUME", "commercial_ended">>) = {"RESUME", "commercial_ended"}
      BY SetsOfTuples
    <2> QED BY <2>1, <1>1, <1>a, <1>4, LateResult
  <1>9. Ended'
    BY <1>1, <1>7, <1>8, EndsCompleted, Injections DEF Deactivates
  <1> QED BY <1>9 DEF Phase

\* From commercial to commercial at a price without a period: the call is left uncompleted.
LEMMA StepUncommercial ==
  ASSUME CascadeInv, TypeOK, Resumed, PriceMoved("commercial"), ~HasPeriodType(product)
  PROVE  Phase'
  <1>0. /\ saved.conf.top = "productProvision" /\ conf = In("resuming", "paid", Price0)
        /\ queue # <<>> /\ Head(queue) = Sig("suspended", "resume_tarification") /\ Tail(queue) = <<>>
        /\ tasks = <<"RESUME">> /\ ToSet(deleteTasks) = {"suspend_ended"} /\ ~completed
        /\ status = Status0 /\ product.tarificationPeriod = Periods0
        /\ Usage0 \in UsageLeaves \ {"usageFinal"} /\ Payment0 \in PaymentLeaves
        /\ Price0 \in PriceLeaves
        /\ Payment0 = "notPaid" /\ Usage0 = "suspended" /\ calling = "payment_processed"
    BY AtThere DEF Resumed, Resumption
  <1> USE <1>0
  <1>1. /\ Does("commercial", "commercial")
        /\ conf' = In("resuming", "paid", "commercial")
        /\ Price0 = "commercial"
    BY DEF PriceMoved, PriceMove, Heard, Sig, In
  <1>2. Has(Exit("commercial"), <<>>, <<>>, <<>>, product, FALSE)
    BY <1>1, Exits DEF Exit
  <1>e. Entry("commercial", "commercial") = OnEntry("commercial", Head(queue), product)
    BY <1>2 DEF Has, Entry
  <1>3. Has(Entry("commercial", "commercial"), <<>>, <<>>, <<>>, product, FALSE)
    BY <1>1, <1>e, PriceEntries DEF Sig
  <1>4. /\ "commercial" \in PriceLeaves /\ "commercial" \notin SignalsWhenEntered
        /\ "commercial" \notin CompletesWhenEntered /\ StatusOnEntry("commercial", status) = Status0
    BY DEF PriceLeaves, PriceOn, SignalsWhenEntered, CompletesWhenEntered, StatusOnEntry
  <1>5. Streams("commercial", "commercial")
    BY <1>1, <1>4, Streaming DEF UsageLeaves, UsageOn, UsageOff, Activated, PaymentLeaves, PaymentOn,
       PaymentOff, PriceLeaves, PriceOn
  <1>6. /\ Tail(queue) \o Signal("commercial", <<>>) \o Signal("commercial", <<>>) \o <<>> \o <<>>
             = <<>>
        /\ tasks \o <<>> \o <<>> = <<"RESUME">>
        /\ ToSet(deleteTasks) \cup (ToSet(<<>>) \cup ToSet(<<>>)) = {"suspend_ended"}
    BY <1>1, SmallSignals, Shapes, SetsOfTuples
  <1>7. Flows("commercial", <<>>, <<"RESUME">>, {"suspend_ended"}, product, FALSE)
    BY <1>2, <1>3, <1>4, <1>5, <1>6 DEF Streams, Flows, Has
  <1>8. Ended'
    BY <1>1, <1>7, EndsUncompleted DEF Flows, Deactivates
  <1> QED BY <1>8 DEF Phase

-----------------------------------------------------------------------------
(* An activation. *)

\* From priceOnEntry to commercial: the first period is charged.
LEMMA StepSold ==
  ASSUME CascadeInv, TypeOK, Entering, PriceMoved("commercial"),
         Heard("priceOnEntry", "activation_completed"), HasPeriodType(product)
  PROVE  Phase' /\ Sold'
  <1>0. /\ saved.conf.top = "pendingActivate"
        /\ conf = In("activatedEntry", "paymentOnEntry", "priceOnEntry")
        /\ queue # <<>> /\ Head(queue) = Sig("priceOnEntry", "activation_completed")
        /\ Tail(queue) = <<>>
        /\ tasks = <<>> /\ ToSet(deleteTasks) = {} /\ ~completed
        /\ status = "PENDING_ACTIVATE" /\ product.tarificationPeriod = Periods0
        /\ calling \in {"activation_completed", "trial_activation_completed"}
    BY EnteringThere, SetsOfTuples DEF Activating, Heard, Sig
  <1> USE <1>0
  <1>1. /\ Does("priceOnEntry", "commercial")
        /\ conf' = In("activatedEntry", "paymentOnEntry", "commercial")
    BY DEF PriceMoved, PriceMove, Heard, Sig, In
  <1>2. Has(Exit("priceOnEntry"), <<>>, <<>>, <<>>, product, FALSE)
    BY <1>1, Exits DEF Exit
  <1>e. Entry("priceOnEntry", "commercial") = OnEntry("commercial", Head(queue), product)
    BY <1>2 DEF Has, Entry
  <1>3. Has(Entry("priceOnEntry", "commercial"), <<"activation_completed">>, <<"commercial_ended">>,
            <<>>, IncreasePeriods(product), FALSE)
    BY <1>1, <1>e, PriceEntries DEF Sig
  <1>4. /\ "commercial" \in PriceLeaves /\ "commercial" \notin SignalsWhenEntered
        /\ "commercial" \notin CompletesWhenEntered
        /\ StatusOnEntry("commercial", status) = "PENDING_ACTIVATE"
    BY DEF PriceLeaves, PriceOn, SignalsWhenEntered, CompletesWhenEntered, StatusOnEntry
  <1>5. Streams("priceOnEntry", "commercial")
    BY <1>1, <1>4, Streaming DEF UsageLeaves, UsageOn, UsageOff, Activated, PaymentLeaves, PaymentOn,
       PaymentOff, PriceLeaves, PriceOn
  <1>6. /\ Tail(queue) \o Signal("priceOnEntry", <<>>)
             \o Signal("commercial", <<"activation_completed">>) \o <<>> \o <<>>
             = <<Sig("commercial", "activation_completed")>>
        /\ tasks \o <<>> \o <<"commercial_ended">> = <<"commercial_ended">>
        /\ ToSet(deleteTasks) \cup (ToSet(<<>>) \cup ToSet(<<>>)) = {}
    <2>1. /\ Signal("priceOnEntry", <<>>) = <<>>
          /\ Signal("commercial", <<"activation_completed">>)
               = <<Sig("commercial", "activation_completed")>>
      BY SmallSignals
    <2>2. ToSet(<<>>) = {} /\ ToSet(<<>>) = {}
      BY SetsOfTuples
    <2>3. Tail(queue) \o Signal("priceOnEntry", <<>>)
            \o Signal("commercial", <<"activation_completed">>) \o <<>> \o <<>>
               = <<Sig("commercial", "activation_completed")>>
      BY <2>1, <1>1, Shapes
    <2> QED BY <2>2, <2>3, <1>1, Shapes
  <1>7. Flows("commercial", <<Sig("commercial", "activation_completed")>>, <<"commercial_ended">>, {},
              IncreasePeriods(product), FALSE)
    BY <1>2, <1>3, <1>4, <1>5, <1>6 DEF Streams, Flows, Has
  <1>8. Sold'
    BY <1>1, <1>4, <1>7
    DEF Flows, Sold, At, Usage0, Payment0, Price0, Status0, Periods0, Activating, IncreasePeriods
  <1> QED BY <1>8 DEF Phase

\* From priceOnEntry to commercial at a price without a period: the call is left uncompleted.
LEMMA StepUnsold ==
  ASSUME CascadeInv, TypeOK, Entering, PriceMoved("commercial"),
         Heard("priceOnEntry", "activation_completed"), ~HasPeriodType(product)
  PROVE  Phase' /\ queue' = <<>> /\ ~completed'
  <1>0. /\ saved.conf.top = "pendingActivate"
        /\ conf = In("activatedEntry", "paymentOnEntry", "priceOnEntry")
        /\ queue # <<>> /\ Head(queue) = Sig("priceOnEntry", "activation_completed")
        /\ Tail(queue) = <<>>
        /\ tasks = <<>> /\ ToSet(deleteTasks) = {} /\ ~completed
        /\ status = "PENDING_ACTIVATE" /\ product.tarificationPeriod = Periods0
        /\ calling \in {"activation_completed", "trial_activation_completed"}
    BY EnteringThere, SetsOfTuples DEF Activating, Heard, Sig
  <1> USE <1>0
  <1>1. /\ Does("priceOnEntry", "commercial")
        /\ conf' = In("activatedEntry", "paymentOnEntry", "commercial")
    BY DEF PriceMoved, PriceMove, Heard, Sig, In
  <1>2. Has(Exit("priceOnEntry"), <<>>, <<>>, <<>>, product, FALSE)
    BY <1>1, Exits DEF Exit
  <1>e. Entry("priceOnEntry", "commercial") = OnEntry("commercial", Head(queue), product)
    BY <1>2 DEF Has, Entry
  <1>3. Has(Entry("priceOnEntry", "commercial"), <<>>, <<>>, <<>>, product, FALSE)
    BY <1>1, <1>e, PriceEntries DEF Sig
  <1>4. /\ "commercial" \in PriceLeaves /\ "commercial" \notin SignalsWhenEntered
        /\ "commercial" \notin CompletesWhenEntered
        /\ StatusOnEntry("commercial", status) = "PENDING_ACTIVATE"
    BY DEF PriceLeaves, PriceOn, SignalsWhenEntered, CompletesWhenEntered, StatusOnEntry
  <1>5. Streams("priceOnEntry", "commercial")
    BY <1>1, <1>4, Streaming DEF UsageLeaves, UsageOn, UsageOff, Activated, PaymentLeaves, PaymentOn,
       PaymentOff, PriceLeaves, PriceOn
  <1>6. /\ Tail(queue) \o Signal("priceOnEntry", <<>>) \o Signal("commercial", <<>>) \o <<>> \o <<>>
             = <<>>
        /\ tasks \o <<>> \o <<>> = <<>>
        /\ ToSet(deleteTasks) \cup (ToSet(<<>>) \cup ToSet(<<>>)) = {}
    BY <1>1, SmallSignals, Shapes, SetsOfTuples
  <1>7. Flows("commercial", <<>>, <<>>, {}, product, FALSE)
    BY <1>2, <1>3, <1>4, <1>5, <1>6 DEF Streams, Flows, Has
  <1>8. Ended'
    BY <1>1, <1>7, EndsUncompleted DEF Flows, Deactivates
  <1> QED BY <1>7, <1>8 DEF Phase, Flows

\* From priceOnEntry to trial: the first period is charged.
LEMMA StepSoldTrial ==
  ASSUME CascadeInv, TypeOK, Entering, PriceMoved("trial"),
         Heard("priceOnEntry", "trial_activation_completed"), HasPeriodType(product)
  PROVE  Phase' /\ SoldTrial'
  <1>0. /\ saved.conf.top = "pendingActivate"
        /\ conf = In("activatedEntry", "paymentOnEntry", "priceOnEntry")
        /\ queue # <<>> /\ Head(queue) = Sig("priceOnEntry", "trial_activation_completed")
        /\ Tail(queue) = <<>>
        /\ tasks = <<>> /\ ToSet(deleteTasks) = {} /\ ~completed
        /\ status = "PENDING_ACTIVATE" /\ product.tarificationPeriod = Periods0
        /\ calling \in {"activation_completed", "trial_activation_completed"}
    BY EnteringThere, SetsOfTuples DEF Activating, Heard, Sig
  <1> USE <1>0
  <1>1. /\ Does("priceOnEntry", "trial")
        /\ conf' = In("activatedEntry", "paymentOnEntry", "trial")
    BY DEF PriceMoved, PriceMove, Heard, Sig, In
  <1>2. Has(Exit("priceOnEntry"), <<>>, <<>>, <<>>, product, FALSE)
    BY <1>1, Exits DEF Exit
  <1>e. Entry("priceOnEntry", "trial") = OnEntry("trial", Head(queue), product)
    BY <1>2 DEF Has, Entry
  <1>3. Has(Entry("priceOnEntry", "trial"), <<"trial_activation_completed">>, <<"trial_ended">>, <<>>,
            IncreasePeriods(product), FALSE)
    BY <1>1, <1>e, PriceEntries DEF Sig
  <1>4. /\ "trial" \in PriceLeaves /\ "trial" \notin SignalsWhenEntered
        /\ "trial" \notin CompletesWhenEntered /\ StatusOnEntry("trial", status) = "PENDING_ACTIVATE"
    BY DEF PriceLeaves, PriceOn, SignalsWhenEntered, CompletesWhenEntered, StatusOnEntry
  <1>5. Streams("priceOnEntry", "trial")
    BY <1>1, <1>4, Streaming DEF UsageLeaves, UsageOn, UsageOff, Activated, PaymentLeaves, PaymentOn,
       PaymentOff, PriceLeaves, PriceOn
  <1>6. /\ Tail(queue) \o Signal("priceOnEntry", <<>>)
             \o Signal("trial", <<"trial_activation_completed">>) \o <<>> \o <<>>
             = <<Sig("trial", "trial_activation_completed")>>
        /\ tasks \o <<>> \o <<"trial_ended">> = <<"trial_ended">>
        /\ ToSet(deleteTasks) \cup (ToSet(<<>>) \cup ToSet(<<>>)) = {}
    <2>1. /\ Signal("priceOnEntry", <<>>) = <<>>
          /\ Signal("trial", <<"trial_activation_completed">>)
               = <<Sig("trial", "trial_activation_completed")>>
      BY SmallSignals
    <2>2. ToSet(<<>>) = {} /\ ToSet(<<>>) = {}
      BY SetsOfTuples
    <2>3. Tail(queue) \o Signal("priceOnEntry", <<>>)
            \o Signal("trial", <<"trial_activation_completed">>) \o <<>> \o <<>>
               = <<Sig("trial", "trial_activation_completed")>>
      BY <2>1, <1>1, Shapes
    <2> QED BY <2>2, <2>3, <1>1, Shapes
  <1>7. Flows("trial", <<Sig("trial", "trial_activation_completed")>>, <<"trial_ended">>, {},
              IncreasePeriods(product), FALSE)
    BY <1>2, <1>3, <1>4, <1>5, <1>6 DEF Streams, Flows, Has
  <1>8. SoldTrial'
    BY <1>1, <1>4, <1>7
    DEF Flows, SoldTrial, At, Usage0, Payment0, Price0, Status0, Periods0, Activating, IncreasePeriods
  <1> QED BY <1>8 DEF Phase

\* From priceOnEntry to trial at a price without a period: the call is left uncompleted.
LEMMA StepUnsoldTrial ==
  ASSUME CascadeInv, TypeOK, Entering, PriceMoved("trial"),
         Heard("priceOnEntry", "trial_activation_completed"), ~HasPeriodType(product)
  PROVE  Phase' /\ queue' = <<>> /\ ~completed'
  <1>0. /\ saved.conf.top = "pendingActivate"
        /\ conf = In("activatedEntry", "paymentOnEntry", "priceOnEntry")
        /\ queue # <<>> /\ Head(queue) = Sig("priceOnEntry", "trial_activation_completed")
        /\ Tail(queue) = <<>>
        /\ tasks = <<>> /\ ToSet(deleteTasks) = {} /\ ~completed
        /\ status = "PENDING_ACTIVATE" /\ product.tarificationPeriod = Periods0
        /\ calling \in {"activation_completed", "trial_activation_completed"}
    BY EnteringThere, SetsOfTuples DEF Activating, Heard, Sig
  <1> USE <1>0
  <1>1. /\ Does("priceOnEntry", "trial")
        /\ conf' = In("activatedEntry", "paymentOnEntry", "trial")
    BY DEF PriceMoved, PriceMove, Heard, Sig, In
  <1>2. Has(Exit("priceOnEntry"), <<>>, <<>>, <<>>, product, FALSE)
    BY <1>1, Exits DEF Exit
  <1>e. Entry("priceOnEntry", "trial") = OnEntry("trial", Head(queue), product)
    BY <1>2 DEF Has, Entry
  <1>3. Has(Entry("priceOnEntry", "trial"), <<>>, <<>>, <<>>, product, FALSE)
    BY <1>1, <1>e, PriceEntries DEF Sig
  <1>4. /\ "trial" \in PriceLeaves /\ "trial" \notin SignalsWhenEntered
        /\ "trial" \notin CompletesWhenEntered /\ StatusOnEntry("trial", status) = "PENDING_ACTIVATE"
    BY DEF PriceLeaves, PriceOn, SignalsWhenEntered, CompletesWhenEntered, StatusOnEntry
  <1>5. Streams("priceOnEntry", "trial")
    BY <1>1, <1>4, Streaming DEF UsageLeaves, UsageOn, UsageOff, Activated, PaymentLeaves, PaymentOn,
       PaymentOff, PriceLeaves, PriceOn
  <1>6. /\ Tail(queue) \o Signal("priceOnEntry", <<>>) \o Signal("trial", <<>>) \o <<>> \o <<>>
             = <<>>
        /\ tasks \o <<>> \o <<>> = <<>>
        /\ ToSet(deleteTasks) \cup (ToSet(<<>>) \cup ToSet(<<>>)) = {}
    BY <1>1, SmallSignals, Shapes, SetsOfTuples
  <1>7. Flows("trial", <<>>, <<>>, {}, product, FALSE)
    BY <1>2, <1>3, <1>4, <1>5, <1>6 DEF Streams, Flows, Has
  <1>8. Ended'
    BY <1>1, <1>7, EndsUncompleted DEF Flows, Deactivates
  <1> QED BY <1>7, <1>8 DEF Phase, Flows

\* From paymentOnEntry to waitingPayment.
LEMMA StepDue ==
  ASSUME CascadeInv, TypeOK, Sold, PaymentMoved("waitingPayment")
  PROVE  Phase' /\ Due'
  <1>0. /\ saved.conf.top = "pendingActivate"
        /\ conf = In("activatedEntry", "paymentOnEntry", "commercial")
        /\ queue # <<>> /\ Head(queue) = Sig("commercial", "activation_completed")
        /\ Tail(queue) = <<>>
        /\ tasks = <<"commercial_ended">> /\ ToSet(deleteTasks) = {} /\ ~completed
        /\ status = "PENDING_ACTIVATE" /\ product.tarificationPeriod = Periods0 + 1
        /\ calling \in {"activation_completed", "trial_activation_completed"}
    BY HeadsAndTails, SetsOfTuples DEF Sold, Activating
  <1> USE <1>0
  <1>1. /\ Does("paymentOnEntry", "waitingPayment")
        /\ conf' = In("activatedEntry", "waitingPayment", "commercial")
    BY DEF PaymentMoved, PaymentMove, Heard, Sig, In
  <1>2. Has(Exit("paymentOnEntry"), <<>>, <<>>, <<>>, product, FALSE)
    BY <1>1, Exits DEF Exit
  <1>e. Entry("paymentOnEntry", "waitingPayment") = OnEntry("waitingPayment", Head(queue), product)
    BY <1>2 DEF Has, Entry
  <1>3. Has(Entry("paymentOnEntry", "waitingPayment"), <<"activation_completed">>,
            <<"waiting_pay_ended">>, <<>>, product, FALSE)
    BY <1>1, <1>e, PaymentEntries DEF Sig
  <1>4. /\ "waitingPayment" \in PaymentLeaves /\ "waitingPayment" \notin SignalsWhenEntered
        /\ "waitingPayment" \notin CompletesWhenEntered
        /\ StatusOnEntry("waitingPayment", status) = "PENDING_ACTIVATE"
    BY DEF PaymentLeaves, PaymentOn, PaymentOff, SignalsWhenEntered, CompletesWhenEntered,
       StatusOnEntry
  <1>5. Streams("paymentOnEntry", "waitingPayment")
    BY <1>1, <1>4, Streaming DEF UsageLeaves, UsageOn, UsageOff, Activated, PaymentLeaves, PaymentOn,
       PaymentOff, PriceLeaves, PriceOn
  <1>6. /\ Tail(queue) \o Signal("paymentOnEntry", <<>>)
             \o Signal("waitingPayment", <<"activation_completed">>) \o <<>> \o <<>>
             = <<Sig("waitingPayment", "activation_completed")>>
        /\ tasks \o <<>> \o <<"waiting_pay_ended">> = <<"commercial_ended", "waiting_pay_ended">>
        /\ ToSet(deleteTasks) \cup (ToSet(<<>>) \cup ToSet(<<>>)) = {}
    <2>1. /\ Signal("paymentOnEntry", <<>>) = <<>>
          /\ Signal("waitingPayment", <<"activation_completed">>)
               = <<Sig("waitingPayment", "activation_completed")>>
      BY SmallSignals
    <2>2. ToSet(<<>>) = {} /\ ToSet(<<>>) = {}
      BY SetsOfTuples
    <2>3. Tail(queue) \o Signal("paymentOnEntry", <<>>)
            \o Signal("waitingPayment", <<"activation_completed">>) \o <<>> \o <<>>
               = <<Sig("waitingPayment", "activation_completed")>>
      BY <2>1, <1>1, Shapes
    <2> QED BY <2>2, <2>3, <1>1, Shapes
  <1>7. Flows("waitingPayment", <<Sig("waitingPayment", "activation_completed")>>,
              <<"commercial_ended", "waiting_pay_ended">>, {}, product, FALSE)
    BY <1>2, <1>3, <1>4, <1>5, <1>6 DEF Streams, Flows, Has
  <1>8. Due'
    BY <1>1, <1>4, <1>7
    DEF Flows, Due, At, Usage0, Payment0, Price0, Status0, Periods0, Activating
  <1> QED BY <1>8 DEF Phase

\* From paymentOnEntry to paid.
LEMMA StepFree ==
  ASSUME CascadeInv, TypeOK, SoldTrial, PaymentMoved("paid")
  PROVE  Phase' /\ Free'
  <1>0. /\ saved.conf.top = "pendingActivate"
        /\ conf = In("activatedEntry", "paymentOnEntry", "trial")
        /\ queue # <<>> /\ Head(queue) = Sig("trial", "trial_activation_completed")
        /\ Tail(queue) = <<>>
        /\ tasks = <<"trial_ended">> /\ ToSet(deleteTasks) = {} /\ ~completed
        /\ status = "PENDING_ACTIVATE" /\ product.tarificationPeriod = Periods0 + 1
        /\ calling \in {"activation_completed", "trial_activation_completed"}
    BY HeadsAndTails, SetsOfTuples DEF SoldTrial, Activating
  <1> USE <1>0
  <1>1. /\ Does("paymentOnEntry", "paid")
        /\ conf' = In("activatedEntry", "paid", "trial")
    BY DEF PaymentMoved, PaymentMove, Heard, Sig, In
  <1>2. Has(Exit("paymentOnEntry"), <<>>, <<>>, <<>>, product, FALSE)
    BY <1>1, Exits DEF Exit
  <1>e. Entry("paymentOnEntry", "paid") = OnEntry("paid", Head(queue), product)
    BY <1>2 DEF Has, Entry
  <1>3. Has(Entry("paymentOnEntry", "paid"), <<"trial_activation_completed">>, <<>>, <<>>, product,
            FALSE)
    BY <1>1, <1>e, PaymentEntries DEF Sig
  <1>4. /\ "paid" \in PaymentLeaves /\ "paid" \notin SignalsWhenEntered
        /\ "paid" \notin CompletesWhenEntered /\ StatusOnEntry("paid", status) = "PENDING_ACTIVATE"
    BY DEF PaymentLeaves, PaymentOn, PaymentOff, SignalsWhenEntered, CompletesWhenEntered,
       StatusOnEntry
  <1>5. Streams("paymentOnEntry", "paid")
    BY <1>1, <1>4, Streaming DEF UsageLeaves, UsageOn, UsageOff, Activated, PaymentLeaves, PaymentOn,
       PaymentOff, PriceLeaves, PriceOn
  <1>6. /\ Tail(queue) \o Signal("paymentOnEntry", <<>>)
             \o Signal("paid", <<"trial_activation_completed">>) \o <<>> \o <<>>
             = <<Sig("paid", "trial_activation_completed")>>
        /\ tasks \o <<>> \o <<>> = <<"trial_ended">>
        /\ ToSet(deleteTasks) \cup (ToSet(<<>>) \cup ToSet(<<>>)) = {}
    <2>1. /\ Signal("paymentOnEntry", <<>>) = <<>>
          /\ Signal("paid", <<"trial_activation_completed">>)
               = <<Sig("paid", "trial_activation_completed")>>
      BY SmallSignals
    <2>2. ToSet(<<>>) = {} /\ ToSet(<<>>) = {}
      BY SetsOfTuples
    <2>3. Tail(queue) \o Signal("paymentOnEntry", <<>>)
            \o Signal("paid", <<"trial_activation_completed">>) \o <<>> \o <<>>
               = <<Sig("paid", "trial_activation_completed")>>
      BY <2>1, <1>1, Shapes
    <2> QED BY <2>2, <2>3, <1>1, Shapes
  <1>7. Flows("paid", <<Sig("paid", "trial_activation_completed")>>, <<"trial_ended">>, {}, product,
              FALSE)
    BY <1>2, <1>3, <1>4, <1>5, <1>6 DEF Streams, Flows, Has
  <1>8. Free'
    BY <1>1, <1>4, <1>7
    DEF Flows, Free, At, Usage0, Payment0, Price0, Status0, Periods0, Activating
  <1> QED BY <1>8 DEF Phase

\* From activatedEntry to active: the call ends.
LEMMA StepInService ==
  ASSUME CascadeInv, TypeOK, Due, UsageMoved("active")
  PROVE  /\ Phase' /\ queue' = <<>>
         /\ conf' = In("active", "waitingPayment", "commercial") /\ product' = product
  <1>0. /\ saved.conf.top = "pendingActivate"
        /\ conf = In("activatedEntry", "waitingPayment", "commercial")
        /\ queue # <<>> /\ Head(queue) = Sig("waitingPayment", "activation_completed")
        /\ Tail(queue) = <<>>
        /\ tasks = <<"commercial_ended", "waiting_pay_ended">> /\ ToSet(deleteTasks) = {}
        /\ ~completed
        /\ status = "PENDING_ACTIVATE" /\ product.tarificationPeriod = Periods0 + 1
        /\ calling \in {"activation_completed", "trial_activation_completed"}
    BY HeadsAndTails, SetsOfTuples DEF Due, Activating
  <1> USE <1>0
  <1>1. /\ Does("activatedEntry", "active")
        /\ conf' = In("active", "waitingPayment", "commercial")
    BY DEF UsageMoved, UsageMove, Heard, Sig, In
  <1>2. Has(Exit("activatedEntry"), <<>>, <<>>, <<>>, product, FALSE)
    BY <1>1, Exits DEF Exit
  <1>e. Entry("activatedEntry", "active") = OnEntry("active", Head(queue), product)
    BY <1>2 DEF Has, Entry
  <1>3. Has(Entry("activatedEntry", "active"), <<>>, <<>>, <<>>, product, FALSE)
    BY <1>1, <1>e, UsageEntries DEF Sig
  <1>4. /\ "active" \in UsageLeaves /\ "active" \notin SignalsWhenEntered
        /\ "active" \in CompletesWhenEntered /\ StatusOnEntry("active", status) = "ACTIVE"
    BY DEF UsageLeaves, UsageOn, UsageOff, Activated, SignalsWhenEntered, CompletesWhenEntered,
       StatusOnEntry
  <1>5. Streams("activatedEntry", "active")
    BY <1>1, <1>4, Streaming DEF UsageLeaves, UsageOn, UsageOff, Activated, PaymentLeaves, PaymentOn,
       PaymentOff, PriceLeaves, PriceOn
  <1>6. /\ Tail(queue) \o Signal("activatedEntry", <<>>) \o Signal("active", <<>>) \o <<>> \o <<>>
             = <<>>
        /\ tasks \o <<>> \o <<>> = <<"commercial_ended", "waiting_pay_ended">>
        /\ ToSet(deleteTasks) \cup (ToSet(<<>>) \cup ToSet(<<>>)) = {}
    BY <1>1, SmallSignals, Shapes, SetsOfTuples
  <1>7. Flows("active", <<>>, <<"commercial_ended", "waiting_pay_ended">>, {}, product, TRUE)
    BY <1>2, <1>3, <1>4, <1>5, <1>6 DEF Streams, Flows, Has
  <1>8. Result(In("active", "waitingPayment", "commercial"), StatusOnEntry("active", status),
               product.tarificationPeriod, ToSet(<<"commercial_ended", "waiting_pay_ended">>), {})
    <2>1. ToSet(<<"commercial_ended", "waiting_pay_ended">>)
            = {"commercial_ended", "waiting_pay_ended"}
      BY SetsOfTuples
    <2> QED BY <2>1, <1>1, <1>4, DueResult
  <1>9. Ended'
    BY <1>1, <1>7, <1>8, EndsCompleted, Injections DEF Deactivates
  <1> QED BY <1>1, <1>7, <1>9 DEF Phase, Flows

\* From activatedEntry to activeTrial: the call ends.
LEMMA StepInTrial ==
  ASSUME CascadeInv, TypeOK, Free, UsageMoved("activeTrial")
  PROVE  /\ Phase' /\ queue' = <<>>
         /\ conf' = In("activeTrial", "paid", "trial") /\ product' = product
  <1>0. /\ saved.conf.top = "pendingActivate" /\ conf = In("activatedEntry", "paid", "trial")
        /\ queue # <<>> /\ Head(queue) = Sig("paid", "trial_activation_completed")
        /\ Tail(queue) = <<>>
        /\ tasks = <<"trial_ended">> /\ ToSet(deleteTasks) = {} /\ ~completed
        /\ status = "PENDING_ACTIVATE" /\ product.tarificationPeriod = Periods0 + 1
        /\ calling \in {"activation_completed", "trial_activation_completed"}
    BY HeadsAndTails, SetsOfTuples DEF Free, Activating
  <1> USE <1>0
  <1>1. /\ Does("activatedEntry", "activeTrial")
        /\ conf' = In("activeTrial", "paid", "trial")
    BY DEF UsageMoved, UsageMove, Heard, Sig, In
  <1>2. Has(Exit("activatedEntry"), <<>>, <<>>, <<>>, product, FALSE)
    BY <1>1, Exits DEF Exit
  <1>e. Entry("activatedEntry", "activeTrial") = OnEntry("activeTrial", Head(queue), product)
    BY <1>2 DEF Has, Entry
  <1>3. Has(Entry("activatedEntry", "activeTrial"), <<>>, <<>>, <<>>, product, FALSE)
    BY <1>1, <1>e, UsageEntries DEF Sig
  <1>4. /\ "activeTrial" \in UsageLeaves /\ "activeTrial" \notin SignalsWhenEntered
        /\ "activeTrial" \in CompletesWhenEntered
        /\ StatusOnEntry("activeTrial", status) = "ACTIVE_TRIAL"
    BY DEF UsageLeaves, UsageOn, UsageOff, Activated, SignalsWhenEntered, CompletesWhenEntered,
       StatusOnEntry
  <1>5. Streams("activatedEntry", "activeTrial")
    BY <1>1, <1>4, Streaming DEF UsageLeaves, UsageOn, UsageOff, Activated, PaymentLeaves, PaymentOn,
       PaymentOff, PriceLeaves, PriceOn
  <1>6. /\ Tail(queue) \o Signal("activatedEntry", <<>>) \o Signal("activeTrial", <<>>) \o <<>>
             \o <<>>
             = <<>>
        /\ tasks \o <<>> \o <<>> = <<"trial_ended">>
        /\ ToSet(deleteTasks) \cup (ToSet(<<>>) \cup ToSet(<<>>)) = {}
    BY <1>1, SmallSignals, Shapes, SetsOfTuples
  <1>7. Flows("activeTrial", <<>>, <<"trial_ended">>, {}, product, TRUE)
    BY <1>2, <1>3, <1>4, <1>5, <1>6 DEF Streams, Flows, Has
  <1>8. Result(In("activeTrial", "paid", "trial"), StatusOnEntry("activeTrial", status),
               product.tarificationPeriod, ToSet(<<"trial_ended">>), {})
    BY <1>1, <1>4, SetsOfTuples, FreeResult
  <1>9. Ended'
    BY <1>1, <1>7, <1>8, EndsCompleted, Injections DEF Deactivates
  <1> QED BY <1>1, <1>7, <1>9 DEF Phase, Flows

-----------------------------------------------------------------------------
(* A deactivation. *)

\* Which steps of a shutdown find nothing to report.
LEMMA AlwaysGuards ==
  \A t \in Transitions : t.guard # "always" =>
    t.value \in {"trial_ended", "commercial_ended", "change_price", "change_price_completed",
                 "prolong_completed"}
  BY DEF Transitions, TopTransitions, PriceTransitions, PriceClosing, UsageTransitions, UsageClosing,
     PaymentTransitions, PaymentClosing, T, On, From

ShutdownValues == {"deactivation_started", "off_price", "stop_pay", "off_usage", "entered",
                   "resume_tarification"}

\* Testing the transitions of a signal without guards reports nothing.
LEMMA NothingTested ==
  ASSUME queue # <<>>, Head(queue).value \in ShutdownValues
  PROVE  TestReason = NoError
  <1>1. \A t \in Transitions : Triggered(t) => t.guard = "always"
    BY AlwaysGuards DEF Triggered, ShutdownValues
  <1>2. \A p, next : GuardReason("always", p, next) = NoError
    BY DEF GuardReason
  <1>3. {GuardReason(t.guard, product, nextPrice) : t \in {u \in Transitions : Triggered(u)}}
          \ {NoError} = {}
    BY <1>1, <1>2
  <1> QED BY <1>3 DEF TestReason

\* So the signals of a shutdown report nothing.
LEMMA ShutdownSilent ==
  ASSUME queue # <<>>, Head(queue).value \in ShutdownValues, reason = NoError,
         NEW from, NEW to \in {"paymentStopped", "priceOff", "paymentFinal", "pendingDisconnect",
                               "priceFinal"},
         Does(from, to)
  PROVE  reason' = NoError
  <1>1. TestReason = NoError
    BY NothingTested
  <1>2. \A s, e, p, next : e.value # "change_price_completed" => OnExit(s, e, p, next).reason = NoError
    BY DEF OnExit, SuspendedOnExit, PriceChangedOnExit, WaitingPaymentOnExit, NotPaidOnExit,
       Nothing, Emits
  <1>3. Exit(from).reason = NoError
    BY <1>2 DEF Exit, ShutdownValues
  <1>4. \A e, p : OnEntry(to, e, p).reason = NoError
    BY DEF OnEntry, PaymentStoppedOnEntry, PriceOffOnEntry, PendingDisconnectOnEntry,
       CreatesAndCompletes, Nothing, Emits
  <1>5. Entry(from, to).reason = NoError
    BY <1>4 DEF Entry
  <1> QED BY <1>1, <1>3, <1>5 DEF Does, Later

\* To paymentStopped, with no payment due: tarification and payments are told to stop.
LEMMA StepStopped ==
  ASSUME CascadeInv, TypeOK, Loaded, conf.top = "productProvision", PaymentMoved("paymentStopped"),
         Payment0 # "waitingPayment"
  PROVE  Phase'
  <1> USE LoadedThere
  <1>1. /\ Does(Payment0, "paymentStopped")
        /\ conf' = In(Usage0, "paymentStopped", Price0)
        /\ calling = "deactivation_started"
        /\ Payment0 \in PaymentOn \cup {"paymentStopping"}
    BY DEF PaymentMoved, PaymentMove, Heard, Sig, In, PaymentOn
  <1>2. Has(Exit(Payment0), <<>>, <<>>, <<>>, product, FALSE)
    BY <1>1, Exits DEF Exit, Sig, PaymentOn
  <1>e. Entry(Payment0, "paymentStopped") = OnEntry("paymentStopped", Head(queue), product)
    BY <1>2 DEF Has, Entry
  <1>3. Has(Entry(Payment0, "paymentStopped"), <<"off_price", "stop_pay">>, <<>>, <<>>, product,
            FALSE)
    BY <1>1, <1>e, PaymentEntries DEF Sig
  <1>4. /\ "paymentStopped" \in PaymentLeaves /\ "paymentStopped" \notin SignalsWhenEntered
        /\ "paymentStopped" \notin CompletesWhenEntered
        /\ StatusOnEntry("paymentStopped", status) = Status0
    BY DEF PaymentLeaves, PaymentOn, PaymentOff, SignalsWhenEntered, CompletesWhenEntered,
       StatusOnEntry
  <1>5. Streams(Payment0, "paymentStopped")
    BY <1>1, <1>4, Streaming DEF UsageLeaves, UsageOn, UsageOff, Activated, PaymentLeaves, PaymentOn,
       PaymentOff, PriceLeaves, PriceOn
  <1>6. /\ Tail(queue) \o Signal(Payment0, <<>>)
             \o Signal("paymentStopped", <<"off_price", "stop_pay">>) \o <<>> \o <<>>
             = <<Sig("paymentStopped", "off_price"), Sig("paymentStopped", "stop_pay")>>
        /\ tasks \o <<>> \o <<>> = <<>>
        /\ ToSet(deleteTasks) \cup (ToSet(<<>>) \cup ToSet(<<>>)) = {}
    <2>1. /\ Signal(Payment0, <<>>) = <<>>
          /\ Signal("paymentStopped", <<"off_price", "stop_pay">>)
               = <<Sig("paymentStopped", "off_price"), Sig("paymentStopped", "stop_pay")>>
      BY SmallSignals
    <2>2. ToSet(<<>>) = {} /\ ToSet(<<>>) = {}
      BY SetsOfTuples
    <2>3. Tail(queue) \o Signal(Payment0, <<>>)
            \o Signal("paymentStopped", <<"off_price", "stop_pay">>) \o <<>> \o <<>>
               = <<Sig("paymentStopped", "off_price"), Sig("paymentStopped", "stop_pay")>>
      BY <2>1, <1>1, Shapes
    <2> QED BY <2>2, <2>3, <1>1, Shapes
  <1>7. Flows("paymentStopped",
              <<Sig("paymentStopped", "off_price"), Sig("paymentStopped", "stop_pay")>>, <<>>, {},
                product, FALSE)
    BY <1>2, <1>3, <1>4, <1>5, <1>6 DEF Streams, Flows, Has
  <1>x. reason' = NoError
    BY <1>1, <1>4, ShutdownSilent DEF ShutdownValues, Sig
  <1>8. Stopped'
    BY <1>1, <1>x, <1>4, <1>7
    DEF Flows, Stopped, At, Usage0, Payment0, Price0, Status0, Periods0, Deactivates, Waited,
       PaymentOn
  <1> QED BY <1>8 DEF Phase

\* From waitingPayment to paymentStopped.
LEMMA StepStoppedWait ==
  ASSUME CascadeInv, TypeOK, Loaded, conf.top = "productProvision", PaymentMoved("paymentStopped"),
         Payment0 = "waitingPayment"
  PROVE  Phase'
  <1> USE LoadedThere
  <1>1. /\ Does(Payment0, "paymentStopped")
        /\ conf' = In(Usage0, "paymentStopped", Price0)
        /\ calling = "deactivation_started"
    BY DEF PaymentMoved, PaymentMove, Heard, Sig, In
  <1>2. Has(Exit(Payment0), <<>>, <<>>, <<"waiting_pay_ended">>, product, FALSE)
    BY <1>1, Exits DEF Exit, Sig, ClosingEvents
  <1>e. Entry(Payment0, "paymentStopped") = OnEntry("paymentStopped", Head(queue), product)
    BY <1>2 DEF Has, Entry
  <1>3. Has(Entry(Payment0, "paymentStopped"), <<"off_price", "stop_pay">>, <<>>, <<>>, product,
            FALSE)
    BY <1>1, <1>e, PaymentEntries DEF Sig
  <1>4. /\ "paymentStopped" \in PaymentLeaves /\ "paymentStopped" \notin SignalsWhenEntered
        /\ "paymentStopped" \notin CompletesWhenEntered
        /\ StatusOnEntry("paymentStopped", status) = Status0
    BY DEF PaymentLeaves, PaymentOn, PaymentOff, SignalsWhenEntered, CompletesWhenEntered,
       StatusOnEntry
  <1>5. Streams(Payment0, "paymentStopped")
    BY <1>1, <1>4, Streaming DEF UsageLeaves, UsageOn, UsageOff, Activated, PaymentLeaves, PaymentOn,
       PaymentOff, PriceLeaves, PriceOn
  <1>6. /\ Tail(queue) \o Signal(Payment0, <<>>)
             \o Signal("paymentStopped", <<"off_price", "stop_pay">>) \o <<>> \o <<>>
             = <<Sig("paymentStopped", "off_price"), Sig("paymentStopped", "stop_pay")>>
        /\ tasks \o <<>> \o <<>> = <<>>
        /\ ToSet(deleteTasks) \cup (ToSet(<<"waiting_pay_ended">>) \cup ToSet(<<>>))
             = {"waiting_pay_ended"}
    <2>1. /\ Signal(Payment0, <<>>) = <<>>
          /\ Signal("paymentStopped", <<"off_price", "stop_pay">>)
               = <<Sig("paymentStopped", "off_price"), Sig("paymentStopped", "stop_pay")>>
      BY SmallSignals
    <2>2. ToSet(<<"waiting_pay_ended">>) = {"waiting_pay_ended"} /\ ToSet(<<>>) = {}
      BY SetsOfTuples
    <2>3. Tail(queue) \o Signal(Payment0, <<>>)
            \o Signal("paymentStopped", <<"off_price", "stop_pay">>) \o <<>> \o <<>>
               = <<Sig("paymentStopped", "off_price"), Sig("paymentStopped", "stop_pay")>>
      BY <2>1, <1>1, Shapes
    <2> QED BY <2>2, <2>3, <1>1, Shapes
  <1>7. Flows("paymentStopped",
              <<Sig("paymentStopped", "off_price"), Sig("paymentStopped", "stop_pay")>>, <<>>,
                {"waiting_pay_ended"}, product, FALSE)
    BY <1>2, <1>3, <1>4, <1>5, <1>6 DEF Streams, Flows, Has
  <1>x. reason' = NoError
    BY <1>1, <1>4, ShutdownSilent DEF ShutdownValues, Sig
  <1>8. Stopped'
    BY <1>1, <1>x, <1>4, <1>7
    DEF Flows, Stopped, At, Usage0, Payment0, Price0, Status0, Periods0, Deactivates, Waited,
       PaymentOn
  <1> QED BY <1>8 DEF Phase

\* Two and three signals one by one.
LEMMA ThreeSignals ==
  ASSUME NEW x, NEW y, NEW z
  PROVE  /\ <<x>> \o <<>> \o <<y>> \o <<z>> \o <<>> = <<x, y, z>>
         /\ <<>> \o <<x>> \o <<y>> \o <<z>> = <<x, y, z>>
  <1>1. <<>> \o <<x>> = <<x>> /\ <<x>> \o <<>> = <<x>> /\ <<x>> \o <<y>> = <<x, y>>
    BY Tuples
  <1>2. <<x, y>> \o <<z>> = <<x, y, z>> /\ <<x, y, z>> \o <<>> = <<x, y, z>>
    BY MoreTuples
  <1> QED BY <1>1, <1>2

\* A product with leaves has not finished while one of them is not final.
LEMMA InProvision ==
  ASSUME CascadeInv, TypeOK, saved.conf.top = "productProvision"
  PROVE  Usage0 \in UsageLeaves \ {"usageFinal"} /\ Payment0 \in PaymentLeaves /\ Price0 \in PriceLeaves
  BY Before
     DEF RestsIn, UsageLeaves, UsageOn, UsageOff, Activated, PaymentLeaves, PaymentOn, PaymentOff,
     PriceLeaves, PriceOn

\* To priceOff: the usage is told to stop.
LEMMA StepPriceStopped ==
  ASSUME CascadeInv, TypeOK, Stopped, PriceMoved("priceOff")
  PROVE  Phase'
  <1>0. /\ queue = <<Sig("paymentStopped", "off_price"), Sig("paymentStopped", "stop_pay")>>
        /\ conf = In(Usage0, "paymentStopped", Price0) /\ status = Status0
        /\ product.tarificationPeriod = Periods0 /\ tasks = <<>> /\ ToSet(deleteTasks) = Waited
        /\ ~completed /\ saved.conf.top = "productProvision" /\ Deactivates /\ reason = NoError
    BY DEF Stopped, At
  <1>1. /\ Does(Price0, "priceOff") /\ conf' = In(Usage0, "paymentStopped", "priceOff")
        /\ Price0 \in PriceOn /\ queue # <<>> /\ Head(queue) = Sig("paymentStopped", "off_price")
        /\ Tail(queue) = <<Sig("paymentStopped", "stop_pay")>>
    <2>1. /\ queue # <<>> /\ Head(queue) = Sig("paymentStopped", "off_price")
          /\ Tail(queue) = <<Sig("paymentStopped", "stop_pay")>>
      BY <1>0, HeadsAndTails
    <2> QED BY <1>0, <2>1 DEF PriceMoved, PriceMove, Heard, Sig, In
  <1>2. Has(Exit(Price0), <<>>, <<>>, <<>>, product, FALSE)
    BY <1>1, Exits DEF Exit, Sig, PriceOn
  <1>3. Entry(Price0, "priceOff") = OnEntry("priceOff", Head(queue), product)
    BY <1>2 DEF Has, Entry
  <1>4. Has(Entry(Price0, "priceOff"), <<"off_usage">>, <<>>, <<>>, product, FALSE)
    BY <1>3, PriceEntries
  <1>5. /\ EnteredSignal("priceOff") = <<Sig("priceOff", "entered")>> /\ FinishedSignal(conf') = <<>>
        /\ Signal(Price0, <<>>) = <<>>
        /\ Signal("priceOff", <<"off_usage">>) = <<Sig("priceOff", "off_usage")>>
    <2>1. ~Finished(conf')
      BY <1>0, <1>1, InProvision
         DEF Finished, FinalLeaves, In, UsageLeaves, UsageOn, UsageOff, Activated
    <2> QED BY <2>1, SmallSignals DEF EnteredSignal, FinishedSignal, SignalsWhenEntered
  <1>6. Tail(queue) \o Signal(Price0, <<>>) \o Signal("priceOff", <<"off_usage">>)
          \o EnteredSignal("priceOff") \o FinishedSignal(conf')
          = <<Sig("paymentStopped", "stop_pay"), Sig("priceOff", "off_usage"), Sig("priceOff", "entered")>>
    BY <1>1, <1>5, ThreeSignals
  <1>7. ToSet(deleteTasks') = ToSet(deleteTasks) /\ tasks' = <<>>
    <2>1. ToSet(deleteTasks') = ToSet(deleteTasks) \cup
            (ToSet(Exit(Price0).delete) \cup ToSet(Entry(Price0, "priceOff").delete))
      BY <1>1, DeletedTasks
    <2>2. /\ Exit(Price0).delete = <<>> /\ Entry(Price0, "priceOff").delete = <<>>
          /\ Exit(Price0).create = <<>> /\ Entry(Price0, "priceOff").create = <<>>
      BY <1>2, <1>4 DEF Has
    <2>3. tasks' = <<>> \o <<>> \o <<>>
      BY <1>0, <1>1, <2>2 DEF Does
    <2> QED BY <2>1, <2>2, <2>3, SetsOfTuples, Shapes
  <1>8. reason' = NoError
    BY <1>0, <1>1, ShutdownSilent DEF ShutdownValues, Sig
  <1>9. /\ queue' = Tail(queue) \o Signal(Price0, <<>>) \o Signal("priceOff", <<"off_usage">>)
                     \o EnteredSignal("priceOff") \o FinishedSignal(conf')
        /\ status' = status /\ product' = product /\ ~completed'
        /\ saved' = saved /\ calling' = calling
    BY <1>0, <1>1, <1>2, <1>4 DEF Does, Has, StatusOnEntry, CompletesWhenEntered
  <1>10. PriceStopped'
    BY <1>0, <1>1, <1>6, <1>7, <1>8, <1>9
    DEF At, PriceStopped, StatusOnEntry, CompletesWhenEntered, Deactivates, Waited,
        Usage0, Payment0, Price0, Status0, Periods0
  <1> QED BY <1>10 DEF Phase

\* From paymentStopped to paymentFinal.
LEMMA StepPaymentEnded ==
  ASSUME CascadeInv, TypeOK, PriceStopped, PaymentMoved("paymentFinal")
  PROVE  Phase'
  <1>0. /\ queue = <<Sig("paymentStopped", "stop_pay"), Sig("priceOff", "off_usage"),
                     Sig("priceOff", "entered")>>
        /\ conf = In(Usage0, "paymentStopped", "priceOff") /\ status = Status0
        /\ product.tarificationPeriod = Periods0 /\ tasks = <<>> /\ ToSet(deleteTasks) = Waited
        /\ ~completed /\ saved.conf.top = "productProvision" /\ Deactivates /\ reason = NoError
    BY DEF PriceStopped, At
  <1>1. /\ Does("paymentStopped", "paymentFinal") /\ conf' = In(Usage0, "paymentFinal", "priceOff")
        /\ queue # <<>> /\ Head(queue) = Sig("paymentStopped", "stop_pay")
        /\ Tail(queue) = <<Sig("priceOff", "off_usage"), Sig("priceOff", "entered")>>
    <2>1. /\ queue # <<>> /\ Head(queue) = Sig("paymentStopped", "stop_pay")
          /\ Tail(queue) = <<Sig("priceOff", "off_usage"), Sig("priceOff", "entered")>>
      BY <1>0, HeadsAndTails
    <2> QED BY <1>0, <2>1 DEF PaymentMoved, PaymentMove, Heard, Sig, In
  <1>2. Has(Exit("paymentStopped"), <<>>, <<>>, <<>>, product, FALSE)
    BY Exits DEF Exit
  <1>3. Entry("paymentStopped", "paymentFinal") = OnEntry("paymentFinal", Head(queue), product)
    BY <1>2 DEF Has, Entry
  <1>4. Has(Entry("paymentStopped", "paymentFinal"), <<>>, <<>>, <<>>, product, FALSE)
    BY <1>3, PaymentEntries
  <1>5. Streams("paymentStopped", "paymentFinal")
    <2>1. /\ "paymentFinal" \in PaymentLeaves
          /\ "priceOff" \in PriceLeaves /\ "paymentFinal" \notin SignalsWhenEntered
      BY DEF PaymentLeaves, PriceLeaves, SignalsWhenEntered
    <2> QED BY <1>0, <1>1, <2>1, InProvision, Streaming
  <1>6. Tail(queue) \o Signal("paymentStopped", <<>>) \o Signal("paymentFinal", <<>>) \o <<>> \o <<>>
          = <<Sig("priceOff", "off_usage"), Sig("priceOff", "entered")>>
    <2>1. Signal("paymentStopped", <<>>) = <<>> /\ Signal("paymentFinal", <<>>) = <<>>
      BY SmallSignals
    <2> QED BY <1>1, <2>1, Shapes
  <1>7. ToSet(deleteTasks') = ToSet(deleteTasks) /\ tasks' = <<>>
    BY <1>0, <1>2, <1>4, <1>5, SetsOfTuples, Shapes DEF Streams, Has
  <1>8. reason' = NoError
    BY <1>0, <1>1, ShutdownSilent DEF ShutdownValues, Sig
  <1>9. /\ queue' = Tail(queue) \o Signal("paymentStopped", <<>>) \o Signal("paymentFinal", <<>>)
             \o <<>> \o <<>>
        /\ status' = status /\ product' = product /\ ~completed'
        /\ saved' = saved /\ calling' = calling
    BY <1>0, <1>2, <1>4, <1>5 DEF Streams, Has, StatusOnEntry, CompletesWhenEntered
  <1>10. PaymentEnded'
    BY <1>0, <1>1, <1>6, <1>7, <1>8, <1>9
    DEF At, PaymentEnded, StatusOnEntry, CompletesWhenEntered, Deactivates, Waited,
        Usage0, Payment0, Price0, Status0, Periods0
  <1> QED BY <1>10 DEF Phase

\* To pendingDisconnect: the timers of the usage are gone, the disconnection is scheduled.
LEMMA StepUsageStopped ==
  ASSUME CascadeInv, TypeOK, PaymentEnded, UsageMoved("pendingDisconnect")
  PROVE  Phase'
  <1> USE DEF PaymentEnded, At
  <1> DEFINE emitted == IF Usage0 = "suspended" THEN <<"resume_tarification">> ELSE <<>>
             removed == IF Usage0 = "suspended" THEN <<"suspend_ended">> ELSE <<>>
  <1>1. /\ Does(Usage0, "pendingDisconnect") /\ conf' = In("pendingDisconnect", "paymentFinal", "priceOff")
        /\ queue # <<>> /\ Head(queue) = Sig("priceOff", "off_usage") /\ Usage0 \in UsageOn
        /\ Tail(queue) = <<Sig("priceOff", "entered")>>
    BY HeadsAndTails DEF UsageMoved, UsageMove, Heard, Sig, In
  <1>2. Has(Exit(Usage0), emitted, <<>>, removed, product, FALSE)
    BY <1>1, Exits DEF Exit, UsageOn, Activated
  <1>3. Entry(Usage0, "pendingDisconnect") = OnEntry("pendingDisconnect", Head(queue), product)
    BY <1>2 DEF Has, Entry
  <1>4. Has(Entry(Usage0, "pendingDisconnect"), <<>>, <<"disconnect">>,
            <<"trial_ended", "commercial_ended">>, product, TRUE)
    BY <1>3, UsageEntries
  <1>5. Streams(Usage0, "pendingDisconnect")
    <2>1. /\ "pendingDisconnect" \in UsageLeaves \ {"usageFinal"} /\ "paymentFinal" \in PaymentLeaves
          /\ "priceOff" \in PriceLeaves /\ "pendingDisconnect" \notin SignalsWhenEntered
      BY DEF UsageLeaves, UsageOff, PaymentLeaves, PriceLeaves, SignalsWhenEntered
    <2> QED BY <1>1, <2>1, Streaming
  <1>6. queue' = <<Sig("priceOff", "entered")>> \/ queue' = <<Sig("priceOff", "entered"), Resumption>>
    <2>1. Signal(Usage0, emitted) = IF Usage0 = "suspended" THEN <<Resumption>> ELSE <<>>
      BY SmallSignals DEF Resumption
    <2>2. queue' = Tail(queue) \o Signal(Usage0, emitted) \o Signal("pendingDisconnect", <<>>) \o <<>> \o <<>>
      BY <1>2, <1>4, <1>5 DEF Streams, Has
    <2>3. /\ <<Sig("priceOff", "entered")>> \o <<Resumption>> \o <<>> \o <<>> \o <<>>
               = <<Sig("priceOff", "entered"), Resumption>>
          /\ <<Sig("priceOff", "entered")>> \o <<>> \o <<>> \o <<>> \o <<>> = <<Sig("priceOff", "entered")>>
      BY Shapes
    <2>4. Signal("pendingDisconnect", <<>>) = <<>>
      BY SmallSignals
    <2> QED BY <1>1, <2>1, <2>2, <2>3, <2>4
  <1>7. /\ ToSet(deleteTasks') = Waited \cup (IF Usage0 = "suspended" THEN {"suspend_ended"} ELSE {})
                                        \cup {"trial_ended", "commercial_ended"}
        /\ tasks' = <<"disconnect">>
    <2>1. /\ ToSet(removed) = IF Usage0 = "suspended" THEN {"suspend_ended"} ELSE {}
          /\ ToSet(<<"trial_ended", "commercial_ended">>) = {"trial_ended", "commercial_ended"}
      BY SetsOfTuples
    <2>2. /\ ToSet(deleteTasks') = ToSet(deleteTasks)
               \cup (ToSet(removed) \cup ToSet(<<"trial_ended", "commercial_ended">>))
          /\ tasks' = <<>> \o <<>> \o <<"disconnect">>
      BY <1>2, <1>4, <1>5 DEF Streams, Has
    <2>3. <<>> \o <<>> \o <<"disconnect">> = <<"disconnect">>
      BY Shapes
    <2> HIDE DEF removed
    <2> QED BY <2>1, <2>2, <2>3
  <1>8. reason' = NoError
    BY <1>1, ShutdownSilent DEF ShutdownValues, Sig
  <1>9. completed' /\ status' = "PENDING_DISCONNECT" /\ product' = product
        /\ saved' = saved /\ calling' = calling
    BY <1>4, <1>5 DEF Streams, Has, StatusOnEntry
  <1> HIDE DEF emitted, removed
  <1>10. UsageStopped'
    BY <1>1, <1>6, <1>7, <1>8, <1>9
    DEF UsageStopped, Deactivates, Waited, Usage0, Payment0, Price0, Status0, Periods0, Resumption
  <1> QED BY <1>10 DEF Phase

\* From priceOff to priceFinal: the call ends.
LEMMA StepClosed ==
  ASSUME CascadeInv, TypeOK, UsageStopped, PriceMoved("priceFinal")
  PROVE  Phase'
  <1> USE DEF UsageStopped
  <1>1. /\ Does("priceOff", "priceFinal") /\ conf' = In("pendingDisconnect", "paymentFinal", "priceFinal")
        /\ queue # <<>> /\ Head(queue) = Sig("priceOff", "entered")
        /\ Tail(queue) = <<>> \/ Tail(queue) = <<Resumption>>
    <2>1. /\ queue # <<>> /\ Head(queue) = Sig("priceOff", "entered")
          /\ Tail(queue) = <<>> \/ Tail(queue) = <<Resumption>>
      <3>1. CASE queue = <<Sig("priceOff", "entered")>>
        BY <3>1, HeadsAndTails
      <3>2. CASE queue = <<Sig("priceOff", "entered"), Resumption>>
        BY <3>2, HeadsAndTails
      <3> QED BY <3>1, <3>2
    <2>2. conf = In("pendingDisconnect", "paymentFinal", "priceOff") /\ PriceMoved("priceFinal")
      OBVIOUS
    <2>3. /\ Does("priceOff", "priceFinal") /\ conf' = In("pendingDisconnect", "paymentFinal", "priceFinal")
      BY ONLY <2>2 DEF PriceMoved, PriceMove, Heard, Sig, In
    <2> QED BY <2>1, <2>3
  <1>2. Has(Exit("priceOff"), <<>>, <<>>, <<>>, product, FALSE)
    BY Exits DEF Exit
  <1>3. Entry("priceOff", "priceFinal") = OnEntry("priceFinal", Head(queue), product)
    BY <1>2 DEF Has, Entry
  <1>4. Has(Entry("priceOff", "priceFinal"), <<>>, <<>>, <<>>, product, FALSE)
    BY <1>3, PriceEntries
  <1>5. Streams("priceOff", "priceFinal")
    <2>1. /\ "pendingDisconnect" \in UsageLeaves \ {"usageFinal"} /\ "paymentFinal" \in PaymentLeaves
          /\ "priceFinal" \in PriceLeaves /\ "priceFinal" \notin SignalsWhenEntered
      BY DEF UsageLeaves, UsageOff, PaymentLeaves, PriceLeaves, SignalsWhenEntered
    <2> QED BY <1>1, <2>1, Streaming
  <1>6. queue' = Tail(queue)
    <2>1. queue' = Tail(queue) \o <<>> \o <<>> \o <<>> \o <<>>
      BY <1>2, <1>4, <1>5, SmallSignals DEF Streams, Has
    <2>2. /\ <<Resumption>> \o <<>> \o <<>> \o <<>> \o <<>> = <<Resumption>>
          /\ <<>> \o <<>> \o <<>> \o <<>> \o <<>> = <<>>
      BY Shapes
    <2> QED BY <1>1, <2>1, <2>2
  <1>7. /\ ToSet(deleteTasks') = ToSet(deleteTasks) /\ tasks' = <<"disconnect">> /\ completed'
        /\ status' = "PENDING_DISCONNECT" /\ product' = product
        /\ saved' = saved /\ calling' = calling /\ timers' = timers
    BY <1>2, <1>4, <1>5, SetsOfTuples, Shapes DEF Streams, Has, StatusOnEntry
  <1>8. reason' = NoError
    BY <1>1, ShutdownSilent DEF ShutdownValues, Sig
  <1>9. Outcome'
    <2>1. Result(In("pendingDisconnect", "paymentFinal", "priceFinal"), "PENDING_DISCONNECT", Periods0,
                 {"disconnect"}, ToSet(deleteTasks))
      BY ClosedResult
    <2>2. Result(conf, status, product.tarificationPeriod, ToSet(tasks), ToSet(deleteTasks))'
      BY <1>1, <1>7, <2>1, SetsOfTuples DEF Result, Status0, Periods0
    <2>3. IsInjective(tasks')
      BY <1>7, Injections
    <2> QED BY <2>2, <2>3 DEF Outcome
  <1>10. Deactivated'
    BY <1>1, <1>7, <1>8, SetsOfTuples DEF Deactivated, In
  <1>11. Ended'
    BY <1>1, <1>6, <1>9, <1>10 DEF Ended, In, Resumption
  <1> QED BY <1>11 DEF Phase

\* From disconnection to disconnected.
LEMMA StepDisconnected ==
  ASSUME CascadeInv, TypeOK, Loaded, conf.top = "productProvision", UsageMoved("disconnected")
  PROVE  Phase'
  <1> USE LoadedThere
  <1>1. /\ Does(Usage0, "disconnected") /\ conf' = In("disconnected", Payment0, Price0)
        /\ Usage0 = "disconnection" /\ calling = "deactivation_completed"
    BY DEF UsageMoved, UsageMove, Heard, Sig, In
  <1>2. Payment0 = "paymentFinal" /\ Price0 = "priceFinal" /\ Status0 = "PENDING_DISCONNECT"
    BY <1>1, Before DEF RestsIn
  <1>3. Has(Exit(Usage0), <<>>, <<>>, <<>>, product, FALSE)
    BY <1>1, Exits DEF Exit
  <1>4. Entry(Usage0, "disconnected") = OnEntry("disconnected", Head(queue), product)
    BY <1>3 DEF Has, Entry
  <1>5. Has(Entry(Usage0, "disconnected"), <<>>, <<>>, <<>>, product, FALSE)
    BY <1>4, UsageEntries
  <1>6. /\ EnteredSignal("disconnected") = <<Sig("disconnected", "entered")>>
        /\ FinishedSignal(conf') = <<>>
        /\ Signal(Usage0, <<>>) = <<>> /\ Signal("disconnected", <<>>) = <<>>
    <2>1. ~Finished(conf')
      BY <1>1, <1>2 DEF Finished, FinalLeaves, In
    <2> QED BY <2>1, SmallSignals DEF EnteredSignal, FinishedSignal, SignalsWhenEntered
  <1>7. /\ queue' = Tail(queue) \o Signal(Usage0, <<>>) \o Signal("disconnected", <<>>)
                      \o EnteredSignal("disconnected") \o FinishedSignal(conf')
        /\ tasks' = tasks \o <<>> \o <<>>
        /\ status' = status /\ product' = product /\ ~completed' /\ saved' = saved /\ calling' = calling
    BY <1>1, <1>3, <1>5 DEF Does, Has, StatusOnEntry, CompletesWhenEntered
  <1>8. ToSet(deleteTasks') = {}
    <2>1. ToSet(deleteTasks') = ToSet(deleteTasks) \cup
            (ToSet(Exit(Usage0).delete) \cup ToSet(Entry(Usage0, "disconnected").delete))
      BY <1>1, DeletedTasks
    <2>2. Exit(Usage0).delete = <<>> /\ Entry(Usage0, "disconnected").delete = <<>>
      BY <1>3, <1>5 DEF Has
    <2> QED BY <2>1, <2>2, SetsOfTuples
  <1>9. queue' = <<Sig("disconnected", "entered")>> /\ tasks' = <<>>
    BY <1>6, <1>7, Shapes
  <1>10. Disconnected'
    BY <1>1, <1>2, <1>7, <1>8, <1>9
    DEF Disconnected, At, Disconnecting, Usage0, Payment0, Price0, Status0, Periods0
  <1> QED BY <1>10 DEF Phase

\* From disconnected to usageFinal: productProvision has finished.
LEMMA StepFinishing ==
  ASSUME CascadeInv, TypeOK, Disconnected, UsageMoved("usageFinal")
  PROVE  Phase'
  <1>0. /\ saved.conf.top = "productProvision" /\ conf = In("disconnected", "paymentFinal", "priceFinal")
        /\ queue # <<>> /\ Head(queue) = Sig("disconnected", "entered") /\ Tail(queue) = <<>>
        /\ tasks = <<>> /\ ToSet(deleteTasks) = {} /\ ~completed
        /\ status = "PENDING_DISCONNECT" /\ product.tarificationPeriod = Periods0 /\ Disconnecting
    BY AtThere DEF Disconnected
  <1> USE <1>0
  <1>1. /\ Does("disconnected", "usageFinal") /\ conf' = In("usageFinal", "paymentFinal", "priceFinal")
    BY DEF UsageMoved, UsageMove, Heard, Sig, In
  <1>3. Has(Exit("disconnected"), <<>>, <<>>, <<>>, product, FALSE)
    BY Exits DEF Exit
  <1>4. Entry("disconnected", "usageFinal") = OnEntry("usageFinal", Head(queue), product)
    BY <1>3 DEF Has, Entry
  <1>5. Has(Entry("disconnected", "usageFinal"), <<>>, <<>>, <<>>, product, FALSE)
    BY <1>4, UsageEntries
  <1>6. /\ EnteredSignal("usageFinal") = <<>>
        /\ FinishedSignal(conf') = <<Sig("productProvision", "finished")>>
        /\ Signal("disconnected", <<>>) = <<>> /\ Signal("usageFinal", <<>>) = <<>>
    <2>1. Finished(conf')
      BY <1>1 DEF Finished, FinalLeaves, In
    <2> QED BY <2>1, SmallSignals DEF EnteredSignal, FinishedSignal, SignalsWhenEntered
  <1>7. /\ queue' = Tail(queue) \o Signal("disconnected", <<>>) \o Signal("usageFinal", <<>>)
                      \o EnteredSignal("usageFinal") \o FinishedSignal(conf')
        /\ tasks' = tasks \o <<>> \o <<>>
        /\ status' = status /\ product' = product /\ ~completed' /\ saved' = saved /\ calling' = calling
    BY <1>1, <1>3, <1>5 DEF Does, Has, StatusOnEntry, CompletesWhenEntered
  <1>8. ToSet(deleteTasks') = {}
    <2>1. ToSet(deleteTasks') = ToSet(deleteTasks) \cup
            (ToSet(Exit("disconnected").delete) \cup ToSet(Entry("disconnected", "usageFinal").delete))
      BY <1>1, DeletedTasks
    <2>2. Exit("disconnected").delete = <<>> /\ Entry("disconnected", "usageFinal").delete = <<>>
      BY <1>3, <1>5 DEF Has
    <2> QED BY <2>1, <2>2, SetsOfTuples
  <1>9. queue' = <<Sig("productProvision", "finished")>> /\ tasks' = <<>>
    BY <1>6, <1>7, Shapes
  <1>10. Finishing'
    BY <1>1, <1>7, <1>8, <1>9
    DEF Finishing, At, Disconnecting, Usage0, Payment0, Price0, Status0, Periods0
  <1> QED BY <1>10 DEF Phase

-----------------------------------------------------------------------------
(* The steps of the top-level states. *)

\* To productProvision: each region is told how.
LEMMA StepEntering ==
  ASSUME CascadeInv, TypeOK, Phase, queue # <<>>, ProvisionStep
  PROVE  /\ Phase' /\ Loaded /\ product' = product
         /\ \E v \in {"activation_completed", "trial_activation_completed"} :
              /\ OnEntry("priceOnEntry", Head(queue), product).emit = <<v>>
              /\ queue' = <<Sig("activatedEntry", calling), Sig("paymentOnEntry", calling),
                           Sig("priceOnEntry", v)>>
              /\ Activating(queue, "paymentOnEntry", "priceOnEntry", Periods0, <<>>)'
  <1>1. PICK t \in TopTransitions :
          /\ t.target = "productProvision" /\ EventTest(t) /\ conf' = DefaultProvision
          /\ queue' = Tail(queue) \o Signal("activatedEntry", OnEntry("activatedEntry", Head(queue), product).emit)
                        \o Signal("paymentOnEntry", OnEntry("paymentOnEntry", Head(queue), product).emit)
                        \o Signal("priceOnEntry", OnEntry("priceOnEntry", Head(queue), product).emit)
          /\ UNCHANGED <<status, product, nextPrice, tasks, deleteTasks, completed, reason,
                         calling, saved, timers>>
    BY DEF ProvisionStep
  <1>2. /\ conf.top = "pendingActivate" /\ Head(queue).sender = "machine"
        /\ Head(queue).value \in {"activation_completed", "trial_activation_completed"}
    BY <1>1, TopKinds DEF TypeOK, MachineTypeOK
  <1>3. Loaded
    BY <1>2, PhaseOfHead
  <1>4. /\ Head(queue) = Sig("machine", calling) /\ Tail(queue) = <<>>
        /\ calling \in {"activation_completed", "trial_activation_completed"}
        /\ saved.conf.top = "pendingActivate" /\ status = "PENDING_ACTIVATE"
        /\ product.tarificationPeriod = Periods0 /\ tasks = <<>> /\ ToSet(deleteTasks) = {} /\ ~completed
    <2>1. Head(queue) = Sig("machine", calling) /\ Tail(queue) = <<>> /\ saved.conf.top = "pendingActivate"
      BY <1>2, <1>3, LoadedStart
    <2>2. Status0 = "PENDING_ACTIVATE"
      BY <2>1, BeforeActivation
    <2> QED BY <1>2, <1>3, <2>1, <2>2, LoadedStart DEF Sig
  <1>5. PICK v \in {"activation_completed", "trial_activation_completed"} :
          OnEntry("priceOnEntry", Head(queue), product).emit = <<v>>
    BY DEF OnEntry, PriceOnEntryOnEntry, Emits, Nothing
  <1>6. /\ OnEntry("activatedEntry", Head(queue), product).emit = <<calling>>
        /\ OnEntry("paymentOnEntry", Head(queue), product).emit = <<calling>>
    BY <1>4 DEF OnEntry, Emits, Nothing, Sig
  <1>7. queue' = <<Sig("activatedEntry", calling), Sig("paymentOnEntry", calling), Sig("priceOnEntry", v)>>
    <2>1. /\ Signal("activatedEntry", <<calling>>) = <<Sig("activatedEntry", calling)>>
          /\ Signal("paymentOnEntry", <<calling>>) = <<Sig("paymentOnEntry", calling)>>
          /\ Signal("priceOnEntry", <<v>>) = <<Sig("priceOnEntry", v)>>
      BY SmallSignals
    <2>2. queue' = <<>> \o <<Sig("activatedEntry", calling)>> \o <<Sig("paymentOnEntry", calling)>>
                     \o <<Sig("priceOnEntry", v)>>
      BY <1>1, <1>4, <1>5, <1>6, <2>1
    <2>3. \A a, b, c : <<>> \o <<a>> \o <<b>> \o <<c>> = <<a, b, c>>
      BY ThreeSignals
    <2> QED BY <2>2, <2>3
  <1>8. conf' = In("activatedEntry", "paymentOnEntry", "priceOnEntry")
    BY <1>1 DEF DefaultProvision, In
  <1>9. Activating(queue, "paymentOnEntry", "priceOnEntry", Periods0, <<>>)'
    BY <1>1, <1>4, <1>8 DEF Activating, Periods0
  <1>10. Entering'
    BY <1>1, <1>7, <1>9 DEF Entering, Activating
  <1> QED BY <1>1, <1>3, <1>5, <1>7, <1>9, <1>10 DEF Phase

\* To aborted or disconnect: the call ends.
LEMMA StepLeaving ==
  ASSUME CascadeInv, TypeOK, Phase, queue # <<>>, LeaveStep
  PROVE  Phase'
  <1>1. PICK t \in TopTransitions :
          /\ t.target \in {"aborted", "disconnect"} /\ EventTest(t) /\ conf' = Outside(t.target)
          /\ status' = StatusOnEntry(t.target, status) /\ queue' = Tail(queue)
          /\ completed' = (completed \/ t.target \in CompletesWhenEntered)
          /\ UNCHANGED <<product, nextPrice, tasks, deleteTasks, reason, calling, saved, timers>>
    BY DEF LeaveStep
  <1>2. completed' = TRUE
    BY <1>1 DEF CompletesWhenEntered
  <1>3. CASE t.target = "aborted"
    <2>1. Loaded /\ conf.top = "pendingActivate" /\ Head(queue).value = "activation_aborted"
      BY <1>1, <1>3, TopKinds, PhaseOfHead DEF TypeOK, MachineTypeOK
    <2>2. /\ Tail(queue) = <<>> /\ calling = "activation_aborted" /\ saved.conf.top = "pendingActivate"
          /\ product.tarificationPeriod = Periods0 /\ tasks = <<>> /\ ToSet(deleteTasks) = {}
      BY <2>1, LoadedStart DEF Sig
    <2>3. Flows("aborted", <<>>, <<>>, {}, product, TRUE)
      BY <1>1, <1>2, <1>3, <2>2 DEF Flows
    <2>4. Result(Outside("aborted"), StatusOnEntry("aborted", status), product.tarificationPeriod, ToSet(<<>>), {})
      BY <2>2, AbortedResult, SetsOfTuples DEF StatusOnEntry
    <2>5. Ended'
      BY <1>1, <1>3, <2>2, <2>3, <2>4, EndsCompleted, Injections DEF Deactivates
    <2> QED BY <2>5 DEF Phase
  <1>4. CASE t.target = "disconnect"
    <2>1. Finishing
      BY <1>1, <1>4, TopKinds, PhaseOfHead DEF TypeOK, MachineTypeOK
    <2>2. /\ Tail(queue) = <<>> /\ Disconnecting /\ saved.conf.top = "productProvision"
          /\ product.tarificationPeriod = Periods0 /\ tasks = <<>> /\ ToSet(deleteTasks) = {}
      BY <2>1, AtThere DEF Finishing
    <2>3. Flows("disconnect", <<>>, <<>>, {}, product, TRUE)
      BY <1>1, <1>2, <1>4, <2>2 DEF Flows
    <2>4. Result(Outside("disconnect"), StatusOnEntry("disconnect", status), product.tarificationPeriod, ToSet(<<>>), {})
      BY <2>2, GoneResult, SetsOfTuples DEF StatusOnEntry, Disconnecting
    <2>5. Ended'
      BY <1>1, <1>4, <2>2, <2>3, <2>4, EndsCompleted, Injections DEF Deactivates, Disconnecting
    <2> QED BY <2>5 DEF Phase
  <1> QED BY <1>1, <1>3, <1>4

-----------------------------------------------------------------------------
(* Any step of a region. *)

\* Every move of the price region leads to a phase.
LEMMA PriceMovedPhase ==
  ASSUME CascadeInv, TypeOK, Phase, queue # <<>>, conf.top = "productProvision", NEW to, PriceMoved(to)
  PROVE  Phase'
  <1>1. PriceMove(conf.price, to)
    BY DEF PriceMoved
  <1>2. CASE Heard("paymentStopped", "off_price") /\ to = "priceOff"
    BY <1>2, PhaseOfHead, StepPriceStopped
  <1>3. CASE Heard("priceOff", "entered") /\ to = "priceFinal"
    BY <1>3, PhaseOfHead, StepClosed
  <1>4. CASE Heard("priceOnEntry", "activation_completed") /\ to = "commercial"
    <2>1. Entering
      BY <1>4, PhaseOfHead DEF Heard
    <2> QED BY <1>4, <2>1, StepSold, StepUnsold
  <1>5. CASE Heard("priceOnEntry", "trial_activation_completed") /\ to = "trial"
    <2>1. Entering
      BY <1>5, PhaseOfHead DEF Heard
    <2> QED BY <1>5, <2>1, StepSoldTrial, StepUnsoldTrial
  <1>6. CASE Head(queue).sender = "machine" /\ to = "priceChanging"
    BY <1>6, PhaseOfHead, StepChanging, StepNotChanging
  <1>7. CASE Head(queue).sender = "machine" /\ to = "priceChanged"
    BY <1>7, PhaseOfHead, StepChanged
  <1>8. CASE Head(queue).sender = "priceChanging" /\ to = "priceNotChanged"
    BY <1>8, PhaseOfHead, StepNotChanged
  <1>9. CASE Head(queue).sender = "machine" /\ to \in {"trial", "commercial"}
    BY <1>9, PhaseOfHead, StepNewCharged, StepNewUncharged, StepNewChargedTrial, StepNewUnchargedTrial
  <1>10. CASE Head(queue).sender = "priceNotChanged" /\ to \in {"trial", "commercial"}
    BY <1>10, PhaseOfHead, StepCharged, StepUncharged, StepChargedTrial, StepUnchargedTrial
  <1>11. CASE Head(queue).sender = "suspended" /\ conf.price = "commercial" /\ to = "commercial"
    <2>1. Resumed
      BY <1>11, PhaseOfHead DEF Ended
    <2> QED BY <1>11, <2>1, StepCommercial, StepUncommercial
  <1> QED
    BY <1>1, <1>2, <1>3, <1>4, <1>5, <1>6, <1>7, <1>8, <1>9, <1>10, <1>11 DEF PriceMove, Heard

\* Every move of the usage region leads to a phase.
LEMMA UsageMovedPhase ==
  ASSUME CascadeInv, TypeOK, Phase, queue # <<>>, conf.top = "productProvision", NEW to, UsageMoved(to)
  PROVE  Phase'
  <1>1. UsageMove(conf.usage, to)
    BY DEF UsageMoved
  <1>2. CASE Heard("priceOff", "off_usage") /\ to = "pendingDisconnect"
    BY <1>2, PhaseOfHead, StepUsageStopped
  <1>3. CASE Head(queue).sender = "machine" /\ to = "disconnection"
    BY <1>3, PhaseOfHead, StepDisconnection
  <1>4. CASE Head(queue).sender = "machine" /\ to = "disconnected"
    BY <1>4, PhaseOfHead, StepDisconnected
  <1>5. CASE Head(queue).sender = "disconnected" /\ to = "usageFinal"
    BY <1>5, PhaseOfHead, StepFinishing
  <1>6. CASE Heard("waitingPayment", "activation_completed") /\ to = "active"
    BY <1>6, PhaseOfHead, StepInService
  <1>7. CASE Head(queue).sender = "paid" /\ to = "activeTrial"
    BY <1>7, PhaseOfHead, StepInTrial
  <1>8. CASE Heard("trial", "change_price_completed") /\ to = "activeTrial"
    BY <1>8, PhaseOfHead, StepChargedTrialActive
  <1>9. CASE Head(queue).sender = "machine" /\ to = "suspended"
    BY <1>9, PhaseOfHead, StepSuspended
  <1>10. CASE Heard("waitingPayment", "prolong") /\ to = "prolongation"
    BY <1>10, PhaseOfHead, StepProlongation, StepProlonging
  <1>11. CASE Head(queue).sender = "prolongation" /\ to = "active"
    BY <1>11, PhaseOfHead, StepActive
  <1>12. CASE Head(queue).sender = "machine" /\ conf.usage
                = "prolongation" /\ to \in {"active", "activeTrial"}
    <2>1. Loaded
      BY <1>12, PhaseOfHead
    <2>2. Usage0 = "prolongation"
      BY <1>12, <2>1 DEF Loaded, Usage0
    <2> QED BY <1>12, <2>1, <2>2, StepProlonged, StepProlongedTrial
  <1>13. CASE Head(queue).sender = "notPaid" /\ to = "resuming"
    BY <1>13, PhaseOfHead, StepResuming
  <1>14. CASE Head(queue).sender = "machine" /\ conf.usage = "resuming" /\ to = "active"
    <2>1. Loaded
      BY <1>14, PhaseOfHead
    <2>2. Usage0 = "resuming"
      BY <1>14, <2>1 DEF Loaded, Usage0
    <2> QED BY <1>14, <2>1, <2>2, StepResumed
  <1>15. CASE Heard("waitingPayment", "suspend") /\ to = "suspending"
    BY <1>15, PhaseOfHead, StepSuspending
  <1> QED
    BY <1>1, <1>2, <1>3, <1>4, <1>5, <1>6, <1>7, <1>8, <1>9, <1>10, <1>11, <1>12, <1>13, <1>14, <1>15
    DEF UsageMove, Heard

\* Every move of the payment region leads to a phase.
LEMMA PaymentMovedPhase ==
  ASSUME CascadeInv, TypeOK, Phase, queue # <<>>, conf.top = "productProvision", NEW to, PaymentMoved(to)
  PROVE  Phase'
  <1>1. PaymentMove(conf.payment, to)
    BY DEF PaymentMoved
  <1>2. CASE Head(queue).sender = "machine"
    <2>1. Loaded
      BY <1>2, PhaseOfHead
    <2>2. conf.payment = Payment0 /\ Head(queue) = Sig("machine", calling)
      BY <2>1, LoadedStart DEF Loaded, Payment0
    <2>3. CASE to = "paymentStopping"
      BY <2>1, <2>3, StepStopping, StepStoppingWait
    <2>4. CASE to = "paymentStopped"
      BY <2>1, <2>4, StepStopped, StepStoppedWait
    <2>5. CASE to = "notPaid"
      BY <2>1, <2>5, StepUnpaid
    <2>6. CASE to = "paid" /\ Payment0 \in {"notPaid", "waitingPayment"} /\ calling = "payment_processed"
      BY <2>1, <2>6, StepPaid, StepPaidLate
    <2>7. CASE to = "waitingPayment"
      BY <2>1, <2>7, StepWaiting
    <2> QED
      BY <1>1, <1>2, <2>2, <2>3, <2>4, <2>5, <2>6, <2>7 DEF PaymentMove, Heard, Sig
  <1>3. CASE Heard("paymentStopped", "stop_pay") /\ to = "paymentFinal"
    BY <1>3, PhaseOfHead, StepPaymentEnded
  <1>4. CASE Heard("commercial", "activation_completed") /\ to = "waitingPayment"
    BY <1>4, PhaseOfHead, StepDue
  <1>5. CASE Heard("trial", "trial_activation_completed") /\ to = "paid"
    BY <1>5, PhaseOfHead, StepFree
  <1>6. CASE Heard("commercial", "wait_payment") /\ to = "waitingPayment"
    BY <1>6, PhaseOfHead, StepChargedWaiting
  <1>7. ~(Head(queue).sender \in {"priceChanged", "priceNotChanged"} /\ Head(queue).value = "prolong")
    <2>1. CASE Head(queue).sender = "priceNotChanged"
      <3>1. NotChanged
        BY <2>1, PhaseOfHead
      <3> QED BY <3>1, HeadsAndTails DEF NotChanged, At, Sig
    <2> QED BY <2>1, PhaseOfHead
  <1> QED BY <1>1, <1>2, <1>3, <1>4, <1>5, <1>6, <1>7 DEF PaymentMove, Heard

-----------------------------------------------------------------------------
(* Signals nothing waits for. *)

\* A signal a transition waits for is not forgotten.
LEMMA NotDropped ==
  ASSUME calling # Idle, queue # <<>>, NEW t \in Transitions, t.guard = "always",
         Heard(t.sender, t.value), NEW s \in Inside(t.source), s \in ActiveStates
  PROVE  ~Drop
  <1>1. Triggered(t)
    BY DEF Triggered, Heard
  <1>2. Guard(t.guard, conf, product, nextPrice)
    BY DEF Guard
  <1> QED BY <1>1, <1>2 DEF EnabledTransitions, EventTest, Drop

\* In particular none of those that shut a product down.
LEMMA ShutdownNotDropped ==
  ASSUME CascadeInv, TypeOK, calling # Idle,
         Stopped \/ PriceStopped \/ PaymentEnded \/ UsageStopped \/ (Loaded /\ Deactivates)
  PROVE  ~Drop
  <1>0. saved.conf.top = "productProvision" /\ Deactivates
    <2>1. Deactivates => saved.conf.top = "productProvision"
      BY DEF Deactivates, TypeOK, MachineTypeOK, WellFormed, Payment0, NoLeaf, PaymentOn
    <2> QED BY <2>1 DEF Stopped, PriceStopped, PaymentEnded, UsageStopped
  <1>1. RestsIn(Usage0, Payment0, Price0, Status0, Periods0)
    BY <1>0, Before
  <1>2. Price0 \in PriceOn /\ Usage0 \in UsageOn
    BY <1>0, <1>1 DEF RestsIn, PriceOn, UsageOn, Activated, Deactivates, PaymentOn
  <1> USE DEF ActiveStates, Inside, In, From, On, T, Heard, Sig
  <1>3. CASE Stopped
    <2> DEFINE t == From("priceOn", "paymentStopped", "off_price", "priceOff")
    <2>1. t \in Transitions
      BY DEF Transitions, PriceTransitions, PriceClosing
    <2>2. queue # <<>> /\ Head(queue) = Sig("paymentStopped", "off_price") /\ conf.price = Price0
      BY <1>3, HeadsAndTails DEF Stopped, At
    <2>3. /\ t.guard = "always"
          /\ Heard(t.sender, t.value) /\ Price0 \in Inside(t.source) /\ Price0 \in ActiveStates
      BY <1>2, <2>2
    <2> HIDE DEF t
    <2> QED BY <2>1, <2>2, <2>3, NotDropped
  <1>4. CASE PriceStopped
    <2> DEFINE t == From("paymentStopped", "paymentStopped", "stop_pay", "paymentFinal")
    <2>1. t \in Transitions
      BY DEF Transitions, PaymentTransitions, PaymentClosing
    <2>2. /\ queue # <<>> /\ Head(queue) = Sig("paymentStopped", "stop_pay")
          /\ conf = In(Usage0, "paymentStopped", "priceOff")
      BY <1>4, HeadsAndTails DEF PriceStopped, At
    <2>3. /\ t.guard = "always"
          /\ Heard(t.sender, t.value) /\ "paymentStopped" \in Inside(t.source)
          /\ "paymentStopped" \in ActiveStates
      BY <2>2
    <2> HIDE DEF t
    <2> QED BY <2>1, <2>2, <2>3, NotDropped
  <1>5. CASE PaymentEnded
    <2> DEFINE t == From("usageOn", "priceOff", "off_usage", "usageOff")
    <2>1. t \in Transitions
      BY DEF Transitions, UsageTransitions, UsageClosing
    <2>2. queue # <<>> /\ Head(queue) = Sig("priceOff", "off_usage") /\ conf.usage = Usage0
      BY <1>5, HeadsAndTails DEF PaymentEnded, At
    <2>3. /\ t.guard = "always"
          /\ Heard(t.sender, t.value) /\ Usage0 \in Inside(t.source) /\ Usage0 \in ActiveStates
      BY <1>2, <2>2
    <2> HIDE DEF t
    <2> QED BY <2>1, <2>2, <2>3, NotDropped
  <1>6. CASE UsageStopped
    <2> DEFINE t == From("priceOff", "priceOff", "entered", "priceFinal")
    <2>1. t \in Transitions
      BY DEF Transitions, PriceTransitions, PriceClosing
    <2>2. /\ queue # <<>> /\ Head(queue) = Sig("priceOff", "entered")
          /\ conf = In("pendingDisconnect", "paymentFinal", "priceOff")
      BY <1>6, HeadsAndTails DEF UsageStopped
    <2>3. /\ t.guard = "always"
          /\ Heard(t.sender, t.value) /\ "priceOff" \in Inside(t.source)
          /\ "priceOff" \in ActiveStates
      BY <2>2
    <2> HIDE DEF t
    <2> QED BY <2>1, <2>2, <2>3, NotDropped
  <1>7. CASE Loaded /\ Deactivates
    <2>1. queue # <<>> /\ Head(queue) = Sig("machine", "deactivation_started") /\ conf.payment = Payment0
      BY <1>7, LoadedStart DEF Deactivates, Payment0
    <2>2. CASE Payment0 \in PaymentOn
      <3> DEFINE t == On("paymentOn", "deactivation_started", "paymentStopped")
      <3>1. t \in Transitions
        BY DEF Transitions, PaymentTransitions, PaymentClosing
      <3>2. /\ t.guard = "always"
            /\ Heard(t.sender, t.value) /\ Payment0 \in Inside(t.source) /\ Payment0 \in ActiveStates
        BY <2>1, <2>2
      <3> HIDE DEF t
      <3> QED BY <2>1, <3>1, <3>2, NotDropped
    <2>3. CASE Payment0 = "paymentStopping"
      <3> DEFINE t == On("paymentStopping", "deactivation_started", "paymentStopped")
      <3>1. t \in Transitions
        BY DEF Transitions, PaymentTransitions, PaymentClosing
      <3>2. /\ t.guard = "always"
            /\ Heard(t.sender, t.value) /\ Payment0 \in Inside(t.source) /\ Payment0 \in ActiveStates
        BY <2>1, <2>3
      <3> HIDE DEF t
      <3> QED BY <2>1, <3>1, <3>2, NotDropped
    <2> QED BY <1>7, <2>2, <2>3 DEF Deactivates
  <1> QED BY <1>3, <1>4, <1>5, <1>6, <1>7

\* Every other cascade is on its own: what it waits for last may be forgotten, and then
\* the call is not completed.
LEMMA StepDropped ==
  ASSUME CascadeInv, TypeOK, Phase, calling # Idle, queue # <<>>, Drop
  PROVE  Phase'
  <1>1. /\ queue' = Tail(queue) /\ reason' = Later(reason, TestReason)
        /\ UNCHANGED <<conf, status, product, nextPrice, tasks, deleteTasks, hasTransition, completed,
                       calling, saved, timers>>
    BY DEF Drop
  <1>2. ~Stopped /\ ~PriceStopped /\ ~PaymentEnded /\ ~UsageStopped /\ ~(Loaded /\ Deactivates)
    BY ShutdownNotDropped
  <1>3. CASE Loaded
    <2>1. queue' = <<>> /\ ~completed' /\ ~Deactivates
      BY <1>1, <1>2, <1>3, LoadedStart
    <2> QED BY <1>1, <2>1, EndsUncompleted DEF Phase
  <1>4. CASE Ended
    <2>1. queue = <<Resumption>> /\ conf.price = "priceFinal"
      BY <1>4 DEF Ended
    <2>2. TestReason = NoError
      BY <2>1, HeadsAndTails, NothingTested DEF Resumption, Sig, ShutdownValues
    <2>3. queue' = <<>> /\ reason' = reason
      BY <1>1, <2>1, <2>2, HeadsAndTails DEF Later
    <2>4. Outcome' <=> Outcome
      BY <1>1 DEF Outcome, Result, Status0, Periods0
    <2>5. (Deactivates' <=> Deactivates) /\ (Deactivated' <=> Deactivated)
      BY <1>1, <2>3 DEF Deactivates, Deactivated, Payment0
    <2>6. Ended'
      BY <1>1, <1>4, <2>3, <2>4, <2>5 DEF Ended
    <2> QED BY <2>6 DEF Phase
  <1>5. CASE Entering
    <2> DEFINE a == Sig("activatedEntry", calling)
               b == Sig("paymentOnEntry", calling)
    <2>1. PICK v \in {"activation_completed", "trial_activation_completed"} :
            \E q \in {<<a, b, Sig("priceOnEntry", v)>>, <<b, Sig("priceOnEntry", v)>>, <<Sig("priceOnEntry", v)>>} :
              Activating(q, "paymentOnEntry", "priceOnEntry", Periods0, <<>>)
      BY <1>5 DEF Entering
    <2>2. /\ queue \in {<<a, b, Sig("priceOnEntry", v)>>, <<b, Sig("priceOnEntry", v)>>,
                        <<Sig("priceOnEntry", v)>>}
          /\ Activating(queue, "paymentOnEntry", "priceOnEntry", Periods0, <<>>)
      BY <2>1 DEF Activating
    <2>3. queue' \in {<<b, Sig("priceOnEntry", v)>>, <<Sig("priceOnEntry", v)>>, <<>>}
      <3> DEFINE c == Sig("priceOnEntry", v)
      <3>1. Tail(<<a, b, c>>) = <<b, c>> /\ Tail(<<b, c>>) = <<c>> /\ Tail(<<c>>) = <<>>
        BY HeadsAndTails
      <3>2. queue \in {<<a, b, c>>, <<b, c>>, <<c>>} /\ queue' = Tail(queue)
        BY <1>1, <2>2
      <3> HIDE DEF a, b, c
      <3>3. queue' \in {<<b, c>>, <<c>>, <<>>}
        BY <3>1, <3>2
      <3> QED BY <3>3 DEF c
    <2>4. CASE queue' = <<>>
      <3>1. ~completed' /\ ~Deactivates
        BY <1>1, <2>2 DEF Activating, Deactivates
      <3> QED BY <1>1, <2>4, <3>1, EndsUncompleted DEF Phase
    <2>5. CASE queue' # <<>>
      <3>1. Entering'
        BY <1>1, <2>2, <2>3, <2>5 DEF Entering, Activating, Periods0
      <3> QED BY <3>1 DEF Phase
    <2> QED BY <2>4, <2>5
  <1>6. CASE NotChanging \/ NotChanged \/ Charged \/ ChargedTrial \/ Paid \/ Prolonged \/ Unpaid
               \/ PaidLate \/ Resumed \/ Disconnected \/ Finishing \/ Sold \/ SoldTrial \/ Due \/ Free
    <2>1. \E x : queue = <<x>> /\ ~completed
      <3>1. CASE NotChanging \/ NotChanged \/ Charged \/ ChargedTrial
        BY <3>1 DEF NotChanging, NotChanged, Charged, ChargedTrial, At
      <3>2. CASE Paid \/ Prolonged \/ Unpaid \/ PaidLate \/ Resumed
        BY <3>2 DEF Paid, Prolonged, Unpaid, PaidLate, Resumed, At
      <3>3. CASE Disconnected \/ Finishing
        BY <3>3 DEF Disconnected, Finishing, At
      <3>4. CASE Sold \/ SoldTrial \/ Due \/ Free
        BY <3>4 DEF Sold, SoldTrial, Due, Free, Activating
      <3> QED BY <1>6, <3>1, <3>2, <3>3, <3>4
    <2>2. Sold \/ SoldTrial \/ Due \/ Free => ~Deactivates
      BY DEF Sold, SoldTrial, Due, Free, Activating, Deactivates
    <2>3. /\ NotChanging \/ NotChanged \/ Charged \/ ChargedTrial => ~Deactivates
          /\ Paid \/ Prolonged \/ Unpaid \/ PaidLate \/ Resumed => ~Deactivates
          /\ Disconnected \/ Finishing => ~Deactivates
      BY DEF NotChanging, NotChanged, Charged, ChargedTrial, Paid, Prolonged, Unpaid, PaidLate,
         Resumed, Disconnected, Finishing, Disconnecting, NewPeriod, PeriodOver, Deactivates
    <2>4. ~Deactivates
      BY <1>6, <2>2, <2>3
    <2>5. Tail(queue) = <<>>
      BY <2>1, HeadsAndTails
    <2> QED BY <1>1, <2>1, <2>4, <2>5, EndsUncompleted DEF Phase
  <1> QED BY ONLY Phase, <1>2, <1>3, <1>4, <1>5, <1>6 DEF Phase

-----------------------------------------------------------------------------
(* The invariant. *)

\* A product not activated yet is at rest, and no timer runs.
LEMMA CascadeInit == Init => CascadeInv
  <1> SUFFICES ASSUME Init PROVE CascadeInv
    OBVIOUS
  <1>1. /\ saved.conf = Outside("pendingActivate") /\ Status0 = "PENDING_ACTIVATE" /\ Periods0 = 0
        /\ timers = {} /\ calling = Idle
    BY DEF Init, Status0, Periods0
  <1>2. Rests(saved.conf, Status0, Periods0)
    <2>1. StatusOnEntry("pendingActivate", "none") = "PENDING_ACTIVATE"
      BY DEF StatusOnEntry
    <2> QED BY <1>1, <2>1, RestsOutside
  <1>3. Fits(saved.conf, timers)
    BY <1>1 DEF Fits, Outside, NoLeaf
  <1> QED BY <1>1, <1>2, <1>3 DEF CascadeInv

\* Each step of the machine leads from one phase of the cascade to another.
LEMMA MachineStepPhase ==
  ASSUME CascadeInv, TypeOK, MachineStep
  PROVE  Phase' /\ UNCHANGED <<calling, saved, timers>>
  <1>1. calling # Idle /\ queue # <<>> /\ Phase
    BY StepKinds DEF CascadeInv
  <1>2. UNCHANGED <<calling, saved, timers>>
    BY DEF MachineStep, PriceStep, UsageStep, PaymentStep, Microstep, MicrostepTo, ProvisionStep,
       LeaveStep, Drop
  <1>3. CASE ProvisionStep
    BY <1>1, <1>2, <1>3, StepEntering
  <1>4. CASE LeaveStep
    BY <1>1, <1>2, <1>4, StepLeaving
  <1>5. CASE Drop
    BY <1>1, <1>2, <1>5, StepDropped
  <1>6. CASE ~(ProvisionStep \/ LeaveStep \/ Drop)
    <2>1. conf.top = "productProvision"
      BY <1>6, StepKinds
    <2>2. CASE \E to \in PriceLeaves : PriceMoved(to)
      BY <1>1, <1>2, <2>1, <2>2, PriceMovedPhase
    <2>3. CASE \E to \in UsageLeaves : UsageMoved(to)
      BY <1>1, <1>2, <2>1, <2>3, UsageMovedPhase
    <2>4. CASE \E to \in PaymentLeaves : PaymentMoved(to)
      BY <1>1, <1>2, <2>1, <2>4, PaymentMovedPhase
    <2> QED BY <1>6, <2>2, <2>3, <2>4, StepKinds
  <1> QED BY <1>3, <1>4, <1>5, <1>6

\* Loading a product at rest gives it the status it was saved with.
LEMMA StatusLoadedAtRest == CascadeInv /\ TypeOK => StatusLoaded(saved) = Status0
  <1> SUFFICES ASSUME CascadeInv, TypeOK PROVE StatusLoaded(saved) = Status0
    OBVIOUS
  <1>1. CASE saved.conf.top = "productProvision"
    <2>1. RestsIn(Usage0, Payment0, Price0, Status0, Periods0)
      BY <1>1, Before
    <2> QED BY <1>1, <2>1 DEF RestsIn, StatusLoaded, StatusOnEntry, Usage0, Status0
  <1>2. CASE saved.conf.top # "productProvision"
    <2>1. /\ saved.conf.usage = NoLeaf /\ saved.conf.top \in {"pendingActivate", "aborted", "disconnect"}
          /\ StatusFits(saved.conf, Status0)
      BY <1>2 DEF TypeOK, MachineTypeOK, WellFormed, Configurations, TopStates, CascadeInv, Rests
    <2> QED BY <2>1 DEF StatusFits, StatusLoaded, StatusOnEntry, Status0, NoLeaf
  <1> QED BY <1>1, <1>2

\* A call starts with the product as the caller stored it.
LEMMA CallerStepPhase ==
  ASSUME CascadeInv, TypeOK, CallerStep
  PROVE  Phase' /\ UNCHANGED <<saved, timers>>
  <1>1. PICK e \in Events : \E next \in NextPricesFor(e) : Send(e, next)
    BY DEF CallerStep
  <1>2. Loaded' /\ UNCHANGED <<saved, timers>>
    BY <1>1, StatusLoadedAtRest DEF Send, Call, Loaded, Status0, Sig
  <1> QED BY <1>2 DEF Phase

\* A call is answered when its cascade has ended.
LEMMA SettledEnded == CascadeInv /\ Settled => Ended
  <1> SUFFICES ASSUME CascadeInv, Settled PROVE Ended
    OBVIOUS
  <1>1. Phase /\ queue = <<>>
    BY DEF CascadeInv, Settled
  <1>2. ~(Loaded \/ NotChanging \/ NotChanged \/ Charged \/ ChargedTrial)
    BY <1>1, HeadsAndTails DEF Loaded, NotChanging, NotChanged, Charged, ChargedTrial, At
  <1>3. ~(Paid \/ Prolonged \/ Unpaid \/ PaidLate \/ Resumed)
    BY <1>1, HeadsAndTails DEF Paid, Prolonged, Unpaid, PaidLate, Resumed, At
  <1>4. ~(Stopped \/ PriceStopped \/ PaymentEnded \/ UsageStopped)
    BY <1>1, HeadsAndTails DEF Stopped, PriceStopped, PaymentEnded, UsageStopped, At
  <1>5. ~(Disconnected \/ Finishing)
    BY <1>1, HeadsAndTails DEF Disconnected, Finishing, At
  <1>6. ~(Entering \/ Sold \/ SoldTrial \/ Due \/ Free)
    BY <1>1, HeadsAndTails DEF Entering, Sold, SoldTrial, Due, Free, Activating
  <1> QED BY <1>1, <1>2, <1>3, <1>4, <1>5, <1>6 DEF Phase

\* A call answered with 1 has been completed, without an error.
LEMMA Completed == TypeOK /\ Code = 1 => completed /\ reason = NoError
  BY DEF Code, TypeOK, MachineTypeOK, NoError, QfsmlibError, IllegalEventError

\* So a call answered with 1 leaves what Outcome says.
LEMMA SuccessOutcome == CascadeInv /\ TypeOK /\ Settled /\ Code = 1 => Outcome
  BY SettledEnded, Completed DEF Ended

\* A phase says nothing of hasTransition.
LEMMA PhaseKept ==
  ASSUME Phase, UNCHANGED <<conf, status, product, nextPrice, queue, tasks, deleteTasks, completed, reason,
                            calling, saved, timers>>
  PROVE  Phase'
  BY SMTT(20) DEF Phase, Loaded, Ended, NotChanging, NotChanged, Charged, ChargedTrial, Paid, Prolonged,
     Unpaid,
     PaidLate, Resumed, Stopped, PriceStopped, PaymentEnded, UsageStopped, Disconnected, Finishing,
     Entering, Sold, SoldTrial, Due, Free, At, Activating, Outcome, Result, Deactivated, Deactivates,
     Disconnecting, PeriodOver, NewPeriod, Waited, Usage0, Payment0, Price0, Status0, Periods0

\* Every step keeps the invariant.
LEMMA CascadeNext == CascadeInv /\ TypeOK /\ [Next]_vars => CascadeInv'
  <1> SUFFICES ASSUME CascadeInv, TypeOK, [Next]_vars PROVE CascadeInv'
    OBVIOUS
  <1>0. Rests(saved.conf, Status0, Periods0) /\ (OnSchedule => Fits(saved.conf, timers))
    BY DEF CascadeInv
  <1>1. ASSUME Phase', UNCHANGED <<saved, timers>> PROVE CascadeInv'
    <2>1. Status0' = Status0 /\ Periods0' = Periods0
      BY <1>1 DEF Status0, Periods0
    <2> QED BY <1>0, <1>1, <2>1 DEF CascadeInv
  <1>2. CASE MachineStep
    BY <1>1, <1>2, MachineStepPhase
  <1>3. CASE CallerStep
    BY <1>1, <1>3, CallerStepPhase
  <1>4. CASE Answer
    <2>0. calling' = Idle /\ Settled
      BY <1>4 DEF Answer
    <2>1. CASE Code = 1
      <3>1. /\ Result(conf, status, product.tarificationPeriod, ToSet(tasks), ToSet(deleteTasks))
        BY <2>0, <2>1, SuccessOutcome DEF Outcome
      <3>2. /\ saved' = [conf |-> conf, status |-> status, product |-> product]
            /\ timers' = TimersAfter
        BY <1>4, <2>1 DEF Answer
      <3>3. saved'.conf = conf /\ Status0' = status /\ Periods0' = product.tarificationPeriod
        BY <3>2 DEF Status0, Periods0
      <3>4. Rests(conf, status, product.tarificationPeriod) /\ (OnSchedule => Fits(conf, TimersAfter))
        BY <3>1 DEF Result, TimersAfter
      <3> QED BY <2>0, <3>2, <3>3, <3>4 DEF CascadeInv
    <2>2. CASE Code # 1
      <3>1. UNCHANGED <<saved, timers>>
        BY <1>4, <2>2 DEF Answer
      <3>2. Status0' = Status0 /\ Periods0' = Periods0
        BY <3>1 DEF Status0, Periods0
      <3> QED BY <1>0, <2>0, <3>1, <3>2 DEF CascadeInv
    <2> QED BY <2>1, <2>2
  <1>5. CASE UNCHANGED vars
    <2>1. UNCHANGED <<conf, status, product, nextPrice, queue, tasks, deleteTasks, completed, reason,
                      calling, saved, timers>>
      BY <1>5 DEF vars
    <2>2. CASE calling = Idle
      <3>1. Status0' = Status0 /\ Periods0' = Periods0
        BY <2>1 DEF Status0, Periods0
      <3> QED BY <1>0, <2>1, <2>2, <3>1 DEF CascadeInv
    <2>3. CASE calling # Idle
      <3>1. Phase
        BY <2>3 DEF CascadeInv
      <3>2. Phase'
        BY <2>1, <3>1, PhaseKept
      <3> QED BY <1>1, <2>1, <3>2
    <2> QED BY <2>2, <2>3
  <1> QED BY <1>2, <1>3, <1>4, <1>5 DEF Next

\* Whatever the caller sends and whenever, the product is at rest before each call, with
\* the timers that fit, and the machine is in one of the phases of a cascade: a signal
\* under way tells what the handlers before it have done and what is left to do.
THEOREM CascadeCorrect == Spec => []CascadeInv
  <1>1. CascadeInv /\ TypeOK /\ [Next]_vars => CascadeInv'
    BY CascadeNext
  <1> QED BY <1>1, CascadeInit, TypeCorrect, PTL DEF Spec

-----------------------------------------------------------------------------
(* The theorems. *)

\* What a caller stores after a call answered 1 is never a state the chart leaves by a
\* signal of its own (activatedEntry, priceNotChanged, paymentStopped and the like): no
\* handler completes a call, by transitionCompleted, that has such a signal still to come.
THEOREM SavedStatesRest == Spec => []SavedAtRest
  <1>1. CascadeInv => SavedAtRest
    BY DEF CascadeInv, Rests, SavedAtRest
  <1> QED BY <1>1, CascadeCorrect, TypeCorrect, PTL

\* The status a caller stores is the one its usage region stands for: the status is assigned
\* by some states only (the chart's assignProperty), and the others are reached from those
\* with the status they need.
THEOREM StatusFollowsUsage == Spec => []StatusMatchesUsage
  <1>1. CascadeInv /\ TypeOK => StatusMatchesUsage
    <2> SUFFICES ASSUME CascadeInv, TypeOK PROVE StatusMatchesUsage
      OBVIOUS
    <2>1. StatusFits(saved.conf, saved.status) /\ saved.conf \in Configurations /\ WellFormed(saved.conf)
          /\ saved.conf.usage \notin {"activatedEntry", "disconnected", "usageFinal"}
      BY DEF CascadeInv, Rests, Status0, TypeOK, MachineTypeOK, WellFormed
    <2> QED
      BY <2>1
         DEF StatusFits, StatusMatchesUsage, StatusOnEntry, UsageClosed, WellFormed, Configurations,
         TopStates, UsageLeaves, UsageOn, UsageOff, Activated, NoLeaf
  <1> QED BY <1>1, CascadeCorrect, TypeCorrect, PTL

\* The count of periods never goes negative and covers what is paid or due: notPaid's handler
\* takes back one period, and only one that commercial's or trial's has charged.
THEOREM PeriodsAreCovered == Spec => []PeriodsCovered
  <1>1. CascadeInv => PeriodsCovered
    BY Accounts
       DEF CascadeInv, Rests, PeriodsCovered, Contract!PeriodsCovered, Periods0, Account, NoLeaf
  <1> QED BY <1>1, CascadeCorrect, TypeCorrect, PTL

\* The tasks of a call answered 1 can be carried out in any order: no handler of the cascade
\* creates a task that another has created, or puts up for deletion one that another creates.
THEOREM TasksAreUnambiguous == Spec => []TasksUnambiguous
  <1>1. CascadeInv /\ TypeOK => TasksUnambiguous
    BY SuccessOutcome DEF TasksUnambiguous, Outcome, Result
  <1> QED BY <1>1, CascadeCorrect, TypeCorrect, PTL

\* A product in service can be deactivated whatever its regions are doing:
\* deactivation_started is answered 1 and leaves pendingDisconnect, its disconnect scheduled.
THEOREM DeactivationSucceeds == Spec => []AlwaysDeactivates
  <1>1. CascadeInv /\ TypeOK => AlwaysDeactivates
    <2> SUFFICES ASSUME CascadeInv, TypeOK, Settled, calling = "deactivation_started",
                        saved.conf.payment \in PaymentOn \cup {"paymentStopping"}
                 PROVE  Code = 1 /\ conf.usage = "pendingDisconnect" /\ "disconnect" \in TimersAfter
      BY DEF AlwaysDeactivates
    <2>1. Deactivated
      BY SettledEnded DEF Ended, Deactivates, Payment0
    <2> QED BY <2>1 DEF Deactivated, Code, TimersAfter, TimerEvents
  <1> QED BY <1>1, CascadeCorrect, TypeCorrect, PTL

\* If timer events are sent only when their task is due, then whatever timer event a state of
\* a stored product waits for, the task that sends it is outstanding: no handler deletes a
\* task that the product still needs, or leaves out one that it will.
THEOREM WakeUpsOutstanding == OnSchedule = TRUE => (Spec => []WakeUpOutstanding)
  <1> SUFFICES ASSUME OnSchedule = TRUE PROVE Spec => []WakeUpOutstanding
    OBVIOUS
  <1>1. CascadeInv => WakeUpOutstanding
    BY DEF CascadeInv, Fits, WakeUpOutstanding
  <1> QED BY <1>1, CascadeCorrect, TypeCorrect, PTL

\* Under the same assumption a product whose usage is off has no timer left of its life in
\* service but change_price: the handlers of the three regions together delete the others.
THEOREM ShutdownSilencesTimers == OnSchedule = TRUE => (Spec => []NoTimerAfterShutdown)
  <1> SUFFICES ASSUME OnSchedule = TRUE PROVE Spec => []NoTimerAfterShutdown
    OBVIOUS
  <1>1. CascadeInv /\ TypeOK => NoTimerAfterShutdown
    BY DEF CascadeInv, Rests, Fits, NoTimerAfterShutdown, TypeOK, MachineTypeOK, TimerEvents, UsageClosed, UsageOff
  <1> QED BY <1>1, CascadeCorrect, TypeCorrect, PTL

\* Under the same assumption no handler creates a timer while one for the same event is
\* outstanding at the caller's scheduler.
THEOREM TimersAreSingle == OnSchedule = TRUE => (Spec => []NoDuplicateTimer)
  <1> SUFFICES ASSUME OnSchedule = TRUE PROVE Spec => []NoDuplicateTimer
    OBVIOUS
  <1>1. CascadeInv /\ TypeOK => NoDuplicateTimer
    BY SuccessOutcome DEF NoDuplicateTimer, Outcome, Result
  <1> QED BY <1>1, CascadeCorrect, TypeCorrect, PTL

\* What a completed call makes of status, account and periods is a step of the contract.
LEMMA MovesKeepContract ==
  ASSUME Moves(saved.status, Account(saved.conf), saved.product.tarificationPeriod,
               saved'.status, Account(saved'.conf), saved'.product.tarificationPeriod)
  PROVE  Contract!Next \/ UNCHANGED Contract!contract
  BY DEF Moves, InService, Contract!Next, Contract!contract, Contract!InService, Contract!Provided,
     Contract!Activate, Contract!Abort, Contract!Charge, Contract!ChargeTrial, Contract!Demand,
     Contract!Pay, Contract!Default, Contract!Prolong, Contract!Suspend, Contract!PayLate,
     Contract!Resume, Contract!Close, Contract!Deactivate, Contract!Disconnect

\* The lifecycle implements the contract: every call answered 1 moves status, account and
\* periods by one step of it, however many signals its cascade took, or leaves them alone;
\* loading, the handlers themselves and the calls that fail move nothing.
THEOREM LifecycleKeepsContract == Spec => KeepsContract
  <1>1. Init => Contract!Init
    BY Accounts DEF Init, Outside, Contract!Init
  <1>2. CascadeInv /\ TypeOK /\ [Next]_vars => [Contract!Next]_(Contract!contract)
    <2> SUFFICES ASSUME CascadeInv, TypeOK, [Next]_vars
                 PROVE  Contract!Next \/ UNCHANGED Contract!contract
      OBVIOUS
    <2>1. CASE Answer /\ Code = 1
      <3>1. saved' = [conf |-> conf, status |-> status, product |-> product] /\ Outcome
        BY <2>1, SuccessOutcome DEF Answer
      <3>2. /\ saved'.conf = conf /\ saved'.status = status
            /\ saved'.product.tarificationPeriod = product.tarificationPeriod
        BY <3>1
      <3>3. Account(saved'.conf) = Account(conf)
        BY <3>2 DEF Account
      <3>4. Moves(saved.status, Account(saved.conf), saved.product.tarificationPeriod,
                  saved'.status, Account(saved'.conf), saved'.product.tarificationPeriod)
        BY <3>1, <3>2, <3>3 DEF Outcome, Result, Status0, Periods0
      <3> QED BY <3>4, MovesKeepContract
    <2>2. CASE UNCHANGED saved
      BY <2>2 DEF Contract!contract, Account
    <2>3. UNCHANGED saved \/ (Answer /\ Code = 1)
      BY MachineStepPhase, CallerStepPhase DEF Next, Answer, vars
    <2> QED BY <2>1, <2>2, <2>3
  <1> QED BY <1>1, <1>2, CascadeCorrect, TypeCorrect, PTL DEF Spec, KeepsContract, Contract!Spec
===============================================================================
