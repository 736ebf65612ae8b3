------------------------------- MODULE PIChart -------------------------------
(***************************************************************************)
(* The state chart that PIMachine::buildMachine (pimachine.cpp) installs:   *)
(* its states, which transitions leave them, on which signal of which       *)
(* sender, and what entering a state does to the product's status.          *)
(*                                                                          *)
(* The product is in one top-level state; in productProvision it is in one  *)
(* leaf of each of three parallel regions.  A configuration is a record     *)
(*   [top, usage, payment, price]                                           *)
(* whose region fields are NoLeaf outside productProvision.  Every signal   *)
(* travels as an event [sender |-> state, value |-> string]; the caller's   *)
(* events have the sender "machine".                                        *)
(***************************************************************************)
EXTENDS Sequences

NoLeaf == "none"

TopStates == {"pendingActivate", "aborted", "disconnect", "productProvision"}

Activated  == {"activatedEntry", "activeTrial", "active"}
UsageOn    == Activated \cup {"suspended", "suspending", "resuming", "prolongation"}
UsageOff   == {"pendingDisconnect", "disconnection", "disconnected"}
PaymentOn  == {"paymentOnEntry", "paid", "notPaid", "waitingPayment"}
PaymentOff == {"paymentStopping", "paymentStopped"}
PriceOn    == {"priceOnEntry", "commercial", "trial", "priceChanging",
               "priceChanged", "priceNotChanged"}

UsageLeaves   == UsageOn \cup UsageOff \cup {"usageFinal"}
PaymentLeaves == PaymentOn \cup PaymentOff \cup {"paymentFinal"}
PriceLeaves   == PriceOn \cup {"priceOff", "priceFinal"}

\* The resting leaves the three regions have left for good once a product is closed.
FinalLeaves == {"usageFinal", "paymentFinal", "priceFinal"}

Configurations == [top : TopStates,
                   usage : UsageLeaves \cup {NoLeaf},
                   payment : PaymentLeaves \cup {NoLeaf},
                   price : PriceLeaves \cup {NoLeaf}]

\* A product outside productProvision has no leaf in any region.
Outside(top) == [top |-> top, usage |-> NoLeaf, payment |-> NoLeaf, price |-> NoLeaf]

\* What productProvision enters when no other initial state has been loaded.
DefaultProvision == [top |-> "productProvision", usage |-> "activatedEntry",
                     payment |-> "paymentOnEntry", price |-> "priceOnEntry"]

\* The leaves a transition whose source is s leaves from: s itself, or the
\* leaves of the composite state s.
Inside(s) ==
  CASE s = "activated" -> Activated
    [] s = "usageOn"   -> UsageOn
    [] s = "paymentOn" -> PaymentOn
    [] s = "priceOn"   -> PriceOn
    [] OTHER           -> {s}

\* Mutant: a composite state without an initial child.
DescendNowhere(s) == s

\* The leaf entered when a transition targets s: s, or its initial child.
Descend(s) ==
  CASE s = "usageOff"   -> "pendingDisconnect"
    [] s = "paymentOff" -> "paymentStopping"
    [] OTHER            -> s

-----------------------------------------------------------------------------
(* Transitions.  A StringTransition fires on the signal externalSignal(value) *)
(* of its sender; entered and finished are QState's own signals.             *)

T(source, sender, value, guard, target) ==
  [source |-> source, sender |-> sender, value |-> value,
   guard |-> guard, target |-> target]

\* An event the caller sent, with no further condition.
On(source, value, target) == T(source, "machine", value, "always", target)

\* A signal one state's handler emits for another state, with no further condition.
From(source, sender, value, target) == T(source, sender, value, "always", target)

TopTransitions ==
  { On("pendingActivate", "trial_activation_completed", "productProvision"),
    On("pendingActivate", "activation_completed", "productProvision"),
    On("pendingActivate", "activation_aborted", "aborted"),
    From("productProvision", "productProvision", "finished", "disconnect") }

\* Mutant: priceOff targets itself instead of the final state.
PriceClosingForever ==
  { From("priceOn", "paymentStopped", "off_price", "priceOff"),
    From("priceOff", "priceOff", "entered", "priceOff") }

\* Price: tarification, and its end once the payments have ended.
PriceClosing ==
  { From("priceOn", "paymentStopped", "off_price", "priceOff"),
    From("priceOff", "priceOff", "entered", "priceFinal") }

PriceTransitions == PriceClosing \cup
  { From("priceOnEntry", "priceOnEntry", "activation_completed", "commercial"),
    From("priceOnEntry", "priceOnEntry", "trial_activation_completed", "trial"),
    T("trial", "machine", "trial_ended", "usageIsTrial", "priceChanging"),
    T("commercial", "machine", "commercial_ended", "usageIsActive", "priceChanging"),
    T("priceChanging", "machine", "change_price", "pricesDiffer", "priceChanged"),
    From("priceChanging", "priceChanging", "not_change_price", "priceNotChanged"),
    T("priceChanged", "machine", "change_price_completed", "nextIsTrial", "trial"),
    T("priceChanged", "machine", "change_price_completed", "nextIsActive", "commercial"),
    T("priceNotChanged", "priceNotChanged", "change_price_completed", "priceIsActive", "commercial"),
    T("priceNotChanged", "priceNotChanged", "change_price_completed", "priceIsTrial", "trial"),
    From("commercial", "suspended", "resume_tarification", "commercial") }

\* Mutant: usage listens to the end of the payments, as price does.
UsageClosingWithPrice ==
  { From("usageOn", "paymentStopped", "off_price", "usageOff"),
    On("pendingDisconnect", "disconnect", "disconnection"),
    On("disconnection", "deactivation_completed", "disconnected"),
    From("disconnected", "disconnected", "entered", "usageFinal") }

\* Usage: the service itself, and its end once the tarification has ended.
UsageClosing ==
  { From("usageOn", "priceOff", "off_usage", "usageOff"),
    On("pendingDisconnect", "disconnect", "disconnection"),
    On("disconnection", "deactivation_completed", "disconnected"),
    From("disconnected", "disconnected", "entered", "usageFinal") }

UsageTransitions == UsageClosing \cup
  { From("activatedEntry", "waitingPayment", "activation_completed", "active"),
    From("activatedEntry", "paid", "trial_activation_completed", "activeTrial"),
    From("active", "trial", "change_price_completed", "activeTrial"),
    From("activeTrial", "trial", "change_price_completed", "activeTrial"),
    On("suspending", "suspend_completed", "suspended"),
    From("activated", "waitingPayment", "prolong", "prolongation"),
    From("prolongation", "prolongation", "activate_completed", "active"),
    T("prolongation", "machine", "prolong_completed", "priceIsActive", "active"),
    T("prolongation", "machine", "prolong_completed", "priceIsTrial", "activeTrial"),
    From("suspended", "notPaid", "resume", "resuming"),
    On("resuming", "resume_completed", "active"),
    From("activeTrial", "waitingPayment", "suspend", "suspending"),
    From("active", "waitingPayment", "suspend", "suspending") }

\* Mutant: deactivation_started is forgotten where the payments are stopping already.
PaymentClosingOnce ==
  { On("notPaid", "suspend_ended", "paymentOff"),
    On("notPaid", "end_of_suspend", "paymentOff"),
    On("paymentOn", "close_subscriber", "paymentOff"),
    On("paymentOn", "deactivation_external", "paymentOff"),
    On("paymentOn", "deactivation_started", "paymentStopped"),
    From("paymentStopped", "paymentStopped", "stop_pay", "paymentFinal") }

\* Payment: the account of the current period, and its end.
PaymentClosing ==
  { On("notPaid", "suspend_ended", "paymentOff"),
    On("notPaid", "end_of_suspend", "paymentOff"),
    On("paymentOn", "close_subscriber", "paymentOff"),
    On("paymentOn", "deactivation_external", "paymentOff"),
    On("paymentOn", "deactivation_started", "paymentStopped"),
    On("paymentStopping", "deactivation_started", "paymentStopped"),
    From("paymentStopped", "paymentStopped", "stop_pay", "paymentFinal") }

PaymentTransitions == PaymentClosing \cup
  { From("paymentOnEntry", "commercial", "activation_completed", "waitingPayment"),
    From("paymentOnEntry", "trial", "trial_activation_completed", "paid"),
    On("waitingPayment", "payment_failed", "notPaid"),
    On("waitingPayment", "waiting_pay_ended", "notPaid"),
    On("notPaid", "payment_processed", "paid"),
    On("waitingPayment", "payment_processed", "paid"),
    From("paid", "commercial", "wait_payment", "waitingPayment"),
    On("paid", "wait_payment", "waitingPayment"),
    From("waitingPayment", "priceChanged", "prolong", "paid"),
    From("waitingPayment", "priceNotChanged", "prolong", "paid") }

Transitions == TopTransitions \cup PriceTransitions \cup UsageTransitions \cup PaymentTransitions

\* The events the caller can send and some state reacts to.
MachineEvents ==
  { "activation_completed", "trial_activation_completed", "activation_aborted",
    "trial_ended", "commercial_ended", "change_price", "change_price_completed",
    "prolong_completed", "suspend_completed", "suspend_ended", "end_of_suspend",
    "resume_completed", "payment_processed", "payment_failed", "waiting_pay_ended",
    "wait_payment", "close_subscriber", "deactivation_external", "deactivation_started",
    "disconnect", "deactivation_completed" }

\* The values only the states' own signals carry.
CascadeValues ==
  { "off_price", "stop_pay", "off_usage", "not_change_price", "resume_tarification",
    "activate_completed", "prolong", "suspend", "resume", "entered", "finished" }

\* The signals a machine can find in its queue; "unknown" is any event of the caller
\* no state reacts to.
Signals == [sender : {"machine"} \cup TopStates \cup UsageLeaves \cup PaymentLeaves \cup PriceLeaves,
            value : MachineEvents \cup CascadeValues \cup {"unknown"}]

-----------------------------------------------------------------------------
(* What entering a state does besides running its handler. *)

Statuses == {"ACTIVE", "ACTIVE_TRIAL", "ABORTED", "PENDING_ACTIVATE",
             "SUSPENDED", "PENDING_DISCONNECT", "DISCONNECT"}

\* Mutant: pendingDisconnect assigns no status.
StatusWhileProvided(s, was) ==
  CASE s = "pendingActivate" -> "PENDING_ACTIVATE"
    [] s = "aborted"         -> "ABORTED"
    [] s = "disconnect"      -> "DISCONNECT"
    [] s = "suspended"       -> "SUSPENDED"
    [] s = "activeTrial"     -> "ACTIVE_TRIAL"
    [] s = "active"          -> "ACTIVE"
    [] OTHER                 -> was

\* assignProperty(this, "status", ...): the status on entering s, was before.
StatusOnEntry(s, was) ==
  CASE s = "pendingActivate"   -> "PENDING_ACTIVATE"
    [] s = "aborted"           -> "ABORTED"
    [] s = "disconnect"        -> "DISCONNECT"
    [] s = "suspended"         -> "SUSPENDED"
    [] s = "activeTrial"       -> "ACTIVE_TRIAL"
    [] s = "active"            -> "ACTIVE"
    [] s = "pendingDisconnect" -> "PENDING_DISCONNECT"
    [] OTHER                   -> was

\* The states whose entered() signal is connected to onTransitionCompleted().
CompletesWhenEntered == {"pendingActivate", "aborted", "disconnect",
                         "suspending", "activeTrial", "active"}

\* Mutant: nothing waits for priceOff's entered().
SignalsWhenEnteredUsage == {"disconnected"}

\* The states whose entered() signal triggers a transition of the chart.
SignalsWhenEntered == {"priceOff", "disconnected"}
=============================================================================
