# Verification of qfsm

qfsm drives telecom products through their life: activation, a trial, periods that
are paid for, suspension, changes of price, shutdown. Its core is a hierarchical
state machine written with Qt (`src/qfsm/pimachine.cpp`, `src/qfsm/pistates.cpp`)
that runs in a thread of its own; a Lua module (`src/qfsm/init.lua`,
`src/qfsm/qfsmlib.cpp`) offers it to Tarantool. The caller keeps the products. For
each event it leases a machine, loads the product into it, sends the event, stores
the product that comes back and hands the tasks that come with it to a scheduler and
to the order system; the scheduler's timers come back as events.

This directory holds TLA+ modules of that program, the configurations TLC checks
them with, and proofs TLAPS checks.

## 1. The system

### Components

**State chart** (`pimachine.cpp` buildMachine and resetInitialStates,
`stringtransition.cpp`). State: the active states. A product is in one of
`pendingActivate`, `aborted`, `disconnect`, `productProvision`; the last is parallel
and has the regions *usage* (is the service delivered), *payment* (is the current
period paid) and *price* (which price is running, and for how long). Regions
influence one another only by signals: entering or leaving a state emits
`externalSignal(value)`, and a `StringTransition` of another region waits for that
value from that sender. Hard: the order of signals; two transitions waiting for the
same value; links of the chain missing in some combination of states.
Right when: a shutdown runs through the regions in order; a signal never has a
choice; only resting states are seen from outside.

**State handlers** (`pistates.cpp`). State: the product (price with its counters of
periods, tarificationPeriod, dates), the lists `tasks` and `delete_tasks`. Operations:
an onEntry and possibly an onExit for each state. They create tasks (timers, orders),
ask for the deletion of timers, bill a period, emit signals and either continue the
cascade or report its end (`transitionCompleted`, `machineError`). Hard: timers
created in one region and deleted in another, calls later; counters raised in one
region and lowered in another.
Right when: a waiting product has the timer that wakes it; no timer outlives its
reason; nothing is billed twice, or after the end.

**Machine operations** (`pimachine.cpp` init, externalEventProcess, getState,
result, loadState, helpers for prices). State: operation status (busy, hasTransition,
opState, reason), configuration, the QStateMachine's event queue. `init` loads a
product by making its states the initial ones and restarting the machine;
`externalEventProcess` emits the event, waits for completion, error or timeout and
collects the result. Hard: they run in the Lua thread while the machine runs in its
own; `opState` and the configuration are read and written by both; every wait has a
timeout.
Right when: a result is the state after the whole cascade; an error is not lost; a
machine is as good as new for its next product.

**Lua interface** (`init.lua`, `qfsmlib.cpp`). State: the pool's handles (conn, busy,
productId). Operations: init, lease, release, close, stop; per machine init,
send_event, get. Right when: a machine serves one product at a time; a handle and
its machine stay together.

**Machine pool** (`smcontroller.cpp`). State: a vector of machines with their
threads. Operations: newMachine, stopMachine, sendEvent, init, run. Hard: ids are
positions in a vector that shrinks.

**Validators** (`validators.lua`): which products, prices and events are accepted.

**Caller and scheduler** (external; `src/test` plays them). State: stored products,
outstanding timers.

### What the modules cover

| component | module | covered |
|---|---|---|
| state chart | `PIChart`, `PILifecycle` | all states and transitions |
| state handlers | `PIStates`, `PIDates` | all |
| machine operations | `PILifecycle` | load, cascade, answer, as one call |
| | `PIAnswer` | the answer, and the configuration it shows, while the cascade goes on |
| | `PIReuse` | the initial states a machine keeps from one product to the next |
| | `PIService` | init, event and get of two threads, with their waits and timeouts |
| Lua interface, machine pool | `PIPool`, `PIService` | the pool's functions; a handle's init, send_event, get, release, is_running |
| Lua binding | `PIPool`, `PIService` | its calls, inside the actions of their Lua callers |
| caller and scheduler | `PILifecycle`, `PIAnswer`, `PIDates` | as an environment |
| validators | `PILifecycle` (Prices, Products) | what they admit, not how they check |

## 2. The modules

**`PIChart`** is the chart as data. A configuration is
`[top, usage, payment, price]`: the leaf of each region, or `NoLeaf`. `Inside(s)` gives
the leaves of a composite source (a transition of `usageOn` leaves any of its leaves),
`Descend(s)` the initial child of a composite target. `Transitions` has one row for
each `addTransition` of `buildMachine`: source, sender, value, condition, target; the
rows that close a region stand apart (`PriceClosing`, `UsageClosing`,
`PaymentClosing`). `StatusOnEntry` holds the `assignProperty` calls,
`CompletesWhenEntered` and `SignalsWhenEntered` what is connected to `entered()`.

**`PIStates`** is the handlers as functions. A handler of state *s* takes the event
that caused the transition (value and sender), the product and, where it reads it,
the next price; its result is a record of effects: signals emitted in order, tasks
created, tasks put up for deletion, the product left, `transitionCompleted`, the
reason of a `machineError`. The helpers of `pimachine.cpp` they call are beside them:
`IncreasePeriods`, `PricesEqual`, `CurrentPriceReason`, `HasPeriodType` (the part of
`targetStateEol` that decides whether a period can start) and the conditions of
transitions, with the errors that evaluating them reports.

**`PILifecycle`** composes them into the life of one product.

| action | code |
|---|---|
| `Send(e, next)` | `init` with the stored product, then the start of `externalEventProcess`: status reset, the event queued |
| `PriceStep`, `UsageStep`, `PaymentStep` | one microstep in a region: `eventTest`, onExit, `onTransition`, entry (status, onEntry, `entered`, `finished`) |
| `ProvisionStep` | `pendingActivate` to `productProvision`: the three initial leaves entered |
| `LeaveStep` | to `aborted`; a finished `productProvision` to `disconnect` |
| `Drop` | an event that enables no transition is discarded |
| `Answer` | the end of `externalEventProcess` and `result`: an error's reason, 1, -1 or -2; the caller stores product and timers on 1 only |

`saved` and `timers` are the caller's; the other variables are the machine's. The
caller may send any event the chart knows, and one it does not, at any time, with
any next price of the catalog or none. With `OnSchedule = TRUE` the six timer events
are sent only while their task is outstanding; all other events stay free.

**`ProductContract`** is what the owner of a product sees of it: a status, an account
(`clear`, `due`, `unpaid`, `closed`) and a number of periods, with the steps a call may
make on them (Activate, Charge, Pay, Default, Suspend, Resume, Deactivate ...). It
knows nothing of regions, signals and handlers. `PILifecycle` implements it under the
mapping *status* to `saved.status`, *account* to `Account(saved.conf)`, *periods* to
`saved.product.tarificationPeriod`.

The modules above take a call for one piece of work on a machine of its own: the
answer waits for the end of the cascade, a transition enters the chart's own initial
states, and time does not exist. The next four each take back one of these, or look at
the machine from further away.

**`PIAnswer`** extends `PILifecycle` by the moment at which the caller looks. A
microstep is three steps: the conditions are tested, and what they report is out
(`TestConditions`); the handlers run (`RunHandlers`); the state entered becomes active
(`BecomeActive`). Before the last `getMachineState` sees the composite state and no leaf
(`Seen`). `AnswerCompleted` is enabled from the first `transitionCompleted` on, at
any later point of the cascade; `AnswerFailed` at any point at all (an error, or the
timer). `SendLoaded` loads what was stored, a composite state in its initial child
(`Loaded`), and offers the cascade the `entered()` signals that loading emits though the
handlers keep quiet (`Replayed`). `Stop` is the stop of the next `init`, which drops the
rest of a cascade. `AnswerInv` is the inductive invariant: the shapes the queue of a cascade
may have before its completion (`Single`, `Replaying`, `Closing`, `Starting`, `Ending`) and
after it (`Rest`), and what makes a product fit to be loaded again (`Storable`).

**`PIReuse`** extends `PILifecycle` by `initial`, the initial state each composite state
has. `InitialAfterLoading` is `loadStateOnly`: only what the product's table names is
set; `ResetInitialStates` is the end of `externalEventProcess`. `OtherProduct` puts other
products on the machine, in the configurations `Served` with an event, in those of
`Abandoned` without one. The transitions into composite states are restated with
`Entered`, the child the machine remembers. `ImplementsLifecycle` says that with
`Abandoned = {}` all this is `PILifecycle` again: the refinement that justifies leaving
`initial` out of the other modules.

**`PIService`** is a call as two threads carry it out, over cascades reduced to the
kinds of steps that matter (`Steps`).

| action | code |
|---|---|
| `CheckRunning`, `BeginInit`, `LoadState`, `StopForInit`, `StartForInit`, `EndInit`, `InitTimeout` | `machine:init` of `init.lua`, `PIMachine::init`: opState and lists of tasks, table, `stop()` and its wait, `start()` and its wait |
| `CheckRunningAgain`, `SendEvent`, `Woken`, `EventTimeout` | `machine:send_event` and `get()` with their `is_running()`, `externalEventProcess` with its wait |
| `Judge`, `Conclude` | opState read, and written, once the wait has ended |
| `Result`, `ReturnResult` | `result`, which looks at opState, and `resetInitialStates` |
| `BeginGetState`, then `ReturnInit`, `ReturnResult` or `Get` | `getState`, called three times in a call: PENDING, and SUCCESS whatever has come in between |
| `Release` | a machine released, or its event refused, before an event is sent |
| `TakeStart`, `EnterInitialStates`, `EmitStarted`, `TakeCall`, `StopProcessing`, `EndProcessing` | Qt's start, stop and processing of queued calls, as the code relies on them |
| `Handler`, `HandlerChanges`, `Complete`, `Quiet`, `MachineError` | a step of the cascade; what a handler reads (opState) and what it then writes are two steps |

`Slow` names the waits whose timer may fire although the machine is still at work; any
wait's timer may fire once the machine has nothing left to do. `Sent` names the kinds of
events the caller sends: one that is carried through, one that fails half-way, one whose
condition reports an error and lets it pass all the same (`proceeds`: `change_price`
without a next price), one that completes nothing, one that no state reacts to. Both
threads write opState, so each read and each assignment is a step. A product stands for all
that is its own: `data`, `initial`, `states` and `tasks` record whose record, table,
states and tasks the machine holds.

**`PIPool`** is the pool: the table `machines` of `init.lua` and the vector of
`smcontroller.cpp`. `InitPool` and `StopPool` begin a loop, `CloseNext`, `NewMachine`,
`EndClosing`, `EndInit` are its rounds and ends, so that `Starts`, the machines' own
threads, can come in between; `Lease`, `Use`, `Release` are the clients. Of the two
counts a handle could be found by, `conn` is the code's, `machine` the model's: which
machine it was created with. An index out of the vector's range is undefined behaviour:
`broken`, after which nothing is said of the process. `prudent` is a history variable:
whether the owner of the pool has so far kept it growing, started it before resizing it,
and never stopped it.

**`PIDates`** extends `PILifecycle` by a clock and the dates: `activeEndDate` and
`priceStartDate` of the machine, `activeEndDate` and the due dates of the timers of the
caller. `DateOnEntry` and `DateOnExit` are what the handlers do to them,
`TargetStateEol` and `TermDate` the helpers. A date past the last an int holds is negative
(`ToInt`: it wraps round, and past the range of `toTime_t` it is -1), and then `commercial` and `trial` return without a word
(`UndatedPriceStep`): the one step that `PILifecycle` does not have.

**`PICascade`** extends `PILifecycle` by `CascadeInv`, what the machine is doing at each
moment of a call. It has no state of its own: it is the inductive invariant of the proofs
about the products stored, and a reader's guide to the cascades. A product at rest
(`Rests`, `Fits`) becomes one by a step of the contract (`Moves`); in between are the
phases, one for each signal that can be at the head of the queue (`Charged`, `Unpaid`,
`PriceStopped`, `Sold` ...), each saying what the call was, what its handlers have changed
so far, and what it has put on the lists of tasks.

The modules named **`MC...`** give the constants of the runs; those named **`...Proofs`**
hold the proofs (section 4). Operators introduced by the comment *Mutant* are variants of a definition with a plausible
bug; nothing refers to them. They record, for each property, an error it catches.

### Qt, as the code uses it

Modelled from the use the code makes of it: signals emitted by handlers queue up and
are handled one at a time, in order; each is offered to the transitions of the active
states; one that no transition takes is forgotten; a transition of a composite state
leaves whatever leaf is active in it and enters the target's initial child; exit
handlers run before entry handlers; `entered()` follows the entry handler;
`finished()` of the parallel state follows the last region's final state.

## 3. The runs

The runs of the product's life use `SmallCatalog`: a trial price of one period, an
unlimited commercial price, the same price with an alteration of one period, a price of
neither status and a price whose period type `targetStateEol` does not know. These are
the distinctions the code makes between prices; the caller may also have a product
without a price.

| run | what may happen | checks |
|---|---|---|
| `any_order` | any event at any time | `TypeOK`, `ShutdownOrder`, `AtMostOneTransition`, `SavedAtRest`, `StatusMatchesUsage`, `TasksUnambiguous`, `AlwaysDeactivates`, `PeriodsCovered`, `KeepsContract`, `NotBilledOncePaymentClosed`, `CascadeEnds` |
| `schedule` | timer events on schedule, all others at any time | `WakeUpOutstanding`, `NoTimerAfterShutdown`, `NoDuplicateTimer`, `CascadeInv` |
| `anytime` | the caller looks at any point after the first completion, and stores what it sees | `PeriodsCovered`, `StoredSettles`, `AnswerInv`, `AnswerIsWhole`, `ErrorStopsCascade`, `NotBilledOncePaymentClosed` |
| `answer_comment` | the same | `StoredIsAccomplished`, which fails |
| `reuse_paired` | other products on the machine, each with its event | `ActivationStarts`, `ImplementsLifecycle` |
| `reuse_abandon` | other products loaded and released without one | `ActivationStarts`, which fails |
| `service_slowstop` | a stop may outlast its timer; an error ends its cascade | `OwnAnswer`, `SilentLoad` |
| `service_slowevent` | a cascade may outlast its timer, or go on after its error | `TypeOK`, `StaysUsable`, `NoLostWakeUp`, `ErrorsReported`, `CallsReturn` |
| `service_handle` | a cascade may outlast its timer; an error ends it | `OwnAnswer`, which fails |
| `service_proceeds` | no wait is outlasted; a cascade may go on after its error | `OwnAnswer`, which fails |
| `pool` | two clients, any sequence of init and stop | `TypeOK`, `OneClientPerMachine`, `OwnMachine`, `PoolIsFull`, `NeverOutOfRange` |
| `dates` | timers on schedule or late, up to the last date | `PeriodEndOnSchedule`, `DisconnectOnEndDate`, `EndDateInRange`, `EndDateMovesWithReason`, `ServedToTheEnd` |

What they show:

- *`ShutdownOrder`*, *`NotBilledOncePaymentClosed`*: a deactivation from any
  combination of regions ends payment, then price, then usage. This matters because
  leaving `suspended` restarts the tarification: only since the price region is closed
  by then is the signal dropped and no period billed to a closed product.
- *`AtMostOneTransition`*: the same values are used as signals by several senders and
  awaited by several regions; no signal ever enables two transitions, so nothing
  depends on the order in which the engine searches the regions.
- *`SavedAtRest`*: a cascade that breaks off in a state which only a signal leaves is
  never answered 1, hence never stored.
- *`StatusMatchesUsage`*: states that assign no status inherit the right one.
- *`TasksUnambiguous`*, *`NoDuplicateTimer`*, *`NoTimerAfterShutdown`*,
  *`WakeUpOutstanding`*: the two lists of tasks of a call can be carried out in any
  order, and the timers outstanding are those the product's state needs. One is left
  over: a product deactivated in `priceChanging` still gets its `change_price`
  (`pistates.cpp:196-201`), which it answers with -2; `NoTimerAfterShutdown` says so.
- *`CascadeInv`*: every cascade goes through the phases of `PICascade`; a handler that
  forgets a signal or a task leaves them.
- *`AlwaysDeactivates`*: `deactivation_started` is answered 1 from every state of
  provision that is not closed, and leaves a `disconnect` timer.
- *`KeepsContract`*, *`PeriodsCovered`*: each answered call is a step of the contract.
- *`CascadeEnds`*: no handler sets off an endless cascade.
- *`AnswerIsWhole`*: in every cascade of the chart, all that changes the product, its
  status or its tasks comes before the first `transitionCompleted`. That, and not any lock,
  is why an answer taken while the machine still works is right in all but the
  configuration.
- *`ErrorStopsCascade`*: the condition or handler that reports a `machineError` asks for no
  task, and after it nothing moves. There is one exception, which the property names: when
  the next price is missing `pricesEquals` reports it and goes on to compare
  (`pimachine.cpp:647-653`), its transition passes, and `priceChanged` orders
  CHANGE_PRICE (`pistates.cpp:208-221`) in a call that is answered -2. The caller throws
  the order away with the answer; what can become of it is shown by `service_proceeds`.
- *`StoredSettles`*, *`PeriodsCovered`* of `anytime`: nor does it matter that the
  configuration is not: with a leaf in each region, `entered()` carries a half-finished
  one, once loaded, to where the machine itself came to rest; without one, periods stay
  covered all the same.
- *`AnswerInv`*: what is stored of an unfinished cascade can be loaded again, always; and a
  handler that completes a call too early, or with signals still to come, leaves the shapes
  it allows.
- *`answer_comment`*: the comment at `init.lua:61` says that the second `get()` "fixes
  unaccomplished machine states". It makes them rarer; it waits for nothing. (A case the
  repository's tests expect never to see is `priceOff` as the answer to
  `deactivation_started`, in place of `priceFinal`:
  `test/integration/deactivation_started_test.lua:35`.)
- *`reuse_paired`* and *`reuse_abandon`*: as long as each product that is loaded gets
  its event the initial states of one never reach the next. A product loaded and
  released leaves its own behind, and an activation that follows, which names no leaf,
  starts in them: `resetInitialStates` is called after an event only
  (`pimachine.cpp:461`).
- *`service_...`*: which wait is outlasted decides what can go wrong. The runs keep, of
  each, what is promised; the rest fails:

  | waits that may be outlasted | holds | can fail |
  |---|---|---|
  | none | everything, if an error ends its cascade | `OwnAnswer`, if it does not |
  | `stop` | `CallsReturn`, `ErrorsReported`, `SilentLoad`, and `OwnAnswer` if an error ends its cascade | `StaysUsable`, `NoLostWakeUp`: a stop that comes late ends a machine that nobody starts again |
  | `start` | `CallsReturn`, `ErrorsReported` | the others: handlers run while a product is loaded, and a late start meets the next call's stop |
  | `event` | `CallsReturn`, `StaysUsable`, `NoLostWakeUp`, `ErrorsReported` | `OwnAnswer`, `SilentLoad`: handlers of the old cascade work on the next product, and its error takes INIT away from the next load |

- *`ErrorsReported`*: both threads write opState without a lock, and `getState` sets it to
  SUCCESS without looking; still no error of an event is lost between `onMachineError` and
  `result`, since a cascade that fails has not completed before. (`getState` would lose one,
  that of the event before, which was answered -1 or -2 already.)
- *`service_handle`*: tasks created for one product are returned with the productId of
  another (`pimachine.cpp:444`, `init.lua:86`).
- *`service_proceeds`*: so they are when no wait is outlasted. The `machineError` of
  `pricesEquals` wakes the caller before the handlers run; they may have looked at opState
  when the next `init` sets INIT and empties the lists.
- *`pool`*: two clients never share a machine, whatever the owner of the pool does. That
  a handle names its machine, that `init` leaves a full pool, and that no index is out
  of range holds for a prudent owner: closing goes backwards, so the places that shift
  belong to handles already closed. A pool closed before its machines have started,
  made smaller, or stopped and initialised again loses this: a closed handle stays in
  `machines`, and its conn is -1.
- *`dates`*: the end of a period is kept twice, in the product and in a timer, set by
  handlers of different regions, and so is the date of a disconnection; they agree.
  Periods follow one another without gap or overlap however late their events are dealt
  with; a deactivation leaves the product what it has been charged for.

### Bounds

- `MaxPeriods = 3`: an event that can bill a period is sent only while the stored
  product has fewer periods (the product's and the price's counter). Prices run out
  after one period, so that an activation, a prolongation, an expiry and a change of
  price all take place below the bound; the code compares the counters with 1, 0 and
  the duration only.
- The next price is chosen for `change_price` and `change_price_completed` only;
  nothing reads it in another call.
- Timers are a set of event names. `NoDuplicateTimer` is what justifies it.
- One product, one machine, in the runs of the product's life: machines share nothing
  while they process events.
- `anytime` and `reuse_abandon` take `MaxPeriods = 2`: an activation and a prolongation.
- The reuse runs have two other products, one in service and one switched off, which name
  different states in all three regions.
- The service runs have two products, the least that can be taken for one another.
  `Backlog = 1`: no call begins while more than one call is queued to the machine's
  thread, as then the machine is further behind and nothing new is in reach: one queued
  call is a stop or start that came too late.
- The pool has two clients and up to three machines: closing one shifts one and leaves
  one in place.
- `dates`: a period of 3 ticks, ended 1 before; waits of 1, a suspension of 2, events up
  to 1 late, a clock that stops at 4 and an int that ends at 6. Periods end before, on
  and after the last date, and before and after the clock. `ACTIVE` is the status in
  which a deactivation is immediate, the others keep the rest of their period.

The state spaces are finite and searched completely: about 39 000 states for
`any_order`, 28 000 on schedule, 634 000 for `anytime`, 282 000 for `dates`, 13 000 for
`pool` and up to 5 600 for the service.

### Fairness

`Spec` assumes weak fairness of `MachineStep` and of `Answer`: the event loop of the
machine's thread goes on taking events from its queue, and the Lua thread's loop ends
its wait. Nothing is assumed of the caller. Only `CascadeEnds` needs it.

`PIService` assumes weak fairness of `CallerStep` and of `MachineStep`, each thread going
on with what it has begun; that a call begins (`CheckRunning`) is not assumed.
`CallsReturn` needs both: a wait is ended by the machine or, once the machine has
nothing to do, by its timer. The other modules state safety only.

## 4. The proofs

All are proved for every value of the constants; a theorem that needs more says so in its
hypothesis.

| module | about | from | theorems |
|---|---|---|---|
| `PILifecycleProofs` | `PILifecycle` | | `TypeCorrect`, `ShutdownIsOrdered`, `ClosedIsNotBilled`, `TransitionsAreUnique` |
| `PICascadeProofs` | `PILifecycle`, `PICascade` | | `CascadeCorrect`, `SavedStatesRest`, `StatusFollowsUsage`, `PeriodsAreCovered`, `TasksAreUnambiguous`, `DeactivationSucceeds`, `LifecycleKeepsContract` |
| | | `OnSchedule = TRUE` | `WakeUpsOutstanding`, `ShutdownSilencesTimers`, `TimersAreSingle` |
| `PIAnswerProofs` | `PIAnswer` | | `AnswerCorrect`, `AnswersAreWhole`, `ErrorsStopCascades`, `WhatIsStoredSettles`, `StoredPeriodsAreCovered`, `StoredIsNotBilled` |
| `PIDatesProofs` | `PIDates` | | `DatesCorrect`, `EndDatesInRange`, `EndDatesMoveWithReason`, `DeactivationServesToTheEnd` |
| | | `OnSchedule = TRUE` | `DisconnectsOnEndDate`, `PeriodEndsOnSchedule` |
| `ProductContractProofs` | `ProductContract` | | `ContractCoversPeriods` |
| `PIReuseProofs` | `PIReuse` | `Abandoned = {}` | `ReuseImplementsLifecycle`, `ActivationsStart` |
| `PIServiceProofs` | `PIService` | | `ServiceTypeCorrect` |
| | | `Slow \subseteq {"event"}` | `MachinesStayUsable`, `WakeUpsArrive`, `ErrorsAreReported` |
| | | `Slow \subseteq {"stop"}`, `"proceeds" \notin Sent` | `AnswersAreOwn`, `LoadsAreSilent` |
| `PIPoolProofs` | `PIPool` | | `OneClientEach`, `PoolTypeCorrect`, `PrudentPoolIsFull`, `PrudentPoolInRange`, `HandlesKeepTheirMachines` |

The assumptions on the constants are `CatalogAssumption` (the catalog holds prices),
`BoundAssumption` and `ScheduleAssumption` for the product's life, `OthersAssumption` (other
products are in configurations of the chart) for `PIReuse`, `DatesAssumption` (the lengths
are natural numbers, the timer of a period falls due no earlier than the period starts, and
the waits of a product in service end while an int holds their dates) for `PIDates`, `SlowAssumption`,
`SentAssumption` and `BacklogAssumption` for `PIService`, `SizeAssumption` for the pool. The
hypotheses are conditions of the runs too, and are needed: without them a run or the
table of section 3 shows the property fail. In two places they are only what the proof uses:
`ErrorsAreReported` and, as to `Sent`, `LoadsAreSilent`, which TLC finds to hold without.
`OnSchedule = TRUE` is the caller's part: its scheduler sends a
timer event only for a task it was given.

### The product's life

- **`TypeCorrect`**: `TypeOK` is inductive. The table lemmas (`PriceTargets`,
  `UsageSources`, ...) say that a region's transitions stay in the region; `EntryType` and
  `ExitType` that each handler leaves a product and asks for known tasks; `Sources` that a
  transition fires only inside `productProvision`; `MicrostepType` puts them together.
- **`ShutdownIsOrdered`** and **`ClosedIsNotBilled`**: neither is inductive, since a
  transition trusts the signal it receives, not the region it comes from. `ShutdownInv`
  adds what is true of the queue: a signal of `paymentStopped` (or `priceOff`) is in it
  only if payment (or price) is closed; the caller's event is alone; and while payment is
  closed and price is not, the first signal of the queue is the one that closes price.
  From the last, entering `paymentStopped` empties the way for `off_price`
  (`StoppingQueue`), `off_price` is never dropped (`OffPriceNotDropped`), and the only
  step of the price region in between runs no handler that bills.
- **`TransitionsAreUnique`**: the signals each region waits for are tabulated
  (`SignalTables`); two regions have no signal in common (`SignalsApart`), and two
  transitions of a region for the same signal leave different leaves or have conditions that
  exclude each other (`GuardsExclude`).
- **`CascadeCorrect`**: what is said of a stored product depends on the whole cascade that
  made it, so no property of the answer is inductive. `CascadeInv` ties the three pieces
  of state together: the product stored before the call (`Rests`, `Fits`), the queue, and
  what the machine has done since. Its 22 phases are few because a signal is emitted in one
  situation only: the signal at the head of the queue tells which call it is and which
  handlers have run. `PILifecycleProofs` evaluates the handlers once
  (`PriceEntries`, `UsageEntries`, `PaymentEntries`, `Exits`: what each emits, creates and
  deletes) and says where each region can move on what (`PriceMoves`, `UsageMoves`,
  `PaymentMoves`), for this proof and for the next; `PICascadeProofs` says which endings are
  a `Result` and has a lemma for each step
  from phase to phase, `CascadeNext` puts them together. What makes the case analysis
  delicate is what only their combination excludes: a shutdown that ends a suspension
  leaves `resume_tarification` in the queue behind the signals that close price, so that it
  finds nothing to restart (`UsageStopped`, `Ended`); a product whose payment failed has
  lost the period it was charged, and no other (`Unpaid`).
- From it **`SavedStatesRest`**, **`StatusFollowsUsage`** and **`PeriodsAreCovered`** follow
  by `Rests`, **`TasksAreUnambiguous`** by `Result`, **`DeactivationSucceeds`** by
  `Deactivated`, the three theorems on timers by `Fits`, and **`LifecycleKeepsContract`**, the
  refinement of `ProductContract`, by `Moves`: the answer is the one step that is not a
  stutter, and `MovesKeepContract` maps it to an action of the contract.
- **`ContractCoversPeriods`**: whoever keeps `ProductContract` never counts below what is
  paid or due, nor below zero.
- **`ReuseImplementsLifecycle`**: each step of `PIReuse` is one of `PILifecycle` or leaves
  its variables alone. The two differ in the initial states, and `LoadedInv` says where these
  cannot matter: between calls they are the chart's own (`DefaultsAre`); a product whose usage
  is still on has the chart's own initial state below `usageOff`, and likewise `paymentOff`
  (`LoadingKeeps`), the only composite states a transition within a region enters; and a
  product in `pendingActivate`, which will enter all of them, has all of the chart's own. A
  region once closed stays closed (`StaysClosed`).
- **`ActivationsStart`**: by the refinement `CascadeInv` holds of `PIReuse` too. `SaleInv`
  follows an activation through its phases with what they do not say, the price the product
  was stored with: which of the two ways it takes (`Sold`, `Due` or `SoldTrial`, `Free`) is
  decided once, by the signal of `priceOnEntry` (`Offered`).

### The answers

In `PIAnswer` a cascade may start from what was stored of another that was not done, with
`priceOff` still to be left or a region put back to its initial child, and the caller may
look at it at any point after its completion. `CascadeInv`, which is about calls that begin
and end at rest, does not hold of it.

- **`AnswerCorrect`**: `AnswerInv` says less of a cascade, and says it of every moment.
  Most cascades pass one signal from handler to handler (`Single`), whatever the
  configuration is; the exceptions are the two that address several regions at once, the
  end of the payments (`Closing`) and an activation (`Starting`), the end of a product
  (`Ending`), and a cascade that has `priceOff` to leave first (`Replaying`). Each shape has
  a lemma that says to which its steps lead (`SingleStep`, `ClosingStep`, `StartingStep`,
  `EndingStep`, `ReplayingStep`), from what a step can do in each region (`PaymentWork`,
  `UsageWork`, `PriceWork`). Four invariants are needed besides, since a handler trusts
  what others have made sure of: that a price that is charged exists (`Priced`), that a
  period is counted before it is paid (`Counted`), that no signal is left that could charge
  a closed product (`Uncharged`), and that what was stored of this call is where the machine
  is, or where it was before it left `priceOff` (`StoredIsClose`). They are inductive only
  together with `SavedOK`: every configuration that can be loaded from what was stored is
  `Storable`. `SeenStorable` closes the circle: whatever `getMachineState` shows of a
  completed call, leaf or no leaf, can be loaded.
- **`AnswersAreWhole`** is `AfterCompletion`: by `Rest` the only signals left are the one that
  leaves `priceOff`, whose handlers do nothing (`LeavingPriceOff`), and a
  `resume_tarification` that finds the price closed and is dropped.
  `NotForgotten`: the first of them is heard as long as `priceOff` is active.
- **`ErrorsStopCascades`**: a test that reports an error enables no transition, but for the one
  exception (`FailedTest`, `FailedStep`); a failing handler creates and deletes nothing
  (`FailingHandlers`), emits nothing, and finds nothing left behind it (`AnswerInv` has the
  queue empty after it). The signals that `priceChanged` goes on with report no second error
  (`PassesOnlyOnce`).
- **`WhatIsStoredSettles`**: by `StoredIsClose`, and since the leaves in which a completed call
  can come to rest have no `entered` transition (`SettledLeaves`).
- **`StoredPeriodsAreCovered`** follows from `SavedOK`, and **`StoredIsNotBilled`** from
  `Uncharged` (`ClosedStep`).

### The dates

A step of `PIDates` is a step of `PILifecycle` with what it does to the dates, but for
`UndatedPriceStep`; of that one `UndatedEnds` says that it comes last in its cascade and
leaves the call uncompleted. So `CascadeInv` holds of `PIDates` too (`DatedCascade`), and
its phases tell at each handler that touches a date which others have run before it.

- **`DatesCorrect`**: `DatesInv` adds to it what a call has made of the dates. `NotMoved`:
  until a handler charges or takes back a period, or completes the call, the end date is
  the stored one, which is what the next handler to move it starts from. `EndMoved`: after
  that it is where the property wants it. `StartKept`: only the period after an unchanged
  price begins where the last one ended. `Scheduled`: a task for the end of a period or for
  the disconnection agrees with the end date from the step that creates it on, because no
  later handler of the cascade moves the date. `Deactivating`: a deactivation does nothing
  but deactivate. `ClosedKept`: a product whose usage is off keeps its date. Most handlers
  leave all this alone (`QuietTargets`, `QuietStep`, `SameDatesKeep`); the others are the
  start of a period (`PeriodDates`), `pendingDisconnect` (`UsageDates`), and `notPaid` and
  `paymentStopping` (`PaymentDates`).
- **`EndDatesInRange`**: an end that wraps round is negative (`ToIntHolds`), and with a
  negative one no period starts (`Holds`).
- **`EndDatesMoveWithReason`** and **`DeactivationServesToTheEnd`** hold of the answer by
  `EndMoved`, `Deactivating` and `Deactivated`; no other step moves the stored date
  (`Answered`).
- **`PeriodEndsOnSchedule`** and **`DisconnectsOnEndDate`** are inductive once `DatesInv` is
  known. A timer is new, and agrees with the date by `Scheduled`, or it was outstanding
  before: then the call has charged no period, since the tasks of two periods are never
  outstanding together (`Fits`), and has not moved the date, or the product would not be in
  service. That its account was in service before (`ServedBefore`) follows from the
  contract, by `Moves`.

### The service

- **`ServiceTypeCorrect`** needs no hypothesis.
- **`MachinesStayUsable`**, **`WakeUpsArrive`**: from `UsableInv`, which says what the caller
  waits for at each place. `StartQueued`: a start that is still to be carried out is the last
  call of the machine's inbox. `StopAwaited`: the machine is stopped, or its stop flag is up,
  exactly while init waits for that. `LoadAwaited`: it enters its initial states only while
  init waits for it. `EventAwaited`: an event that ends in a wake-up is queued, at work with
  the wake-up still to come, or has woken the caller.
- **`ErrorsAreReported`**: from `UsableInv`, `OwnEnd` and `OwnJudgement`. A caller that waits
  for stop and start as long as they take begins its event on a machine that has nothing left
  to do (`Cleared`), so what wakes it is its own event: `Ahead` says what can be left of one
  until then. After the wake-up nobody but the caller's thread takes an ERROR away.
- **`AnswersAreOwn`**, **`LoadsAreSilent`**: from `OwnInv`. A
  stop that comes late may find init anywhere in its restart, so `OwnInv` does not say when
  the machine stops but only what it may do meanwhile. `OwnProduct`: from `loadState` on the
  record, the initial states and the tasks are those of the caller's product, and once init
  has started it so are the active states. `OwnLoad`: the machine enters initial states only
  for the start its caller waits for, and from then to the answer it is running
  with its stop flag down. `OwnEvent`: outside `waiting` nothing is at work that changes a
  product; in it the caller's event is queued, at work, or has woken the caller; which is why no event may
  go on after its error.

### The pool

- **`OneClientEach`**, **`PoolTypeCorrect`**: inductive, whatever the owner does, is
  `PoolInv`: `TypeOK`; `Places`, an open handle is at the place its conn names, so that two
  of them never name one machine; `Leases`, what is leased is busy, leased once, and never
  during an init; `Counting`, what is being closed is in the table.
- **`PrudentPoolIsFull`**, **`PrudentPoolInRange`**: the pool of a prudent owner needs
  `Progress` as well, which says how far the loop under way has got: while closing, the
  vector is as long as what is left to close, and started; while creating, it has as many
  machines as rounds are done; and always, the handles up to its length are open and those
  above it closed. Each round then finds the machine it looks for. `FreeNumberType` is the
  pigeonhole argument that a new machine has a number to take.
- **`HandlesKeepTheirMachines`**: `Parallel`, on top of `Progress`: the machine an open handle
  was created with is the one at its place of the vector. Closing goes backwards, so a shift
  moves no machine whose handle is open.

### Only model-checked

The liveness properties `CascadeEnds` and `CallsReturn`, which are out of the prover's reach.
Every other property of the passing runs is stated by a theorem above.

## 5. Assumptions about the environment

- The caller stores a product and carries out its tasks only when the call is
  answered 1. The scheduler drops a timer once its event has been answered 1 and
  keeps it if the call failed.
- The order system may confirm anything at any time.
- Except in `PIAnswer` and `PIService`, an answer waits for the end of the cascade;
  `AnswerIsWhole` and `StoredSettles` say what that leaves out.
- Except in `PIReuse`, a machine is as good as new; `ImplementsLifecycle` says when it is.
- A machine is used as the tests use it: init, at most one event, release. A second event
  on a lease is not modelled, nor is a lease given back twice. In `PIService` the first
  lease finds the machine started.
- Nobody resizes a pool that is leased from (`InitPool`).
- The clock stands still during a call. A period has one length; that months have
  several, and that the date of a month's end is clipped, are left to Qt.

## 6. Not modelled

- Tables that name states the chart does not have: what they should lead to is stated
  nowhere.
- The instant between `stop = false` and `NotRunning` inside Qt; the event loops are
  taken as Qt documents them.
- `max_machines = 0`, the controller's own thread (it idles), its destructor, and the
  threads of machines that were closed.
- How long `ms_timeout` is: a timer may fire or not wherever it can.
- `trialEndDate` and the labels only `termDate` reads (`Immediate` stands for them).
- The text of errors, the JSON encoding, the `product.state` copy, the marshalling in
  `qfsmlib.cpp`, the checking in `validators.lua`, the build files, the vendored library
  and the `old_style` tests.

## 7. Plan

Every safety property of the runs is proved. What is left is to widen what they speak of:

- a second event on a lease, and a lease given back twice: the machine keeps its record and
  its configuration from one event to the next, which no test of the repository relies on;
- tables that name states the chart does not have, once it is stated somewhere what
  `loadStateOnly` should do with them;
- the hazards no property covers, where the code does one thing and no document says what it
  should do: the period that `notPaid` takes off one counter only, a payment that comes while
  a product is being suspended, a suspension outside `commercial`.
