------------------------------ MODULE PIService ------------------------------
(***************************************************************************)
(* A call, as two threads carry it out.  The caller's thread runs           *)
(* machine:init and machine:send_event of init.lua and, through qfsmlib,    *)
(* PIMachine::init and externalEventProcess; the machine's thread runs the  *)
(* state machine.  They share the machine's members without a lock, ask     *)
(* each other by queued calls and signals, and wait in an event loop with a *)
(* timer.                                                                   *)
(*                                                                          *)
(* A product stands for all that is its own: the caller's record of it      *)
(* (m_product and its status), the states its table names, and the tasks    *)
(* its handlers create.  A cascade is a sequence of steps of the kinds the  *)
(* properties tell apart; what they do is the subject of PILifecycle, and   *)
(* that a step after transitionCompleted changes nothing is shown by        *)
(* PIAnswer.  What follows a member's being read is a step of its own, and  *)
(* so is each assignment to opState, which both threads write.              *)
(*                                                                          *)
(* The caller uses a machine as the repository's tests do: init, at most    *)
(* one event, release.  Its tables name states of the chart, as those the   *)
(* machine returned to it do.                                               *)
(***************************************************************************)
EXTENDS Naturals, Sequences

CONSTANTS
  Products,
  Sent,    \* the kinds of events that the caller sends
  Slow,    \* the waits whose timer may fire although the machine is still at work
  Backlog  \* bound: no call begins while the machine's thread has more calls queued

ASSUME SlowAssumption == Slow \subseteq {"stop", "start", "event"}
ASSUME BacklogAssumption == Backlog \in Nat

VARIABLES
  \* the caller's thread
  pc,        \* where the call is
  lease,     \* the product the machine is leased for
  event,     \* the kind of the event sent last
  quits,     \* loop.quit() calls queued to the event loop of the wait
  answer,    \* what the last call returned
  \* the machine's thread
  run,       \* QStateMachinePrivate::state
  stop,      \* QStateMachinePrivate::stop
  inbox,     \* the calls queued to the thread
  mode,      \* what the thread is doing
  cascade,   \* the steps still to be taken for the event
  \* shared
  opState,   \* status.opState
  data,      \* whose m_product and status
  initial,   \* whose table gave the regions' initial states; nobody: they are the chart's own
  states,    \* whose states the machine is in
  tasks      \* whose handlers added to m_tasks and m_deleteTasks

caller  == <<pc, lease, event, quits, answer>>
machine == <<run, stop, inbox, mode, cascade>>
shared  == <<opState, data, initial, states, tasks>>
vars    == <<caller, machine, shared>>

Nobody == "nobody"
Owners == Products \cup {Nobody}

\* The kinds of events: one that is carried through, one that fails half-way, one whose
\* condition fails and lets it pass all the same (change_price without a next price), one
\* whose transition completes nothing, and one that no state reacts to.
Steps == [done     |-> <<"change", "complete", "quiet">>,
          fails    |-> <<"change", "fail">>,
          proceeds |-> <<"fail", "change", "complete">>,
          stalls   |-> <<"change">>,
          unknown  |-> <<>>]

Kinds == DOMAIN Steps

ASSUME SentAssumption == Sent \subseteq Kinds

Refused == [status |-> "error", product |-> Nobody]

Init ==
  /\ pc = "free" /\ lease = Nobody /\ event = "unknown" /\ quits = 0 /\ answer = Refused
  /\ run = "Running" /\ inbox = <<>>
  /\ stop = FALSE /\ mode = "idle" /\ cascade = <<>>
  /\ opState = "IDLE" /\ data = Nobody /\ initial = Nobody /\ states = Nobody /\ tasks = {}

-----------------------------------------------------------------------------
(* QStateMachine::start and stop, called from the caller's thread. *)

StartMachine ==
  IF run = "NotRunning"
  THEN run' = "Starting" /\ inbox' = Append(inbox, "start")
  ELSE UNCHANGED <<run, inbox>>

StopMachine ==
  /\ stop' = (stop \/ run # "NotRunning")
  /\ inbox' = IF run = "Running" THEN Append(inbox, "process") ELSE inbox

\* The machine's thread has nothing left to do: only a timer can end a wait.
MachineQuiet == mode = "idle" /\ inbox = <<>>

TimerFires(wait) == wait \in Slow \/ (MachineQuiet /\ quits = 0)

-----------------------------------------------------------------------------
(* The caller's thread: machine:init. *)

Fail ==
  /\ answer' = Refused
  /\ pc' = "free"

\* self.conn:is_running(), before anything else.
CheckRunning(p) ==
  /\ pc = "free"
  /\ Len(inbox) <= Backlog
  /\ lease' = p
  /\ IF run = "Running" THEN pc' = "checked" /\ UNCHANGED answer ELSE Fail
  /\ UNCHANGED <<event, quits, machine, shared>>

\* Mutant: the tasks of the call before are still there.
BeginInitKeeping ==
  /\ pc = "checked"
  /\ opState' = "INIT"
  /\ pc' = "begun"
  /\ UNCHANGED <<lease, event, quits, answer, machine, data, initial, states, tasks>>

BeginInit ==
  /\ pc = "checked"
  /\ opState' = "INIT"
  /\ tasks' = {}
  /\ pc' = "begun"
  /\ UNCHANGED <<lease, event, quits, answer, machine, data, initial, states>>

\* Mutant: the machine's table is not loaded.
LoadStateKeeping ==
  /\ pc = "begun"
  /\ data' = lease
  /\ quits' = 0
  /\ pc' = "loaded"
  /\ UNCHANGED <<lease, event, answer, machine, opState, initial, states, tasks>>

\* loadState; then the loop is connected to started and stopped.
LoadState ==
  /\ pc = "begun"
  /\ data' = lease
  /\ initial' = lease
  /\ quits' = 0
  /\ pc' = "loaded"
  /\ UNCHANGED <<lease, event, answer, machine, opState, states, tasks>>

StopForInit ==
  /\ pc = "loaded"
  /\ StopMachine
  /\ pc' = "stopping"
  /\ UNCHANGED <<lease, event, quits, answer, run, mode, cascade, shared>>

\* Mutant: start() follows stop() without waiting for stopped().
StartUnwaited ==
  /\ pc = "stopping"
  /\ quits' = quits - 1
  /\ StartMachine
  /\ pc' = "starting"
  /\ UNCHANGED <<lease, event, answer, stop, mode, cascade, shared>>

\* loop.exec() returns; the machine is started again.
StartForInit ==
  /\ pc = "stopping" /\ quits > 0
  /\ quits' = quits - 1
  /\ StartMachine
  /\ pc' = "starting"
  /\ UNCHANGED <<lease, event, answer, stop, mode, cascade, shared>>

\* Mutant: init returns without waiting for started().
EndInitUnwaited ==
  /\ pc = "starting"
  /\ quits' = 0
  /\ pc' = "started"
  /\ UNCHANGED <<lease, event, answer, machine, shared>>

EndInit ==
  /\ pc = "starting" /\ quits > 0
  /\ quits' = 0
  /\ pc' = "started"
  /\ UNCHANGED <<lease, event, answer, machine, shared>>

InitTimeout ==
  /\ \/ pc = "stopping" /\ TimerFires("stop")
     \/ pc = "starting" /\ TimerFires("start")
  /\ opState' = "ERROR"
  /\ Fail
  /\ quits' = 0
  /\ UNCHANGED <<lease, event, machine, data, initial, states, tasks>>

-----------------------------------------------------------------------------
(* The caller's thread: getState, at the end of init, in result and for get. *)

\* Where getState is called, and where it has set PENDING.
Getting == [started |-> "initialised", succeeded |-> "resulting", looking |-> "returning"]

BeginGetState ==
  /\ pc \in DOMAIN Getting
  /\ opState' = "PENDING"
  /\ pc' = Getting[pc]
  /\ UNCHANGED <<lease, event, quits, answer, machine, data, initial, states, tasks>>

\* init returns what getState has found.
ReturnInit ==
  /\ pc = "initialised"
  /\ opState' = "SUCCESS"
  /\ pc' = "ready"
  /\ UNCHANGED <<lease, event, quits, answer, machine, data, initial, states, tasks>>

-----------------------------------------------------------------------------
(* The caller's thread: machine:send_event. *)

\* The event's data is refused, or the machine is released without one.
Release ==
  /\ pc = "ready"
  /\ Fail
  /\ UNCHANGED <<lease, event, quits, machine, shared>>

\* is_running() is asked again before the event and before get(); send_event does not look
\* at what get() returns: on a machine that is not running it indexes nil, an error too.
CheckRunningAgain ==
  /\ pc \in {"ready", "getting"}
  /\ IF run # "Running" THEN Fail
     ELSE pc' = (IF pc = "ready" THEN "sending" ELSE "looking") /\ UNCHANGED answer
  /\ UNCHANGED <<lease, event, quits, machine, shared>>

\* resetStatus, PENDING, externalSignal.
SendEvent(kind) ==
  /\ pc = "sending"
  /\ event' = kind
  /\ opState' = "PENDING"
  /\ inbox' = Append(inbox, kind)
  /\ quits' = 0
  /\ pc' = "waiting"
  /\ UNCHANGED <<lease, answer, run, stop, mode, cascade, data, initial, states, tasks>>

Woken ==
  /\ pc = "waiting" /\ quits > 0
  /\ pc' = "judging"
  /\ UNCHANGED <<lease, event, quits, answer, machine, shared>>

\* Mutant: the timeout is not recorded as an error.
EventTimeoutUnnoticed ==
  /\ pc = "waiting" /\ TimerFires("event")
  /\ pc' = "judging"
  /\ UNCHANGED <<lease, event, quits, answer, machine, shared>>

EventTimeout ==
  /\ pc = "waiting" /\ TimerFires("event")
  /\ opState' = "ERROR"
  /\ pc' = "judging"
  /\ UNCHANGED <<lease, event, quits, answer, machine, data, initial, states, tasks>>

\* opState is read ...
Judge ==
  /\ pc = "judging"
  /\ pc' = IF opState = "ERROR" THEN "failing" ELSE "succeeding"
  /\ UNCHANGED <<lease, event, quits, answer, machine, shared>>

\* ... and written.
Conclude ==
  /\ pc \in {"failing", "succeeding"}
  /\ opState' = IF pc = "failing" THEN "ERROR" ELSE "SUCCESS"
  /\ pc' = "concluded"
  /\ UNCHANGED <<lease, event, quits, answer, machine, data, initial, states, tasks>>

\* Mutant: a call that fails is tried again, however often.
ResultRetrying ==
  /\ pc = "concluded"
  /\ pc' = IF opState = "ERROR" THEN "sending" ELSE "succeeded"
  /\ UNCHANGED <<lease, event, quits, answer, machine, shared>>

\* result(): an error is what it returns, and resetInitialStates() follows; else getState.
Result ==
  /\ pc = "concluded"
  /\ IF opState = "ERROR" THEN Fail /\ initial' = Nobody
     ELSE pc' = "succeeded" /\ UNCHANGED <<answer, initial>>
  /\ UNCHANGED <<lease, event, quits, machine, opState, data, states, tasks>>

\* ... which ends; resetInitialStates().
ReturnResult ==
  /\ pc = "resulting"
  /\ opState' = "SUCCESS"
  /\ initial' = Nobody
  /\ pc' = "getting"
  /\ UNCHANGED <<lease, event, quits, answer, machine, data, states, tasks>>

\* self:get() is what is returned.
Get ==
  /\ pc = "returning"
  /\ opState' = "SUCCESS"
  /\ answer' = [status |-> "ok", product |-> lease, data |-> data, states |-> states, tasks |-> tasks]
  /\ pc' = "free"
  /\ UNCHANGED <<lease, event, quits, machine, data, initial, states, tasks>>

-----------------------------------------------------------------------------
(* The machine's thread. *)

\* started() and stopped() quit the loop of init, transitionCompleted() and machineError()
\* that of externalEventProcess, as long as it exists.
WakeInit  == quits' = IF pc \in {"loaded", "stopping", "starting"} THEN quits + 1 ELSE quits
WakeEvent == quits' = IF pc = "waiting" THEN quits + 1 ELSE quits

\* QStateMachinePrivate::_q_start
TakeStart ==
  /\ mode = "idle" /\ inbox # <<>> /\ Head(inbox) = "start"
  /\ inbox' = Tail(inbox)
  /\ run' = "Running"
  /\ cascade' = <<>>
  /\ mode' = "entering"
  /\ UNCHANGED <<caller, stop, shared>>

\* The handlers of the states entered do nothing if opState is INIT.  Else they take the
\* event of the start for a signal, which is undefined: they do nothing, or something.
\* The top state is the last table's whatever resetInitialStates() has done.
EnterInitialStates ==
  /\ mode = "entering"
  /\ states' = initial
  /\ mode' \in IF opState = "INIT" THEN {"entered"} ELSE {"entered", "blundering"}
  /\ UNCHANGED <<caller, run, stop, inbox, cascade, opState, data, initial, tasks>>

EmitStarted ==
  /\ mode = "entered"
  /\ WakeInit
  /\ mode' = "processing"
  /\ UNCHANGED <<pc, lease, event, answer, run, stop, inbox, cascade, shared>>

\* A queued call of _q_process, or the caller's signal; neither matters to a machine that
\* is not running.
TakeCall ==
  /\ mode = "idle" /\ inbox # <<>> /\ Head(inbox) # "start"
  /\ inbox' = Tail(inbox)
  /\ IF run # "Running" THEN UNCHANGED <<mode, cascade>>
     ELSE /\ mode' = "processing"
          /\ cascade' = IF Head(inbox) \in Kinds THEN cascade \o Steps[Head(inbox)] ELSE cascade
  /\ UNCHANGED <<caller, run, stop, shared>>

StopProcessing ==
  /\ mode = "processing" /\ stop
  /\ stop' = FALSE
  /\ run' = "NotRunning"
  /\ mode' = "idle"
  /\ WakeInit
  /\ UNCHANGED <<pc, lease, event, answer, inbox, cascade, shared>>

EndProcessing ==
  /\ mode = "processing" /\ ~stop /\ cascade = <<>>
  /\ mode' = "idle"
  /\ UNCHANGED <<caller, run, stop, inbox, cascade, shared>>

NextStep(step) ==
  /\ mode = "processing" /\ ~stop
  /\ cascade # <<>> /\ Head(cascade) = step
  /\ cascade' = Tail(cascade)

\* Every handler but the exit of suspended looks at opState first and returns on INIT, and
\* then emits nothing that would go on.
Handler ==
  /\ mode = "processing" /\ ~stop
  /\ cascade # <<>> /\ Head(cascade) = "change"
  /\ \/ opState = "INIT" /\ cascade' = <<>> /\ UNCHANGED mode
     \/ cascade' = Tail(cascade) /\ mode' = "handling"
  /\ UNCHANGED <<caller, run, stop, inbox, shared>>

\* ... and then changes the product and adds its tasks.
HandlerChanges ==
  /\ \/ mode = "handling" /\ mode' = "processing"
     \/ mode = "blundering" /\ mode' = "entered"
  /\ tasks' = tasks \cup {states}
  /\ UNCHANGED <<caller, run, stop, inbox, cascade, opState, data, initial, states>>

Complete ==
  /\ NextStep("complete")
  /\ WakeEvent
  /\ UNCHANGED <<pc, lease, event, answer, run, stop, inbox, mode, shared>>

Quiet ==
  /\ NextStep("quiet")
  /\ UNCHANGED <<caller, run, stop, inbox, mode, shared>>

\* Mutant: the loop is not connected to machineError.
MachineErrorUnheard ==
  /\ NextStep("fail")
  /\ opState' = "ERROR"
  /\ UNCHANGED <<caller, run, stop, inbox, mode, data, initial, states, tasks>>

\* onMachineError is connected before the loop is.
MachineError ==
  /\ NextStep("fail")
  /\ opState' = "ERROR"
  /\ WakeEvent
  /\ UNCHANGED <<pc, lease, event, answer, run, stop, inbox, mode, data, initial, states, tasks>>

CallerStep ==
  \/ BeginInit \/ LoadState \/ StopForInit \/ StartForInit \/ EndInit \/ InitTimeout
  \/ BeginGetState \/ ReturnInit
  \/ Release \/ CheckRunningAgain \/ \E kind \in Sent : SendEvent(kind)
  \/ Woken \/ EventTimeout \/ Judge \/ Conclude \/ Result \/ ReturnResult \/ Get

MachineStep ==
  \/ TakeStart \/ EnterInitialStates \/ EmitStarted
  \/ TakeCall \/ StopProcessing \/ EndProcessing
  \/ Handler \/ HandlerChanges \/ Complete \/ Quiet \/ MachineError

Next == (\E p \in Products : CheckRunning(p)) \/ CallerStep \/ MachineStep

\* Both threads keep running; nobody has to lease the machine.
Spec == Init /\ [][Next]_vars /\ WF_vars(CallerStep) /\ WF_vars(MachineStep)

-----------------------------------------------------------------------------
(* Properties. *)

TypeOK ==
  /\ pc \in {"free", "checked", "begun", "loaded", "stopping", "starting", "started", "initialised",
             "ready", "sending", "waiting", "judging", "failing", "succeeding", "concluded",
             "succeeded", "resulting", "getting", "looking", "returning"}
  /\ lease \in Owners /\ event \in Kinds /\ quits \in Nat
  /\ answer = Refused \/ answer.status = "ok"
  /\ run \in {"NotRunning", "Starting", "Running"} /\ stop \in BOOLEAN
  /\ inbox \in Seq(Kinds \cup {"start", "process"})
  /\ mode \in {"idle", "entering", "entered", "processing", "handling", "blundering"}
  /\ cascade \in Seq({"change", "complete", "quiet", "fail"})
  /\ opState \in {"IDLE", "INIT", "PENDING", "SUCCESS", "ERROR"}
  /\ data \in Owners /\ initial \in Owners /\ states \in Owners /\ tasks \subseteq Owners

\* A successful answer is about the product the machine was leased for: its record, its
\* states, and tasks of its handlers alone.
OwnAnswer ==
  answer.status = "ok" =>
    answer.data = answer.product /\ answer.states = answer.product /\ answer.tasks \subseteq {answer.product}

\* No error is lost: a call is answered 1 only if its own event was carried through, and not
\* if its cascade has failed, has outlasted the wait, or was never begun.
ErrorsReported == pc = "free" /\ answer.status = "ok" => event = "done"

\* The states a product is loaded in are entered in silence: their handlers see INIT.
SilentLoad == [][EnterInitialStates => opState = "INIT"]_vars

\* No wake-up is lost: a wait that the machine's thread has nothing more to add to will
\* be ended by a call already queued, and not by its timer.
NoLostWakeUp ==
  MachineQuiet =>
    /\ pc \in {"stopping", "starting"} => quits > 0
    /\ pc = "waiting" /\ event \in {"done", "fails", "proceeds"} => quits > 0

\* A machine that nobody uses is running, or about to.
StaysUsable == pc = "free" /\ MachineQuiet => run = "Running"

\* Each call returns.
CallsReturn == pc # "free" ~> pc = "free"
=============================================================================
