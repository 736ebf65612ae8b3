---------------------------- MODULE PIServiceProofs ----------------------------
(***************************************************************************)
(* Proofs about PIService, for any set of products and any backlog.         *)
(***************************************************************************)
EXTENDS PIService, SequenceTheorems, TLAPS

\* What the machine's thread can be called for, besides starting.
Calls == {"process"} \cup Kinds

StepKinds == {"change", "complete", "quiet", "fail"}

\* x is the last of s, and the only one that is not in S.
AtEnd(s, x, S) == \E front \in Seq(S) : s = Append(front, x)

LEMMA KindsAre == Kinds = {"done", "fails", "proceeds", "stalls", "unknown"}
  BY DEF Kinds, Steps

LEMMA StepsAre ==
  /\ Steps["done"] = <<"change", "complete", "quiet">>
  /\ Steps["fails"] = <<"change", "fail">>
  /\ Steps["proceeds"] = <<"fail", "change", "complete">>
  /\ Steps["stalls"] = <<"change">>
  /\ Steps["unknown"] = <<>>
  BY DEF Steps

LEMMA StepsType == \A kind \in Kinds : Steps[kind] \in Seq(StepKinds)
  <1>1. /\ <<"change", "complete", "quiet">> \in Seq(StepKinds)
        /\ <<"change", "fail">> \in Seq(StepKinds)
        /\ <<"fail", "change", "complete">> \in Seq(StepKinds)
        /\ <<"change">> \in Seq(StepKinds)
        /\ <<>> \in Seq(StepKinds)
    BY DEF StepKinds
  <1> QED BY <1>1, KindsAre, StepsAre, Zenon

LEMMA GettingIs ==
  /\ DOMAIN Getting = {"started", "succeeded", "looking"}
  /\ Getting["started"] = "initialised"
  /\ Getting["succeeded"] = "resulting"
  /\ Getting["looking"] = "returning"
  BY DEF Getting

LEMMA TailAtEnd ==
  ASSUME NEW S, NEW x, x \notin S, NEW s, AtEnd(s, x, S)
  PROVE  /\ s # <<>>
         /\ Head(s) = x => Tail(s) = <<>>
         /\ Head(s) # x => Head(s) \in S /\ AtEnd(Tail(s), x, S)
  <1>1. PICK front \in Seq(S) : s = Append(front, x)
    BY DEF AtEnd
  <1>2. CASE front = <<>>
    BY <1>1, <1>2
  <1>3. CASE front # <<>>
    <2>1. Head(s) = Head(front) /\ Head(front) \in S /\ Tail(front) \in Seq(S) /\ s # <<>>
      BY <1>1, <1>3
    <2>2. Tail(s) = Append(Tail(front), x)
      BY <1>1, <1>3
    <2> QED BY <2>1, <2>2 DEF AtEnd
  <1> QED BY <1>2, <1>3

-----------------------------------------------------------------------------
(* Type correctness. *)

Queued == Kinds \cup {"start", "process"}

LEMMA StartStopTypes ==
  ASSUME run \in {"NotRunning", "Starting", "Running"}, inbox \in Seq(Queued), stop \in BOOLEAN
  PROVE  /\ StartMachine => run' \in {"NotRunning", "Starting", "Running"} /\ inbox' \in Seq(Queued)
         /\ StopMachine => stop' \in BOOLEAN /\ inbox' \in Seq(Queued)
  <1>1. Append(inbox, "start") \in Seq(Queued) /\ Append(inbox, "process") \in Seq(Queued)
    BY DEF Queued
  <1>2. StartMachine => run' \in {"NotRunning", "Starting", "Running"} /\ inbox' \in Seq(Queued)
    BY <1>1 DEF StartMachine
  <1>3. StopMachine => inbox' \in Seq(Queued)
    BY <1>1 DEF StopMachine
  <1>4. StopMachine => stop' \in BOOLEAN
    BY Zenon DEF StopMachine
  <1> QED BY <1>2, <1>3, <1>4

LEMMA TypeStep == TypeOK /\ [Next]_vars => TypeOK'
  <1> SUFFICES ASSUME TypeOK, [Next]_vars PROVE TypeOK'
    OBVIOUS
  <1> USE DEF caller, machine, shared, Owners, Refused
  <1>q. inbox \in Seq(Queued) /\ cascade \in Seq(StepKinds) /\ quits \in Nat
    BY DEF TypeOK, Queued, StepKinds
  <1>h. /\ inbox # <<>> => Head(inbox) \in Queued /\ Tail(inbox) \in Seq(Queued)
        /\ cascade # <<>> => Tail(cascade) \in Seq(StepKinds)
    BY <1>q
  <1>1. ASSUME NEW p \in Products, CheckRunning(p) PROVE TypeOK'
    BY <1>1 DEF CheckRunning, Fail, TypeOK
  <1>2. CASE BeginInit \/ LoadState
    BY <1>2 DEF BeginInit, LoadState, TypeOK
  <1>3. CASE StopForInit
    BY <1>3, <1>q, StartStopTypes DEF StopForInit, TypeOK, Queued
  <1>4. CASE StartForInit
    BY <1>4, <1>q, StartStopTypes DEF StartForInit, TypeOK, Queued
  <1>5. CASE EndInit \/ InitTimeout \/ ReturnInit \/ Release \/ CheckRunningAgain
    BY <1>5 DEF EndInit, InitTimeout, ReturnInit, Release, CheckRunningAgain, Fail, TypeOK
  <1>15. CASE BeginGetState
    <2>1. pc' \in {"initialised", "resulting", "returning"}
      BY <1>15, GettingIs DEF BeginGetState
    <2> QED BY <1>15, <2>1 DEF BeginGetState, TypeOK
  <1>6. ASSUME NEW kind \in Sent, SendEvent(kind) PROVE TypeOK'
    <2>1. inbox' \in Seq(Queued)
      BY <1>6, <1>q, SentAssumption DEF SendEvent, Queued
    <2> QED BY <1>6, <2>1, SentAssumption DEF SendEvent, TypeOK, Queued
  <1>7. CASE Woken \/ EventTimeout \/ Judge \/ Conclude
    BY <1>7 DEF Woken, EventTimeout, Judge, Conclude, TypeOK
  <1>16. CASE Result \/ ReturnResult \/ Get
    BY <1>16 DEF Result, ReturnResult, Get, Fail, TypeOK
  <1>8. CASE TakeStart
    BY <1>8, <1>h DEF TakeStart, TypeOK, Queued
  <1>9. CASE EnterInitialStates \/ EmitStarted \/ StopProcessing \/ EndProcessing
    <2>1. quits' \in Nat
      BY <1>9, <1>q DEF EnterInitialStates, EmitStarted, StopProcessing, EndProcessing, WakeInit
    <2>2. mode' \in {"idle", "entered", "processing", "blundering"}
      BY <1>9 DEF EnterInitialStates, EmitStarted, StopProcessing, EndProcessing
    <2>3. run' \in {"NotRunning", "Starting", "Running"} /\ stop' \in BOOLEAN /\ states' \in Owners
      BY <1>9 DEF EnterInitialStates, EmitStarted, StopProcessing, EndProcessing, TypeOK
    <2> QED BY <1>9, <2>1, <2>2, <2>3 DEF EnterInitialStates, EmitStarted, StopProcessing, EndProcessing, TypeOK
  <1>10. CASE TakeCall
    <2>1. inbox' \in Seq(Queued)
      BY <1>10, <1>h DEF TakeCall
    <2>2. cascade' \in Seq(StepKinds)
      <3>1. CASE run = "Running" /\ Head(inbox) \in Kinds
        <4>1. Steps[Head(inbox)] \in Seq(StepKinds)
          BY <3>1, StepsType
        <4>2. cascade' = cascade \o Steps[Head(inbox)]
          BY <1>10, <3>1 DEF TakeCall
        <4>3. cascade \o Steps[Head(inbox)] \in Seq(StepKinds)
          BY <1>q, <4>1, ConcatProperties
        <4> QED BY <4>2, <4>3
      <3>2. CASE ~(run = "Running" /\ Head(inbox) \in Kinds)
        BY <1>10, <1>q, <3>2 DEF TakeCall
      <3> QED BY <3>1, <3>2
    <2> QED BY <1>10, <2>1, <2>2 DEF TakeCall, TypeOK, Queued, StepKinds
  <1>11. CASE Handler
    <2>1. cascade' \in Seq(StepKinds)
      <3>1. <<>> \in Seq(StepKinds)
        OBVIOUS
      <3> QED BY <1>11, <1>h, <3>1 DEF Handler
    <2> QED BY <1>11, <2>1 DEF Handler, TypeOK, StepKinds
  <1>12. CASE HandlerChanges
    BY <1>12 DEF HandlerChanges, TypeOK
  <1>13. CASE Complete \/ Quiet \/ MachineError
    <2>1. cascade' \in Seq(StepKinds)
      BY <1>13, <1>h DEF Complete, Quiet, MachineError, NextStep
    <2>2. quits' \in Nat
      BY <1>13, <1>q DEF Complete, Quiet, MachineError, WakeEvent
    <2> QED BY <1>13, <2>1, <2>2 DEF Complete, Quiet, MachineError, NextStep, TypeOK, StepKinds
  <1>14. CASE UNCHANGED vars
    BY <1>14 DEF vars, TypeOK
  <1> QED BY <1>1, <1>2, <1>3, <1>4, <1>5, <1>6, <1>7, <1>8, <1>9, <1>10, <1>11, <1>12, <1>13, <1>14,
             <1>15, <1>16
          DEF Next, CallerStep, MachineStep

LEMMA TypeInit == Init => TypeOK
  <1> SUFFICES ASSUME Init PROVE TypeOK
    OBVIOUS
  <1>1. inbox \in Seq(Queued) /\ cascade \in Seq(StepKinds)
    BY DEF Init
  <1> QED BY <1>1, KindsAre DEF Init, TypeOK, Queued, StepKinds, Owners, Nobody

\* Whatever wait is outlasted, both threads stay where the code can be, and the queues hold
\* calls the machine's thread knows.
THEOREM ServiceTypeCorrect == Spec => []TypeOK
  BY TypeInit, TypeStep, PTL DEF Spec

-----------------------------------------------------------------------------
(* Lemmas about queues. *)

\* One of s is in S.
Has(s, S) == \E i \in DOMAIN s : s[i] \in S

LEMMA HasAppend ==
  ASSUME NEW T, NEW s \in Seq(T), NEW x, NEW S
  PROVE  Has(Append(s, x), S) <=> Has(s, S) \/ x \in S
  <1>1. /\ Len(s) \in Nat /\ DOMAIN s = 1..Len(s) /\ DOMAIN Append(s, x) = 1..(Len(s) + 1)
        /\ Append(s, x)[Len(s) + 1] = x /\ \A i \in 1..Len(s) : Append(s, x)[i] = s[i]
    OBVIOUS
  <1>2. \A i : i \in 1..(Len(s) + 1) <=> i \in 1..Len(s) \/ i = Len(s) + 1
    BY <1>1
  <1> QED BY <1>1, <1>2 DEF Has

LEMMA HasTail ==
  ASSUME NEW T, NEW s \in Seq(T), NEW S, s # <<>>
  PROVE  Has(s, S) <=> Head(s) \in S \/ Has(Tail(s), S)
  <1>1. /\ Len(s) \in Nat \ {0} /\ DOMAIN s = 1..Len(s) /\ DOMAIN Tail(s) = 1..(Len(s) - 1)
        /\ Head(s) = s[1] /\ \A i \in 1..(Len(s) - 1) : Tail(s)[i] = s[i + 1]
    OBVIOUS
  <1>2. ASSUME Has(s, S) PROVE Head(s) \in S \/ Has(Tail(s), S)
    <2>1. PICK i \in 1..Len(s) : s[i] \in S
      BY <1>1, <1>2 DEF Has
    <2>2. CASE i = 1
      BY <1>1, <2>1, <2>2
    <2>3. CASE i # 1
      <3>1. i - 1 \in 1..(Len(s) - 1) /\ (i - 1) + 1 = i
        BY <1>1, <2>3
      <3> QED BY <1>1, <2>1, <3>1 DEF Has
    <2> QED BY <2>2, <2>3
  <1>3. ASSUME Head(s) \in S PROVE Has(s, S)
    BY <1>1, <1>3 DEF Has
  <1>4. ASSUME Has(Tail(s), S) PROVE Has(s, S)
    <2>1. PICK i \in 1..(Len(s) - 1) : Tail(s)[i] \in S
      BY <1>1, <1>4 DEF Has
    <2>2. i + 1 \in 1..Len(s) /\ s[i + 1] \in S
      BY <1>1, <2>1
    <2> QED BY <1>1, <2>2 DEF Has
  <1> QED BY <1>2, <1>3, <1>4

LEMMA HasConcat ==
  ASSUME NEW T, NEW s \in Seq(T), NEW t \in Seq(T), NEW S, Has(s, S) \/ Has(t, S)
  PROVE  Has(s \o t, S)
  <1>1. /\ Len(s) \in Nat /\ Len(t) \in Nat
        /\ DOMAIN s = 1..Len(s) /\ DOMAIN t = 1..Len(t) /\ DOMAIN (s \o t) = 1..(Len(s) + Len(t))
    OBVIOUS
  <1>2. CASE Has(s, S)
    <2>1. PICK i \in 1..Len(s) : s[i] \in S
      BY <1>1, <1>2 DEF Has
    <2>2. i \in 1..(Len(s) + Len(t)) /\ (s \o t)[i] = s[i]
      BY <1>1, <2>1
    <2> QED BY <1>1, <2>1, <2>2 DEF Has
  <1>3. CASE Has(t, S)
    <2>1. PICK i \in 1..Len(t) : t[i] \in S
      BY <1>1, <1>3 DEF Has
    <2>2. Len(s) + i \in 1..(Len(s) + Len(t)) /\ (s \o t)[Len(s) + i] = t[i]
      BY <1>1, <2>1
    <2> QED BY <1>1, <2>1, <2>2 DEF Has
  <1> QED BY <1>2, <1>3

-----------------------------------------------------------------------------
(* A machine whose stop() and start() are never given up stays usable, and no  *)
(* wake-up is lost.                                                           *)

Loading == {"entering", "entered", "blundering"}
Wakes == {"complete", "fail"}

\* The kinds of events whose steps have one of them.
Waking == {"done", "fails", "proceeds"}

\* A start that is queued is the last call of all, and init is waiting for it.
StartQueued ==
  IF run = "Starting" THEN pc = "starting" /\ quits = 0 /\ mode = "idle" /\ AtEnd(inbox, "start", Calls)
                      ELSE inbox \in Seq(Calls)

\* init waits for the machine to stop exactly as long as it has not.
StopAwaited ==
  /\ run = "NotRunning" => pc = "stopping" /\ quits = 1 /\ mode = "idle"
  /\ stop => pc = "stopping" /\ quits = 0 /\ run = "Running" /\ (mode # "idle" \/ inbox # <<>>)
  /\ pc = "stopping" => run = "NotRunning" \/ stop
  /\ pc = "loaded" => quits = 0

\* ... and for it to start.
LoadAwaited ==
  /\ mode \in Loading => pc = "starting" /\ quits = 0 /\ run = "Running"
  /\ pc = "starting" => run = "Starting" \/ mode \in Loading \/ quits > 0

\* An event that ends in a wake-up is queued, or at work, or has woken the caller.
EventAwaited ==
  pc = "waiting" =>
    /\ opState # "INIT"
    /\ event \in Waking =>
         quits > 0 \/ Has(inbox, {event}) \/ (mode # "idle" /\ Has(cascade, Wakes))

UsableInv == TypeOK /\ StartQueued /\ StopAwaited /\ LoadAwaited /\ EventAwaited

LEMMA WakingSteps == \A kind \in Waking : Has(Steps[kind], Wakes)
  <1>1. /\ DOMAIN <<"change", "complete", "quiet">> = 1..3
        /\ <<"change", "complete", "quiet">>[2] = "complete"
        /\ DOMAIN <<"change", "fail">> = 1..2
        /\ <<"change", "fail">>[2] = "fail"
        /\ DOMAIN <<"fail", "change", "complete">> = 1..3
        /\ <<"fail", "change", "complete">>[1] = "fail"
    OBVIOUS
  <1>2. /\ Has(<<"change", "complete", "quiet">>, Wakes)
        /\ Has(<<"change", "fail">>, Wakes)
        /\ Has(<<"fail", "change", "complete">>, Wakes)
    BY <1>1 DEF Has, Wakes
  <1> QED BY <1>2, StepsAre, Zenon DEF Waking

LEMMA UsableInit == Init => UsableInv
  <1> SUFFICES ASSUME Init PROVE UsableInv
    OBVIOUS
  <1>1. <<>> \in Seq(Calls)
    OBVIOUS
  <1> QED BY <1>1, TypeInit DEF Init, UsableInv, StartQueued, StopAwaited, LoadAwaited, EventAwaited, Loading

LEMMA UsableStep ==
  ASSUME Slow \subseteq {"event"}, UsableInv, [Next]_vars
  PROVE  UsableInv'
  <1> USE DEF caller, machine, shared
  <1>t. TypeOK'
    BY TypeStep DEF UsableInv
  <1>q. /\ inbox \in Seq(Queued) /\ cascade \in Seq(StepKinds) /\ quits \in Nat
        /\ pc = "starting" => run = "Starting" \/ mode \in Loading \/ quits > 0
    BY DEF UsableInv, LoadAwaited, TypeOK, Queued, StepKinds
  <1>k. Calls = {"process", "done", "fails", "proceeds", "stalls", "unknown"} /\ "start" \notin Calls
    BY KindsAre DEF Calls
  <1>i. /\ inbox # <<>> => \A S : Has(inbox, S) <=> Head(inbox) \in S \/ Has(Tail(inbox), S)
        /\ cascade # <<>> => \A S : Has(cascade, S) <=> Head(cascade) \in S \/ Has(Tail(cascade), S)
    BY <1>q, HasTail
  <1>j. /\ inbox # <<>> /\ inbox \in Seq(Calls) => Head(inbox) \in Calls /\ Tail(inbox) \in Seq(Calls)
        /\ AtEnd(inbox, "start", Calls) =>
             /\ inbox # <<>>
             /\ Head(inbox) = "start" => Tail(inbox) = <<>>
             /\ Head(inbox) # "start" => AtEnd(Tail(inbox), "start", Calls)
        /\ <<>> \in Seq(Calls)
    <2>1. inbox # <<>> /\ inbox \in Seq(Calls) => Head(inbox) \in Calls /\ Tail(inbox) \in Seq(Calls)
      OBVIOUS
    <2>2. ASSUME AtEnd(inbox, "start", Calls)
          PROVE  /\ inbox # <<>>
                 /\ Head(inbox) = "start" => Tail(inbox) = <<>>
                 /\ Head(inbox) # "start" => AtEnd(Tail(inbox), "start", Calls)
      <3>1. "start" \notin Calls
        BY <1>k
      <3> QED BY ONLY <3>1, <2>2, TailAtEnd
    <2>3. <<>> \in Seq(Calls)
      OBVIOUS
    <2> QED BY <2>1, <2>2, <2>3
  <1>e. ~Has(<<>>, Wakes)
    BY DEF Has
  <1> DEFINE Rest == /\ StartQueued /\ StopAwaited /\ LoadAwaited /\ EventAwaited
  <1> SUFFICES Rest'
    BY <1>t DEF UsableInv
  <1> USE DEF UsableInv, Rest, StartQueued, StopAwaited, LoadAwaited, EventAwaited
  <1>1. ASSUME NEW p \in Products, CheckRunning(p) PROVE Rest'
    BY <1>1 DEF CheckRunning, Fail
  <1>2. CASE BeginInit
    BY <1>2 DEF BeginInit
  <1>3. CASE LoadState
    BY <1>3 DEF LoadState
  <1>4. CASE StopForInit
    <2>1. run = "Running" /\ ~stop /\ inbox \in Seq(Calls)
      BY <1>4 DEF StopForInit, TypeOK
    <2>2. inbox' = Append(inbox, "process") /\ stop' = TRUE
      BY <1>4, <2>1 DEF StopForInit, StopMachine
    <2>3. inbox' \in Seq(Calls) /\ inbox' # <<>>
      BY <2>1, <2>2, <1>k
    <2> QED BY <1>4, <2>1, <2>2, <2>3 DEF StopForInit
  <1>5. CASE StartForInit
    <2>1. run = "NotRunning" /\ ~stop /\ inbox \in Seq(Calls) /\ quits = 1 /\ mode = "idle"
      BY <1>5 DEF StartForInit
    <2>2. AtEnd(inbox', "start", Calls)
      BY <1>5, <2>1 DEF StartForInit, StartMachine, AtEnd
    <2> QED BY <1>5, <2>1, <2>2 DEF StartForInit, StartMachine, Loading
  <1>6. CASE EndInit
    BY <1>6 DEF EndInit
  <1>7. CASE InitTimeout
    <2>1. MachineQuiet /\ quits = 0
      BY <1>7 DEF InitTimeout, TimerFires
    <2>2. pc # "stopping"
      BY <2>1 DEF MachineQuiet
    <2>3. pc # "starting"
      BY <2>1, <1>q, <1>j DEF MachineQuiet, Loading
    <2> QED BY <1>7, <2>2, <2>3 DEF InitTimeout
  <1>8. CASE ReturnInit \/ Release \/ CheckRunningAgain
    BY <1>8 DEF ReturnInit, Release, CheckRunningAgain, Fail
  <1>22. CASE BeginGetState
    <2>1. pc' \in {"initialised", "resulting", "returning"} /\ pc \in {"started", "succeeded", "looking"}
      BY <1>22, GettingIs DEF BeginGetState
    <2> QED BY <1>22, <2>1 DEF BeginGetState
  <1>9. ASSUME NEW kind \in Sent, SendEvent(kind) PROVE Rest'
    <2>1. inbox' = Append(inbox, kind) /\ run # "Starting"
      BY <1>9 DEF SendEvent
    <2>2. inbox' \in Seq(Calls)
      BY <2>1, SentAssumption DEF Calls
    <2>3. Has(inbox', {kind})
      BY <2>1, <1>q, HasAppend
    <2> QED BY <1>9, <2>1, <2>2, <2>3 DEF SendEvent
  <1>10. CASE Woken \/ EventTimeout \/ Judge \/ Conclude
    BY <1>10 DEF Woken, EventTimeout, Judge, Conclude
  <1>23. CASE Result \/ ReturnResult \/ Get
    BY <1>23 DEF Result, ReturnResult, Get, Fail
  <1>11. CASE TakeStart
    BY <1>11, <1>j, <1>k DEF TakeStart, Loading
  <1>12. CASE EnterInitialStates
    <2>1. mode' \in {"entered", "blundering"}
      BY <1>12 DEF EnterInitialStates
    <2> QED BY <1>12, <2>1 DEF EnterInitialStates, Loading
  <1>13. CASE EmitStarted
    BY <1>13, <1>q DEF EmitStarted, WakeInit, Loading
  <1>14. CASE TakeCall
    <2>1. CASE run = "Running"
      <3>1. Has(inbox, {event}) /\ event \in Waking =>
              Has(Tail(inbox), {event}) \/ Has(cascade', Wakes)
        <4> SUFFICES ASSUME Has(inbox, {event}), event \in Waking, Head(inbox) = event
                     PROVE  Has(cascade', Wakes)
          BY <1>14, <1>i DEF TakeCall
        <4>1. Has(Steps[event], Wakes) /\ Steps[event] \in Seq(StepKinds) /\ event \in Kinds
          BY WakingSteps, StepsType, KindsAre DEF Waking
        <4>2. cascade' = cascade \o Steps[event]
          BY <1>14, <2>1, <4>1 DEF TakeCall
        <4> QED BY <4>1, <4>2, <1>q, HasConcat
      <3>2. mode = "idle" /\ mode' = "processing" /\ inbox' = Tail(inbox) /\ inbox # <<>>
            /\ UNCHANGED <<caller, run, stop, shared>>
        BY <1>14, <2>1 DEF TakeCall
      <3> QED BY <2>1, <3>1, <3>2, <1>j DEF Loading
    <2>2. CASE run = "NotRunning"
      BY <1>14, <2>2, <1>j DEF TakeCall
    <2>3. CASE run = "Starting"
      BY <1>14, <2>3, <1>j DEF TakeCall
    <2> QED BY <2>1, <2>2, <2>3 DEF TypeOK
  <1>15. CASE StopProcessing
    BY <1>15 DEF StopProcessing, WakeInit, Loading
  <1>16. CASE EndProcessing
    BY <1>16, <1>e DEF EndProcessing, Loading
  <1>17. CASE Handler
    BY <1>17, <1>i DEF Handler, Loading, Wakes
  <1>18. CASE HandlerChanges
    BY <1>18 DEF HandlerChanges, Loading
  <1>19. CASE Complete \/ MachineError
    BY <1>19, <1>q DEF Complete, MachineError, NextStep, WakeEvent
  <1>20. CASE Quiet
    BY <1>20, <1>i DEF Quiet, NextStep, Wakes
  <1>21. CASE UNCHANGED vars
    BY <1>21 DEF vars
  <1> QED BY <1>1, <1>2, <1>3, <1>4, <1>5, <1>6, <1>7, <1>8, <1>9, <1>10, <1>11, <1>12, <1>13, <1>14,
             <1>15, <1>16, <1>17, <1>18, <1>19, <1>20, <1>21, <1>22, <1>23
          DEF Next, CallerStep, MachineStep

LEMMA UsableHolds == Slow \subseteq {"event"} => (Spec => []UsableInv)
  <1> SUFFICES ASSUME Slow \subseteq {"event"} PROVE Spec => []UsableInv
    OBVIOUS
  <1>1. UsableInv /\ [Next]_vars => UsableInv'
    BY UsableStep
  <1> QED BY UsableInit, <1>1, PTL DEF Spec

\* Unless it gives up waiting for the machine to stop or to start, a caller leaves every
\* machine running, however its events end.
THEOREM MachinesStayUsable == Slow \subseteq {"event"} => (Spec => []StaysUsable)
  <1>1. UsableInv => StaysUsable
    BY DEF UsableInv, StartQueued, StopAwaited, StaysUsable, TypeOK
  <1> QED BY <1>1, UsableHolds, PTL

\* Under the same condition a caller whose machine has nothing more to add waits only where
\* the call that ends its wait is queued already.
THEOREM WakeUpsArrive == Slow \subseteq {"event"} => (Spec => []NoLostWakeUp)
  <1>1. UsableInv => NoLostWakeUp
    <2> SUFFICES ASSUME UsableInv, MachineQuiet PROVE NoLostWakeUp
      BY DEF NoLostWakeUp
    <2>1. ~Has(inbox, {event}) /\ ~AtEnd(inbox, "start", Calls)
      BY DEF MachineQuiet, Has, AtEnd
    <2> QED BY <2>1 DEF UsableInv, StartQueued, StopAwaited, LoadAwaited, EventAwaited, NoLostWakeUp,
                        MachineQuiet, Loading, Waking, TypeOK
  <1> QED BY <1>1, UsableHolds, PTL

-----------------------------------------------------------------------------
(* A caller that waits until its event is answered, and for start(), has its  *)
(* own product in the machine, even where it gave up on stop() before.        *)

Restarting == {"loaded", "stopping", "starting"}
Served     == {"started", "initialised", "ready", "sending", "waiting", "judging", "failing", "succeeding",
               "concluded", "succeeded", "resulting", "getting", "looking", "returning"}

\* What can be left of the steps of an event whose error is the last of them.
Remainders ==
  {<<"change", "complete", "quiet">>, <<"complete", "quiet">>, <<"quiet">>, <<>>,
   <<"change", "fail">>, <<"fail">>, <<"change">>}

\* Nothing the machine's thread has to do yet changes a product.
Settled == cascade \in {<<>>, <<"quiet">>} /\ mode # "handling"

\* No event and no start is queued.
OnlyProcess == inbox \in Seq({"process"})

\* From loadState() on, the members are the caller's own; its own states are in as well
\* once init has returned.
OwnProduct ==
  /\ pc \in {"begun"} \cup Restarting => opState = "INIT"
  /\ pc \in Restarting => initial = lease
  /\ pc \in Restarting \cup Served => data = lease
  /\ pc \in {"begun"} \cup Restarting \cup Served => tasks \subseteq {lease}
  /\ pc \in Served => states = lease

\* started() is only emitted for the caller's own start, and never by a machine to be stopped.
OwnLoad ==
  /\ pc \in Served => run = "Running" /\ ~stop
  /\ run = "NotRunning" => mode = "idle" /\ ~stop /\ pc # "starting"
  /\ run = "Starting" =>
       pc = "starting" /\ quits = 0 /\ mode = "idle" /\ ~stop /\ AtEnd(inbox, "start", {"process"})
  /\ mode # "blundering"
  /\ mode \in {"entering", "entered"} => pc = "starting" /\ quits = 0 /\ run = "Running"
  /\ mode = "entered" => states = lease
  /\ pc \in {"loaded", "stopping"} /\ quits > 0 => run = "NotRunning" /\ quits = 1
  /\ pc = "starting" =>
       ~stop /\ (run = "Starting" \/ mode \in {"entering", "entered"} \/ (quits > 0 /\ states = lease))

\* An event is queued, or at work, or has woken its caller.
OwnEvent ==
  /\ event # "proceeds"
  /\ mode = "idle" /\ run = "Running" => cascade = <<>>
  /\ pc # "waiting" => Settled /\ (run # "Starting" => OnlyProcess)
  /\ pc = "waiting" =>
       \/ quits = 0 /\ AtEnd(inbox, event, {"process"}) /\ Settled
       \/ quits = 0 /\ OnlyProcess /\ cascade \in Remainders
       \/ quits > 0 /\ OnlyProcess /\ Settled

OwnInv == TypeOK /\ OwnAnswer /\ OwnProduct /\ OwnLoad /\ OwnEvent

LEMMA StepsRemain == \A kind \in Kinds \ {"proceeds"} : Steps[kind] \in Remainders
  BY KindsAre, StepsAre, Zenon DEF Remainders

LEMMA RemaindersShrink ==
  ASSUME NEW s \in Remainders, s # <<>>
  PROVE  /\ Tail(s) \in Remainders
         /\ Head(s) \in Wakes => Tail(s) \in {<<>>, <<"quiet">>}
         /\ s = <<"quiet">> => Head(s) = "quiet" /\ Tail(s) = <<>>
  <1>1. ASSUME NEW x, NEW y, NEW z
        PROVE  /\ Head(<<x, y, z>>) = x /\ Tail(<<x, y, z>>) = <<y, z>>
               /\ Head(<<x, y>>) = x /\ Tail(<<x, y>>) = <<y>>
               /\ Head(<<x>>) = x /\ Tail(<<x>>) = <<>>
    OBVIOUS
  <1>2. CASE s = <<"change", "complete", "quiet">>
    BY <1>1, <1>2 DEF Remainders, Wakes
  <1>3. CASE s = <<"complete", "quiet">>
    BY <1>1, <1>3 DEF Remainders, Wakes
  <1>4. CASE s = <<"quiet">>
    BY <1>1, <1>4 DEF Remainders, Wakes
  <1>5. CASE s = <<"change", "fail">>
    BY <1>1, <1>5 DEF Remainders, Wakes
  <1>6. CASE s = <<"fail">>
    BY <1>1, <1>6 DEF Remainders, Wakes
  <1>7. CASE s = <<"change">>
    BY <1>1, <1>7 DEF Remainders, Wakes
  <1> QED BY <1>2, <1>3, <1>4, <1>5, <1>6, <1>7 DEF Remainders

LEMMA OwnInit == Init => OwnInv
  <1> SUFFICES ASSUME Init PROVE OwnInv
    OBVIOUS
  <1>1. OnlyProcess /\ OwnAnswer
    BY DEF Init, OnlyProcess, OwnAnswer, Refused
  <1> QED BY <1>1, TypeInit DEF Init, OwnInv, OwnProduct, OwnLoad, OwnEvent, Restarting, Served, Settled

LEMMA OwnStep ==
  ASSUME Slow \subseteq {"stop"}, "proceeds" \notin Sent, OwnInv, [Next]_vars
  PROVE  OwnInv'
  <1> USE DEF caller, machine, shared
  <1>t. TypeOK'
    BY TypeStep DEF OwnInv
  <1>q. /\ inbox \in Seq(Queued) /\ cascade \in Seq(StepKinds) /\ quits \in Nat /\ event \in Kinds
        /\ run \in {"NotRunning", "Starting", "Running"}
    BY DEF OwnInv, TypeOK, Queued, StepKinds
  <1>k. Kinds = {"done", "fails", "proceeds", "stalls", "unknown"}
    BY KindsAre
  <1>j. \A x : x # "process" /\ AtEnd(inbox, x, {"process"}) =>
             /\ inbox # <<>>
             /\ Head(inbox) = x => Tail(inbox) = <<>>
             /\ Head(inbox) # x => Head(inbox) = "process" /\ AtEnd(Tail(inbox), x, {"process"})
    <2> SUFFICES ASSUME NEW x, x \notin {"process"}, AtEnd(inbox, x, {"process"})
                 PROVE  /\ inbox # <<>>
                        /\ Head(inbox) = x => Tail(inbox) = <<>>
                        /\ Head(inbox) # x => Head(inbox) \in {"process"} /\ AtEnd(Tail(inbox), x, {"process"})
      OBVIOUS
    <2> QED BY ONLY x \notin {"process"}, AtEnd(inbox, x, {"process"}), TailAtEnd
  <1>p. /\ OnlyProcess /\ inbox # <<>> => Head(inbox) = "process" /\ Tail(inbox) \in Seq({"process"})
        /\ <<>> \in Seq({"process"})
    <2>1. ASSUME NEW s \in Seq({"process"}), s # <<>> PROVE Head(s) \in {"process"} /\ Tail(s) \in Seq({"process"})
      BY <2>1
    <2> QED BY <2>1 DEF OnlyProcess
  <1>r. /\ cascade \in Remainders /\ cascade # <<>> =>
             /\ Tail(cascade) \in Remainders
             /\ Head(cascade) \in Wakes => Tail(cascade) \in {<<>>, <<"quiet">>}
        /\ cascade = <<"quiet">> => Head(cascade) = "quiet" /\ Tail(cascade) = <<>>
        /\ <<>> \in Remainders /\ <<"quiet">> \in Remainders
    <2>1. <<>> \in Remainders /\ <<"quiet">> \in Remainders
      BY DEF Remainders
    <2>2. <<"quiet">> # <<>>
      OBVIOUS
    <2> QED BY <2>1, <2>2, RemaindersShrink
  <1> DEFINE Rest == OwnAnswer /\ OwnProduct /\ OwnLoad /\ OwnEvent
  <1> SUFFICES Rest'
    BY <1>t DEF OwnInv
  <1> USE DEF OwnInv, Rest, OwnProduct, OwnLoad, OwnEvent, Restarting, Served, Settled, OnlyProcess
  <1>1. ASSUME NEW p \in Products, CheckRunning(p) PROVE Rest'
    BY <1>1 DEF CheckRunning, Fail, OwnAnswer, Refused
  <1>2. CASE BeginInit
    BY <1>2 DEF BeginInit, OwnAnswer
  <1>3. CASE LoadState
    BY <1>3 DEF LoadState, OwnAnswer
  <1>4. CASE StopForInit
    <2>1. run = "Running" => inbox' \in Seq({"process"})
      BY <1>4 DEF StopForInit, StopMachine
    <2> QED BY <1>4, <2>1 DEF StopForInit, StopMachine, OwnAnswer
  <1>5. CASE StartForInit
    <2>1. run = "NotRunning" /\ ~stop /\ inbox \in Seq({"process"}) /\ quits = 1 /\ mode = "idle"
      BY <1>5 DEF StartForInit
    <2>2. AtEnd(inbox', "start", {"process"})
      BY <1>5, <2>1 DEF StartForInit, StartMachine, AtEnd
    <2> QED BY <1>5, <2>1, <2>2 DEF StartForInit, StartMachine, OwnAnswer
  <1>6. CASE EndInit
    BY <1>6, <1>q DEF EndInit, OwnAnswer
  <1>7. CASE InitTimeout
    <2>1. pc = "stopping"
      BY <1>7, <1>j DEF InitTimeout, TimerFires, MachineQuiet
    <2> QED BY <1>7, <2>1 DEF InitTimeout, Fail, OwnAnswer, Refused
  <1>8. CASE ReturnInit \/ Release \/ CheckRunningAgain
    BY <1>8 DEF ReturnInit, Release, CheckRunningAgain, Fail, OwnAnswer, Refused
  <1>25. CASE BeginGetState
    <2>1. pc' \in {"initialised", "resulting", "returning"} /\ pc \in {"started", "succeeded", "looking"}
      BY <1>25, GettingIs DEF BeginGetState
    <2> QED BY <1>25, <2>1 DEF BeginGetState, OwnAnswer
  <1>9. ASSUME NEW kind \in Sent, SendEvent(kind) PROVE Rest'
    <2>1. inbox' = Append(inbox, kind) /\ run = "Running" /\ inbox \in Seq({"process"})
      BY <1>9 DEF SendEvent
    <2>2. AtEnd(inbox', kind, {"process"})
      BY <2>1 DEF AtEnd
    <2> QED BY <1>9, <2>1, <2>2 DEF SendEvent, OwnAnswer
  <1>10. CASE Woken
    BY <1>10, <1>q DEF Woken, OwnAnswer
  <1>11. CASE EventTimeout
    <2>1. inbox = <<>> /\ mode = "idle" /\ quits = 0
      BY <1>11 DEF EventTimeout, TimerFires, MachineQuiet
    <2> QED BY <1>11, <2>1, <1>p DEF EventTimeout, OwnAnswer
  <1>12. CASE Judge \/ Conclude
    BY <1>12 DEF Judge, Conclude, OwnAnswer
  <1>26. CASE Result \/ ReturnResult
    BY <1>26 DEF Result, ReturnResult, Fail, OwnAnswer, Refused
  <1>13. CASE Get
    BY <1>13 DEF Get, OwnAnswer
  <1>14. CASE TakeStart
    <2>1. inbox # <<>> /\ Head(inbox) = "start"
      BY <1>14 DEF TakeStart
    <2>2. run = "Starting"
      BY <2>1, <1>j, <1>k, <1>q, <1>p
    <2> QED BY <1>14, <2>1, <2>2, <1>j, <1>p DEF TakeStart, OwnAnswer
  <1>15. CASE EnterInitialStates
    BY <1>15 DEF EnterInitialStates, OwnAnswer
  <1>16. CASE EmitStarted
    BY <1>16, <1>q DEF EmitStarted, WakeInit, OwnAnswer
  <1>17. CASE TakeCall
    <2>1. CASE run # "Running"
      BY <1>17, <2>1, <1>j, <1>p, <1>q DEF TakeCall, OwnAnswer
    <2>2. CASE run = "Running" /\ Head(inbox) \in Kinds
      <3>1. pc = "waiting" /\ Head(inbox) = event /\ inbox' = <<>> /\ quits = 0
        BY <1>17, <2>2, <1>j, <1>p, <1>k, <1>q DEF TakeCall
      <3>2. cascade' \in Remainders
        <4>1. cascade' = <<>> \o Steps[Head(inbox)]
          BY <1>17, <2>2 DEF TakeCall
        <4>2. Steps[Head(inbox)] \in Remainders /\ Steps[Head(inbox)] \in Seq(StepKinds)
          BY <2>2, <3>1, StepsRemain, StepsType
        <4> QED BY <4>1, <4>2, ConcatEmptySeq
      <3> QED BY <1>17, <2>2, <3>1, <3>2, <1>p DEF TakeCall, OwnAnswer
    <2>3. CASE run = "Running" /\ Head(inbox) \notin Kinds
      BY <1>17, <2>3, <1>j, <1>k, <1>p, <1>q DEF TakeCall, OwnAnswer
    <2> QED BY <2>1, <2>2, <2>3
  <1>18. CASE StopProcessing
    BY <1>18, <1>q DEF StopProcessing, WakeInit, OwnAnswer
  <1>19. CASE EndProcessing
    BY <1>19 DEF EndProcessing, OwnAnswer
  <1>20. CASE Handler
    <2>1. pc = "waiting" /\ quits = 0 /\ inbox \in Seq({"process"}) /\ cascade \in Remainders
      BY <1>20, <1>r DEF Handler
    <2>2. cascade' \in Remainders
      BY <1>20, <2>1, <1>r DEF Handler
    <2>3. /\ mode' \in {"processing", "handling"} /\ mode = "processing"
          /\ UNCHANGED <<caller, run, stop, inbox, shared>>
      BY <1>20 DEF Handler
    <2> QED BY <2>1, <2>2, <2>3 DEF OwnAnswer
  <1>21. CASE HandlerChanges
    <2>1. pc = "waiting" /\ states = lease /\ mode = "handling" /\ quits = 0
      BY <1>21 DEF HandlerChanges
    <2> QED BY <1>21, <2>1 DEF HandlerChanges, OwnAnswer
  <1>22. CASE Complete \/ MachineError
    <2>1. Head(cascade) \in Wakes /\ cascade # <<>> /\ cascade' = Tail(cascade) /\ mode = "processing"
      BY <1>22 DEF Complete, MachineError, NextStep, Wakes
    <2>2. pc = "waiting" /\ quits = 0 /\ inbox \in Seq({"process"}) /\ cascade \in Remainders
      BY <2>1, <1>r DEF Wakes
    <2>3. cascade' \in {<<>>, <<"quiet">>}
      BY <2>1, <2>2, <1>r
    <2>4. quits' = 1
      BY <1>22, <2>2 DEF Complete, MachineError, WakeEvent
    <2> QED BY <1>22, <2>1, <2>2, <2>3, <2>4 DEF Complete, MachineError, OwnAnswer
  <1>23. CASE Quiet
    BY <1>23, <1>r DEF Quiet, NextStep, OwnAnswer
  <1>24. CASE UNCHANGED vars
    BY <1>24 DEF vars, OwnAnswer
  <1> QED BY <1>1, <1>2, <1>3, <1>4, <1>5, <1>6, <1>7, <1>8, <1>9, <1>10, <1>11, <1>12, <1>13, <1>14,
             <1>15, <1>16, <1>17, <1>18, <1>19, <1>20, <1>21, <1>22, <1>23, <1>24, <1>25, <1>26
          DEF Next, CallerStep, MachineStep

LEMMA OwnHolds == Slow \subseteq {"stop"} /\ "proceeds" \notin Sent => (Spec => []OwnInv)
  <1> SUFFICES ASSUME Slow \subseteq {"stop"}, "proceeds" \notin Sent PROVE Spec => []OwnInv
    OBVIOUS
  <1>1. OwnInv /\ [Next]_vars => OwnInv'
    BY OwnStep
  <1> QED BY OwnInit, <1>1, PTL DEF Spec

\* A successful answer is about the caller's own product, whatever calls of others were
\* given up while the machine was to stop, if an error is the end of its cascade.
THEOREM AnswersAreOwn == Slow \subseteq {"stop"} /\ "proceeds" \notin Sent => (Spec => []OwnAnswer)
  <1>1. OwnInv => OwnAnswer
    BY DEF OwnInv
  <1> QED BY <1>1, OwnHolds, PTL

\* Under the same condition the states a product is loaded in are entered in silence: their
\* handlers see INIT and return.
THEOREM LoadsAreSilent == Slow \subseteq {"stop"} /\ "proceeds" \notin Sent => (Spec => SilentLoad)
  <1>1. OwnInv /\ [Next]_vars => [EnterInitialStates => opState = "INIT"]_vars
    BY DEF OwnInv, OwnProduct, OwnLoad, EnterInitialStates, Restarting
  <1> QED BY <1>1, OwnHolds, PTL DEF Spec, SilentLoad

-----------------------------------------------------------------------------
(* A caller that waits for stop() and start() as long as they take starts its *)
(* event on a machine that has nothing left of the calls before.              *)

Cleared == inbox = <<>> /\ cascade = <<>>

\* What can be left of the steps of an event until the caller is woken.
Ahead ==
  [done     |-> {<<"change", "complete", "quiet">>, <<"complete", "quiet">>},
   fails    |-> {<<"change", "fail">>, <<"fail">>},
   proceeds |-> {<<"fail", "change", "complete">>},
   stalls   |-> {<<"change">>, <<>>},
   unknown  |-> {<<>>}]

\* From start() to the event there is nothing to do, and a caller that was woken was woken
\* by its own event.
OwnEnd ==
  /\ pc = "starting" /\ run = "Running" => Cleared
  /\ pc \in {"started", "initialised", "ready", "sending"} => Cleared
  /\ pc = "waiting" =>
       \/ quits = 0 /\ inbox = <<event>> /\ cascade = <<>>
       \/ quits = 0 /\ inbox = <<>> /\ cascade \in Ahead[event]
       \/ quits > 0 /\ inbox = <<>> /\ (event = "done" \/ opState = "ERROR")

\* ... and takes it for carried through only if it was.
OwnJudgement ==
  /\ pc \in {"judging", "concluded"} => event = "done" \/ opState = "ERROR"
  /\ pc \in {"succeeding", "succeeded", "resulting", "getting", "looking", "returning"} => event = "done"

ReportedInv == UsableInv /\ OwnEnd /\ OwnJudgement /\ ErrorsReported

LEMMA AheadIs ==
  /\ Ahead["done"] = {<<"change", "complete", "quiet">>, <<"complete", "quiet">>}
  /\ Ahead["fails"] = {<<"change", "fail">>, <<"fail">>}
  /\ Ahead["proceeds"] = {<<"fail", "change", "complete">>}
  /\ Ahead["stalls"] = {<<"change">>, <<>>}
  /\ Ahead["unknown"] = {<<>>}
  BY DEF Ahead

LEMMA AheadSteps ==
  ASSUME NEW kind \in Kinds
  PROVE  /\ Steps[kind] \in Ahead[kind]
         /\ \A s \in Ahead[kind] : s # <<>> =>
              /\ Head(s) # "quiet"
              /\ Head(s) = "change" => Tail(s) \in Ahead[kind]
              /\ Head(s) = "complete" => kind = "done"
  <1>1. ASSUME NEW x, NEW y, NEW z
        PROVE  /\ Head(<<x, y, z>>) = x /\ Tail(<<x, y, z>>) = <<y, z>>
               /\ Head(<<x, y>>) = x /\ Tail(<<x, y>>) = <<y>>
               /\ Head(<<x>>) = x /\ Tail(<<x>>) = <<>>
    OBVIOUS
  <1>2. CASE kind = "done"
    BY <1>1, <1>2, AheadIs, StepsAre
  <1>3. CASE kind = "fails"
    BY <1>1, <1>3, AheadIs, StepsAre
  <1>4. CASE kind = "proceeds"
    BY <1>1, <1>4, AheadIs, StepsAre
  <1>5. CASE kind = "stalls"
    BY <1>1, <1>5, AheadIs, StepsAre
  <1>6. CASE kind = "unknown"
    BY <1>6, AheadIs, StepsAre
  <1> QED BY <1>2, <1>3, <1>4, <1>5, <1>6, KindsAre

LEMMA ReportedStep ==
  ASSUME Slow \subseteq {"event"}, ReportedInv, [Next]_vars
  PROVE  ReportedInv'
  <1> USE DEF caller, machine, shared
  <1>u. UsableInv'
    BY UsableStep DEF ReportedInv
  <1>q. /\ inbox \in Seq(Queued) /\ cascade \in Seq(StepKinds) /\ quits \in Nat /\ event \in Kinds
        /\ run \in {"NotRunning", "Starting", "Running"}
    BY DEF ReportedInv, UsableInv, TypeOK, Queued, StepKinds
  <1>r. /\ run = "NotRunning" => pc = "stopping"
        /\ run = "Starting" => pc = "starting" /\ AtEnd(inbox, "start", Calls)
        /\ run = "Running" => inbox \in Seq(Calls)
        /\ stop => pc = "stopping" /\ quits = 0
        /\ pc = "stopping" => run = "NotRunning" \/ stop
        /\ mode \in Loading => pc = "starting" /\ run = "Running"
        /\ pc = "waiting" => opState # "INIT"
    BY DEF ReportedInv, UsableInv, StartQueued, StopAwaited, LoadAwaited, EventAwaited
  <1>k. "start" \notin Calls /\ "start" \notin Kinds
    BY KindsAre DEF Calls
  <1>h. Head(<<event>>) = event /\ Tail(<<event>>) = <<>> /\ <<event>> # <<>>
    OBVIOUS
  <1>a. /\ Steps[event] \in Ahead[event]
        /\ cascade \in Ahead[event] /\ cascade # <<>> =>
             /\ Head(cascade) # "quiet"
             /\ Head(cascade) = "change" => Tail(cascade) \in Ahead[event]
             /\ Head(cascade) = "complete" => event = "done"
    BY <1>q, AheadSteps
  <1> DEFINE Rest == OwnEnd /\ OwnJudgement /\ ErrorsReported
  <1> SUFFICES Rest'
    BY <1>u DEF ReportedInv
  <1> USE DEF ReportedInv, Rest, OwnEnd, OwnJudgement, ErrorsReported
  <1>1. ASSUME NEW p \in Products, CheckRunning(p) PROVE Rest'
    BY <1>1 DEF CheckRunning, Fail, Refused
  <1>2. CASE BeginInit \/ LoadState
    BY <1>2 DEF BeginInit, LoadState
  <1>3. CASE StopForInit
    BY <1>3 DEF StopForInit
  <1>4. CASE StartForInit
    <2>1. run' = "Starting"
      BY <1>4, <1>r DEF StartForInit, StartMachine
    <2> QED BY <1>4, <2>1 DEF StartForInit
  <1>5. CASE EndInit
    <2>1. run = "Running"
      BY <1>5, <1>q, <1>r DEF EndInit, UsableInv, StartQueued
    <2> QED BY <1>5, <2>1 DEF EndInit, Cleared
  <1>6. CASE InitTimeout \/ Release \/ CheckRunningAgain
    BY <1>6 DEF InitTimeout, Release, CheckRunningAgain, Fail, Refused, Cleared
  <1>7. CASE BeginGetState
    <2>1. /\ pc \in {"started", "succeeded", "looking"}
          /\ pc' = IF pc = "started" THEN "initialised" ELSE IF pc = "succeeded" THEN "resulting" ELSE "returning"
      BY <1>7, GettingIs DEF BeginGetState
    <2> QED BY <1>7, <2>1 DEF BeginGetState, Cleared
  <1>8. CASE ReturnInit
    BY <1>8 DEF ReturnInit, Cleared
  <1>9. ASSUME NEW kind \in Sent, SendEvent(kind) PROVE Rest'
    <2>1. inbox' = <<kind>>
      BY <1>9 DEF SendEvent, Cleared
    <2> QED BY <1>9, <2>1 DEF SendEvent, Cleared
  <1>10. CASE Woken \/ EventTimeout
    BY <1>10, <1>q DEF Woken, EventTimeout
  <1>11. CASE Judge \/ Conclude
    BY <1>11 DEF Judge, Conclude
  <1>12. CASE Result \/ ReturnResult \/ Get
    BY <1>12 DEF Result, ReturnResult, Get, Fail, Refused
  <1>13. CASE TakeStart
    <2>1. run = "Starting" /\ pc = "starting"
      <3>1. inbox # <<>> /\ Head(inbox) = "start"
        BY <1>13 DEF TakeStart
      <3>2. inbox \notin Seq(Calls)
        BY <3>1, <1>k
      <3> QED BY <3>2, <1>q, <1>r DEF UsableInv, StartQueued
    <2>2. Tail(inbox) = <<>>
      BY ONLY <1>13, <1>k, <1>r, <2>1, TailAtEnd DEF TakeStart
    <2> QED BY <1>13, <2>1, <2>2 DEF TakeStart, Cleared
  <1>14. CASE EnterInitialStates \/ EmitStarted
    <2>1. pc = "starting" /\ run = "Running"
      BY <1>14, <1>r DEF EnterInitialStates, EmitStarted, Loading
    <2> QED BY <1>14, <2>1 DEF EnterInitialStates, EmitStarted, Cleared
  <1>15. CASE TakeCall
    <2>1. CASE pc = "waiting"
      <3>1. run = "Running" /\ inbox # <<>>
        BY <1>15, <1>q, <1>r, <2>1 DEF TakeCall
      <3>2. CASE quits = 0 /\ inbox = <<event>> /\ cascade = <<>>
        <4>1. Head(inbox) = event /\ inbox' = <<>>
          BY <1>15, <1>h, <3>2 DEF TakeCall
        <4>2. cascade' = <<>> \o Steps[event]
          BY <1>15, <1>q, <3>1, <3>2, <4>1 DEF TakeCall
        <4>3. cascade' = Steps[event]
          BY <4>2, <1>q, StepsType, ConcatEmptySeq
        <4> QED BY <1>15, <1>a, <2>1, <3>2, <4>1, <4>3 DEF TakeCall
      <3> QED BY <2>1, <3>1, <3>2
    <2>2. CASE pc # "waiting"
      <3>1. ~(pc = "starting" /\ run = "Running") /\ pc \notin {"started", "initialised", "ready", "sending"}
        BY <1>15 DEF TakeCall, Cleared
      <3> QED BY <1>15, <2>2, <3>1 DEF TakeCall
    <2> QED BY <2>1, <2>2
  <1>16. CASE StopProcessing
    BY <1>16, <1>r DEF StopProcessing
  <1>17. CASE EndProcessing \/ HandlerChanges
    BY <1>17 DEF EndProcessing, HandlerChanges, Cleared
  <1>18. CASE Handler
    BY <1>18, <1>a, <1>r DEF Handler, Cleared
  <1>19. CASE Complete \/ MachineError
    BY <1>19, <1>a, <1>q DEF Complete, MachineError, NextStep, WakeEvent, Cleared
  <1>20. CASE Quiet
    BY <1>20, <1>a DEF Quiet, NextStep, Cleared
  <1>21. CASE UNCHANGED vars
    BY <1>21 DEF vars, Cleared
  <1> QED BY <1>1, <1>2, <1>3, <1>4, <1>5, <1>6, <1>7, <1>8, <1>9, <1>10, <1>11, <1>12, <1>13, <1>14,
             <1>15, <1>16, <1>17, <1>18, <1>19, <1>20, <1>21
          DEF Next, CallerStep, MachineStep

\* Unless it gives up waiting for the machine to stop or to start, a caller is answered 1 for
\* an event only that was carried through: an error is never lost to getState, to a wait that
\* was outlasted, or to a cascade that goes on after it.
THEOREM ErrorsAreReported == Slow \subseteq {"event"} => (Spec => []ErrorsReported)
  <1> SUFFICES ASSUME Slow \subseteq {"event"} PROVE Spec => []ErrorsReported
    OBVIOUS
  <1>1. Init => ReportedInv
    BY UsableInit DEF Init, ReportedInv, OwnEnd, OwnJudgement, ErrorsReported, Refused
  <1>2. ReportedInv /\ [Next]_vars => ReportedInv'
    BY ReportedStep
  <1>3. ReportedInv => ErrorsReported
    BY DEF ReportedInv
  <1> QED BY <1>1, <1>2, <1>3, PTL DEF Spec
=============================================================================
