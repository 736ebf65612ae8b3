-------------------------------- MODULE PIPool --------------------------------
(***************************************************************************)
(* The pool of machines.  Lua keeps a handle for each machine in the table  *)
(* machines and leases the handles that are not busy; a handle names its    *)
(* machine by conn, its place in the vector the controller keeps in C++.    *)
(* Closing a machine takes it out of the vector, which moves the ones       *)
(* behind it up by one.  qfsm.init creates the pool, and creates it anew    *)
(* when it is called for another size; qfsm.stop closes it.                 *)
(*                                                                          *)
(* These calls yield to no other fiber of the caller.  init and stop are    *)
(* loops here, one machine a step, for the machines' own threads start them *)
(* meanwhile, and a machine that is not running is not closed.              *)
(***************************************************************************)
EXTENDS Integers, Sequences, SequencesExt

CONSTANTS
  Clients,
  MaxSize   \* bound on max_machines

ASSUME SizeAssumption == MaxSize \in Nat

VARIABLES
  maxMachines,  \* max_machines, in Lua and in C++
  vector,       \* StateMachineController::machines: the numbers of the machines in it
  started,      \* the machines whose threads have started them
  machines,     \* the Lua table, a sequence of handles
  leased,       \* the place in machines of the handle each client has, 0 if it has none
  loop,         \* the loop init or stop is in, and its counter
  broken,       \* whether the vector has been indexed outside its range
  prudent       \* history: whether the pool has only been resized to grow, and only once
                \* its machines had started

vars == <<maxMachines, vector, started, machines, leased, loop, broken, prudent>>

\* A handle is [conn, busy, machine]: conn counts from 0; machine, which the code does not
\* have, is the number of the machine it was created with.
Closed == -1

InRange(conn) == conn \in 0..(Len(vector) - 1)

Machine(conn) == vector[conn + 1]

Handles == [conn : Nat \cup {Closed}, busy : BOOLEAN, machine : Nat]

Loops == [kind : {"none", "close", "stop", "new"}, i : 0..(MaxSize + 1)]

NoLoop == [kind |-> "none", i |-> 0]

\* A client can call: no loop is running, and the process has not come to grief.
Ready == loop = NoLoop /\ ~broken

\* A machine's number is free when neither the vector nor a handle of the table has it.
FreeNumber ==
  CHOOSE n \in 1..(Len(vector) + Len(machines) + 1) :
    /\ \A i \in DOMAIN vector : vector[i] # n
    /\ \A i \in DOMAIN machines : machines[i].machine # n

Init ==
  /\ maxMachines = 0
  /\ vector = <<>> /\ started = {} /\ machines = <<>>
  /\ leased = [c \in Clients |-> 0]
  /\ loop = NoLoop
  /\ broken = FALSE
  /\ prudent = TRUE

-----------------------------------------------------------------------------
(* qfsm.init and qfsm.stop *)

\* Mutant: the machines of the old pool are not closed.
InitUnclosed(size) ==
  /\ Ready /\ \A c \in Clients : leased[c] = 0
  /\ prudent' = (prudent /\ size >= maxMachines /\ \A i \in DOMAIN vector : vector[i] \in started)
  /\ maxMachines' = size
  /\ loop' = IF Len(machines) = size THEN NoLoop ELSE [kind |-> "new", i |-> 1]
  /\ UNCHANGED <<vector, started, machines, leased, broken>>

\* A pool of the right size is left alone.  Nobody resizes a pool that is in use.
InitPool(size) ==
  /\ Ready /\ \A c \in Clients : leased[c] = 0
  /\ prudent' = (prudent /\ size >= maxMachines /\ \A i \in DOMAIN vector : vector[i] \in started)
  /\ maxMachines' = size
  /\ loop' = IF Len(machines) = size THEN NoLoop ELSE [kind |-> "close", i |-> Len(machines)]
  /\ UNCHANGED <<vector, started, machines, leased, broken>>

StopPool ==
  /\ Ready
  /\ loop' = [kind |-> "stop", i |-> Len(machines)]
  /\ prudent' = FALSE
  /\ UNCHANGED <<maxMachines, vector, started, machines, leased, broken>>

\* The machines behind it in the vector move up.
StopMachine(conn) == vector' = RemoveAt(vector, conn + 1)

\* machines[i]:close().  A closed handle stays in the table: close() sets conn to -1 first
\* and then removes machines[conn + 1], which is none.
CloseMachine(i) ==
  LET conn == machines[i].conn IN
  /\ broken' = ~InRange(conn)
  /\ IF InRange(conn) /\ Machine(conn) \in started
     THEN /\ StopMachine(conn)
          /\ machines' = [machines EXCEPT ![i].conn = Closed]
     ELSE UNCHANGED <<vector, machines>>

\* Mutant: the machines are closed in the order they were created in.
CloseForwards ==
  /\ loop.kind \in {"close", "stop"} /\ loop.i > 0 /\ ~broken
  /\ CloseMachine(Len(machines) + 1 - loop.i)
  /\ loop' = [loop EXCEPT !.i = @ - 1]
  /\ UNCHANGED <<maxMachines, started, leased, prudent>>

CloseNext ==
  /\ loop.kind \in {"close", "stop"} /\ loop.i > 0 /\ ~broken
  /\ CloseMachine(loop.i)
  /\ loop' = [loop EXCEPT !.i = @ - 1]
  /\ UNCHANGED <<maxMachines, started, leased, prudent>>

EndClosing ==
  /\ loop.kind \in {"close", "stop"} /\ loop.i = 0 /\ ~broken
  /\ loop' = IF loop.kind = "close" THEN [kind |-> "new", i |-> 1] ELSE NoLoop
  /\ UNCHANGED <<maxMachines, vector, started, machines, leased, broken, prudent>>

\* machines[machine.conn + 1] = machine
Put(handle) ==
  IF handle.conn < Len(machines)
  THEN [machines EXCEPT ![handle.conn + 1] = handle]
  ELSE Append(machines, handle)

\* Mutant: one machine too many.
NewMachineOneMore ==
  /\ loop.kind = "new" /\ loop.i <= maxMachines + 1 /\ ~broken
  /\ loop' = [loop EXCEPT !.i = @ + 1]
  /\ vector' = Append(vector, FreeNumber)
  /\ machines' = Put([conn |-> Len(vector), busy |-> FALSE, machine |-> FreeNumber])
  /\ started' = started \ {FreeNumber}
  /\ UNCHANGED <<maxMachines, leased, broken, prudent>>

\* new().  Where newMachine finds no room it returns -1, and new() goes on to use that.
NewMachine ==
  /\ loop.kind = "new" /\ loop.i <= maxMachines /\ ~broken
  /\ loop' = [loop EXCEPT !.i = @ + 1]
  /\ IF Len(vector) < maxMachines
     THEN /\ vector' = Append(vector, FreeNumber)
          /\ machines' = Put([conn |-> Len(vector), busy |-> FALSE, machine |-> FreeNumber])
          /\ started' = started \ {FreeNumber}
          /\ UNCHANGED broken
     ELSE /\ broken' = TRUE
          /\ UNCHANGED <<vector, machines, started>>
  /\ UNCHANGED <<maxMachines, leased, prudent>>

\* Mutant: one machine short.
EndInitEarly ==
  /\ loop.kind = "new" /\ loop.i >= maxMachines /\ ~broken
  /\ loop' = NoLoop
  /\ UNCHANGED <<maxMachines, vector, started, machines, leased, broken, prudent>>

EndInit ==
  /\ loop.kind = "new" /\ loop.i > maxMachines /\ ~broken
  /\ loop' = NoLoop
  /\ UNCHANGED <<maxMachines, vector, started, machines, leased, broken, prudent>>

\* A machine's thread gets round to starting it.
Starts(m) ==
  /\ m \notin started /\ ~broken
  /\ started' = started \cup {m}
  /\ UNCHANGED <<maxMachines, vector, machines, leased, loop, broken, prudent>>

-----------------------------------------------------------------------------
(* lease, and the calls of a machine's handle *)

\* Mutant: a handle is leased whether it is busy or not.
LeaseBusy(c) ==
  /\ Ready /\ leased[c] = 0
  /\ \E i \in DOMAIN machines :
       /\ machines' = [machines EXCEPT ![i].busy = TRUE]
       /\ leased' = [leased EXCEPT ![c] = i]
  /\ UNCHANGED <<maxMachines, vector, started, loop, broken, prudent>>

Lease(c) ==
  /\ Ready /\ leased[c] = 0
  /\ \E i \in DOMAIN machines :
       /\ ~machines[i].busy
       /\ machines' = [machines EXCEPT ![i].busy = TRUE]
       /\ leased' = [leased EXCEPT ![c] = i]
  /\ UNCHANGED <<maxMachines, vector, started, loop, broken, prudent>>

\* init, send_event, get, is_running: each begins by asking the machine of the handle.
Use(c) ==
  /\ Ready /\ leased[c] # 0
  /\ broken' = ~InRange(machines[leased[c]].conn)
  /\ UNCHANGED <<maxMachines, vector, started, machines, leased, loop, prudent>>

Release(c) ==
  /\ Ready /\ leased[c] # 0
  /\ machines' = [machines EXCEPT ![leased[c]].busy = FALSE]
  /\ leased' = [leased EXCEPT ![c] = 0]
  /\ UNCHANGED <<maxMachines, vector, started, loop, broken, prudent>>

\* What a process does that has indexed the vector outside its range is undefined.
Undefined == broken /\ UNCHANGED vars

Next ==
  \/ \E size \in 1..MaxSize : InitPool(size)
  \/ StopPool \/ CloseNext \/ EndClosing \/ NewMachine \/ EndInit
  \/ \E i \in DOMAIN vector : Starts(vector[i])
  \/ \E c \in Clients : Lease(c) \/ Use(c) \/ Release(c)
  \/ Undefined

Spec == Init /\ [][Next]_vars

-----------------------------------------------------------------------------
(* Properties. *)

TypeOK ==
  /\ maxMachines \in 0..MaxSize
  /\ vector \in Seq(Nat)
  /\ started \subseteq Nat
  /\ machines \in Seq(Handles)
  /\ Len(vector) <= Len(machines) /\ Len(machines) <= MaxSize
  /\ leased \in [Clients -> 0..Len(machines)]
  /\ loop \in Loops
  /\ broken \in BOOLEAN /\ prudent \in BOOLEAN

\* Two clients never work on the same machine, however the pool is resized and stopped.
OneClientPerMachine ==
  \A c, d \in Clients :
    c # d /\ leased[c] # 0 /\ leased[d] # 0 =>
      LET first == machines[leased[c]].conn
          other == machines[leased[d]].conn
      IN  first = Closed \/ first # other

\* An open handle of a prudent owner's pool names the machine it was created with, though
\* the places of the vector shift while a pool is closed.
OwnMachine ==
  prudent => \A i \in DOMAIN machines :
    LET conn == machines[i].conn IN
    conn # Closed => InRange(conn) /\ Machine(conn) = machines[i].machine

\* Once init has returned, the pool of a prudent owner has as many machines as it was asked
\* for, each of them to be had by a lease.
PoolIsFull ==
  Ready /\ prudent =>
    /\ Len(vector) = maxMachines
    /\ Len(machines) = maxMachines
    /\ \A i \in DOMAIN machines : machines[i].conn # Closed

\* No call on a prudent owner's pool indexes the vector of machines outside its range.
NeverOutOfRange == prudent => ~broken
=============================================================================
