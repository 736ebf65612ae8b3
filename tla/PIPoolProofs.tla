----------------------------- MODULE PIPoolProofs -----------------------------
(***************************************************************************)
(* PIPool for any number of clients and any size of the pool: no two        *)
(* clients are ever given the same machine, and a prudent owner's pool is   *)
(* always full and never indexed outside its range.                         *)
(***************************************************************************)
EXTENDS PIPool, FiniteSetTheorems, SequenceTheorems, TLAPS

-----------------------------------------------------------------------------
(* Lemmas about the helpers. *)

\* There is always a number left: there are more candidates than places that hold one.
LEMMA FreeNumberType ==
  ASSUME vector \in Seq(Nat), machines \in Seq(Handles)
  PROVE  FreeNumber \in Nat
<1> DEFINE N == Len(vector) + Len(machines) + 1
           Free(n) == /\ \A i \in DOMAIN vector : vector[i] # n
                      /\ \A i \in DOMAIN machines : machines[i].machine # n
<1>1. N \in Nat /\ Len(vector) \in Nat /\ Len(machines) \in Nat
      /\ DOMAIN vector = 1..Len(vector) /\ DOMAIN machines = 1..Len(machines)
  BY LenProperties
<1>2. \E n \in 1..N : Free(n)
  <2> SUFFICES ASSUME \A n \in 1..N : ~Free(n) PROVE FALSE
    OBVIOUS
  <2> DEFINE At(n, k) == \/ k \in 1..Len(vector) /\ vector[k] = n
                         \/ k - Len(vector) \in 1..Len(machines) /\ machines[k - Len(vector)].machine = n
             f == [n \in 1..N |-> CHOOSE k \in 1..(N - 1) : At(n, k)]
  <2>1. ASSUME NEW n \in 1..N PROVE f[n] \in 1..(N - 1) /\ At(n, f[n])
    <3>1. ~Free(n)
      OBVIOUS
    <3>2. \E k \in 1..(N - 1) : At(n, k)
      <4>1. CASE \E i \in DOMAIN vector : vector[i] = n
        BY <4>1, <1>1
      <4>2. CASE \E i \in DOMAIN machines : machines[i].machine = n
        <5>1. PICK i \in 1..Len(machines) : machines[i].machine = n
          BY <4>2, <1>1
        <5>2. (i + Len(vector)) - Len(vector) = i /\ i + Len(vector) \in 1..(N - 1)
          BY <1>1
        <5>3. At(n, i + Len(vector))
          BY <5>1, <5>2
        <5> QED BY <5>2, <5>3
      <4> QED BY <3>1, <4>1, <4>2
    <3> QED BY <3>2
  <2>2. f \in [1..N -> 1..(N - 1)]
    BY <2>1
  <2>3. N \in Int /\ N - 1 \in Int /\ 1 \in Int /\ N >= 1
    BY <1>1
  <2> HIDE DEF N, f
  <2>4. IsFiniteSet(1..N) /\ Cardinality(1..N) = N
    BY <2>3, FS_Interval
  <2>5. IsFiniteSet(1..(N - 1)) /\ Cardinality(1..(N - 1)) = N - 1
    BY <2>3, FS_Interval
  <2>6. Cardinality(1..(N - 1)) < Cardinality(1..N)
    BY <2>3, <2>4, <2>5
  <2>7. PICK x \in 1..N, y \in 1..N : x # y /\ f[x] = f[y]
    <3> DEFINE candidates == 1..N
               places == 1..(N - 1)
    <3>1. /\ IsFiniteSet(candidates) /\ IsFiniteSet(places)
          /\ Cardinality(places) < Cardinality(candidates) /\ f \in [candidates -> places]
      BY <2>2, <2>4, <2>5, <2>6
    <3> HIDE DEF candidates, places
    <3>2. \E x, y \in candidates : x # y /\ f[x] = f[y]
      BY ONLY <3>1, FS_PigeonHole, Zenon
    <3> QED BY <3>2 DEF candidates
  <2>8. At(x, f[x]) /\ At(y, f[x])
    BY <2>1, <2>7
  <2> QED BY <2>7, <2>8, <1>1
<1>3. FreeNumber = CHOOSE n \in 1..N : Free(n)
  BY DEF FreeNumber
<1> QED BY <1>2, <1>3, <1>1

\* A machine that is taken out leaves the others, one place up where they were behind it.
LEMMA RemoveAtProperties ==
  ASSUME NEW S, NEW s \in Seq(S), NEW k \in 1..Len(s)
  PROVE  /\ RemoveAt(s, k) \in Seq(S)
         /\ Len(RemoveAt(s, k)) = Len(s) - 1
         /\ \A j \in 1..(k - 1) : RemoveAt(s, k)[j] = s[j]
<1>1. Len(s) \in Nat /\ \A j \in 1..Len(s) : s[j] \in S
  BY LenProperties, ElementOfSeq
<1>2. /\ SubSeq(s, 1, k - 1) \in Seq(S) /\ Len(SubSeq(s, 1, k - 1)) = k - 1
      /\ \A j \in 1..(k - 1) : SubSeq(s, 1, k - 1)[j] = s[j]
  BY <1>1, SubSeqProperties
<1>3. SubSeq(s, k + 1, Len(s)) \in Seq(S) /\ Len(SubSeq(s, k + 1, Len(s))) = Len(s) - k
  BY <1>1, SubSeqProperties
<1> DEFINE front == SubSeq(s, 1, k - 1)
           back  == SubSeq(s, k + 1, Len(s))
<1>4. RemoveAt(s, k) = front \o back
  BY DEF RemoveAt
<1>5. front \in Seq(S) /\ back \in Seq(S) /\ Len(front) = k - 1 /\ Len(back) = Len(s) - k
      /\ \A j \in 1..(k - 1) : front[j] = s[j]
  BY <1>2, <1>3
<1> HIDE DEF front, back
<1>6. /\ front \o back \in Seq(S)
      /\ Len(front \o back) = Len(front) + Len(back)
      /\ \A j \in 1..(Len(front) + Len(back)) :
           (front \o back)[j] = IF j <= Len(front) THEN front[j] ELSE back[j - Len(front)]
  BY <1>5, ConcatProperties
<1>7. Len(front) + Len(back) = Len(s) - 1
  BY <1>1, <1>5
<1> QED BY <1>1, <1>4, <1>5, <1>6, <1>7

\* A new handle takes the place its number gives it, or the next one.
LEMMA PutProperties ==
  ASSUME machines \in Seq(Handles), NEW handle \in Handles, handle.conn \in 0..Len(machines)
  PROVE  /\ Put(handle) \in Seq(Handles)
         /\ Len(Put(handle)) = IF handle.conn < Len(machines) THEN Len(machines) ELSE Len(machines) + 1
         /\ Put(handle)[handle.conn + 1] = handle
         /\ \A j \in DOMAIN Put(handle) : j # handle.conn + 1 => j \in DOMAIN machines /\ Put(handle)[j] = machines[j]
<1>1. Len(machines) \in Nat /\ DOMAIN machines = 1..Len(machines)
  BY LenProperties
<1>2. CASE handle.conn < Len(machines)
  BY <1>1, <1>2 DEF Put
<1>3. CASE handle.conn = Len(machines)
  BY <1>1, <1>3 DEF Put
<1> QED BY <1>1, <1>2, <1>3

-----------------------------------------------------------------------------
(* One client a machine, in a pool that is stopped and resized at will. *)

\* A handle's conn is its place in the table, or Closed: table and vector grow together.
Places == \A i \in DOMAIN machines : machines[i].conn \in {i - 1, Closed}

\* A leased handle is busy, so that nobody else is given it, and the table is left alone
\* while one is leased.
Leases ==
  /\ \A c \in Clients : leased[c] # 0 => machines[leased[c]].busy
  /\ \A c, d \in Clients : c # d /\ leased[c] # 0 => leased[c] # leased[d]
  /\ loop.kind \in {"close", "new"} => \A c \in Clients : leased[c] = 0

\* What is being closed is in the table.
Counting == loop.kind \in {"close", "stop"} => loop.i <= Len(machines)

PoolInv == TypeOK /\ Places /\ Leases /\ Counting

LEMMA PoolInvInit == Init => PoolInv
<1> SUFFICES ASSUME Init PROVE PoolInv
  OBVIOUS
<1>1. Len(vector) = 0 /\ Len(machines) = 0 /\ vector \in Seq(Nat) /\ machines \in Seq(Handles)
  BY DEF Init
<1>2. NoLoop \in Loops /\ NoLoop.kind = "none"
  BY SizeAssumption DEF NoLoop, Loops
<1>3. TypeOK
  <2>1. leased \in [Clients -> 0..Len(machines)]
    BY <1>1 DEF Init
  <2>2. maxMachines \in 0..MaxSize /\ Len(vector) <= Len(machines) /\ Len(machines) <= MaxSize
    BY <1>1, SizeAssumption DEF Init
  <2> QED BY <1>1, <1>2, <2>1, <2>2 DEF Init, TypeOK
<1>4. Places /\ Leases /\ Counting
  BY <1>1, <1>2 DEF Init, Places, Leases, Counting
<1> QED BY <1>3, <1>4 DEF PoolInv

\* Closing a machine changes no handle but its own, and of that only conn.
LEMMA CloseMachineStep ==
  ASSUME PoolInv, NEW i \in 1..Len(machines), CloseMachine(i)
  PROVE  /\ vector' \in Seq(Nat) /\ Len(vector') <= Len(vector)
         /\ machines' \in Seq(Handles) /\ Len(machines') = Len(machines)
         /\ broken' \in BOOLEAN
         /\ \A j \in DOMAIN machines : /\ machines'[j].conn \in {machines[j].conn, Closed}
                                       /\ machines'[j].busy = machines[j].busy
<1>1. /\ vector \in Seq(Nat) /\ machines \in Seq(Handles)
      /\ Len(vector) \in Nat /\ Len(machines) \in Nat /\ DOMAIN machines = 1..Len(machines)
      /\ \A j \in 1..Len(machines) : machines[j] \in Handles
  BY LenProperties, ElementOfSeq DEF PoolInv, TypeOK
<1>2. CASE InRange(machines[i].conn) /\ Machine(machines[i].conn) \in started
  <2>1. machines[i].conn + 1 \in 1..Len(vector)
    BY <1>1, <1>2 DEF InRange, Handles, Closed
  <2>2. vector' = RemoveAt(vector, machines[i].conn + 1)
    BY <1>2 DEF CloseMachine, StopMachine
  <2>3. vector' \in Seq(Nat) /\ Len(vector') = Len(vector) - 1
    BY <1>1, <2>1, <2>2, RemoveAtProperties
  <2>4. machines' = [machines EXCEPT ![i] = [machines[i] EXCEPT !.conn = Closed]]
    BY <1>2 DEF CloseMachine
  <2>5. [machines[i] EXCEPT !.conn = Closed] \in Handles
    BY <1>1 DEF Handles
  <2>6. machines' \in Seq(Handles) /\ Len(machines') = Len(machines)
    BY <1>1, <2>4, <2>5, ExceptSeq
  <2>7. \A j \in 1..Len(machines) : /\ machines'[j].conn \in {machines[j].conn, Closed}
                                    /\ machines'[j].busy = machines[j].busy
    BY <1>1, <2>4 DEF Handles
  <2> QED BY <1>1, <2>3, <2>6, <2>7 DEF CloseMachine
<1>3. CASE ~(InRange(machines[i].conn) /\ Machine(machines[i].conn) \in started)
  <2>1. UNCHANGED <<vector, machines>> /\ broken' \in BOOLEAN
    BY <1>3 DEF CloseMachine
  <2> QED BY <1>1, <2>1
<1> QED BY <1>2, <1>3

LEMMA PoolInvStep == PoolInv /\ [Next]_vars => PoolInv'
<1> SUFFICES ASSUME PoolInv, [Next]_vars PROVE PoolInv'
  OBVIOUS
<1>t. /\ vector \in Seq(Nat) /\ machines \in Seq(Handles)
      /\ Len(vector) \in Nat /\ Len(machines) \in Nat
      /\ DOMAIN machines = 1..Len(machines) /\ DOMAIN vector = 1..Len(vector)
      /\ \A j \in 1..Len(machines) : machines[j] \in Handles
      /\ \A j \in 1..Len(vector) : vector[j] \in Nat
      /\ Len(vector) <= Len(machines) /\ Len(machines) <= MaxSize
      /\ leased \in [Clients -> 0..Len(machines)]
      /\ maxMachines \in 0..MaxSize /\ started \subseteq Nat
      /\ loop \in Loops
      /\ broken \in BOOLEAN /\ prudent \in BOOLEAN
      /\ MaxSize \in Nat
  BY LenProperties, ElementOfSeq, SizeAssumption DEF PoolInv, TypeOK
<1>l. /\ loop.kind \in {"none", "close", "stop", "new"} /\ loop.i \in 0..(MaxSize + 1)
      /\ \A k \in {"none", "close", "stop", "new"}, n \in 0..(MaxSize + 1) : [kind |-> k, i |-> n] \in Loops
      /\ \A n \in 0..(MaxSize + 1) : [loop EXCEPT !.i = n] \in Loops
      /\ NoLoop \in Loops /\ NoLoop.kind = "none"
  BY <1>t DEF Loops, NoLoop
<1>p. Places /\ Leases /\ Counting
  BY DEF PoolInv
<1>1. CASE \E size \in 1..MaxSize : InitPool(size)
  <2>1. PICK size \in 1..MaxSize : InitPool(size)
    BY <1>1
  <2>2. TypeOK'
    BY <1>t, <1>l, <2>1 DEF InitPool, TypeOK
  <2>3. Places' /\ Leases'
    BY <1>p, <2>1 DEF InitPool, Places, Leases
  <2>4. loop'.kind = "close" => loop'.i = Len(machines)
    BY <2>1 DEF InitPool, NoLoop
  <2>5. loop'.kind \in {"none", "close", "new"}
    BY <2>1 DEF InitPool, NoLoop
  <2>6. Counting'
    <3>1. machines' = machines
      BY <2>1 DEF InitPool
    <3>2. Len(machines) <= Len(machines)
      BY <1>t
    <3> QED BY <2>4, <2>5, <3>1, <3>2 DEF Counting
  <2> QED BY <2>2, <2>3, <2>6 DEF PoolInv
<1>2. CASE StopPool
  <2>1. TypeOK'
    <3>1. loop' \in Loops
      BY <1>t, <1>l, <1>2 DEF StopPool
    <3> QED BY <1>t, <1>2, <3>1 DEF StopPool, TypeOK
  <2>2. Places' /\ Leases' /\ Counting'
    BY <1>t, <1>p, <1>2 DEF StopPool, Places, Leases, Counting
  <2> QED BY <2>1, <2>2 DEF PoolInv
<1>3. CASE CloseNext
  <2>1. loop.i \in 1..Len(machines)
    BY <1>t, <1>l, <1>p, <1>3 DEF CloseNext, Counting
  <2>2. /\ vector' \in Seq(Nat) /\ Len(vector') <= Len(vector)
        /\ machines' \in Seq(Handles) /\ Len(machines') = Len(machines)
        /\ broken' \in BOOLEAN
        /\ \A j \in DOMAIN machines : /\ machines'[j].conn \in {machines[j].conn, Closed}
                                      /\ machines'[j].busy = machines[j].busy
    BY <1>3, <2>1, CloseMachineStep DEF CloseNext
  <2>3. /\ Len(vector') \in Nat /\ DOMAIN machines' = 1..Len(machines)
    BY <2>2, LenProperties
  <2>4. /\ loop' = [loop EXCEPT !.i = loop.i - 1] /\ loop.i - 1 \in 0..(MaxSize + 1)
        /\ UNCHANGED <<maxMachines, started, leased, prudent>>
    BY <1>t, <1>3, <2>1 DEF CloseNext
  <2>5. loop' \in Loops /\ loop'.kind = loop.kind /\ loop'.i = loop.i - 1
    BY <1>t, <1>l, <2>4 DEF Loops
  <2>6. Places'
    BY <1>t, <1>p, <2>2, <2>3 DEF Places
  <2>7. Leases' /\ Counting'
    <3>1. \A c \in Clients : leased[c] # 0 => leased[c] \in DOMAIN machines
      BY <1>t
    <3>2. Leases'
      BY <1>p, <2>2, <2>4, <2>5, <3>1 DEF Leases
    <3>3. Counting'
      BY <1>t, <2>1, <2>2, <2>5 DEF Counting
    <3> QED BY <3>2, <3>3
  <2>8. Len(vector') <= Len(machines') /\ Len(machines') <= MaxSize
    BY <1>t, <2>2, LenProperties
  <2>9. leased' \in [Clients -> 0..Len(machines')]
    BY <1>t, <2>2, <2>4
  <2>10. TypeOK'
    BY <1>t, <2>2, <2>4, <2>5, <2>8, <2>9 DEF TypeOK
  <2> QED BY <2>6, <2>7, <2>10 DEF PoolInv
<1>4. CASE EndClosing
  <2>1. TypeOK'
    <3>1. loop' \in Loops
      BY <1>t, <1>l, <1>4 DEF EndClosing
    <3> QED BY <1>t, <1>4, <3>1 DEF EndClosing, TypeOK
  <2>2. Places' /\ Leases' /\ Counting'
    BY <1>t, <1>p, <1>4 DEF EndClosing, Places, Leases, Counting, NoLoop
  <2> QED BY <2>1, <2>2 DEF PoolInv
<1>5. CASE NewMachine
  <2>1. CASE Len(vector) < maxMachines
    <3> DEFINE handle == [conn |-> Len(vector), busy |-> FALSE, machine |-> FreeNumber]
    <3>1. FreeNumber \in Nat
      BY <1>t, FreeNumberType
    <3>2. handle \in Handles /\ handle.conn = Len(vector) /\ handle.conn \in 0..Len(machines)
      BY <1>t, <3>1 DEF Handles
    <3>3. /\ vector' = Append(vector, FreeNumber) /\ machines' = Put(handle)
          /\ started' = started \ {FreeNumber} /\ UNCHANGED <<broken, maxMachines, leased, prudent>>
          /\ loop' = [loop EXCEPT !.i = @ + 1] /\ loop.kind = "new" /\ loop.i <= maxMachines
      BY <1>5, <2>1 DEF NewMachine
    <3>4. vector' \in Seq(Nat) /\ Len(vector') = Len(vector) + 1
      BY <1>t, <3>1, <3>3
    <3> HIDE DEF handle
    <3>5. /\ machines' \in Seq(Handles)
          /\ Len(machines') = IF Len(vector) < Len(machines) THEN Len(machines) ELSE Len(machines) + 1
          /\ machines'[Len(vector) + 1] = handle
          /\ \A j \in DOMAIN machines' : j # Len(vector) + 1 =>
               j \in DOMAIN machines /\ machines'[j] = machines[j]
      BY <1>t, <3>2, <3>3, PutProperties
    <3>6. Len(machines') \in Nat /\ DOMAIN machines' = 1..Len(machines')
      BY <3>5, LenProperties
    <3>7. \A c \in Clients : leased[c] = 0
      BY <1>p, <3>3 DEF Leases
    <3>8. TypeOK'
      <4>1. loop' \in Loops
        <5>1. loop.i + 1 \in 0..(MaxSize + 1) /\ loop' = [loop EXCEPT !.i = loop.i + 1]
          BY <1>t, <1>l, <3>3
        <5> QED BY <1>l, <5>1
      <4>2. Len(vector') <= Len(machines') /\ Len(machines') <= MaxSize
        BY <1>t, <2>1, <3>4, <3>5
      <4>3. leased' \in [Clients -> 0..Len(machines')]
        BY <1>t, <3>3, <3>6, <3>7
      <4>4. started' \subseteq Nat
        BY <1>t, <3>3
      <4> QED BY <1>t, <3>3, <3>4, <3>5, <4>1, <4>2, <4>3, <4>4 DEF TypeOK
    <3>9. Places'
      <4> SUFFICES ASSUME NEW j \in DOMAIN machines' PROVE machines'[j].conn \in {j - 1, Closed}
        BY DEF Places
      <4>1. CASE j = Len(vector) + 1
        BY <1>t, <3>2, <3>5, <4>1
      <4>2. CASE j # Len(vector) + 1
        BY <1>p, <3>5, <4>2 DEF Places
      <4> QED BY <4>1, <4>2
    <3>10. Leases' /\ Counting'
      BY <1>t, <3>3, <3>7 DEF Leases, Counting
    <3> QED BY <3>8, <3>9, <3>10 DEF PoolInv
  <2>2. CASE ~(Len(vector) < maxMachines)
    <3>1. TypeOK'
      <4>1. loop.i + 1 \in 0..(MaxSize + 1) /\ loop' = [loop EXCEPT !.i = loop.i + 1]
        BY <1>t, <1>l, <1>5 DEF NewMachine
      <4>2. loop' \in Loops
        BY <1>l, <4>1
      <4> QED BY <1>t, <1>5, <2>2, <4>2 DEF NewMachine, TypeOK
    <3>2. Places' /\ Leases' /\ Counting'
      BY <1>t, <1>p, <1>5, <2>2 DEF NewMachine, Places, Leases, Counting
    <3> QED BY <3>1, <3>2 DEF PoolInv
  <2> QED BY <2>1, <2>2
<1>6. CASE EndInit
  <2>1. TypeOK'
    BY <1>t, <1>l, <1>6 DEF EndInit, TypeOK
  <2>2. Places' /\ Leases' /\ Counting'
    BY <1>t, <1>p, <1>6 DEF EndInit, Places, Leases, Counting, NoLoop
  <2> QED BY <2>1, <2>2 DEF PoolInv
<1>7. CASE \E i \in DOMAIN vector : Starts(vector[i])
  <2>1. TypeOK'
    BY <1>t, <1>l, <1>7 DEF Starts, TypeOK
  <2>2. Places' /\ Leases' /\ Counting'
    BY <1>p, <1>7 DEF Starts, Places, Leases, Counting
  <2> QED BY <2>1, <2>2 DEF PoolInv
<1>8. ASSUME NEW c \in Clients, Lease(c) PROVE PoolInv'
  <2>1. PICK i \in 1..Len(machines) :
          /\ ~machines[i].busy
          /\ machines' = [machines EXCEPT ![i] = [machines[i] EXCEPT !.busy = TRUE]]
          /\ leased' = [leased EXCEPT ![c] = i]
    BY <1>t, <1>8 DEF Lease
  <2>2. [machines[i] EXCEPT !.busy = TRUE] \in Handles
    BY <1>t DEF Handles
  <2>3. machines' \in Seq(Handles) /\ Len(machines') = Len(machines)
    BY <1>t, <2>1, <2>2, ExceptSeq
  <2>4. /\ DOMAIN machines' = 1..Len(machines)
        /\ \A j \in 1..Len(machines) : /\ machines'[j].conn = machines[j].conn
                                       /\ machines'[j].busy = (machines[j].busy \/ j = i)
    BY <1>t, <2>1, <2>3, LenProperties DEF Handles
  <2>5. TypeOK'
    BY <1>t, <1>l, <1>8, <2>1, <2>3 DEF Lease, TypeOK
  <2>6. Places'
    BY <1>t, <1>p, <2>4 DEF Places
  <2>7. Leases' /\ Counting'
    BY <1>t, <1>p, <1>8, <2>1, <2>3, <2>4 DEF Lease, Leases, Counting, Ready, NoLoop
  <2> QED BY <2>5, <2>6, <2>7 DEF PoolInv
<1>9. ASSUME NEW c \in Clients, Use(c) PROVE PoolInv'
  <2>1. TypeOK'
    BY <1>t, <1>l, <1>9 DEF Use, TypeOK
  <2>2. Places' /\ Leases' /\ Counting'
    BY <1>p, <1>9 DEF Use, Places, Leases, Counting
  <2> QED BY <2>1, <2>2 DEF PoolInv
<1>10. ASSUME NEW c \in Clients, Release(c) PROVE PoolInv'
  <2> DEFINE i == leased[c]
  <2>1. /\ i \in 1..Len(machines)
        /\ machines' = [machines EXCEPT ![i] = [machines[i] EXCEPT !.busy = FALSE]]
        /\ leased' = [leased EXCEPT ![c] = 0]
    BY <1>t, <1>10 DEF Release
  <2>2. [machines[i] EXCEPT !.busy = FALSE] \in Handles
    BY <1>t, <2>1 DEF Handles
  <2>3. machines' \in Seq(Handles) /\ Len(machines') = Len(machines)
    BY <1>t, <2>1, <2>2, ExceptSeq
  <2>4. /\ DOMAIN machines' = 1..Len(machines)
        /\ \A j \in 1..Len(machines) : /\ machines'[j].conn = machines[j].conn
                                       /\ j # i => machines'[j].busy = machines[j].busy
    BY <1>t, <2>1, <2>3, LenProperties DEF Handles
  <2>5. TypeOK'
    BY <1>t, <1>l, <1>10, <2>1, <2>3 DEF Release, TypeOK
  <2>6. Places'
    BY <1>t, <1>p, <2>4 DEF Places
  <2>7. Leases' /\ Counting'
    BY <1>t, <1>p, <1>10, <2>1, <2>3, <2>4 DEF Release, Leases, Counting, Ready, NoLoop
  <2> QED BY <2>5, <2>6, <2>7 DEF PoolInv
<1>11. CASE Undefined \/ UNCHANGED vars
  <2>1. UNCHANGED vars
    BY <1>11 DEF Undefined
  <2> QED BY <1>t, <1>p, <2>1 DEF vars, PoolInv, TypeOK, Places, Leases, Counting, Handles
<1> QED BY <1>1, <1>2, <1>3, <1>4, <1>5, <1>6, <1>7, <1>8, <1>9, <1>10, <1>11 DEF Next

LEMMA PoolInvHolds == Spec => []PoolInv
  BY PoolInvInit, PoolInvStep, PTL DEF Spec

\* Two clients never work on the same machine, for any number of clients, any pool size,
\* and however the pool is stopped and resized.
THEOREM OneClientEach == Spec => []OneClientPerMachine
<1>1. PoolInv => OneClientPerMachine
  <2> SUFFICES ASSUME PoolInv, NEW c \in Clients, NEW d \in Clients,
                      c # d, leased[c] # 0, leased[d] # 0,
                      machines[leased[c]].conn # Closed
               PROVE  machines[leased[c]].conn # machines[leased[d]].conn
    BY DEF OneClientPerMachine
  <2>1. /\ leased[c] \in DOMAIN machines /\ leased[d] \in DOMAIN machines
        /\ leased[c] \in Int /\ leased[d] \in Int
    BY LenProperties DEF PoolInv, TypeOK
  <2>2. leased[c] # leased[d]
    BY DEF PoolInv, Leases
  <2>3. machines[leased[c]].conn = leased[c] - 1 /\ machines[leased[d]].conn \in {leased[d] - 1, Closed}
    BY <2>1 DEF PoolInv, Places
  <2> QED BY <2>1, <2>2, <2>3 DEF Closed
<1> QED BY <1>1, PoolInvHolds, PTL

-----------------------------------------------------------------------------
(* The pool of a prudent owner. *)

\* How far a loop has got: the machines closed are the last of the vector, those created
\* come next, and the first handles of the table are the open ones.
Progress ==
  prudent =>
    /\ ~broken
    /\ loop.kind # "stop"
    /\ loop.kind = "none" => Len(vector) = maxMachines /\ Len(machines) = maxMachines
    /\ loop.kind = "close" =>
         /\ Len(vector) = loop.i /\ Len(machines) <= maxMachines
         /\ \A j \in 1..Len(vector) : vector[j] \in started
    /\ loop.kind = "new" =>
         Len(vector) = loop.i - 1 /\ loop.i <= maxMachines + 1 /\ Len(machines) <= maxMachines
    /\ \A j \in 1..Len(machines) : machines[j].conn = IF j <= Len(vector) THEN j - 1 ELSE Closed

LEMMA ProgressInit == Init => Progress
<1> SUFFICES ASSUME Init PROVE Progress
  OBVIOUS
<1>1. Len(vector) = 0 /\ Len(machines) = 0 /\ loop.kind = "none"
  BY DEF Init, NoLoop
<1> QED BY <1>1 DEF Init, Progress

LEMMA ProgressStep ==
  ASSUME PoolInv, Progress, [Next]_vars
  PROVE  Progress'
<1> SUFFICES ASSUME prudent' PROVE Progress'
  BY DEF Progress
<1>p. prudent
  BY DEF Next, vars, InitPool, StopPool, CloseNext, EndClosing, NewMachine, EndInit, Starts,
         Lease, Use, Release, Undefined
<1>t. /\ vector \in Seq(Nat) /\ machines \in Seq(Handles)
      /\ Len(vector) \in Nat /\ Len(machines) \in Nat
      /\ DOMAIN machines = 1..Len(machines) /\ DOMAIN vector = 1..Len(vector)
      /\ \A j \in 1..Len(machines) : machines[j] \in Handles
      /\ Len(vector) <= Len(machines)
      /\ leased \in [Clients -> 0..Len(machines)]
      /\ maxMachines \in Nat /\ MaxSize \in Nat
  BY LenProperties, ElementOfSeq, SizeAssumption DEF PoolInv, TypeOK
<1>l. /\ loop = [kind |-> loop.kind, i |-> loop.i]
      /\ loop.kind \in {"none", "close", "stop", "new"} /\ loop.i \in Nat
  BY <1>t DEF PoolInv, TypeOK, Loops
<1>n. NoLoop.kind = "none" /\ NoLoop.i = 0
  BY DEF NoLoop
<1>1. ASSUME NEW size \in 1..MaxSize, InitPool(size) PROVE Progress'
  <2>1. loop.kind = "none"
    BY <1>1, <1>n DEF InitPool, Ready
  <2>2. /\ Len(vector) = maxMachines /\ Len(machines) = maxMachines /\ size >= maxMachines
        /\ \A j \in 1..Len(vector) : vector[j] \in started
    BY <1>p, <1>1, <1>t, <2>1 DEF InitPool, Progress
  <2>3. maxMachines' = size /\ UNCHANGED <<vector, started, machines, leased, broken>>
    BY <1>1 DEF InitPool
  <2>4. CASE Len(machines) = size
    <3>1. loop' = NoLoop
      BY <1>1, <2>4 DEF InitPool
    <3> QED BY <1>p, <1>n, <1>t, <2>2, <2>3, <2>4, <3>1 DEF Progress
  <2>5. CASE Len(machines) # size
    <3>1. loop' = [kind |-> "close", i |-> Len(machines)]
      BY <1>1, <2>5 DEF InitPool
    <3>2. loop'.kind = "close" /\ loop'.i = Len(machines)
      BY <3>1
    <3> QED BY <1>p, <1>t, <2>2, <2>3, <3>2 DEF Progress
  <2> QED BY <2>4, <2>5
<1>2. CASE StopPool
  BY <1>2 DEF StopPool
<1>3. CASE CloseNext
  <2> DEFINE i == loop.i
  <2>1. /\ loop.kind = "close" /\ i > 0 /\ CloseMachine(i)
        /\ loop' = [loop EXCEPT !.i = i - 1] /\ UNCHANGED <<maxMachines, started, leased>>
    BY <1>p, <1>3 DEF CloseNext, Progress
  <2>2. /\ Len(vector) = i /\ i \in 1..Len(machines) /\ Len(machines) <= maxMachines
        /\ \A j \in 1..Len(vector) : vector[j] \in started
    BY <1>p, <1>t, <1>l, <2>1 DEF Progress
  <2>3. machines[i].conn = i - 1
    <3>1. i \in 1..Len(machines) /\ i <= Len(vector)
      BY <1>t, <2>2
    <3> QED BY <1>p, <3>1 DEF Progress
  <2>4. InRange(machines[i].conn) /\ Machine(machines[i].conn) \in started
        /\ machines[i].conn + 1 = i
    BY <1>t, <2>2, <2>3 DEF InRange, Machine
  <2>5. /\ ~broken' /\ vector' = RemoveAt(vector, i)
        /\ machines' = [machines EXCEPT ![i] = [machines[i] EXCEPT !.conn = Closed]]
    BY <2>1, <2>4 DEF CloseMachine, StopMachine
  <2>6. /\ Len(vector') = i - 1
        /\ \A j \in 1..(i - 1) : vector'[j] = vector[j]
    <3>1. i \in 1..Len(vector)
      BY <1>t, <2>2
    <3> QED BY <1>t, <2>2, <2>5, <3>1, RemoveAtProperties
  <2>7. [machines[i] EXCEPT !.conn = Closed] \in Handles
    BY <1>t, <2>2 DEF Handles
  <2>8. Len(machines') = Len(machines)
    BY <1>t, <2>2, <2>5, <2>7, ExceptSeq
  <2>9. \A j \in 1..Len(machines) :
          machines'[j].conn = IF j <= i - 1 THEN j - 1 ELSE Closed
    <3> SUFFICES ASSUME NEW j \in 1..Len(machines)
                 PROVE  machines'[j].conn = IF j <= i - 1 THEN j - 1 ELSE Closed
      OBVIOUS
    <3>1. machines[j].conn = IF j <= i THEN j - 1 ELSE Closed
      BY <1>p, <2>2 DEF Progress
    <3>2. CASE j = i
      BY <1>t, <2>2, <2>5, <3>2 DEF Handles
    <3>3. CASE j # i
      BY <1>t, <2>2, <2>5, <3>1, <3>3
    <3> QED BY <3>2, <3>3
  <2>10. loop'.kind = "close" /\ loop'.i = i - 1
    BY <1>l, <2>1
  <2>11. \A j \in 1..Len(vector') : vector'[j] \in started'
    BY <1>t, <2>1, <2>2, <2>6
  <2> QED BY <1>p, <2>1, <2>2, <2>5, <2>6, <2>8, <2>9, <2>10, <2>11 DEF Progress
<1>4. CASE EndClosing
  <2>1. /\ loop.kind = "close" /\ loop.i = 0
        /\ UNCHANGED <<maxMachines, vector, started, machines, leased, broken>>
    BY <1>p, <1>4 DEF EndClosing, Progress
  <2>2. loop'.kind = "new" /\ loop'.i = 1
    BY <1>4, <2>1 DEF EndClosing
  <2>3. Len(vector) = 0 /\ Len(machines) <= maxMachines
    BY <1>p, <2>1 DEF Progress
  <2> QED BY <1>p, <1>t, <2>1, <2>2, <2>3 DEF Progress
<1>5. CASE NewMachine
  <2>1. Len(vector) = loop.i - 1 /\ loop.i <= maxMachines /\ Len(machines) <= maxMachines
        /\ loop.kind = "new"
    BY <1>p, <1>5 DEF NewMachine, Progress
  <2>2. Len(vector) < maxMachines
    BY <1>l, <1>t, <2>1
  <2> DEFINE handle == [conn |-> Len(vector), busy |-> FALSE, machine |-> FreeNumber]
  <2>3. handle \in Handles /\ handle.conn = Len(vector) /\ handle.conn \in 0..Len(machines)
    BY <1>t, FreeNumberType DEF Handles
  <2>4. /\ vector' = Append(vector, FreeNumber) /\ machines' = Put(handle)
        /\ UNCHANGED <<broken, maxMachines>> /\ loop' = [loop EXCEPT !.i = loop.i + 1]
    BY <1>5, <2>2 DEF NewMachine
  <2>5. Len(vector') = Len(vector) + 1
    BY <1>t, <2>4, FreeNumberType
  <2> HIDE DEF handle
  <2>6. /\ machines' \in Seq(Handles)
        /\ Len(machines') = IF Len(vector) < Len(machines) THEN Len(machines) ELSE Len(machines) + 1
        /\ machines'[Len(vector) + 1] = handle
        /\ \A j \in DOMAIN machines' : j # Len(vector) + 1 =>
             j \in DOMAIN machines /\ machines'[j] = machines[j]
    BY <1>t, <2>3, <2>4, PutProperties
  <2>7. \A j \in 1..Len(machines') :
          machines'[j].conn = IF j <= Len(vector) + 1 THEN j - 1 ELSE Closed
    <3> SUFFICES ASSUME NEW j \in 1..Len(machines')
                 PROVE  machines'[j].conn = IF j <= Len(vector) + 1 THEN j - 1 ELSE Closed
      OBVIOUS
    <3>1. j \in DOMAIN machines'
      BY <2>6, LenProperties
    <3>2. CASE j = Len(vector) + 1
      BY <1>t, <2>3, <2>6, <3>2
    <3>3. CASE j # Len(vector) + 1
      <4>1. machines'[j].conn = machines[j].conn /\ j \in 1..Len(machines)
        BY <1>t, <2>6, <3>1, <3>3
      <4>2. machines[j].conn = IF j <= Len(vector) THEN j - 1 ELSE Closed
        BY <1>p, <4>1 DEF Progress
      <4> QED BY <1>t, <3>3, <4>1, <4>2
    <3> QED BY <3>2, <3>3
  <2>8. loop'.kind = "new" /\ loop'.i = loop.i + 1
    BY <1>l, <2>1, <2>4
  <2>9. Len(machines') <= maxMachines
    BY <1>t, <2>1, <2>2, <2>6
  <2>10. ~broken'
    BY <1>p, <2>4 DEF Progress
  <2>11. Len(vector') = loop'.i - 1 /\ loop'.i <= maxMachines' + 1 /\ Len(machines') <= maxMachines'
    BY <1>l, <1>t, <2>1, <2>4, <2>5, <2>8, <2>9
  <2> QED BY <1>p, <2>5, <2>7, <2>8, <2>10, <2>11 DEF Progress
<1>6. CASE EndInit
  <2>1. /\ loop.kind = "new" /\ loop.i > maxMachines /\ loop' = NoLoop
        /\ UNCHANGED <<maxMachines, vector, started, machines, leased, broken>>
    BY <1>6 DEF EndInit
  <2>2. Len(vector) = maxMachines /\ Len(machines) = maxMachines
    BY <1>p, <1>l, <1>t, <2>1 DEF Progress
  <2> QED BY <1>p, <1>n, <2>1, <2>2 DEF Progress
<1>7. ASSUME NEW i \in DOMAIN vector, Starts(vector[i]) PROVE Progress'
  BY <1>p, <1>7 DEF Starts, Progress
<1>8. ASSUME NEW c \in Clients, Lease(c) PROVE Progress'
  <2>1. PICK i \in 1..Len(machines) :
          machines' = [machines EXCEPT ![i] = [machines[i] EXCEPT !.busy = TRUE]]
    BY <1>t, <1>8 DEF Lease
  <2>2. [machines[i] EXCEPT !.busy = TRUE] \in Handles
    BY <1>t DEF Handles
  <2>3. Len(machines') = Len(machines)
    BY <1>t, <2>1, <2>2, ExceptSeq
  <2>4. \A j \in 1..Len(machines) : machines'[j].conn = machines[j].conn
    BY <1>t, <2>1 DEF Handles
  <2>5. UNCHANGED <<maxMachines, vector, started, loop, broken>>
    BY <1>8 DEF Lease
  <2> QED BY <1>p, <2>3, <2>4, <2>5 DEF Progress
<1>9. ASSUME NEW c \in Clients, Use(c) PROVE Progress'
  <2>1. loop.kind = "none" /\ leased[c] \in 1..Len(machines)
    BY <1>9, <1>n, <1>t DEF Use, Ready
  <2>2. machines[leased[c]].conn = leased[c] - 1 /\ Len(vector) = Len(machines)
    BY <1>p, <1>t, <2>1 DEF Progress
  <2>3. ~broken'
    <3>1. InRange(machines[leased[c]].conn)
      BY <1>t, <2>1, <2>2 DEF InRange
    <3> QED BY <1>9, <3>1 DEF Use
  <2>4. UNCHANGED <<maxMachines, vector, started, machines, leased, loop>>
    BY <1>9 DEF Use
  <2> QED BY <1>p, <2>3, <2>4 DEF Progress
<1>10. ASSUME NEW c \in Clients, Release(c) PROVE Progress'
  <2> DEFINE i == leased[c]
  <2>1. /\ i \in 1..Len(machines)
        /\ machines' = [machines EXCEPT ![i] = [machines[i] EXCEPT !.busy = FALSE]]
    BY <1>t, <1>10 DEF Release
  <2>2. [machines[i] EXCEPT !.busy = FALSE] \in Handles
    BY <1>t, <2>1 DEF Handles
  <2>3. Len(machines') = Len(machines)
    BY <1>t, <2>1, <2>2, ExceptSeq
  <2>4. \A j \in 1..Len(machines) : machines'[j].conn = machines[j].conn
    BY <1>t, <2>1 DEF Handles
  <2>5. UNCHANGED <<maxMachines, vector, started, loop, broken>>
    BY <1>10 DEF Release
  <2> QED BY <1>p, <2>3, <2>4, <2>5 DEF Progress
<1>11. CASE Undefined \/ UNCHANGED vars
  <2>1. UNCHANGED vars
    BY <1>11 DEF Undefined
  <2> QED BY <1>p, <2>1 DEF vars, Progress
<1> QED BY <1>1, <1>2, <1>3, <1>4, <1>5, <1>6, <1>7, <1>8, <1>9, <1>10, <1>11 DEF Next

\* When the pool is only ever resized to grow, and not before its machines have started,
\* every init leaves as many machines as it was asked for, whatever sizes it passed through.
THEOREM PrudentPoolIsFull == Spec => []PoolIsFull
<1>1. PoolInv /\ Progress => PoolIsFull
  <2> SUFFICES ASSUME PoolInv, Progress, Ready, prudent PROVE PoolIsFull
    BY DEF PoolIsFull
  <2>1. loop.kind = "none"
    BY DEF Ready, NoLoop
  <2>2. Len(vector) = maxMachines /\ Len(machines) = maxMachines /\ DOMAIN machines = 1..Len(machines)
    BY <2>1, LenProperties DEF Progress, PoolInv, TypeOK
  <2>3. \A j \in 1..Len(machines) : machines[j].conn = j - 1
    BY <2>2 DEF Progress
  <2> QED BY <2>2, <2>3 DEF PoolIsFull, Closed
<1>2. PoolInv /\ Progress /\ [Next]_vars => Progress'
  BY ProgressStep
<1> QED BY <1>1, <1>2, ProgressInit, PoolInvHolds, PTL DEF Spec

\* And no call, in whatever order init, the machines' threads and the clients run, indexes
\* the vector of machines outside its range.
THEOREM PrudentPoolInRange == Spec => []NeverOutOfRange
<1>1. Progress => NeverOutOfRange
  BY DEF Progress, NeverOutOfRange
<1>2. PoolInv /\ Progress /\ [Next]_vars => Progress'
  BY ProgressStep
<1> QED BY <1>1, <1>2, ProgressInit, PoolInvHolds, PTL DEF Spec

-----------------------------------------------------------------------------
(* A handle and its machine. *)

\* While a pool is closed and built, vector and table stay parallel: the handle at each
\* place of the vector was created with the machine that is there.
Parallel == prudent => \A j \in 1..Len(vector) : machines[j].machine = vector[j]

LEMMA ParallelStep ==
  ASSUME PoolInv, Progress, Parallel, [Next]_vars
  PROVE  Parallel'
<1> SUFFICES ASSUME prudent' PROVE \A j \in 1..Len(vector') : machines'[j].machine = vector'[j]
  BY DEF Parallel
<1>p. prudent
  BY DEF Next, vars, InitPool, StopPool, CloseNext, EndClosing, NewMachine, EndInit, Starts,
         Lease, Use, Release, Undefined
<1>t. /\ vector \in Seq(Nat) /\ machines \in Seq(Handles)
      /\ Len(vector) \in Nat /\ Len(machines) \in Nat
      /\ DOMAIN machines = 1..Len(machines) /\ DOMAIN vector = 1..Len(vector)
      /\ \A j \in 1..Len(machines) : machines[j] \in Handles
      /\ Len(vector) <= Len(machines)
      /\ leased \in [Clients -> 0..Len(machines)]
      /\ loop.i \in Nat
  BY LenProperties, ElementOfSeq, SizeAssumption DEF PoolInv, TypeOK, Loops
<1>q. \A j \in 1..Len(vector) : j \in 1..Len(machines) /\ machines[j].machine = vector[j]
  BY <1>p, <1>t DEF Parallel
<1>1. CASE CloseNext
  <2> DEFINE i == loop.i
  <2>1. loop.kind = "close" /\ i > 0 /\ CloseMachine(i) /\ Len(vector) = i
    BY <1>p, <1>1 DEF CloseNext, Progress
  <2>2. i \in 1..Len(vector) /\ i \in 1..Len(machines)
    BY <1>t, <2>1
  <2>3. InRange(machines[i].conn) /\ Machine(machines[i].conn) \in started /\ machines[i].conn + 1 = i
    <3>1. machines[i].conn = i - 1
      BY <1>p, <2>1, <2>2 DEF Progress
    <3>2. vector[i] \in started
      BY <1>p, <2>1, <2>2 DEF Progress
    <3> QED BY <1>t, <2>1, <2>2, <3>1, <3>2 DEF InRange, Machine
  <2>4. /\ vector' = RemoveAt(vector, i)
        /\ machines' = [machines EXCEPT ![i] = [machines[i] EXCEPT !.conn = Closed]]
    BY <2>1, <2>3 DEF CloseMachine, StopMachine
  <2>5. Len(vector') = i - 1 /\ \A j \in 1..(i - 1) : vector'[j] = vector[j]
    BY <1>t, <2>1, <2>2, <2>4, RemoveAtProperties
  <2> QED BY <1>t, <1>q, <2>1, <2>2, <2>4, <2>5
<1>2. CASE NewMachine
  <2>1. Len(vector) = loop.i - 1 /\ loop.i <= maxMachines
    BY <1>p, <1>2 DEF NewMachine, Progress
  <2>2. Len(vector) < maxMachines
    BY <1>t, <2>1 DEF PoolInv, TypeOK
  <2> DEFINE handle == [conn |-> Len(vector), busy |-> FALSE, machine |-> FreeNumber]
  <2>3. handle \in Handles /\ handle.conn = Len(vector) /\ handle.machine = FreeNumber
        /\ handle.conn \in 0..Len(machines) /\ FreeNumber \in Nat
    BY <1>t, FreeNumberType DEF Handles
  <2>4. vector' = Append(vector, FreeNumber) /\ machines' = Put(handle)
    BY <1>2, <2>2 DEF NewMachine
  <2>5. /\ Len(vector') = Len(vector) + 1 /\ vector'[Len(vector) + 1] = FreeNumber
        /\ \A j \in 1..Len(vector) : vector'[j] = vector[j]
    BY <1>t, <2>3, <2>4
  <2> HIDE DEF handle
  <2>6. /\ machines'[Len(vector) + 1] = handle
        /\ DOMAIN machines' = 1..Len(machines') /\ Len(machines') >= Len(machines)
        /\ \A j \in DOMAIN machines' : j # Len(vector) + 1 => machines'[j] = machines[j]
    <3>1. /\ machines' \in Seq(Handles)
          /\ Len(machines') = IF Len(vector) < Len(machines) THEN Len(machines) ELSE Len(machines) + 1
          /\ machines'[Len(vector) + 1] = handle
          /\ \A j \in DOMAIN machines' : j # Len(vector) + 1 => machines'[j] = machines[j]
      BY <1>t, <2>3, <2>4, PutProperties
    <3> QED BY <1>t, <3>1, LenProperties
  <2>7. ASSUME NEW j \in 1..Len(vector') PROVE machines'[j].machine = vector'[j]
    <3>1. CASE j = Len(vector) + 1
      BY <2>3, <2>5, <2>6, <3>1
    <3>2. CASE j # Len(vector) + 1
      <4>1. j \in 1..Len(vector) /\ j \in DOMAIN machines'
        BY <1>t, <2>5, <2>6, <2>7, <3>2
      <4> QED BY <1>q, <2>5, <2>6, <3>2, <4>1
    <3> QED BY <3>1, <3>2
  <2> QED BY <2>7
<1>3. ASSUME NEW c \in Clients, Lease(c) \/ Release(c)
      PROVE  \A j \in 1..Len(vector') : machines'[j].machine = vector'[j]
  <2>1. vector' = vector
    BY <1>3 DEF Lease, Release
  <2>2. \A j \in 1..Len(machines) : machines'[j].machine = machines[j].machine
    <3>1. PICK i \in 1..Len(machines), b \in BOOLEAN :
            machines' = [machines EXCEPT ![i] = [machines[i] EXCEPT !.busy = b]]
      <4>1. CASE Lease(c)
        BY <1>t, <4>1 DEF Lease
      <4>2. CASE Release(c)
        <5>1. /\ leased[c] \in 1..Len(machines)
              /\ machines' = [machines EXCEPT ![leased[c]] = [machines[leased[c]] EXCEPT !.busy = FALSE]]
          BY <1>t, <4>2 DEF Release
        <5> QED BY <5>1
      <4> QED BY <1>3, <4>1, <4>2
    <3> QED BY <1>t, <3>1 DEF Handles
  <2> QED BY <1>q, <2>1, <2>2
<1>4. CASE UNCHANGED <<vector, machines>>
  BY <1>q, <1>4
<1>5. CloseNext \/ NewMachine \/ (\E c \in Clients : Lease(c) \/ Release(c)) \/ UNCHANGED <<vector, machines>>
  BY <1>p DEF Next, vars, InitPool, StopPool, EndClosing, EndInit, Starts, Use, Undefined
<1> QED BY <1>1, <1>2, <1>3, <1>4, <1>5

\* An open handle of a prudent owner's pool names the machine it was created with, through
\* every closing, which shifts the vector, and every init.
THEOREM HandlesKeepTheirMachines == Spec => []OwnMachine
<1>1. PoolInv /\ Progress /\ Parallel => OwnMachine
  <2> SUFFICES ASSUME PoolInv, Progress, Parallel, prudent,
                      NEW i \in DOMAIN machines, machines[i].conn # Closed
               PROVE  InRange(machines[i].conn) /\ Machine(machines[i].conn) = machines[i].machine
    BY DEF OwnMachine
  <2>1. i \in 1..Len(machines) /\ Len(vector) \in Nat
    BY LenProperties DEF PoolInv, TypeOK
  <2>2. i <= Len(vector) /\ machines[i].conn = i - 1
    BY <2>1 DEF Progress
  <2>3. i \in 1..Len(vector) /\ machines[i].machine = vector[i]
    BY <2>1, <2>2 DEF Parallel
  <2> QED BY <2>1, <2>2, <2>3 DEF InRange, Machine
<1>2. Init => Parallel
  <2> SUFFICES ASSUME Init PROVE Parallel
    OBVIOUS
  <2>1. Len(vector) = 0
    BY DEF Init
  <2> QED BY <2>1 DEF Parallel
<1>3. PoolInv /\ Progress /\ [Next]_vars => Progress'
  BY ProgressStep
<1>4. PoolInv /\ Progress /\ Parallel /\ [Next]_vars => Parallel'
  BY ParallelStep
<1> QED BY <1>1, <1>2, <1>3, <1>4, ProgressInit, PoolInvHolds, PTL DEF Spec

\* However often a pool is closed and rebuilt, its table has a handle for each machine of
\* the vector and no more than MaxSize of them, and what a client holds is in the table.
THEOREM PoolTypeCorrect == Spec => []TypeOK
<1>1. PoolInv => TypeOK
  BY DEF PoolInv
<1> QED BY <1>1, PoolInvHolds, PTL
=============================================================================
