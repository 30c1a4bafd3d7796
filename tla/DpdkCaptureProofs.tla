-------------------------- MODULE DpdkCaptureProofs --------------------------
(***************************************************************************)
(* Proof of the accounting of DpdkCapture, for any numbers of readers and  *)
(* workers, any sizes of rings and bursts and any size of a pointer.       *)
(***************************************************************************)
EXTENDS DpdkCapture, SumProofs, SequenceTheorems

ReaderPcs == {"loop", "poll", "retry", "count", "signal", "done"}
Ids == Nat \ {0}

DpdkTypes ==
    /\ now \in Nat
    /\ arrived \in [Workers -> Nat] /\ nic \in [Workers -> Seq(Ids)]
    /\ reader \in [Readers -> [pc : ReaderPcs, at : 1 .. NbWorkers, time_now : Nat, sent : Nat]]
    /\ buffers \in [Workers -> Seq([id : Ids, ts : Nat])]
    /\ rings \in [Workers -> Seq(Int)] /\ \A w \in Workers : Len(rings[w]) <= RingSize
    /\ taken \in [Workers -> Seq(Int)]
    /\ stat_received \in [Readers -> Int] /\ stat_dropped \in [Readers -> Int]
    /\ pkts_dropped \in [Workers -> Int]
    /\ worker \in [Workers -> [pc : {"run", "stopped"}, next_stat_ts : Nat]]

\* The reader has sent worker w its NULL packet.
Signalled(w) == \/ reader[w[1]].pc = "done"
                \/ reader[w[1]].pc = "signal" /\ w[2] < reader[w[1]].at

\* A NULL packet is the last packet a worker ever gets; one that took it has stopped and
\* nothing is in its ring.
NullInv ==
    \A w \in Workers :
        /\ \A i \in 1 .. Len(rings[w]) : rings[w][i] = Null => i = Len(rings[w]) /\ Signalled(w)
        /\ worker[w].pc = "stopped" => rings[w] = <<>> /\ Signalled(w)

\* What a reader has moved and not counted yet.
At(r) == <<r, reader[r].at>>
Uncounted(r) == CASE reader[r].pc = "retry" -> reader[r].sent
                  [] reader[r].pc = "count" -> Len(buffers[At(r)])
                  [] OTHER -> 0

\* What worker w has in its ring, a NULL packet left out.
HasNull(w) == rings[w] # <<>> /\ rings[w][Len(rings[w])] = Null
Stored(w) == Len(rings[w]) - (IF HasNull(w) THEN 1 ELSE 0)
Counts(r) == [w \in WorkersOf(r) |-> Len(taken[w]) + Stored(w)]
Drops(r) == [w \in WorkersOf(r) |-> pkts_dropped[w]]

CountInv ==
    \A r \in Readers :
        /\ reader[r].pc = "retry" => reader[r].sent < Len(buffers[At(r)])
        /\ stat_received[r] + Uncounted(r) = SumFunction(Counts(r)) + stat_dropped[r]
        /\ stat_dropped[r] = SumFunction(Drops(r))

DpdkInv == DpdkTypes /\ NullInv /\ CountInv
-----------------------------------------------------------------------------
\* The workers of a reader are finitely many.
LEMMA WorkersFinite ==
    ASSUME NEW r \in Readers
    PROVE  /\ IsFiniteSet(WorkersOf(r)) /\ WorkersOf(r) \subseteq Workers
           /\ \A w \in WorkersOf(r) : w = <<r, w[2]>> /\ w[2] \in 1 .. NbWorkers /\ w[1] = r
<1>1. IsFiniteSet(1 .. NbWorkers)
  BY DpdkAssumption, FS_Interval
<1>2. IsFiniteSet({r})
  BY FS_Singleton
<1>3. IsFiniteSet({r} \X (1 .. NbWorkers))
  BY <1>1, <1>2, FS_Product
<1> QED
  BY <1>3 DEF WorkersOf, Workers

\* Only the workers of another reader are left alone by a step of worker w.
LEMMA WorkerOf ==
    ASSUME NEW w \in Workers
    PROVE  w[1] \in Readers /\ w[2] \in 1 .. NbWorkers /\ w = <<w[1], w[2]>> /\ w \in WorkersOf(w[1])
  BY DEF Workers, WorkersOf

\* The packets in a ring are all but the NULL packet.
LEMMA StoredIsCardinality ==
    ASSUME DpdkTypes, NullInv, NEW w \in Workers
    PROVE  Cardinality({i \in DOMAIN rings[w] : rings[w][i] # Null}) = Stored(w)
<1> DEFINE n == Len(rings[w])
<1>1. n \in Nat /\ DOMAIN rings[w] = 1 .. n /\ (rings[w] = <<>> <=> n = 0)
  BY DEF DpdkTypes
<1>2. \A i \in 1 .. n : rings[w][i] = Null => i = n
  BY DEF NullInv
<1>3. CASE HasNull(w)
  <2>1. n > 0 /\ rings[w][n] = Null
    BY <1>1, <1>3 DEF HasNull
  <2>2. {i \in DOMAIN rings[w] : rings[w][i] # Null} = 1 .. n - 1
    <3> HIDE DEF n
    <3> QED
      BY <1>1, <1>2, <2>1
  <2>3. Cardinality(1 .. n - 1) = n - 1
    <3> HIDE DEF n
    <3> QED
      BY <1>1, <2>1, FS_Interval
  <2> QED
    BY <1>3, <2>2, <2>3 DEF Stored
<1>4. CASE ~HasNull(w)
  <2>1. {i \in DOMAIN rings[w] : rings[w][i] # Null} = 1 .. n
    <3>1. n > 0 => rings[w][n] # Null
      BY <1>1, <1>4 DEF HasNull
    <3> HIDE DEF n
    <3> QED
      BY <1>1, <1>2, <3>1
  <2>2. Cardinality(1 .. n) = n
    <3> HIDE DEF n
    <3> QED
      BY <1>1, FS_Interval
  <2>3. Stored(w) = n - 0 /\ n - 0 = n
    BY <1>1, <1>4 DEF Stored
  <2> QED
    BY <2>1, <2>2, <2>3
<1> QED
  BY <1>3, <1>4

\* The invariant states the accounting.
LEMMA DpdkInvImplies == DpdkInv => DpdkAccounting
<1> SUFFICES ASSUME DpdkInv PROVE DpdkAccounting
  OBVIOUS
<1>1. ASSUME NEW r \in Readers
      PROVE  /\ reader[r].pc \notin {"retry", "count"} => stat_received[r] = Enqueued(r) + stat_dropped[r]
             /\ SumFunction([w \in WorkersOf(r) |-> pkts_dropped[w]]) = stat_dropped[r]
  <2>1. \A w \in WorkersOf(r) : Entered(w) = Len(taken[w]) + Stored(w)
    BY WorkersFinite, StoredIsCardinality DEF DpdkInv, Entered
  <2>2. Counts(r) = [w \in WorkersOf(r) |-> Entered(w)]
    BY <2>1 DEF Counts
  <2>3. stat_received[r] + Uncounted(r) = SumFunction(Counts(r)) + stat_dropped[r]
        /\ stat_dropped[r] = SumFunction(Drops(r)) /\ stat_received[r] \in Int
    BY DEF DpdkInv, CountInv, DpdkTypes
  <2>4. reader[r].pc \notin {"retry", "count"} => Uncounted(r) = 0
    BY DEF Uncounted
  <2> QED
    BY <2>2, <2>3, <2>4 DEF Enqueued, Drops
<1>2. \A w \in Workers : worker[w].pc = "stopped" => rings[w] = <<>>
  BY DEF DpdkInv, NullInv
<1> QED
  BY <1>1, <1>2 DEF DpdkAccounting

\* It holds at the start.
LEMMA DpdkInitInv == Init => DpdkInv
<1> SUFFICES ASSUME Init PROVE DpdkInv
  OBVIOUS
<1> USE DpdkAssumption
<1>1. DpdkTypes
  BY DEF Init, PortInit, Launch, DpdkTypes, ReaderPcs, Workers
<1>2. NullInv
  BY DEF Init, PortInit, Launch, NullInv
<1>3. ASSUME NEW r \in Readers
      PROVE  SumFunction(Counts(r)) = 0 /\ SumFunction(Drops(r)) = 0 /\ Uncounted(r) = 0
  <2>1. \A w \in WorkersOf(r) : Len(taken[w]) + Stored(w) = 0 /\ pkts_dropped[w] = 0
    BY WorkersFinite DEF Init, PortInit, Launch, Stored, HasNull
  <2>2. Counts(r) \in [WorkersOf(r) -> {0}] /\ Drops(r) \in [WorkersOf(r) -> {0}]
    BY <2>1 DEF Counts, Drops
  <2>3. Uncounted(r) = 0
    BY DEF Init, Launch, Uncounted
  <2> QED
    BY <2>2, <2>3, WorkersFinite, SumOfZeros
<1>4. CountInv
  BY <1>3 DEF Init, PortInit, Launch, CountInv
<1> QED
  BY <1>1, <1>2, <1>4 DEF DpdkInv
-----------------------------------------------------------------------------
\* What is stored is a number.
LEMMA CountsAreNumbers ==
    ASSUME DpdkTypes, NEW r \in Readers
    PROVE  Counts(r) \in [WorkersOf(r) -> Int] /\ Drops(r) \in [WorkersOf(r) -> Int]
<1>1. ASSUME NEW w \in WorkersOf(r) PROVE Len(taken[w]) + Stored(w) \in Int /\ pkts_dropped[w] \in Int
  <2>1. w \in Workers
    BY WorkersFinite
  <2>2. Len(taken[w]) \in Nat /\ Len(rings[w]) \in Nat /\ pkts_dropped[w] \in Int
    BY <2>1 DEF DpdkTypes
  <2> QED
    BY <2>2 DEF Stored
<1> QED
  BY <1>1 DEF Counts, Drops

\* A step that touches the ring and the taken packets of one worker only.
LEMMA CountsStep ==
    ASSUME DpdkTypes, DpdkTypes', NEW w \in Workers,
           \A v \in Workers : v # w => taken'[v] = taken[v] /\ rings'[v] = rings[v]
    PROVE  /\ \A r \in Readers : r # w[1] => Counts(r)' = Counts(r)
           /\ SumFunction(Counts(w[1]))' =
                SumFunction(Counts(w[1])) + ((Len(taken[w]) + Stored(w))' - (Len(taken[w]) + Stored(w)))
           /\ SumFunction(Counts(w[1])) \in Int
<1>1. \A v \in Workers : v # w => (Len(taken[v]) + Stored(v))' = Len(taken[v]) + Stored(v)
  BY DEF Stored, HasNull
<1>2. ASSUME NEW r \in Readers, r # w[1] PROVE Counts(r)' = Counts(r)
  <2>1. \A v \in WorkersOf(r) : v \in Workers /\ v # w
    BY <1>2, WorkersFinite
  <2>2. \A v \in WorkersOf(r) : (Len(taken[v]) + Stored(v))' = Len(taken[v]) + Stored(v)
    BY <1>1, <2>1
  <2> QED
    BY <2>2 DEF Counts
<1>3. w[1] \in Readers /\ w \in WorkersOf(w[1])
  BY WorkerOf
<1> DEFINE f == Counts(w[1])
           g == Counts(w[1])'
<1>4. f \in [WorkersOf(w[1]) -> Int] /\ g \in [WorkersOf(w[1]) -> Int]
  <2>1. f \in [WorkersOf(w[1]) -> Int]
    BY <1>3, CountsAreNumbers
  <2>2. \A r \in Readers : DpdkTypes => Counts(r) \in [WorkersOf(r) -> Int]
    BY CountsAreNumbers
  <2>3. g \in [WorkersOf(w[1]) -> Int]
    <3>1. \A v \in Workers : Len(taken'[v]) \in Nat /\ Len(rings'[v]) \in Nat
      <4>1. taken' \in [Workers -> Seq(Int)] /\ rings' \in [Workers -> Seq(Int)]
        BY DEF DpdkTypes
      <4> QED
        BY <4>1
    <3>2. \A v \in WorkersOf(w[1]) : v \in Workers
      BY <1>3, WorkersFinite
    <3> QED
      BY <3>1, <3>2 DEF Counts, Stored
  <2> QED
    BY <2>1, <2>3
<1>5. \A v \in WorkersOf(w[1]) : v # w => g[v] = f[v]
  BY <1>1, <1>3, WorkersFinite DEF Counts
<1>6. g[w] = (Len(taken[w]) + Stored(w))' /\ f[w] = Len(taken[w]) + Stored(w)
  BY <1>3 DEF Counts
<1>7. SumFunction(g) = SumFunction(f) + (g[w] - f[w]) /\ SumFunction(f) \in Int
  <2>1. IsFiniteSet(WorkersOf(w[1]))
    BY <1>3, WorkersFinite
  <2> HIDE DEF f, g
  <2> QED
    BY <1>3, <1>4, <1>5, <2>1, SumChangesBy
<1> QED
  BY <1>2, <1>6, <1>7

\* A step that leaves rings and taken packets alone.
LEMMA CountsSame ==
    ASSUME UNCHANGED <<rings, taken>>
    PROVE  \A r \in Readers : Counts(r)' = Counts(r)
  BY DEF Counts, Stored, HasNull

\* A step that drops packets of one worker.
LEMMA DropsStep ==
    ASSUME DpdkTypes, DpdkTypes', NEW w \in Workers,
           \A v \in Workers : v # w => pkts_dropped'[v] = pkts_dropped[v]
    PROVE  /\ \A r \in Readers : r # w[1] => Drops(r)' = Drops(r)
           /\ SumFunction(Drops(w[1]))' = SumFunction(Drops(w[1])) + (pkts_dropped'[w] - pkts_dropped[w])
           /\ SumFunction(Drops(w[1])) \in Int
<1>1. ASSUME NEW r \in Readers, r # w[1] PROVE Drops(r)' = Drops(r)
  <2>1. \A v \in WorkersOf(r) : v \in Workers /\ v # w
    BY <1>1, WorkersFinite
  <2> QED
    BY <2>1 DEF Drops
<1>2. w[1] \in Readers /\ w \in WorkersOf(w[1]) /\ WorkersOf(w[1]) \subseteq Workers
  BY WorkerOf, WorkersFinite
<1> DEFINE f == Drops(w[1])
           g == Drops(w[1])'
<1>3. f \in [WorkersOf(w[1]) -> Int] /\ g \in [WorkersOf(w[1]) -> Int]
  BY <1>2 DEF Drops, DpdkTypes
<1>4. \A v \in WorkersOf(w[1]) : v # w => g[v] = f[v]
  BY <1>2 DEF Drops
<1>5. g[w] = pkts_dropped'[w] /\ f[w] = pkts_dropped[w]
  BY <1>2 DEF Drops
<1>6. SumFunction(g) = SumFunction(f) + (g[w] - f[w]) /\ SumFunction(f) \in Int
  <2>1. IsFiniteSet(WorkersOf(w[1]))
    BY <1>2, WorkersFinite
  <2> HIDE DEF f, g
  <2> QED
    BY <1>2, <1>3, <1>4, <2>1, SumChangesBy
<1> QED
  BY <1>1, <1>5, <1>6

\* A step that drops nothing.
LEMMA DropsSame ==
    ASSUME UNCHANGED pkts_dropped
    PROVE  \A r \in Readers : Drops(r)' = Drops(r)
  BY DEF Drops
-----------------------------------------------------------------------------
\* The smaller of two numbers.
LEMMA MinOfTwo ==
    ASSUME NEW a \in Nat, NEW b \in Nat
    PROVE  Min({a, b}) \in Nat /\ Min({a, b}) <= a /\ Min({a, b}) <= b /\ Min({a, b}) \in {a, b}
<1>1. \E x \in {a, b} : \A y \in {a, b} : x =< y
  <2>1. CASE a <= b
    BY <2>1
  <2>2. CASE b <= a
    BY <2>2
  <2> QED
    BY <2>1, <2>2
<1> QED
  BY <1>1 DEF Min

\* The pointers that the second try reads are those of packets, or wild: never NULL.
LEMMA RetriedIsNotNull ==
    ASSUME NEW buf \in Seq([id : Ids, ts : Nat]), NEW sent \in Nat, NEW k \in 1 .. Len(buf) - sent
    PROVE  Retried(buf, sent, k) \in Int /\ Retried(buf, sent, k) # Null
<1>1. PointerSize \in Nat /\ PointerSize > 0
  BY DpdkAssumption
<1> DEFINE q == sent \div PointerSize
<1>2. q \in Nat /\ q <= sent
  <2>1. q \in Int /\ PointerSize * q <= sent /\ sent < PointerSize * q + PointerSize
    BY <1>1
  <2> HIDE DEF q
  <2>2. q >= 0
    <3>1. ASSUME q <= -1 PROVE FALSE
      <4>1. PointerSize * q <= PointerSize * (-1)
        BY <1>1, <2>1, <3>1
      <4> QED
        BY <1>1, <2>1, <4>1
    <3> QED
      BY <2>1, <3>1
  <2>3. PointerSize * q >= q
    BY <1>1, <2>1, <2>2
  <2>4. \A a, b, c \in Int : a <= b /\ b <= c => a <= c
    OBVIOUS
  <2>5. PointerSize * q \in Int
    BY <1>1, <2>1
  <2>6. q <= sent
    BY <2>1, <2>3, <2>4, <2>5
  <2> QED
    BY <2>1, <2>2, <2>6
<1> HIDE DEF q
<1>3. q + k \in 1 .. Len(buf)
  BY <1>2
<1>4. buf[q + k].id \in Ids
  <2>1. buf[q + k] \in [id : Ids, ts : Nat]
    BY <1>3, ElementOfSeq
  <2> QED
    BY <2>1
<1>5. Retried(buf, sent, k) \in {buf[q + k].id, Wild}
  BY DEF Retried, q
<1> QED
  BY <1>4, <1>5 DEF Ids, Wild, Null
-----------------------------------------------------------------------------
\* Steps that change no ring, buffer or counter.
LEMMA QuietStep ==
    ASSUME DpdkInv, UNCHANGED <<reader, buffers, rings, stat_received, stat_dropped, pkts_dropped, worker, taken>>,
           now' \in Nat, arrived' \in [Workers -> Nat], nic' \in [Workers -> Seq(Ids)]
    PROVE  DpdkInv'
<1>1. DpdkTypes'
  BY DEF DpdkInv, DpdkTypes
<1>2. NullInv'
  BY DEF DpdkInv, NullInv, Signalled
<1>3. CountInv'
  <2>1. \A r \in Readers : Counts(r)' = Counts(r) /\ Drops(r)' = Drops(r) /\ Uncounted(r)' = Uncounted(r) /\ At(r)' = At(r)
    BY CountsSame, DropsSame DEF Uncounted, At
  <2> QED
    BY <2>1 DEF DpdkInv, CountInv
<1> QED
  BY <1>1, <1>2, <1>3 DEF DpdkInv

\* The clock, the network, and the main thread.
LEMMA OutsideSteps ==
    ASSUME DpdkInv,
           \/ \E w \in Workers : Arrive(w)
           \/ Tick \/ MainStat \/ PacketCaptureStop \/ MainStop \/ MainRelease
    PROVE  DpdkInv'
<1>1. now \in Nat /\ arrived \in [Workers -> Nat] /\ nic \in [Workers -> Seq(Ids)]
  BY DEF DpdkInv, DpdkTypes
<1>2. ASSUME NEW w \in Workers, Arrive(w) PROVE DpdkInv'
  <2>1. arrived' \in [Workers -> Nat] /\ now' \in Nat
    BY <1>1, <1>2 DEF Arrive
  <2>2. nic' \in [Workers -> Seq(Ids)]
    <3>1. arrived[w] + 1 \in Ids /\ nic[w] \in Seq(Ids)
      BY <1>1 DEF Ids
    <3>2. Append(nic[w], arrived[w] + 1) \in Seq(Ids)
      BY <3>1
    <3> QED
      BY <1>1, <1>2, <3>2 DEF Arrive
  <2> QED
    BY <1>2, <2>1, <2>2, QuietStep DEF Arrive
<1>3. CASE Tick
  BY <1>1, <1>3, QuietStep DEF Tick
<1>4. CASE MainStat
  BY <1>1, <1>4, QuietStep DEF MainStat
<1>5. CASE PacketCaptureStop \/ MainStop \/ MainRelease
  BY <1>1, <1>5, QuietStep DEF PacketCaptureStop, MainStop, MainRelease
<1> QED
  BY <1>2, <1>3, <1>4, <1>5

\* A step of reader r that changes nothing but its own place.
LEMMA ReaderMoves ==
    ASSUME DpdkInv, NEW r \in Readers, NEW rd \in [pc : ReaderPcs, at : 1 .. NbWorkers, time_now : Nat, sent : Nat],
           reader' = [reader EXCEPT ![r] = rd], reader[r].pc = "loop",
           rd.pc = "poll" \/ (rd.pc = "signal" /\ rd.at = 1),
           UNCHANGED <<now, arrived, nic, buffers, rings, stat_received, stat_dropped, pkts_dropped, worker, taken>>
    PROVE  DpdkInv'
<1>1. DpdkTypes'
  BY DEF DpdkInv, DpdkTypes
<1>2. reader'[r] = rd /\ \A x \in Readers : x # r => reader'[x] = reader[x]
  BY DEF DpdkInv, DpdkTypes
<1>3. NullInv'
  <2> SUFFICES ASSUME NEW w \in Workers PROVE Signalled(w)' <=> Signalled(w)
    BY DEF DpdkInv, NullInv
  <2>1. w[1] \in Readers /\ w[2] \in 1 .. NbWorkers
    BY WorkerOf
  <2>2. CASE w[1] = r
    BY <1>2, <2>1, <2>2 DEF Signalled
  <2>3. CASE w[1] # r
    BY <1>2, <2>1, <2>3 DEF Signalled
  <2> QED
    BY <2>2, <2>3
<1>4. CountInv'
  <2> SUFFICES ASSUME NEW x \in Readers
               PROVE  /\ (reader[x].pc = "retry")' => (reader[x].sent < Len(buffers[At(x)]))'
                      /\ (stat_received[x] + Uncounted(x))' = (SumFunction(Counts(x)) + stat_dropped[x])'
                      /\ stat_dropped'[x] = SumFunction(Drops(x))'
    BY DEF CountInv
  <2>1. Counts(x)' = Counts(x) /\ Drops(x)' = Drops(x)
    BY CountsSame, DropsSame
  <2>2. Uncounted(x)' = Uncounted(x) /\ ((reader[x].pc = "retry")' => reader[x].pc = "retry" /\ At(x)' = At(x) /\ reader'[x] = reader[x])
    BY <1>2 DEF Uncounted, At
  <2> QED
    BY <2>1, <2>2 DEF DpdkInv, CountInv
<1> QED
  BY <1>1, <1>3, <1>4 DEF DpdkInv

\* The turn of the loop of a reader.
LEMMA ReaderTurnStep ==
    ASSUME DpdkInv, NEW r \in Readers, ReaderTurn(r)
    PROVE  DpdkInv'
<1> DEFINE rd == IF is_continuous THEN [reader[r] EXCEPT !.pc = "poll", !.at = 1, !.time_now = now]
                 ELSE [reader[r] EXCEPT !.pc = "signal", !.at = 1]
<1>1. reader[r] \in [pc : ReaderPcs, at : 1 .. NbWorkers, time_now : Nat, sent : Nat] /\ now \in Nat
  BY DEF DpdkInv, DpdkTypes
<1>2. 1 \in 1 .. NbWorkers
  BY DpdkAssumption
<1>3. rd \in [pc : ReaderPcs, at : 1 .. NbWorkers, time_now : Nat, sent : Nat]
  BY <1>1, <1>2 DEF ReaderPcs
<1>4. rd.pc = "poll" \/ (rd.pc = "signal" /\ rd.at = 1)
  BY <1>1
<1>5. reader' = [reader EXCEPT ![r] = rd]
  BY DEF ReaderTurn
<1> HIDE DEF rd
<1> QED
  BY <1>3, <1>4, <1>5, ReaderMoves DEF ReaderTurn
-----------------------------------------------------------------------------
\* A reader that is not stopping puts packets into the ring of the worker it is at.
LEMMA AppendStep ==
    ASSUME DpdkInv, DpdkTypes', NEW r \in Readers, NEW w \in Workers, w = At(r), NEW add \in Seq(Int),
           \A i \in 1 .. Len(add) : add[i] # Null,
           reader[r].pc \notin {"signal", "done"}, (reader[r].pc \notin {"signal", "done"})',
           \A x \in Readers : x # r => reader'[x] = reader[x],
           rings' = [rings EXCEPT ![w] = @ \o add], taken' = taken, worker' = worker
    PROVE  /\ NullInv'
           /\ \A x \in Readers : x # r => Counts(x)' = Counts(x)
           /\ SumFunction(Counts(r))' = SumFunction(Counts(r)) + Len(add)
           /\ SumFunction(Counts(r)) \in Int
<1>1. w[1] = r /\ w[2] = reader[r].at
  BY DEF At
<1>2. rings \in [Workers -> Seq(Int)] /\ rings[w] \in Seq(Int)
  BY DEF DpdkInv, DpdkTypes
<1>3. rings'[w] = rings[w] \o add /\ \A v \in Workers : v # w => rings'[v] = rings[v]
  BY <1>2
<1>4. \A v \in Workers : v[1] = r => ~Signalled(v) /\ ~Signalled(v)'
  BY DEF Signalled
<1>5. \A v \in Workers : Signalled(v) <=> Signalled(v)'
  <2> SUFFICES ASSUME NEW v \in Workers PROVE Signalled(v) <=> Signalled(v)'
    OBVIOUS
  <2>1. v[1] \in Readers
    BY WorkerOf
  <2> QED
    BY <1>4, <2>1 DEF Signalled
<1>6. \A i \in 1 .. Len(rings[w]) : rings[w][i] # Null
  BY <1>1, <1>4 DEF DpdkInv, NullInv
<1>7. /\ Len(rings'[w]) = Len(rings[w]) + Len(add) /\ Len(rings[w]) \in Nat /\ Len(add) \in Nat
      /\ \A i \in 1 .. Len(rings'[w]) : rings'[w][i] = IF i <= Len(rings[w]) THEN rings[w][i] ELSE add[i - Len(rings[w])]
      /\ rings'[w] \in Seq(Int)
  BY <1>2, <1>3, ConcatProperties
<1>8. \A i \in 1 .. Len(rings'[w]) : rings'[w][i] # Null
  <2> SUFFICES ASSUME NEW i \in 1 .. Len(rings'[w]) PROVE rings'[w][i] # Null
    OBVIOUS
  <2>1. CASE i <= Len(rings[w])
    BY <1>6, <1>7, <2>1
  <2>2. CASE i > Len(rings[w])
    <3>1. i - Len(rings[w]) \in 1 .. Len(add)
      BY <1>7, <2>2
    <3> QED
      BY <1>7, <2>2, <3>1
  <2> QED
    BY <1>7, <2>1, <2>2
<1>9. NullInv'
  <2> SUFFICES ASSUME NEW v \in Workers
               PROVE  /\ \A i \in 1 .. Len(rings'[v]) : rings'[v][i] = Null => i = Len(rings'[v]) /\ Signalled(v)'
                      /\ worker'[v].pc = "stopped" => rings'[v] = <<>> /\ Signalled(v)'
    BY DEF NullInv
  <2>1. CASE v = w
    BY <1>1, <1>4, <1>8, <2>1 DEF DpdkInv, NullInv
  <2>2. CASE v # w
    BY <1>3, <1>5, <2>2 DEF DpdkInv, NullInv
  <2> QED
    BY <2>1, <2>2
<1>10. Stored(w) = Len(rings[w]) /\ Stored(w)' = Len(rings'[w])
  <2>1. ~HasNull(w) /\ ~HasNull(w)'
    <3>1. rings[w] # <<>> => Len(rings[w]) \in 1 .. Len(rings[w])
      BY <1>2
    <3>2. rings'[w] # <<>> => Len(rings'[w]) \in 1 .. Len(rings'[w])
      BY <1>7
    <3> QED
      BY <1>6, <1>8, <3>1, <3>2 DEF HasNull
  <2> QED
    BY <1>7, <2>1 DEF Stored
<1>11. DpdkTypes /\ Len(taken[w]) \in Nat /\ Len(taken'[w]) = Len(taken[w])
  <2>1. DpdkTypes
    BY DEF DpdkInv
  <2>2. taken[w] \in Seq(Int)
    BY <2>1 DEF DpdkTypes
  <2> QED
    BY <2>1, <2>2
<1>12. /\ \A x \in Readers : x # r => Counts(x)' = Counts(x)
       /\ SumFunction(Counts(r))' = SumFunction(Counts(r)) + ((Len(taken[w]) + Stored(w))' - (Len(taken[w]) + Stored(w)))
       /\ SumFunction(Counts(r)) \in Int
  BY <1>1, <1>3, <1>11, CountsStep
<1> QED
  BY <1>7, <1>9, <1>10, <1>11, <1>12

\* The reader after a queue is done.
LEMMA NextQueueMoves ==
    ASSUME NEW rd \in [pc : ReaderPcs, at : 1 .. NbWorkers, time_now : Nat, sent : Nat]
    PROVE  /\ NextQueue(rd) \in [pc : ReaderPcs, at : 1 .. NbWorkers, time_now : Nat, sent : Nat]
           /\ NextQueue(rd).pc \in {"loop", "poll"}
<1>1. CASE rd.at = NbWorkers
  BY <1>1 DEF NextQueue, ReaderPcs
<1>2. CASE rd.at # NbWorkers
  <2>1. rd.at + 1 \in 1 .. NbWorkers
    BY <1>2, DpdkAssumption
  <2>2. NextQueue(rd) = [rd EXCEPT !.pc = "poll", !.at = rd.at + 1]
    BY <1>2 DEF NextQueue
  <2> QED
    BY <2>1, <2>2 DEF ReaderPcs
<1> QED
  BY <1>1, <1>2

\* The place of a reader is a worker of its own.
LEMMA AtIsWorker ==
    ASSUME DpdkTypes, NEW r \in Readers
    PROVE  At(r) \in Workers /\ At(r)[1] = r /\ At(r)[2] = reader[r].at
  BY DEF DpdkTypes, At, Workers

\* The reader counts the buffer and resets it.
LEMMA ReaderCountStep ==
    ASSUME DpdkInv, NEW r \in Readers, ReaderCount(r)
    PROVE  DpdkInv'
<1> DEFINE w == At(r)
<1>1. w \in Workers /\ DpdkTypes /\ w[1] = r
  BY AtIsWorker DEF DpdkInv
<1>2. /\ reader[r].pc = "count"
      /\ stat_received' = [stat_received EXCEPT ![r] = @ + Len(buffers[w])]
      /\ buffers' = [buffers EXCEPT ![w] = <<>>]
      /\ reader' = [reader EXCEPT ![r] = NextQueue(reader[r])]
      /\ UNCHANGED <<now, arrived, nic, rings, stat_dropped, pkts_dropped, worker, taken>>
  BY DEF ReaderCount, At
<1> HIDE DEF w
<1>3. reader[r] \in [pc : ReaderPcs, at : 1 .. NbWorkers, time_now : Nat, sent : Nat] /\ Len(buffers[w]) \in Nat
  BY <1>1 DEF DpdkTypes
<1>4. /\ reader'[r] = NextQueue(reader[r]) /\ NextQueue(reader[r]).pc \in {"loop", "poll"}
      /\ NextQueue(reader[r]) \in [pc : ReaderPcs, at : 1 .. NbWorkers, time_now : Nat, sent : Nat]
      /\ \A x \in Readers : x # r => reader'[x] = reader[x]
  BY <1>1, <1>2, <1>3, NextQueueMoves DEF DpdkTypes
<1>5. DpdkTypes'
  <2>1. stat_received' \in [Readers -> Int]
    BY <1>1, <1>2, <1>3 DEF DpdkTypes
  <2>2. reader' \in [Readers -> [pc : ReaderPcs, at : 1 .. NbWorkers, time_now : Nat, sent : Nat]]
    BY <1>1, <1>2, <1>4 DEF DpdkTypes
  <2>3. buffers' \in [Workers -> Seq([id : Ids, ts : Nat])]
    <3>1. <<>> \in Seq([id : Ids, ts : Nat]) /\ buffers \in [Workers -> Seq([id : Ids, ts : Nat])]
      BY <1>1, EmptySeq DEF DpdkTypes
    <3> QED
      BY <1>2, <3>1
  <2> QED
    BY <1>1, <1>2, <2>1, <2>2, <2>3 DEF DpdkTypes
<1>6. NullInv'
  <2> SUFFICES ASSUME NEW v \in Workers PROVE Signalled(v) <=> Signalled(v)'
    BY <1>2 DEF DpdkInv, NullInv
  <2>1. v[1] \in Readers
    BY WorkerOf
  <2> QED
    BY <1>2, <1>4, <2>1 DEF Signalled
<1>7. CountInv'
  <2> SUFFICES ASSUME NEW x \in Readers
               PROVE  /\ (reader[x].pc = "retry")' => (reader[x].sent < Len(buffers[At(x)]))'
                      /\ (stat_received[x] + Uncounted(x))' = (SumFunction(Counts(x)) + stat_dropped[x])'
                      /\ stat_dropped'[x] = SumFunction(Drops(x))'
    BY DEF CountInv
  <2>1. Counts(x)' = Counts(x) /\ Drops(x)' = Drops(x)
    BY <1>2, CountsSame, DropsSame
  <2>2. stat_received[x] \in Int
    BY <1>1 DEF DpdkTypes
  <2>3. CASE x = r
    <3>1. Uncounted(r) = Len(buffers[w]) /\ Uncounted(r)' = 0 /\ reader'[r].pc # "retry"
      BY <1>2, <1>4 DEF Uncounted, w
    <3>2. stat_received'[r] = stat_received[r] + Len(buffers[w])
      BY <1>1, <1>2 DEF DpdkTypes
    <3>3. stat_received'[r] + 0 = stat_received'[r]
      BY <1>3, <2>2, <2>3, <3>2
    <3> QED
      BY <1>2, <2>1, <2>3, <3>1, <3>2, <3>3 DEF DpdkInv, CountInv
  <2>4. CASE x # r
    <3>1. At(x)' = At(x) /\ At(x) # w
      BY <1>1, <1>4, <2>4, AtIsWorker DEF At
    <3>2. buffers'[At(x)] = buffers[At(x)]
      BY <1>1, <1>2, <3>1, AtIsWorker DEF DpdkTypes
    <3>3. Uncounted(x)' = Uncounted(x) /\ stat_received'[x] = stat_received[x]
      BY <1>1, <1>2, <1>4, <2>4, <3>1, <3>2 DEF Uncounted, DpdkTypes
    <3> QED
      BY <1>2, <1>4, <2>1, <2>4, <3>1, <3>2, <3>3 DEF DpdkInv, CountInv
  <2> QED
    BY <2>3, <2>4
<1> QED
  BY <1>5, <1>6, <1>7 DEF DpdkInv

\* The reader takes a burst from its queue and pushes its buffer.
LEMMA ReaderPollStep ==
    ASSUME DpdkInv, NEW r \in Readers, ReaderPoll(r)
    PROVE  DpdkInv'
<1> DEFINE w == At(r)
           n == Min({ReaderBurst, Len(nic[w])})
           burst == [i \in 1 .. n |-> [id |-> nic[w][i], ts |-> reader[r].time_now]]
           buf == buffers[w] \o burst
           drain == MustDrain(buf, reader[r].time_now)
           sent == IF drain THEN Min({Room(w), Len(buf)}) ELSE 0
           add == [i \in 1 .. sent |-> IdOf(buf[i])]
           rd == IF ~drain THEN NextQueue(reader[r])
                 ELSE [reader[r] EXCEPT !.sent = sent, !.pc = IF sent < Len(buf) THEN "retry" ELSE "count"]
<1>1. w \in Workers /\ DpdkTypes /\ w[1] = r
  BY AtIsWorker DEF DpdkInv
<1>2. /\ reader[r].pc = "poll"
      /\ nic' = [nic EXCEPT ![w] = SubSeq(@, n + 1, Len(@))]
      /\ buffers' = [buffers EXCEPT ![w] = buf]
      /\ rings' = [rings EXCEPT ![w] = @ \o add]
      /\ reader' = [reader EXCEPT ![r] = rd]
      /\ UNCHANGED <<now, arrived, stat_received, stat_dropped, pkts_dropped, worker, taken>>
  BY DEF ReaderPoll, At
<1>3. reader[r] \in [pc : ReaderPcs, at : 1 .. NbWorkers, time_now : Nat, sent : Nat]
  BY <1>1 DEF DpdkTypes
<1>4. nic[w] \in Seq(Ids) /\ Len(nic[w]) \in Nat /\ buffers[w] \in Seq([id : Ids, ts : Nat])
  <2> HIDE DEF w
  <2>1. nic[w] \in Seq(Ids) /\ buffers[w] \in Seq([id : Ids, ts : Nat])
    BY <1>1 DEF DpdkTypes
  <2> QED
    BY <2>1, LenProperties
<1>5. n \in Nat /\ n <= Len(nic[w])
  BY <1>4, MinOfTwo, DpdkAssumption
<1>6. burst \in Seq([id : Ids, ts : Nat])
  <2>1. \A i \in 1 .. n : nic[w][i] \in Ids
    BY <1>4, <1>5, ElementOfSeq
  <2> HIDE DEF n
  <2>2. \A i \in 1 .. n : [id |-> nic[w][i], ts |-> reader[r].time_now] \in [id : Ids, ts : Nat]
    BY <1>3, <2>1
  <2> QED
    BY <1>5, <2>2
<1>7. buf \in Seq([id : Ids, ts : Nat]) /\ Len(buf) \in Nat
  <2> HIDE DEF burst
  <2> QED
    BY <1>4, <1>6, ConcatProperties
<1> HIDE DEF buf
<1>8. /\ sent \in Nat /\ sent <= Len(buf) /\ Len(rings[w]) + sent <= RingSize
      /\ (~drain => sent = 0)
  <2>1. Room(w) \in Nat /\ Len(rings[w]) + Room(w) = RingSize /\ Len(rings[w]) \in Nat
    BY <1>1, DpdkAssumption DEF DpdkTypes, Room
  <2>2. Min({Room(w), Len(buf)}) \in Nat /\ Min({Room(w), Len(buf)}) <= Len(buf) /\ Min({Room(w), Len(buf)}) <= Room(w)
    BY <1>7, <2>1, MinOfTwo
  <2>3. CASE drain
    BY <1>7, <2>1, <2>2, <2>3
  <2>4. CASE ~drain
    BY <1>7, <2>1, <2>4
  <2> QED
    BY <2>3, <2>4
<1> HIDE DEF sent
<1>9. add \in Seq(Int) /\ Len(add) = sent /\ \A i \in 1 .. Len(add) : add[i] # Null
  <2>1. \A i \in 1 .. sent : buf[i] \in [id : Ids, ts : Nat]
    <3>1. \A i \in 1 .. sent : i \in 1 .. Len(buf)
      BY <1>7, <1>8
    <3> QED
      BY <1>7, <3>1, ElementOfSeq
  <2>2. \A i \in 1 .. sent : IdOf(buf[i]) \in Int /\ IdOf(buf[i]) # Null
    BY <2>1 DEF IdOf, Ids, Null
  <2> QED
    BY <1>8, <2>2
<1> HIDE DEF add
<1>10. /\ rd \in [pc : ReaderPcs, at : 1 .. NbWorkers, time_now : Nat, sent : Nat]
       /\ rd.pc \in {"loop", "poll", "retry", "count"}
       /\ rd.pc = "retry" => rd.sent = sent /\ sent < Len(buf) /\ rd.at = reader[r].at
       /\ rd.pc = "count" => sent = Len(buf) /\ rd.at = reader[r].at
       /\ rd.pc \in {"loop", "poll"} => sent = 0
  <2>1. CASE ~drain
    BY <1>3, <1>8, <2>1, NextQueueMoves
  <2>2. CASE drain
    <3> HIDE DEF drain
    <3>1. rd = [reader[r] EXCEPT !.sent = sent, !.pc = IF sent < Len(buf) THEN "retry" ELSE "count"]
      BY <2>2
    <3>2. CASE sent < Len(buf)
      <4>1. rd = [reader[r] EXCEPT !.sent = sent, !.pc = "retry"]
        BY <3>1, <3>2
      <4> HIDE DEF rd
      <4> QED
        BY <1>3, <1>8, <3>2, <4>1 DEF ReaderPcs
    <3>3. CASE ~(sent < Len(buf))
      <4>1. rd = [reader[r] EXCEPT !.sent = sent, !.pc = "count"]
        BY <3>1, <3>3
      <4>2. sent = Len(buf)
        BY <1>7, <1>8, <3>3
      <4> HIDE DEF rd
      <4> QED
        BY <1>3, <1>8, <4>1, <4>2 DEF ReaderPcs
    <3> QED
      BY <3>2, <3>3
  <2> QED
    BY <2>1, <2>2
<1> HIDE DEF rd, drain, w
<1>11. DpdkTypes'
  <2>1. nic' \in [Workers -> Seq(Ids)]
    <3>1. SubSeq(nic[w], n + 1, Len(nic[w])) \in Seq(Ids)
      <4> HIDE DEF n
      <4> QED
        BY <1>4, <1>5, SubSeqProperties
    <3> QED
      BY <1>1, <1>2, <3>1 DEF DpdkTypes
  <2>2. buffers' \in [Workers -> Seq([id : Ids, ts : Nat])]
    BY <1>1, <1>2, <1>7 DEF DpdkTypes
  <2>3. rings' \in [Workers -> Seq(Int)] /\ \A v \in Workers : Len(rings'[v]) <= RingSize
    <3>1. rings[w] \in Seq(Int) /\ rings \in [Workers -> Seq(Int)]
      BY <1>1 DEF DpdkTypes
    <3>2. rings[w] \o add \in Seq(Int) /\ Len(rings[w] \o add) = Len(rings[w]) + sent
      BY <1>9, <3>1, ConcatProperties
    <3>3. \A v \in Workers : rings'[v] = IF v = w THEN rings[w] \o add ELSE rings[v]
      BY <1>2, <3>1
    <3>4. rings' \in [Workers -> Seq(Int)]
      BY <1>2, <3>1, <3>2
    <3> QED
      BY <1>1, <1>8, <3>2, <3>3, <3>4 DEF DpdkTypes
  <2>4. reader' \in [Readers -> [pc : ReaderPcs, at : 1 .. NbWorkers, time_now : Nat, sent : Nat]]
    BY <1>1, <1>2, <1>10 DEF DpdkTypes
  <2> QED
    BY <1>1, <1>2, <2>1, <2>2, <2>3, <2>4 DEF DpdkTypes
<1>12. reader'[r] = rd /\ \A x \in Readers : x # r => reader'[x] = reader[x]
  BY <1>1, <1>2 DEF DpdkTypes
<1>13. /\ NullInv' /\ SumFunction(Counts(r)) \in Int
       /\ \A x \in Readers : x # r => Counts(x)' = Counts(x)
       /\ SumFunction(Counts(r))' = SumFunction(Counts(r)) + sent
  <2>1. w = At(r)
    BY DEF w
  <2>2. reader[r].pc \notin {"signal", "done"} /\ (reader[r].pc \notin {"signal", "done"})'
    BY <1>2, <1>10, <1>12
  <2> QED
    BY <1>1, <1>2, <1>9, <1>11, <1>12, <2>1, <2>2, AppendStep
<1>14. CountInv'
  <2> SUFFICES ASSUME NEW x \in Readers
               PROVE  /\ (reader[x].pc = "retry")' => (reader[x].sent < Len(buffers[At(x)]))'
                      /\ (stat_received[x] + Uncounted(x))' = (SumFunction(Counts(x)) + stat_dropped[x])'
                      /\ stat_dropped'[x] = SumFunction(Drops(x))'
    BY DEF CountInv
  <2>1. Drops(x)' = Drops(x)
    BY <1>2, DropsSame
  <2>2. CASE x = r
    <3>1. reader'[r].pc \in {"retry", "count"} => At(r)' = w /\ buffers'[At(r)'] = buf
      BY <1>1, <1>2, <1>10, <1>12 DEF At, w, DpdkTypes
    <3>2. Uncounted(r) = 0
      BY <1>2 DEF Uncounted
    <3>3. Uncounted(r)' = sent
      BY <1>10, <1>12, <3>1 DEF Uncounted
    <3>4. (reader[r].pc = "retry")' => (reader[r].sent < Len(buffers[At(r)]))'
      BY <1>10, <1>12, <3>1
    <3>5. stat_received[r] + 0 = SumFunction(Counts(r)) + stat_dropped[r] /\ stat_dropped[r] = SumFunction(Drops(r))
      BY <3>2 DEF DpdkInv, CountInv
    <3>6. stat_received[r] \in Int /\ stat_dropped[r] \in Int
      BY <1>1 DEF DpdkTypes
    <3>7. stat_received[r] + sent = (SumFunction(Counts(r)) + sent) + stat_dropped[r]
      BY <1>8, <1>13, <3>5, <3>6
    <3> QED
      BY <1>2, <1>13, <2>1, <2>2, <3>3, <3>4, <3>5, <3>7
  <2>3. CASE x # r
    <3>1. At(x)' = At(x) /\ At(x) # w
      BY <1>1, <1>12, <2>3, AtIsWorker DEF At
    <3>2. buffers'[At(x)] = buffers[At(x)]
      BY <1>1, <1>2, <3>1, AtIsWorker DEF DpdkTypes
    <3>3. Uncounted(x)' = Uncounted(x)
      BY <1>12, <2>3, <3>1, <3>2 DEF Uncounted
    <3> QED
      BY <1>2, <1>12, <1>13, <2>1, <2>3, <3>1, <3>2, <3>3 DEF DpdkInv, CountInv
  <2> QED
    BY <2>2, <2>3
<1> QED
  BY <1>11, <1>13, <1>14 DEF DpdkInv

\* The second try; what is left is freed and counted as dropped.
LEMMA ReaderRetryStep ==
    ASSUME DpdkInv, NEW r \in Readers, ReaderRetry(r)
    PROVE  DpdkInv'
<1> DEFINE w == At(r)
           buf == buffers[w]
           sent == reader[r].sent
           more == Min({Room(w), Len(buf) - sent})
           lost == Len(buf) - (sent + more)
           add == [k \in 1 .. more |-> Retried(buf, sent, k)]
<1>1. w \in Workers /\ DpdkTypes /\ w[1] = r
  BY AtIsWorker DEF DpdkInv
<1>2. /\ reader[r].pc = "retry"
      /\ rings' = [rings EXCEPT ![w] = @ \o add]
      /\ stat_dropped' = [stat_dropped EXCEPT ![r] = @ + lost]
      /\ pkts_dropped' = [pkts_dropped EXCEPT ![w] = @ + lost]
      /\ reader' = [reader EXCEPT ![r].pc = "count"]
      /\ UNCHANGED <<now, arrived, nic, buffers, stat_received, worker, taken>>
  BY DEF ReaderRetry, At
<1> HIDE DEF w
<1>3. reader[r] \in [pc : ReaderPcs, at : 1 .. NbWorkers, time_now : Nat, sent : Nat]
  BY <1>1 DEF DpdkTypes
<1>4. buf \in Seq([id : Ids, ts : Nat]) /\ Len(buf) \in Nat /\ sent \in Nat /\ sent < Len(buf)
  <2>1. buffers[w] \in Seq([id : Ids, ts : Nat])
    BY <1>1 DEF DpdkTypes
  <2>2. sent < Len(buf)
    BY <1>2 DEF DpdkInv, CountInv, w
  <2> QED
    BY <1>3, <2>1, <2>2, LenProperties
<1> HIDE DEF buf, sent
<1>5. more \in Nat /\ sent + more <= Len(buf) /\ Len(rings[w]) + more <= RingSize /\ Len(rings[w]) \in Nat
  <2>1. Room(w) \in Nat /\ Len(rings[w]) + Room(w) = RingSize /\ Len(rings[w]) \in Nat
    BY <1>1, DpdkAssumption DEF DpdkTypes, Room
  <2>2. Len(buf) - sent \in Nat
    BY <1>4
  <2>3. more \in Nat /\ more <= Len(buf) - sent /\ more <= Room(w)
    BY <2>1, <2>2, MinOfTwo
  <2> HIDE DEF more
  <2> QED
    BY <1>4, <2>1, <2>3
<1> HIDE DEF more
<1>6. add \in Seq(Int) /\ Len(add) = more /\ \A i \in 1 .. Len(add) : add[i] # Null
  <2>1. \A k \in 1 .. more : k \in 1 .. Len(buf) - sent
    BY <1>4, <1>5
  <2>2. \A k \in 1 .. more : Retried(buf, sent, k) \in Int /\ Retried(buf, sent, k) # Null
    BY <1>4, <2>1, RetriedIsNotNull
  <2> QED
    BY <1>5, <2>2
<1>7. lost \in Int /\ sent + more + lost = Len(buf)
  BY <1>4, <1>5
<1> HIDE DEF add, lost
<1>8. reader'[r] = [reader[r] EXCEPT !.pc = "count"] /\ \A x \in Readers : x # r => reader'[x] = reader[x]
  BY <1>1, <1>2 DEF DpdkTypes
<1>9. /\ reader'[r] \in [pc : ReaderPcs, at : 1 .. NbWorkers, time_now : Nat, sent : Nat]
      /\ reader'[r].pc = "count" /\ reader'[r].at = reader[r].at
  BY <1>3, <1>8 DEF ReaderPcs
<1>10. DpdkTypes'
  <2>1. rings' \in [Workers -> Seq(Int)] /\ \A v \in Workers : Len(rings'[v]) <= RingSize
    <3>1. rings[w] \in Seq(Int) /\ rings \in [Workers -> Seq(Int)]
      BY <1>1 DEF DpdkTypes
    <3>2. rings[w] \o add \in Seq(Int) /\ Len(rings[w] \o add) = Len(rings[w]) + more
      BY <1>6, <3>1, ConcatProperties
    <3>3. \A v \in Workers : rings'[v] = IF v = w THEN rings[w] \o add ELSE rings[v]
      BY <1>2, <3>1
    <3>4. rings' \in [Workers -> Seq(Int)]
      BY <1>2, <3>1, <3>2
    <3> QED
      BY <1>1, <1>5, <3>2, <3>3, <3>4 DEF DpdkTypes
  <2>2. reader' \in [Readers -> [pc : ReaderPcs, at : 1 .. NbWorkers, time_now : Nat, sent : Nat]]
    <3>1. reader' = [reader EXCEPT ![r] = reader'[r]]
      BY <1>1, <1>2, <1>8 DEF DpdkTypes
    <3> QED
      BY <1>1, <1>9, <3>1 DEF DpdkTypes
  <2>3. stat_dropped' \in [Readers -> Int] /\ pkts_dropped' \in [Workers -> Int]
    BY <1>1, <1>2, <1>7 DEF DpdkTypes
  <2> QED
    BY <1>1, <1>2, <2>1, <2>2, <2>3 DEF DpdkTypes
<1>11. /\ NullInv' /\ SumFunction(Counts(r)) \in Int
       /\ \A x \in Readers : x # r => Counts(x)' = Counts(x)
       /\ SumFunction(Counts(r))' = SumFunction(Counts(r)) + more
  <2>1. w = At(r)
    BY DEF w
  <2>2. reader[r].pc \notin {"signal", "done"} /\ (reader[r].pc \notin {"signal", "done"})'
    BY <1>2, <1>9
  <2> QED
    BY <1>1, <1>2, <1>6, <1>8, <1>10, <2>1, <2>2, AppendStep
<1>12. /\ \A x \in Readers : x # r => Drops(x)' = Drops(x)
       /\ SumFunction(Drops(r))' = SumFunction(Drops(r)) + lost
  <2>1. pkts_dropped \in [Workers -> Int] /\ pkts_dropped[w] \in Int
    BY <1>1 DEF DpdkTypes
  <2>2. pkts_dropped'[w] = pkts_dropped[w] + lost /\ \A v \in Workers : v # w => pkts_dropped'[v] = pkts_dropped[v]
    BY <1>1, <1>2, <2>1
  <2>3. \A v \in Workers : v # w => pkts_dropped'[v] = pkts_dropped[v]
    BY <2>2
  <2>4. /\ \A x \in Readers : x # r => Drops(x)' = Drops(x)
        /\ SumFunction(Drops(r))' = SumFunction(Drops(r)) + (pkts_dropped'[w] - pkts_dropped[w])
    BY <1>1, <1>10, <2>3, DropsStep
  <2>5. pkts_dropped'[w] - pkts_dropped[w] = lost
    BY <1>7, <2>1, <2>2
  <2> QED
    BY <2>4, <2>5
<1>13. CountInv'
  <2> SUFFICES ASSUME NEW x \in Readers
               PROVE  /\ (reader[x].pc = "retry")' => (reader[x].sent < Len(buffers[At(x)]))'
                      /\ (stat_received[x] + Uncounted(x))' = (SumFunction(Counts(x)) + stat_dropped[x])'
                      /\ stat_dropped'[x] = SumFunction(Drops(x))'
    BY DEF CountInv
  <2>1. CASE x = r
    <3>1. At(r)' = w /\ buffers'[At(r)'] = buf
      BY <1>2, <1>9 DEF At, w, buf
    <3>2. Uncounted(r) = sent /\ Uncounted(r)' = Len(buf)
      BY <1>2, <1>9, <3>1 DEF Uncounted, sent
    <3>3. stat_received[r] + sent = SumFunction(Counts(r)) + stat_dropped[r] /\ stat_dropped[r] = SumFunction(Drops(r))
      BY <3>2 DEF DpdkInv, CountInv
    <3>4. stat_received[r] \in Int /\ stat_dropped[r] \in Int /\ stat_dropped'[r] = stat_dropped[r] + lost
      BY <1>1, <1>2 DEF DpdkTypes
    <3>5. stat_received[r] + Len(buf) = (SumFunction(Counts(r)) + more) + (stat_dropped[r] + lost)
      <4> DEFINE a == stat_received[r]
                 c == SumFunction(Counts(r))
                 d == stat_dropped[r]
                 e == Len(buf)
      <4>1. a \in Int /\ c \in Int /\ d \in Int /\ e \in Int /\ sent \in Int /\ more \in Int /\ lost \in Int
        BY <1>4, <1>5, <1>7, <1>11, <3>4
      <4>2. a + sent = c + d /\ sent + more + lost = e
        BY <1>7, <3>3
      <4> HIDE DEF a, c, d, e
      <4>3. a + e = (c + more) + (d + lost)
        BY ONLY <4>1, <4>2
      <4> QED
        BY <4>3 DEF a, c, d, e
    <3> QED
      BY <1>2, <1>9, <1>11, <1>12, <2>1, <3>2, <3>3, <3>4, <3>5
  <2>2. CASE x # r
    <3>1. At(x)' = At(x)
      BY <1>8, <2>2 DEF At
    <3>2. Uncounted(x)' = Uncounted(x) /\ stat_dropped'[x] = stat_dropped[x]
      BY <1>1, <1>2, <1>8, <2>2, <3>1 DEF Uncounted, DpdkTypes
    <3> QED
      BY <1>2, <1>8, <1>11, <1>12, <2>2, <3>1, <3>2 DEF DpdkInv, CountInv
  <2> QED
    BY <2>1, <2>2
<1> QED
  BY <1>10, <1>11, <1>13 DEF DpdkInv

\* The NULL packet for the worker the reader is at.
LEMMA SendNullStep ==
    ASSUME DpdkInv, NEW r \in Readers, SendNull(r)
    PROVE  DpdkInv'
<1>0. PICK w \in Workers : w = At(r)
  BY AtIsWorker DEF DpdkInv
<1> DEFINE last == reader[r].at = NbWorkers
           rd == IF last THEN [reader[r] EXCEPT !.pc = "done"] ELSE [reader[r] EXCEPT !.at = reader[r].at + 1]
<1>1. w \in Workers /\ DpdkTypes /\ w[1] = r /\ w[2] = reader[r].at
  BY <1>0, AtIsWorker DEF DpdkInv
<1>2. /\ reader[r].pc = "signal" /\ Room(w) > 0
      /\ rings' = [rings EXCEPT ![w] = Append(@, Null)]
      /\ reader' = [reader EXCEPT ![r] = rd]
      /\ UNCHANGED <<now, arrived, nic, buffers, stat_received, stat_dropped, pkts_dropped, worker, taken>>
  BY <1>0 DEF SendNull, At
<1>3. reader[r] \in [pc : ReaderPcs, at : 1 .. NbWorkers, time_now : Nat, sent : Nat] /\ NbWorkers \in Nat
  BY <1>1, DpdkAssumption DEF DpdkTypes
<1>4. /\ rd \in [pc : ReaderPcs, at : 1 .. NbWorkers, time_now : Nat, sent : Nat]
      /\ rd.pc \in {"signal", "done"} /\ (rd.pc = "signal" => rd.at = reader[r].at + 1 /\ ~last)
      /\ (rd.pc = "done" => last)
  <2>1. CASE last
    BY <1>3, <2>1 DEF ReaderPcs
  <2>2. CASE ~last
    <3>1. reader[r].at + 1 \in 1 .. NbWorkers
      BY <1>3, <2>2
    <3>2. rd = [reader[r] EXCEPT !.at = reader[r].at + 1]
      BY <2>2
    <3> HIDE DEF rd
    <3> QED
      BY <1>2, <1>3, <2>2, <3>1, <3>2
  <2> QED
    BY <2>1, <2>2
<1>5. rings[w] \in Seq(Int) /\ rings \in [Workers -> Seq(Int)] /\ Len(rings[w]) + 1 <= RingSize /\ Len(rings[w]) \in Nat
  <2>1. rings[w] \in Seq(Int) /\ rings \in [Workers -> Seq(Int)]
    BY <1>1 DEF DpdkTypes
  <2> QED
    BY <1>2, <2>1, DpdkAssumption DEF Room
<1>6. /\ rings'[w] = Append(rings[w], Null) /\ rings'[w] \in Seq(Int) /\ Len(rings'[w]) = Len(rings[w]) + 1
      /\ rings'[w][Len(rings'[w])] = Null /\ \A i \in 1 .. Len(rings[w]) : rings'[w][i] = rings[w][i]
      /\ \A v \in Workers : v # w => rings'[v] = rings[v]
  <2>1. Null \in Int
    BY DEF Null
  <2> QED
    BY <1>1, <1>2, <1>5, <2>1, AppendProperties
<1> HIDE DEF rd
<1>7. reader'[r] = rd /\ \A x \in Readers : x # r => reader'[x] = reader[x]
  BY <1>1, <1>2 DEF DpdkTypes
<1>8. DpdkTypes'
  <2>1. rings' \in [Workers -> Seq(Int)]
    BY <1>2, <1>5, <1>6
  <2>2. \A v \in Workers : Len(rings'[v]) <= RingSize
    BY <1>1, <1>5, <1>6 DEF DpdkTypes
  <2>3. reader' \in [Readers -> [pc : ReaderPcs, at : 1 .. NbWorkers, time_now : Nat, sent : Nat]]
    BY <1>1, <1>2, <1>4 DEF DpdkTypes
  <2> QED
    BY <1>1, <1>2, <2>1, <2>2, <2>3 DEF DpdkTypes
<1>9. ~Signalled(w) /\ Signalled(w)' /\ \A v \in Workers : v # w => (Signalled(v)' <=> Signalled(v))
  <2>1. ~Signalled(w)
    BY <1>1, <1>2, <1>3 DEF Signalled
  <2>2. Signalled(w)'
    BY <1>1, <1>3, <1>4, <1>7 DEF Signalled
  <2>3. ASSUME NEW v \in Workers, v # w PROVE Signalled(v)' <=> Signalled(v)
    <3>1. v[1] \in Readers /\ v[2] \in 1 .. NbWorkers /\ v = <<v[1], v[2]>> /\ w = <<w[1], w[2]>>
      BY <1>1, WorkerOf
    <3>2. CASE v[1] # r
      BY <1>7, <3>1, <3>2 DEF Signalled
    <3>3. CASE v[1] = r
      <4>1. v[2] # reader[r].at
        BY <1>1, <2>3, <3>1, <3>3
      <4> QED
        BY <1>2, <1>3, <1>4, <1>7, <3>1, <3>3, <4>1 DEF Signalled
    <3> QED
      BY <3>2, <3>3
  <2> QED
    BY <2>1, <2>2, <2>3
<1>10. (\A i \in 1 .. Len(rings[w]) : rings[w][i] # Null) /\ worker[w].pc # "stopped"
  BY <1>1, <1>9 DEF DpdkInv, NullInv
<1>11. NullInv'
  <2> SUFFICES ASSUME NEW v \in Workers
               PROVE  /\ \A i \in 1 .. Len(rings'[v]) : rings'[v][i] = Null => i = Len(rings'[v]) /\ Signalled(v)'
                      /\ worker'[v].pc = "stopped" => rings'[v] = <<>> /\ Signalled(v)'
    BY DEF NullInv
  <2>1. CASE v = w
    <3>1. \A i \in 1 .. Len(rings'[w]) : i # Len(rings'[w]) => i \in 1 .. Len(rings[w])
      BY <1>5, <1>6
    <3> QED
      BY <1>2, <1>6, <1>9, <1>10, <2>1, <3>1
  <2>2. CASE v # w
    BY <1>2, <1>6, <1>9, <2>2 DEF DpdkInv, NullInv
  <2> QED
    BY <2>1, <2>2
<1>12. \A x \in Readers : SumFunction(Counts(x))' = SumFunction(Counts(x))
  <2>1. Stored(w) = Len(rings[w]) /\ Stored(w)' = Len(rings[w])
    <3>1. ~HasNull(w)
      <4>1. rings[w] # <<>> => Len(rings[w]) \in 1 .. Len(rings[w])
        BY <1>5
      <4> QED
        BY <1>10, <4>1 DEF HasNull
    <3>2. HasNull(w)'
      BY <1>5, <1>6 DEF HasNull
    <3> QED
      BY <1>5, <1>6, <3>1, <3>2 DEF Stored
  <2>2. taken[w] \in Seq(Int) /\ taken'[w] = taken[w]
    BY <1>1, <1>2 DEF DpdkTypes
  <2>3. (Len(taken[w]) + Stored(w))' - (Len(taken[w]) + Stored(w)) = 0
    BY <1>5, <2>1, <2>2
  <2>4. \A v \in Workers : v # w => taken'[v] = taken[v] /\ rings'[v] = rings[v]
    BY <1>2, <1>6
  <2>5. /\ \A x \in Readers : x # r => Counts(x)' = Counts(x)
        /\ SumFunction(Counts(r))' = SumFunction(Counts(r)) + ((Len(taken[w]) + Stored(w))' - (Len(taken[w]) + Stored(w)))
        /\ SumFunction(Counts(r)) \in Int
    BY <1>1, <1>8, <2>4, CountsStep
  <2>6. SumFunction(Counts(r))' = SumFunction(Counts(r)) + 0
    BY <2>3, <2>5
  <2>7. SumFunction(Counts(r))' = SumFunction(Counts(r))
    BY <2>5, <2>6
  <2> QED
    BY <2>5, <2>7
<1>13. CountInv'
  <2> SUFFICES ASSUME NEW x \in Readers
               PROVE  /\ (reader[x].pc = "retry")' => (reader[x].sent < Len(buffers[At(x)]))'
                      /\ (stat_received[x] + Uncounted(x))' = (SumFunction(Counts(x)) + stat_dropped[x])'
                      /\ stat_dropped'[x] = SumFunction(Drops(x))'
    BY DEF CountInv
  <2>1. Drops(x)' = Drops(x)
    BY <1>2, DropsSame
  <2>2. CASE x = r
    <3>1. Uncounted(r) = 0 /\ Uncounted(r)' = 0 /\ reader'[r].pc # "retry"
      BY <1>2, <1>4, <1>7 DEF Uncounted
    <3> QED
      BY <1>2, <1>12, <2>1, <2>2, <3>1 DEF DpdkInv, CountInv
  <2>3. CASE x # r
    <3>1. At(x)' = At(x) /\ Uncounted(x)' = Uncounted(x)
      BY <1>2, <1>7, <2>3 DEF At, Uncounted
    <3> QED
      BY <1>2, <1>7, <1>12, <2>1, <2>3, <3>1 DEF DpdkInv, CountInv
  <2> QED
    BY <2>2, <2>3
<1> QED
  BY <1>8, <1>11, <1>13 DEF DpdkInv

\* A worker takes a burst; a NULL packet at its end stops the worker.
LEMMA WorkerTurnStep ==
    ASSUME DpdkInv, NEW w \in Workers, WorkerTurn(w)
    PROVE  DpdkInv'
<1> DEFINE n == Min({WorkerBurst, Len(rings[w])})
           last == n > 0 /\ rings[w][n] = Null
           m == IF last THEN n - 1 ELSE n
           packets == SubSeq(rings[w], 1, m)
           wk == [StatTimer(worker[w]) EXCEPT !.pc = IF last THEN "stopped" ELSE "run"]
           rest == SubSeq(rings[w], n + 1, Len(rings[w]))
<1>1. /\ worker[w].pc = "run"
      /\ rings' = [rings EXCEPT ![w] = rest]
      /\ taken' = [taken EXCEPT ![w] = @ \o packets]
      /\ worker' = [worker EXCEPT ![w] = wk]
      /\ UNCHANGED <<now, arrived, nic, reader, buffers, stat_received, stat_dropped, pkts_dropped>>
  BY DEF WorkerTurn
<1>2. DpdkTypes
  BY DEF DpdkInv
<1>3. rings[w] \in Seq(Int) /\ rings \in [Workers -> Seq(Int)] /\ taken[w] \in Seq(Int) /\ taken \in [Workers -> Seq(Int)]
  BY <1>2 DEF DpdkTypes
<1>4. Len(rings[w]) \in Nat /\ Len(taken[w]) \in Nat /\ Len(rings[w]) <= RingSize
  BY <1>2, <1>3, LenProperties DEF DpdkTypes
<1>5. n \in Nat /\ n <= Len(rings[w])
  BY <1>4, MinOfTwo, DpdkAssumption
<1> HIDE DEF n
<1>6. m \in Nat /\ m <= n /\ (last => n = m + 1) /\ (~last => m = n)
  BY <1>5
<1> HIDE DEF m
<1>7. packets \in Seq(Int) /\ Len(packets) = m
  BY <1>3, <1>4, <1>5, <1>6, SubSeqProperties
<1>8. /\ rest \in Seq(Int) /\ Len(rest) = Len(rings[w]) - n
      /\ \A i \in 1 .. Len(rest) : rest[i] = rings[w][n + i]
  <2>1. n + 1 \in Int /\ Len(rings[w]) \in Int
    BY <1>4, <1>5
  <2>2. \A i \in n + 1 .. Len(rings[w]) : rings[w][i] \in Int
    BY <1>3, <1>4, <1>5, ElementOfSeq
  <2>3. /\ rest \in Seq(Int)
        /\ Len(rest) = IF n + 1 <= Len(rings[w]) THEN Len(rings[w]) - (n + 1) + 1 ELSE 0
        /\ \A i \in 1 .. Len(rings[w]) - (n + 1) + 1 : rest[i] = rings[w][(n + 1) + i - 1]
    BY <2>1, <2>2, SubSeqProperties
  <2> HIDE DEF rest
  <2>4. Len(rest) = Len(rings[w]) - n
    BY <1>4, <1>5, <2>3
  <2>5. ASSUME NEW i \in 1 .. Len(rest) PROVE rest[i] = rings[w][n + i]
    <3>1. i \in 1 .. Len(rings[w]) - (n + 1) + 1 /\ (n + 1) + i - 1 = n + i
      BY <1>4, <1>5, <2>4
    <3> QED
      BY <2>3, <3>1
  <2> QED
    BY <2>3, <2>4, <2>5
<1> HIDE DEF packets, rest
<1>9. taken[w] \o packets \in Seq(Int) /\ Len(taken[w] \o packets) = Len(taken[w]) + m
  BY <1>3, <1>7, ConcatProperties
<1>10. worker[w] \in [pc : {"run", "stopped"}, next_stat_ts : Nat] /\ now \in Nat /\ StatPeriod \in Nat
  BY <1>2, DpdkAssumption DEF DpdkTypes
<1>11. wk \in [pc : {"run", "stopped"}, next_stat_ts : Nat] /\ wk.pc = IF last THEN "stopped" ELSE "run"
  <2>1. StatTimer(worker[w]) \in [pc : {"run", "stopped"}, next_stat_ts : Nat]
    <3>1. CASE now >= worker[w].next_stat_ts
      <4>1. StatTimer(worker[w]) = [worker[w] EXCEPT !.next_stat_ts = worker[w].next_stat_ts + StatPeriod]
        BY <3>1 DEF StatTimer
      <4>2. worker[w].next_stat_ts + StatPeriod \in Nat
        BY <1>10
      <4> QED
        BY <1>10, <4>1, <4>2
    <3>2. CASE ~(now >= worker[w].next_stat_ts)
      BY <1>10, <3>2 DEF StatTimer
    <3> QED
      BY <3>1, <3>2
  <2> QED
    BY <2>1
<1> HIDE DEF wk
<1>12. /\ rings'[w] = rest /\ taken'[w] = taken[w] \o packets /\ worker'[w] = wk
       /\ \A v \in Workers : v # w => rings'[v] = rings[v] /\ taken'[v] = taken[v] /\ worker'[v] = worker[v]
  BY <1>1, <1>2, <1>3 DEF DpdkTypes
<1>13. DpdkTypes'
  <2>1. rings' \in [Workers -> Seq(Int)] /\ taken' \in [Workers -> Seq(Int)]
    BY <1>1, <1>3, <1>8, <1>9
  <2>2. \A v \in Workers : Len(rings'[v]) <= RingSize
    <3>1. Len(rest) <= RingSize
      BY <1>4, <1>5, <1>8, DpdkAssumption
    <3> QED
      BY <1>2, <1>12, <3>1 DEF DpdkTypes
  <2>3. worker' \in [Workers -> [pc : {"run", "stopped"}, next_stat_ts : Nat]]
    BY <1>1, <1>2, <1>11 DEF DpdkTypes
  <2> QED
    BY <1>1, <1>2, <2>1, <2>2, <2>3 DEF DpdkTypes
<1>14. \A v \in Workers : Signalled(v)' <=> Signalled(v)
  BY <1>1 DEF Signalled
<1>15. \A i \in 1 .. Len(rings[w]) : rings[w][i] = Null => i = Len(rings[w]) /\ Signalled(w)
  BY DEF DpdkInv, NullInv
<1>16. last => n = Len(rings[w]) /\ Signalled(w) /\ n \in Nat /\ n > 0
  <2>1. n > 0 => n \in 1 .. Len(rings[w])
    BY <1>4, <1>5
  <2> QED
    BY <1>5, <1>15, <2>1
<1>17. NullInv'
  <2> SUFFICES ASSUME NEW v \in Workers
               PROVE  /\ \A i \in 1 .. Len(rings'[v]) : rings'[v][i] = Null => i = Len(rings'[v]) /\ Signalled(v)'
                      /\ worker'[v].pc = "stopped" => rings'[v] = <<>> /\ Signalled(v)'
    BY DEF NullInv
  <2>1. CASE v = w
    <3>1. ASSUME NEW i \in 1 .. Len(rest), rest[i] = Null PROVE i = Len(rest) /\ Signalled(w)
      <4>1. n + i \in 1 .. Len(rings[w]) /\ rings[w][n + i] = Null
        BY <1>4, <1>5, <1>8, <3>1
      <4>2. n + i = Len(rings[w]) /\ Signalled(w)
        BY <1>15, <4>1
      <4> QED
        BY <1>4, <1>5, <1>8, <4>2
    <3>2. wk.pc = "stopped" => rest = <<>> /\ Signalled(w)
      <4>1. last => Len(rest) = 0 /\ Signalled(w)
        BY <1>4, <1>8, <1>16
      <4>2. Len(rest) = 0 => rest = <<>>
        BY <1>8, EmptySeq
      <4> QED
        BY <1>11, <4>1, <4>2
    <3> QED
      BY <1>12, <1>14, <2>1, <3>1, <3>2
  <2>2. CASE v # w
    BY <1>12, <1>14, <2>2 DEF DpdkInv, NullInv
  <2> QED
    BY <2>1, <2>2
<1>18. \A x \in Readers : SumFunction(Counts(x))' = SumFunction(Counts(x))
  <2>1. Stored(w)' + m = Stored(w) /\ Stored(w) \in Int /\ Stored(w)' \in Int
    <3>1. CASE last
      <4>1. HasNull(w) /\ ~HasNull(w)'
        <5>1. rings[w] # <<>>
          BY <1>4, <1>16, <3>1
        <5>2. Len(rest) = 0
          BY <1>4, <1>8, <1>16, <3>1
        <5>3. rest = <<>>
          BY <1>8, <5>2, EmptySeq
        <5> QED
          BY <1>12, <1>16, <3>1, <5>1, <5>3 DEF HasNull
      <4>2. Stored(w) = Len(rings[w]) - 1 /\ Stored(w)' = Len(rest) - 0
        BY <1>12, <4>1 DEF Stored
      <4> QED
        BY <1>4, <1>5, <1>6, <1>8, <1>16, <3>1, <4>2
    <3>2. CASE ~last
      <4>1. HasNull(w)' <=> HasNull(w)
        <5>1. CASE Len(rest) = 0
          <6>1. rest = <<>> /\ n = Len(rings[w])
            BY <1>4, <1>5, <1>8, <5>1, EmptySeq
          <6>2. rings[w] # <<>> => n > 0
            BY <1>3, <1>4, <1>5, <6>1, EmptySeq
          <6> QED
            BY <1>12, <3>2, <6>1, <6>2 DEF HasNull
        <5>2. CASE Len(rest) # 0
          <6>1. rest # <<>> /\ rings[w] # <<>> /\ Len(rest) \in 1 .. Len(rest) /\ n + Len(rest) = Len(rings[w])
            BY <1>4, <1>5, <1>8, <5>2
          <6>2. rest[Len(rest)] = rings[w][Len(rings[w])]
            BY <1>8, <6>1
          <6> QED
            BY <1>12, <6>1, <6>2 DEF HasNull
        <5> QED
          BY <5>1, <5>2
      <4>2. Len(rest) + m = Len(rings[w]) /\ Len(rest) \in Int
        BY <1>4, <1>5, <1>6, <1>8, <3>2
      <4>3. Len(rings'[w]) = Len(rest)
        BY <1>12
      <4>4. CASE HasNull(w)
        <5>1. Stored(w) = Len(rings[w]) - 1 /\ Stored(w)' = Len(rest) - 1
          BY <4>1, <4>3, <4>4 DEF Stored
        <5> QED
          BY <1>4, <1>6, <4>2, <5>1
      <4>5. CASE ~HasNull(w)
        <5>1. Stored(w) = Len(rings[w]) - 0 /\ Stored(w)' = Len(rest) - 0
          BY <4>1, <4>3, <4>5 DEF Stored
        <5> QED
          BY <1>4, <1>6, <4>2, <5>1
      <4> QED
        BY <4>4, <4>5
    <3> QED
      BY <3>1, <3>2
  <2>2. (Len(taken[w]) + Stored(w))' - (Len(taken[w]) + Stored(w)) = 0
    <3>1. Len(taken[w])' = Len(taken[w]) + m
      BY <1>9, <1>12
    <3> QED
      BY <1>4, <1>6, <2>1, <3>1
  <2>3. \A v \in Workers : v # w => taken'[v] = taken[v] /\ rings'[v] = rings[v]
    BY <1>12
  <2>4. /\ \A x \in Readers : x # w[1] => Counts(x)' = Counts(x)
        /\ SumFunction(Counts(w[1]))' = SumFunction(Counts(w[1])) + ((Len(taken[w]) + Stored(w))' - (Len(taken[w]) + Stored(w)))
        /\ SumFunction(Counts(w[1])) \in Int
    BY <1>2, <1>13, <2>3, CountsStep
  <2>5. SumFunction(Counts(w[1]))' = SumFunction(Counts(w[1])) + 0
    BY <2>2, <2>4
  <2>6. SumFunction(Counts(w[1]))' = SumFunction(Counts(w[1]))
    BY <2>4, <2>5
  <2> QED
    BY <2>4, <2>6
<1>19. CountInv'
  <2> SUFFICES ASSUME NEW x \in Readers
               PROVE  /\ (reader[x].pc = "retry")' => (reader[x].sent < Len(buffers[At(x)]))'
                      /\ (stat_received[x] + Uncounted(x))' = (SumFunction(Counts(x)) + stat_dropped[x])'
                      /\ stat_dropped'[x] = SumFunction(Drops(x))'
    BY DEF CountInv
  <2>1. Drops(x)' = Drops(x) /\ At(x)' = At(x) /\ Uncounted(x)' = Uncounted(x)
    BY <1>1, DropsSame DEF At, Uncounted
  <2> QED
    BY <1>1, <1>18, <2>1 DEF DpdkInv, CountInv
<1> QED
  BY <1>13, <1>17, <1>19 DEF DpdkInv
-----------------------------------------------------------------------------
\* Every step keeps the invariant.
LEMMA DpdkStep == DpdkInv /\ [Next]_vars => DpdkInv'
<1> SUFFICES ASSUME DpdkInv, [Next]_vars PROVE DpdkInv'
  OBVIOUS
<1>1. ASSUME NEW r \in Readers, ReaderTurn(r) \/ ReaderPoll(r) \/ ReaderRetry(r) \/ ReaderCount(r) \/ SendNull(r)
      PROVE  DpdkInv'
  BY <1>1, ReaderTurnStep, ReaderPollStep, ReaderRetryStep, ReaderCountStep, SendNullStep
<1>2. ASSUME NEW w \in Workers, Arrive(w) \/ WorkerTurn(w) PROVE DpdkInv'
  BY <1>2, OutsideSteps, WorkerTurnStep
<1>3. CASE Tick \/ MainStat \/ PacketCaptureStop \/ MainStop \/ MainRelease
  BY <1>3, OutsideSteps
<1>4. CASE UNCHANGED vars
  <2>1. now' \in Nat /\ arrived' \in [Workers -> Nat] /\ nic' \in [Workers -> Seq(Ids)]
    BY <1>4 DEF DpdkInv, DpdkTypes, vars
  <2> QED
    BY <1>4, <2>1, QuietStep DEF vars
<1> QED
  BY <1>1, <1>2, <1>3, <1>4 DEF Next

(* The inductive invariant of the capture with DPDK: what a reader moved into  *)
(* a ring or dropped is what it counted, with what it has in hand, and the     *)
(* NULL packet is the last one of a ring (_reader_thread, _worker_thread).     *)
THEOREM DpdkInvariant == Spec => []DpdkInv
<1>1. Init => DpdkInv
  BY DpdkInitInv
<1>2. DpdkInv /\ [Next]_vars => DpdkInv'
  BY DpdkStep
<1> QED
  BY <1>1, <1>2, PTL DEF Spec

(* The counters of dpdk_capture.c agree, however many readers and workers      *)
(* there are and however partial the bursts: received is what entered the      *)
(* rings plus what was dropped, the drops per worker add up to the reader's,   *)
(* and a stopped worker left nothing in its ring.                              *)
THEOREM DpdkCountsAgree == Spec => []DpdkAccounting
  BY DpdkInvariant, DpdkInvImplies, PTL
=============================================================================
