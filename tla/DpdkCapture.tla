----------------------------- MODULE DpdkCapture -----------------------------
(* The capture with DPDK (modules/packet_capture/dpdk/dpdk_capture.c).  A     *)
(* reader polls the RX queues of its workers, keeps packets in a buffer per   *)
(* worker and pushes a full or old buffer to the worker's ring; what does not *)
(* fit is freed and counted as dropped.  The main thread prints statistics    *)
(* and, when the probe is stopped, waits for the readers and then for the     *)
(* workers, which a NULL packet ends.  NIC, rte_ring and semaphores are       *)
(* external.  A packet is a number, in the order its queue received it.       *)
EXTENDS Integers, Sequences, FiniteSets, FiniteSetsExt, SequencesExt

CONSTANTS Readers,       \* readers, over all the ports
          NbWorkers,     \* workers of a reader, one RX queue each
          RingSize,      \* packets a ring holds (thread-queue - 1)
          RxDescriptors, \* packets an RX queue holds
          ReaderBurst, DrainThresh, WorkerBurst,
          PointerSize,   \* bytes of a pointer
          StatPeriod,
          MaxArrivals, MaxTime     \* bounds

ASSUME DpdkAssumption ==
    /\ NbWorkers \in Nat \ {0} /\ RingSize \in Nat \ {0} /\ RxDescriptors \in Nat \ {0}
    /\ ReaderBurst \in Nat \ {0} /\ DrainThresh \in Nat \ {0} /\ WorkerBurst \in Nat \ {0}
    /\ PointerSize \in Nat \ {0} /\ StatPeriod \in Nat \ {0}

VARIABLES now, arrived,       \* the clock, and the packets each queue received
          nic,                \* RX queues
          reader,             \* of each reader: pc, the worker it is at, its time_now, sent so far
          buffers,            \* struct buffer of each worker: the packets and their udata64
          rings,              \* worker_rings
          stat_received, stat_dropped, pkts_dropped,
          worker,             \* of each worker: pc, next_stat_ts
          taken,              \* what each worker processed and freed, in order
          freed,              \* what a reader freed, per worker
          main,               \* pc of the main thread
          next_stat_moment, traffic_stat,
          is_exiting, is_continuous, semaphores,
          crashed             \* a pointer to nothing was used

vars == <<now, arrived, nic, reader, buffers, rings, stat_received, stat_dropped, pkts_dropped, worker,
          taken, freed, main, next_stat_moment, traffic_stat, is_exiting, is_continuous, semaphores, crashed>>

Null == -1
Wild == -2
Workers == Readers \X (1..NbWorkers)
WorkersOf(r) == {r} \X (1..NbWorkers)
ReaderSem(r) == <<r, 0>>        \* its semaphore; a worker's is the worker itself
Room(w) == RingSize - Len(rings[w])
IdOf(pkt) == pkt.id

\* _port_init: the RX queues, rings and counters of the readers of a port
PortInit ==
    /\ nic = [w \in Workers |-> <<>>] /\ rings = [w \in Workers |-> <<>>]
    /\ stat_received = [r \in Readers |-> 0] /\ stat_dropped = [r \in Readers |-> 0]

\* packet_capture_start: workers, then readers are launched
Launch ==
    /\ worker = [w \in Workers |-> [pc |-> "run", next_stat_ts |-> StatPeriod]]
    /\ reader = [r \in Readers |-> [pc |-> "loop", at |-> 1, time_now |-> 0, sent |-> 0]]
    /\ buffers = [w \in Workers |-> <<>>] /\ pkts_dropped = [w \in Workers |-> 0]
    /\ semaphores = {}

Init ==
    /\ PortInit /\ Launch
    /\ main = "stat" /\ next_stat_moment = StatPeriod
    /\ traffic_stat = [receive |-> 0, drop |-> 0]
    /\ is_exiting = FALSE /\ is_continuous = TRUE
    /\ now = 0 /\ arrived = [w \in Workers |-> 0]
    /\ taken = [w \in Workers |-> <<>>] /\ freed = [w \in Workers |-> <<>>] /\ crashed = FALSE

\* the NIC: a packet more in a queue, or missed when the queue is full
Arrive(w) ==
    /\ arrived[w] < MaxArrivals /\ Len(nic[w]) < RxDescriptors
    /\ arrived' = [arrived EXCEPT ![w] = @ + 1]
    /\ nic' = [nic EXCEPT ![w] = Append(@, arrived[w] + 1)]
    /\ UNCHANGED <<now, reader, buffers, rings, stat_received, stat_dropped, pkts_dropped, worker, taken, freed,
                   main, next_stat_moment, traffic_stat, is_exiting, is_continuous, semaphores, crashed>>

Tick ==
    /\ now < MaxTime
    /\ now' = now + 1
    /\ UNCHANGED <<arrived, nic, reader, buffers, rings, stat_received, stat_dropped, pkts_dropped, worker, taken,
                   freed, main, next_stat_moment, traffic_stat, is_exiting, is_continuous, semaphores, crashed>>
-----------------------------------------------------------------------------
\* _reader_thread, one turn of the loop: the clock, then every queue in turn
ReaderTurn(r) ==
    /\ reader[r].pc = "loop"
    /\ reader' = [reader EXCEPT ![r] = IF is_continuous THEN [@ EXCEPT !.pc = "poll", !.at = 1, !.time_now = now]
                                       ELSE [@ EXCEPT !.pc = "signal", !.at = 1]]
    /\ UNCHANGED <<now, arrived, nic, buffers, rings, stat_received, stat_dropped, pkts_dropped, worker, taken, freed,
                   main, next_stat_moment, traffic_stat, is_exiting, is_continuous, semaphores, crashed>>

\* the next queue, or the next turn
NextQueue(rd) == IF rd.at = NbWorkers THEN [rd EXCEPT !.pc = "loop"] ELSE [rd EXCEPT !.pc = "poll", !.at = @ + 1]

\* a buffer is pushed when it is full or when its first packet is of an earlier second
MustDrain(buf, time_now) == buf # <<>> /\ (Len(buf) >= DrainThresh \/ time_now > Head(buf).ts)

\* rte_eth_rx_burst into the buffer, and the first try to push the buffer
ReaderPoll(r) ==
    LET w == <<r, reader[r].at>>
        n == Min({ReaderBurst, Len(nic[w])})
        buf == buffers[w] \o [i \in 1..n |-> [id |-> nic[w][i], ts |-> reader[r].time_now]]
        sent == IF MustDrain(buf, reader[r].time_now) THEN Min({Room(w), Len(buf)}) ELSE 0
    IN  /\ reader[r].pc = "poll"
        /\ nic' = [nic EXCEPT ![w] = SubSeq(@, n + 1, Len(@))]
        /\ buffers' = [buffers EXCEPT ![w] = buf]
        /\ rings' = [rings EXCEPT ![w] = @ \o [i \in 1..sent |-> IdOf(buf[i])]]
        /\ reader' = [reader EXCEPT ![r] = IF ~MustDrain(buf, reader[r].time_now) THEN NextQueue(@)
                                           ELSE [@ EXCEPT !.sent = sent,
                                                          !.pc = IF sent < Len(buf) THEN "retry" ELSE "count"]]
        /\ UNCHANGED <<now, arrived, stat_received, stat_dropped, pkts_dropped, worker, taken, freed, main,
                       next_stat_moment, traffic_stat, is_exiting, is_continuous, semaphores, crashed>>

\* the k-th pointer that the second try reads: "(void *) packets + sent" adds bytes
Retried(buf, sent, k) ==
    IF sent % PointerSize = 0 THEN buf[sent \div PointerSize + k].id ELSE Wild

\* the second try; the packets behind the count are freed and counted as dropped
ReaderRetry(r) ==
    LET w == <<r, reader[r].at>>
        buf == buffers[w]
        sent == reader[r].sent
        more == Min({Room(w), Len(buf) - sent})
        lost == Len(buf) - (sent + more)
    IN  /\ reader[r].pc = "retry"
        /\ rings' = [rings EXCEPT ![w] = @ \o [k \in 1..more |-> Retried(buf, sent, k)]]
        /\ freed' = [freed EXCEPT ![w] = @ \o [k \in 1..lost |-> buf[sent + more + k].id]]
        /\ stat_dropped' = [stat_dropped EXCEPT ![r] = @ + lost]
        /\ pkts_dropped' = [pkts_dropped EXCEPT ![w] = @ + lost]
        /\ reader' = [reader EXCEPT ![r].pc = "count"]
        /\ UNCHANGED <<now, arrived, nic, buffers, stat_received, worker, taken, main, next_stat_moment,
                       traffic_stat, is_exiting, is_continuous, semaphores, crashed>>

\* Mutant: only what entered the ring at the first try is counted
ReaderCountSent(r) ==
    LET w == <<r, reader[r].at>> IN
    /\ reader[r].pc = "count"
    /\ stat_received' = [stat_received EXCEPT ![r] = @ + reader[r].sent]
    /\ buffers' = [buffers EXCEPT ![w] = <<>>]
    /\ reader' = [reader EXCEPT ![r] = NextQueue(@)]
    /\ UNCHANGED <<now, arrived, nic, rings, stat_dropped, pkts_dropped, worker, taken, freed, main,
                   next_stat_moment, traffic_stat, is_exiting, is_continuous, semaphores, crashed>>

\* stat_received, and the buffer is reset
ReaderCount(r) ==
    LET w == <<r, reader[r].at>> IN
    /\ reader[r].pc = "count"
    /\ stat_received' = [stat_received EXCEPT ![r] = @ + Len(buffers[w])]
    /\ buffers' = [buffers EXCEPT ![w] = <<>>]
    /\ reader' = [reader EXCEPT ![r] = NextQueue(@)]
    /\ UNCHANGED <<now, arrived, nic, rings, stat_dropped, pkts_dropped, worker, taken, freed, main,
                   next_stat_moment, traffic_stat, is_exiting, is_continuous, semaphores, crashed>>

\* Mutant: the NULL packet is sent once, whether or not there is room
SendNullOnce(r) ==
    LET w == <<r, reader[r].at>> IN
    /\ reader[r].pc = "signal"
    /\ rings' = IF Room(w) > 0 THEN [rings EXCEPT ![w] = Append(@, Null)] ELSE rings
    /\ reader' = [reader EXCEPT ![r] = IF @.at = NbWorkers THEN [@ EXCEPT !.pc = "done"] ELSE [@ EXCEPT !.at = reader[r].at + 1]]
    /\ semaphores' = IF reader[r].at = NbWorkers THEN semaphores \cup {ReaderSem(r)} ELSE semaphores
    /\ UNCHANGED <<now, arrived, nic, buffers, stat_received, stat_dropped, pkts_dropped, worker, taken, freed, main,
                   next_stat_moment, traffic_stat, is_exiting, is_continuous, crashed>>

\* a NULL packet for every worker, as soon as its ring has room; the reader then posts
SendNull(r) ==
    LET w == <<r, reader[r].at>> IN
    /\ reader[r].pc = "signal" /\ Room(w) > 0
    /\ rings' = [rings EXCEPT ![w] = Append(@, Null)]
    /\ reader' = [reader EXCEPT ![r] = IF @.at = NbWorkers THEN [@ EXCEPT !.pc = "done"] ELSE [@ EXCEPT !.at = reader[r].at + 1]]
    /\ semaphores' = IF reader[r].at = NbWorkers THEN semaphores \cup {ReaderSem(r)} ELSE semaphores
    /\ UNCHANGED <<now, arrived, nic, buffers, stat_received, stat_dropped, pkts_dropped, worker, taken, freed, main,
                   next_stat_moment, traffic_stat, is_exiting, is_continuous, crashed>>
-----------------------------------------------------------------------------
\* the timer of a worker: one period per turn, however late it is
StatTimer(wk) == IF now >= wk.next_stat_ts THEN [wk EXCEPT !.next_stat_ts = @ + StatPeriod] ELSE wk

\* _worker_thread, one turn: a burst, whose last packet may be the NULL packet.  worker_on_stop
\* and the post follow at once
WorkerTurn(w) ==
    LET n == Min({WorkerBurst, Len(rings[w])})
        last == n > 0 /\ rings[w][n] = Null
        packets == SubSeq(rings[w], 1, IF last THEN n - 1 ELSE n)
    IN  /\ worker[w].pc = "run"
        /\ n > 0 \/ now >= worker[w].next_stat_ts
        /\ rings' = [rings EXCEPT ![w] = SubSeq(@, n + 1, Len(@))]
        /\ taken' = [taken EXCEPT ![w] = @ \o packets]
        /\ crashed' = (\E i \in DOMAIN packets : packets[i] \in {Null, Wild})
        /\ worker' = [worker EXCEPT ![w] = [StatTimer(@) EXCEPT !.pc = IF last THEN "stopped" ELSE "run"]]
        /\ semaphores' = IF last THEN semaphores \cup {w} ELSE semaphores
        /\ UNCHANGED <<now, arrived, nic, reader, buffers, stat_received, stat_dropped, pkts_dropped, freed, main,
                       next_stat_moment, traffic_stat, is_exiting, is_continuous>>
-----------------------------------------------------------------------------
\* the statistics of packet_capture_start
MainStat ==
    /\ main = "stat" /\ ~is_exiting /\ now >= next_stat_moment
    /\ next_stat_moment' = next_stat_moment + StatPeriod
    /\ traffic_stat' = [receive |-> SumFunction(stat_received), drop |-> SumFunction(stat_dropped)]
    /\ UNCHANGED <<now, arrived, nic, reader, buffers, rings, stat_received, stat_dropped, pkts_dropped, worker,
                   taken, freed, main, is_exiting, is_continuous, semaphores, crashed>>

\* packet_capture_stop, from the signal handler
PacketCaptureStop ==
    /\ ~is_exiting
    /\ is_exiting' = TRUE
    /\ UNCHANGED <<now, arrived, nic, reader, buffers, rings, stat_received, stat_dropped, pkts_dropped, worker,
                   taken, freed, main, next_stat_moment, traffic_stat, is_continuous, semaphores, crashed>>

\* the main thread leaves its loop and tells the readers to exit
MainStop ==
    /\ main = "stat" /\ is_exiting
    /\ is_continuous' = FALSE
    /\ main' = "wait"
    /\ UNCHANGED <<now, arrived, nic, reader, buffers, rings, stat_received, stat_dropped, pkts_dropped, worker,
                   taken, freed, next_stat_moment, traffic_stat, is_exiting, semaphores, crashed>>

\* every sem_wait is through: worker_print_common_statistics, _dpdk_capture_release
MainRelease ==
    /\ main = "wait" /\ semaphores = {ReaderSem(r) : r \in Readers} \cup Workers
    /\ main' = "released"
    /\ UNCHANGED <<now, arrived, nic, reader, buffers, rings, stat_received, stat_dropped, pkts_dropped, worker,
                   taken, freed, next_stat_moment, traffic_stat, is_exiting, is_continuous, semaphores, crashed>>

Next ==
    /\ ~crashed
    /\ \/ \E w \in Workers : Arrive(w) \/ WorkerTurn(w)
       \/ Tick
       \/ \E r \in Readers : ReaderTurn(r) \/ ReaderPoll(r) \/ ReaderRetry(r) \/ ReaderCount(r) \/ SendNull(r)
       \/ MainStat \/ PacketCaptureStop \/ MainStop \/ MainRelease

Running(A) == ~crashed /\ A

\* every thread has a core of its own
Fairness ==
    /\ \A r \in Readers :
          WF_vars(Running(ReaderTurn(r) \/ ReaderPoll(r) \/ ReaderRetry(r) \/ ReaderCount(r) \/ SendNull(r)))
    /\ \A w \in Workers : WF_vars(Running(WorkerTurn(w)))
    /\ WF_vars(Running(MainStat \/ MainStop \/ MainRelease))

Spec == Init /\ [][Next]_vars /\ Fairness
-----------------------------------------------------------------------------
\* what entered the rings of a reader's workers: processed, or still in the ring
Entered(w) == Len(taken[w]) + Cardinality({i \in DOMAIN rings[w] : rings[w][i] # Null})
Enqueued(r) == SumFunction([w \in WorkersOf(r) |-> Entered(w)])

(* What a reader has counted as received is what entered the rings of its     *)
(* workers plus what it counted as dropped; the drops shown per worker        *)
(* (worker_print_common_statistics) add up to the reader's; and a worker      *)
(* that has stopped left nothing in its ring, because the NULL packet is      *)
(* always the last one of a burst (_worker_thread looks at the last only).    *)
DpdkAccounting ==
    /\ \A r \in Readers :
          /\ reader[r].pc \notin {"retry", "count"} => stat_received[r] = Enqueued(r) + stat_dropped[r]
          /\ SumFunction([w \in WorkersOf(r) |-> pkts_dropped[w]]) = stat_dropped[r]
    /\ \A w \in Workers : worker[w].pc = "stopped" => rings[w] = <<>>

(* A probe that is told to stop ends, however full the rings are: the readers *)
(* get their NULL packets through and every worker sees its own (the sem_wait *)
(* loops of packet_capture_start), unless a bad pointer ended it before.      *)
DpdkStops == is_exiting ~> (main = "released" \/ crashed)

(* "when a mbuf has not been sent, we need to free it" (_reader_thread): a    *)
(* packet that left the reader's buffer is in the ring of its worker, or was  *)
(* freed once, by its worker or by the reader.                                *)
EveryMbufFreedOnce ==
    \A r \in Readers, i \in 1..NbWorkers :
        LET w == <<r, i>>
            there == taken[w] \o rings[w] \o freed[w]
            left == (arrived[w] - Len(nic[w])) - Len(buffers[w])
        IN  reader[r].pc \notin {"retry", "count"} =>
                \A id \in 1..left : Cardinality({k \in DOMAIN there : there[k] = id}) = 1
=============================================================================
