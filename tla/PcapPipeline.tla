---------------------------- MODULE PcapPipeline ----------------------------
(***************************************************************************)
(* The multi-threaded capture of modules/packet_capture/pcap: one reader   *)
(* (the main thread, inside pcap_dispatch) hands every packet to the       *)
(* worker its hash selects, through one ring per worker; at the end the    *)
(* reader puts a dummy packet of length BREAK_PCAP_NUMBER in every ring,   *)
(* joins the workers, prints the statistics and frees the rings.           *)
(*                                                                         *)
(* A ring is what SpscRing is shown to implement, a bounded FIFO, with the *)
(* part of it that the worker has taken in bulk still occupying its slots. *)
(* A packet is anonymous in a ring: which worker it goes to is all that    *)
(* matters, and that is decided by the bytes its hash reads.               *)
(***************************************************************************)
EXTENDS Naturals, Sequences, FiniteSets

CONSTANTS
    Threads,        \* config->thread->thread_count, not 0 (SMP mode)
    Capacity,       \* packets a ring can hold: one less than thread-queue
    Modes,          \* input modes: TRUE for ONLINE_ANALYSIS, FALSE for OFFLINE_ANALYSIS
    Bits,           \* of the numbers in a packet's headers
    Mix(_),         \* hash(x), which spreads a number over the workers
    MaxPackets      \* bound: packets that arrive at most

ASSUME PipelineAssumption ==
    /\ Threads \in Nat \ {0}
    /\ Capacity \in Nat \ {0}
    /\ Modes \subseteq BOOLEAN /\ Modes # {}
    /\ MaxPackets \in Nat
    /\ \A number \in SUBSET Bits : Mix(number) \in Nat

Workers == 1 .. Threads

\* What _get_packet_hash_number reads of a packet.  A number is the set of
\* its bits that are 1.  In an IP fragment the ports are bytes of payload.
Headers ==
    [long : BOOLEAN, ether : {"ip", "vlan", "other"}, proto : {"tcp", "udp", "other"},
     ip_src : SUBSET Bits, ip_dst : SUBSET Bits, port_src : SUBSET Bits, port_dst : SUBSET Bits]

Ports(h) == IF h.proto \in {"tcp", "udp"} THEN h.port_src \cup h.port_dst ELSE {}

\* The bitwise or of the addresses and ports, 0 if there are none to read.
PacketHashNumber(h) ==
    IF h.long /\ h.ether # "other" THEN h.ip_src \cup h.ip_dst \cup Ports(h) ELSE {}

WorkerOf(h) == (Mix(PacketHashNumber(h)) % Threads) + 1

\* The workers some packet is for.
Selected == {WorkerOf(h) : h \in Headers}

\* The elements of a ring: a packet, or the dummy one of length 0.
Pkt == "pkt"
Break == "break"

VARIABLES
    online,         \* input_mode == ONLINE_ANALYSIS
    reader,         \* where the reader is
    turn,           \* the worker the reader deals with
    batch,          \* has this pcap_dispatch delivered a packet?
    is_exiting,     \* context->is_exiting
    break_loop,     \* the flag pcap_breakloop sets
    ring,           \* per worker: the ring, oldest first
    worker,         \* per worker: where its thread is
    bulk,           \* per worker: avail_pkt_count
    pos,            \* per worker: elements of the bulk that are done
    received,       \* traffic_stat.mmt.packets.receive
    reported_drop,  \* traffic_stat.mmt.packets.drop, assigned nowhere here
    dispatched,     \* per worker: packets its hash value selected
    processed,      \* per worker: stat.pkt_processed
    dropped         \* per worker: stat.pkt_dropped

readerVars == <<reader, turn, batch, received, reported_drop, dispatched, dropped>>
contextVars == <<online, is_exiting, break_loop>>
workerVars == <<worker, bulk, pos, processed>>
vars == <<readerVars, contextVars, workerVars, ring>>

Init ==
    /\ reader = "loop" /\ turn = 1 /\ batch = FALSE
    /\ online \in Modes /\ is_exiting = FALSE /\ break_loop = FALSE
    /\ ring = [w \in Workers |-> <<>>]
    /\ worker = [w \in Workers |-> "poll"]
    /\ bulk = [w \in Workers |-> 0]
    /\ pos = [w \in Workers |-> 0]
    /\ received = 0 /\ reported_drop = 0
    /\ dispatched = [w \in Workers |-> 0]
    /\ processed = [w \in Workers |-> 0]
    /\ dropped = [w \in Workers |-> 0]
-----------------------------------------------------------------------------
(* Signals, handled by signal_handler in main.c at any moment of the       *)
(* capture.                                                                *)

\* SIGINT: is_exiting, then packet_capture_stop.
Interrupt ==
    /\ reader # "released" /\ ~is_exiting
    /\ is_exiting' = TRUE
    /\ break_loop' = TRUE
    /\ UNCHANGED <<online, readerVars, workerVars, ring>>

\* SIGUSR2 (restart): packet_capture_stop alone; is_exiting stays false.
Restart ==
    /\ reader # "released" /\ ~is_exiting /\ ~break_loop
    /\ break_loop' = TRUE
    /\ UNCHANGED <<online, is_exiting, readerVars, workerVars, ring>>
-----------------------------------------------------------------------------
(* The reader: the loop around pcap_dispatch.                              *)

Goto(where) == reader' = where /\ UNCHANGED <<received, reported_drop, dispatched, dropped>>

CallDispatch ==
    /\ reader = "loop"
    /\ IF is_exiting THEN Goto("stop") /\ UNCHANGED <<turn, batch>>
                     ELSE Goto("dispatch") /\ batch' = FALSE /\ UNCHANGED turn
    /\ UNCHANGED <<contextVars, workerVars, ring>>

\* A packet arrives, the hash selects a worker, the slot at head is filled.
GotPacket ==
    /\ reader = "dispatch" /\ ~break_loop
    /\ received < MaxPackets
    /\ \E w \in Selected :
          /\ turn' = w
          /\ dispatched' = [dispatched EXCEPT ![w] = @ + 1]
    /\ reader' = "push"
    /\ batch' = TRUE
    /\ UNCHANGED <<received, reported_drop, dropped, contextVars, workerVars, ring>>

IsFull(w) == Len(ring[w]) >= Capacity

Push(w, element) == ring' = [ring EXCEPT ![w] = Append(@, element)]

PushPacket ==
    /\ reader = "push"
    /\ ~IsFull(turn)
    /\ Push(turn, Pkt)
    /\ reader' = "dispatch"
    /\ received' = received + 1
    /\ UNCHANGED <<turn, batch, reported_drop, dispatched, dropped, contextVars, workerVars>>

\* Mutant: the packet is given up and not counted.
DropPacketUncounted ==
    /\ reader = "push"
    /\ IsFull(turn)
    /\ online
    /\ Goto("dispatch")
    /\ UNCHANGED <<turn, batch, contextVars, workerVars, ring>>

\* Full: online the packet is given up, offline the reader sleeps and retries.
DropPacket ==
    /\ reader = "push"
    /\ IsFull(turn)
    /\ online
    /\ dropped' = [dropped EXCEPT ![turn] = @ + 1]
    /\ reader' = "dispatch"
    /\ received' = received + 1
    /\ UNCHANGED <<turn, batch, reported_drop, dispatched, contextVars, workerVars, ring>>

\* pcap_dispatch notices the break: -2 if it has delivered nothing, else the
\* number of packets, with the flag left for the next call.
BreakDispatch ==
    /\ reader = "dispatch" /\ break_loop
    /\ IF batch THEN Goto("loop") /\ UNCHANGED break_loop
                ELSE Goto("stop") /\ break_loop' = FALSE
    /\ UNCHANGED <<turn, batch, online, is_exiting, workerVars, ring>>

\* The buffer of a live capture is empty: the loop goes round.
EndBatch ==
    /\ reader = "dispatch" /\ online /\ ~break_loop
    /\ Goto("loop")
    /\ UNCHANGED <<turn, batch, contextVars, workerVars, ring>>

\* The end of the pcap file (0), or an error of libpcap (-1).
EndOfInput ==
    /\ reader = "dispatch" /\ ~break_loop
    /\ Goto("stop")
    /\ UNCHANGED <<turn, batch, contextVars, workerVars, ring>>
-----------------------------------------------------------------------------
(* The reader: stopping the workers.                                       *)

StopWorkers ==
    /\ reader = "stop"
    /\ Goto("break") /\ turn' = 1
    /\ UNCHANGED <<batch, contextVars, workerVars, ring>>

\* Mutant: one dummy packet too many.
PushBreakOneMore ==
    /\ reader = "break"
    /\ ~IsFull(turn)
    /\ Push(turn, Break)
    /\ IF turn > Threads THEN Goto("join") /\ turn' = 1
                         ELSE Goto("break") /\ turn' = turn + 1
    /\ UNCHANGED <<batch, contextVars, workerVars>>

\* Mutant: no waiting for room, a worker whose ring is full gets nothing.
PushBreakNoWait ==
    /\ reader = "break"
    /\ IF IsFull(turn) THEN UNCHANGED ring ELSE Push(turn, Break)
    /\ IF turn = Threads THEN Goto("join") /\ turn' = 1
                         ELSE Goto("break") /\ turn' = turn + 1
    /\ UNCHANGED <<batch, contextVars, workerVars>>

\* Mutant: the last worker gets no dummy packet.
PushBreakOneLess ==
    /\ reader = "break"
    /\ ~IsFull(turn)
    /\ Push(turn, Break)
    /\ IF turn + 1 >= Threads THEN Goto("join") /\ turn' = 1
                              ELSE Goto("break") /\ turn' = turn + 1
    /\ UNCHANGED <<batch, contextVars, workerVars>>

\* Mutant: the dummy packets are sent and the capture goes on.
PushBreakTooEarly ==
    /\ reader = "break"
    /\ ~IsFull(turn)
    /\ Push(turn, Break)
    /\ IF turn = Threads THEN Goto("dispatch") /\ turn' = 1
                         ELSE Goto("break") /\ turn' = turn + 1
    /\ UNCHANGED <<batch, contextVars, workerVars>>

\* One dummy packet per worker, waiting for room as long as it takes.
PushBreak ==
    /\ reader = "break"
    /\ ~IsFull(turn)
    /\ Push(turn, Break)
    /\ IF turn = Threads THEN Goto("join") /\ turn' = 1
                         ELSE Goto("break") /\ turn' = turn + 1
    /\ UNCHANGED <<batch, contextVars, workerVars>>

\* pthread_join in order.
Join ==
    /\ reader = "join"
    /\ worker[turn] = "stopped"
    /\ IF turn = Threads THEN Goto("joined") /\ UNCHANGED turn
                         ELSE Goto("join") /\ turn' = turn + 1
    /\ UNCHANGED <<batch, contextVars, workerVars, ring>>

\* The statistics of libpcap, then _pcap_capture_release: rings and workers are freed.
Release ==
    /\ reader = "joined"
    /\ Goto("released")
    /\ ring' = [w \in Workers |-> <<>>]
    /\ UNCHANGED <<turn, batch, contextVars, workerVars>>
-----------------------------------------------------------------------------
(* A worker thread.                                                        *)

\* Mutant: a worker looks at is_exiting instead of waiting for the dummy packet.
PopBulkOrExit(w) ==
    /\ worker[w] = "poll"
    /\ \E n \in 1 .. Len(ring[w]) : bulk' = [bulk EXCEPT ![w] = n]
    /\ pos' = [pos EXCEPT ![w] = 0]
    /\ worker' = [worker EXCEPT ![w] = IF is_exiting THEN "stopped" ELSE "bulk"]
    /\ UNCHANGED <<processed, readerVars, contextVars, ring>>

\* pop_bulk: some of what is in the ring, at least one element.
PopBulk(w) ==
    /\ worker[w] = "poll"
    /\ \E n \in 1 .. Len(ring[w]) : bulk' = [bulk EXCEPT ![w] = n]
    /\ pos' = [pos EXCEPT ![w] = 0]
    /\ worker' = [worker EXCEPT ![w] = "bulk"]
    /\ UNCHANGED <<processed, readerVars, contextVars, ring>>

\* All but the last element are processed without looking at their length.
ProcessPacket(w) ==
    /\ worker[w] = "bulk"
    /\ pos[w] + 1 < bulk[w]
    /\ processed' = [processed EXCEPT ![w] = @ + 1]
    /\ pos' = [pos EXCEPT ![w] = @ + 1]
    /\ UNCHANGED <<worker, bulk, readerVars, contextVars, ring>>

\* The last one ends the thread (worker_on_stop) or is processed.
LastElement(w) ==
    /\ worker[w] = "bulk"
    /\ pos[w] + 1 = bulk[w]
    /\ IF ring[w][bulk[w]] = Break
       THEN worker' = [worker EXCEPT ![w] = "stopped"] /\ UNCHANGED <<pos, processed>>
       ELSE /\ processed' = [processed EXCEPT ![w] = @ + 1]
            /\ pos' = [pos EXCEPT ![w] = @ + 1]
            /\ UNCHANGED worker
    /\ UNCHANGED <<bulk, readerVars, contextVars, ring>>

\* The whole bulk is given back at once.
UpdateTail(w) ==
    /\ worker[w] = "bulk"
    /\ pos[w] = bulk[w]
    /\ ring' = [ring EXCEPT ![w] = SubSeq(@, bulk[w] + 1, Len(@))]
    /\ bulk' = [bulk EXCEPT ![w] = 0]
    /\ pos' = [pos EXCEPT ![w] = 0]
    /\ worker' = [worker EXCEPT ![w] = "poll"]
    /\ UNCHANGED <<processed, readerVars, contextVars>>
-----------------------------------------------------------------------------
Signals == Interrupt \/ Restart

Arrivals == GotPacket

Reader ==
    \/ CallDispatch \/ PushPacket \/ DropPacket \/ BreakDispatch \/ EndBatch
    \/ EndOfInput \/ StopWorkers \/ PushBreak \/ Join \/ Release

Worker(w) == PopBulk(w) \/ ProcessPacket(w) \/ LastElement(w) \/ UpdateTail(w)

Next == Signals \/ Arrivals \/ Reader \/ (\E w \in Workers : Worker(w))

Spec == Init /\ [][Next]_vars

\* The scheduler runs every thread; signals and packets come or do not come.
FairSpec ==
    /\ Spec
    /\ WF_vars(Reader)
    /\ \A w \in Workers : WF_vars(Worker(w))
-----------------------------------------------------------------------------
TypeOK ==
    /\ reader \in {"loop", "dispatch", "push", "stop", "break", "join", "joined", "released"}
    /\ turn \in Workers
    /\ online \in Modes /\ batch \in BOOLEAN /\ is_exiting \in BOOLEAN /\ break_loop \in BOOLEAN
    /\ ring \in [Workers -> Seq({Pkt, Break})]
    /\ worker \in [Workers -> {"poll", "bulk", "stopped"}]
    /\ bulk \in [Workers -> Nat] /\ pos \in [Workers -> Nat]
    /\ received \in Nat /\ reported_drop \in Nat
    /\ dispatched \in [Workers -> Nat]
    /\ processed \in [Workers -> Nat]
    /\ dropped \in [Workers -> Nat]

\* Packets in the ring of w that w has still to process.
Waiting(w) == Cardinality({k \in pos[w] + 1 .. Len(ring[w]) : ring[w][k] = Pkt})

\* The packet between the hash and the push.
InHand(w) == IF reader = "push" /\ turn = w THEN 1 ELSE 0

\* Every packet dispatched to a worker is processed, dropped, in its ring or
\* in the reader's hands, once: the two threads' counters agree at every
\* moment, also across a bulk whose slots are not given back.
Accounting ==
    \A w \in Workers :
        dispatched[w] = processed[w] + dropped[w] + Waiting(w) + InHand(w)

\* Only the last element of a ring is the dummy packet: the worker, which
\* looks at the length of the last element of a bulk only, neither misses
\* the dummy packet nor processes it as traffic.
BreakIsLast ==
    \A w \in Workers : \A k \in 1 .. Len(ring[w]) - 1 : ring[w][k] = Pkt

\* A worker that has left its loop has left nothing behind, and the rings
\* and counters are released only when every worker has left its loop; a
\* trace file is then processed completely.
CleanStop ==
    /\ \A w \in Workers : worker[w] = "stopped" => Waiting(w) = 0
    /\ reader = "released" =>
          \A w \in Workers :
              /\ worker[w] = "stopped"
              /\ dispatched[w] = processed[w] + dropped[w]
              /\ ~online => dispatched[w] = processed[w]

\* A stop or restart signal, whenever it comes, ends the capture: the reader
\* leaves pcap_dispatch, the dummy packets find room, all workers are joined.
StopCompletes == (is_exiting \/ break_loop) ~> (reader = "released")

\* A trace file is read to its end and the probe stops by itself.
FileCompletes == ~online => <>(reader = "released")

\* doc/data-format.md, report field 8: "Number of packets being dropped by
\* MMT" is what context_print_traffic_stat writes.
DropsReported ==
    (\A w \in Workers : dropped[w] = 0) \/ reported_drop > 0
=============================================================================
