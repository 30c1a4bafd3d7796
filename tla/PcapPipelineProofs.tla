------------------------- MODULE PcapPipelineProofs -------------------------
(***************************************************************************)
(* Proofs about PcapPipeline, for every number of worker threads, every    *)
(* ring capacity, every hash and any number of packets: no packet is lost  *)
(* or counted twice between the reader and the workers, and every capture  *)
(* stops cleanly.                                                          *)
(***************************************************************************)
EXTENDS PcapPipeline, FiniteSetTheorems, TLAPS

\* The last element of the ring of w is the dummy packet.
HasBreak(w) == Len(ring[w]) > 0 /\ ring[w][Len(ring[w])] = Break

\* What Waiting counts, as arithmetic.
Backlog(w) == IF HasBreak(w) THEN Len(ring[w]) - pos[w] - 1 ELSE Len(ring[w]) - pos[w]

\* Where a worker can be in its ring.  It has not passed the dummy packet;
\* stopped, the dummy packet is the one element it has taken and not done.
WorkerInv ==
    \A w \in Workers :
        /\ worker[w] = "poll" => bulk[w] = 0 /\ pos[w] = 0
        /\ worker[w] = "bulk" =>
              /\ bulk[w] >= 1 /\ bulk[w] <= Len(ring[w])
              /\ pos[w] <= bulk[w]
              /\ HasBreak(w) => pos[w] < Len(ring[w])
        /\ worker[w] = "stopped" /\ reader # "released" =>
              HasBreak(w) /\ pos[w] + 1 = Len(ring[w])

\* How far the reader's stop has come: dummy packets are in the rings of the
\* workers before its turn, joined are the workers before its turn.
StopInv ==
    \A w \in Workers :
        /\ HasBreak(w) => \/ reader \in {"join", "joined"}
                          \/ reader = "break" /\ w < turn
        /\ reader = "join" /\ w < turn => worker[w] = "stopped"
        /\ reader \in {"joined", "released"} => worker[w] = "stopped"
        /\ reader = "released" => ring[w] = <<>>

\* Accounting with the cardinality replaced by Backlog; drops only online.
CountInv ==
    \A w \in Workers :
        /\ reader # "released" =>
              dispatched[w] = processed[w] + dropped[w] + Backlog(w) + InHand(w)
        /\ reader = "released" => dispatched[w] = processed[w] + dropped[w]
        /\ ~online => dropped[w] = 0

\* The inductive invariant.
IInv == TypeOK /\ BreakIsLast /\ WorkerInv /\ StopInv /\ CountInv
-----------------------------------------------------------------------------
(* Lemmas about the operators.                                             *)

\* _get_packet_hash_number does not tell the directions of a flow apart: a
\* packet and one with its addresses and ports exchanged go to one worker.
THEOREM HashIsSymmetric ==
    ASSUME NEW h \in Headers, NEW g \in Headers,
           g.long = h.long, g.ether = h.ether, g.proto = h.proto,
           g.ip_src = h.ip_dst, g.ip_dst = h.ip_src,
           g.port_src = h.port_dst, g.port_dst = h.port_src
    PROVE  WorkerOf(g) = WorkerOf(h)
<1>1. Ports(g) = Ports(h)
  BY DEF Ports
<1>2. g.ip_src \cup g.ip_dst = h.ip_src \cup h.ip_dst
  OBVIOUS
<1>3. PacketHashNumber(g) = PacketHashNumber(h)
  BY <1>1, <1>2 DEF PacketHashNumber
<1> QED
  BY <1>3 DEF WorkerOf

\* There is a worker, and Workers is an interval.
LEMMA WorkersType == /\ Threads \in Nat /\ 1 \in Workers /\ Threads \in Workers
                     /\ \A w \in Workers : w \in Nat /\ 1 <= w /\ w <= Threads
                     /\ \A w \in Workers : w # Threads => w + 1 \in Workers
BY PipelineAssumption DEF Workers

\* The hash selects workers that exist.
LEMMA SelectedWorkers == Selected \subseteq Workers
<1> SUFFICES ASSUME NEW h \in Headers PROVE WorkerOf(h) \in Workers
  BY DEF Selected
<1> DEFINE number == PacketHashNumber(h)
<1>1. number \in SUBSET Bits
  BY DEF PacketHashNumber, Ports, Headers
<1>2. Mix(number) \in Nat
  BY <1>1, PipelineAssumption
<1> HIDE DEF number
<1>3. Mix(number) % Threads \in 0 .. Threads - 1
  BY <1>2, PipelineAssumption
<1> QED
  BY <1>3, PipelineAssumption DEF WorkerOf, Workers, number

\* What the type invariant says of one worker.
LEMMA WorkerTypes ==
    ASSUME TypeOK, NEW w \in Workers
    PROVE  /\ ring[w] \in Seq({Pkt, Break}) /\ Len(ring[w]) \in Nat
           /\ Len(ring[w]) > 0 => ring[w][Len(ring[w])] \in {Pkt, Break}
           /\ worker[w] \in {"poll", "bulk", "stopped"}
           /\ bulk[w] \in Nat /\ pos[w] \in Nat
           /\ dispatched[w] \in Nat /\ processed[w] \in Nat /\ dropped[w] \in Nat
           /\ Backlog(w) \in Int /\ InHand(w) \in Nat
<1>1. ring[w] \in Seq({Pkt, Break}) /\ pos[w] \in Nat
  BY DEF TypeOK
<1>2. Len(ring[w]) \in Nat /\ (Len(ring[w]) > 0 => ring[w][Len(ring[w])] \in {Pkt, Break})
  BY <1>1
<1>3. Backlog(w) \in Int
  BY <1>1, <1>2 DEF Backlog
<1>4. InHand(w) \in Nat
  BY DEF InHand
<1> QED
  BY <1>1, <1>2, <1>3, <1>4 DEF TypeOK

\* As long as only the last element of a ring is the dummy packet and the
\* worker has not passed it, the packets waiting are an interval.
LEMMA WaitingIsBacklog ==
    ASSUME NEW w \in Workers, TypeOK, BreakIsLast,
           pos[w] <= Len(ring[w]), HasBreak(w) => pos[w] < Len(ring[w])
    PROVE  Waiting(w) = Backlog(w)
<1> DEFINE len == Len(ring[w])
           done == pos[w]
           Pkts(k) == ring[w][k] = Pkt
<1>1. /\ len \in Nat /\ done \in Nat /\ done <= len
      /\ \A k \in 1 .. len - 1 : Pkts(k)
  BY DEF TypeOK, BreakIsLast
<1>2. /\ HasBreak(w) => done < len /\ ~Pkts(len)
      /\ ~HasBreak(w) /\ len > 0 => Pkts(len)
  BY DEF TypeOK, HasBreak, Pkt, Break
<1> DEFINE S == {k \in done + 1 .. len : Pkts(k)}
<1>3. Waiting(w) = Cardinality(S)
  BY DEF Waiting
<1>4. Backlog(w) = IF HasBreak(w) THEN len - done - 1 ELSE len - done
  BY DEF Backlog
<1> HIDE DEF len, done, Pkts
<1>5. CASE HasBreak(w)
  <2>1. S = done + 1 .. len - 1
    BY <1>1, <1>2, <1>5
  <2>2. Cardinality(done + 1 .. len - 1) = len - 1 - done
    BY <1>1, <1>2, <1>5, FS_Interval
  <2> HIDE DEF S
  <2> QED
    BY <1>1, <1>3, <1>4, <1>5, <2>1, <2>2
<1>6. CASE ~HasBreak(w)
  <2>1. S = done + 1 .. len
    BY <1>1, <1>2, <1>6
  <2>2. /\ done + 1 \in Int /\ len \in Int /\ done + 1 <= len + 1
        /\ len - (done + 1) + 1 = len - done
    BY <1>1
  <2>3. Cardinality(done + 1 .. len) = IF done + 1 > len THEN 0 ELSE len - (done + 1) + 1
    BY <2>2, FS_Interval
  <2> HIDE DEF S
  <2> QED
    BY <1>1, <1>3, <1>4, <1>6, <2>1, <2>2, <2>3
<1> QED
  BY <1>5, <1>6
-----------------------------------------------------------------------------
(* The invariant.                                                          *)

\* The capture starts with empty rings and workers that poll.
LEMMA InitIInv == Init => IInv
<1> SUFFICES ASSUME Init PROVE IInv
  OBVIOUS
<1>1. TypeOK
  <2>1. <<>> \in Seq({Pkt, Break})
    OBVIOUS
  <2>2. ring \in [Workers -> Seq({Pkt, Break})]
    BY <2>1 DEF Init
  <2> QED
    BY <2>2, WorkersType DEF Init, TypeOK
<1>2. \A w \in Workers : ring[w] = <<>> /\ Len(ring[w]) = 0 /\ ~HasBreak(w) /\ Backlog(w) = 0 /\ InHand(w) = 0
  BY DEF Init, HasBreak, Backlog, InHand
<1>3. BreakIsLast
  BY <1>2 DEF BreakIsLast
<1>4. WorkerInv /\ StopInv /\ CountInv
  BY <1>2 DEF Init, WorkerInv, StopInv, CountInv
<1> QED
  BY <1>1, <1>3, <1>4 DEF IInv

\* The steps that leave rings, workers and counters alone: signals and the
\* reader's way from one call of pcap_dispatch to the next.
LEMMA IdleStep ==
    ASSUME IInv, Signals \/ CallDispatch \/ BreakDispatch \/ EndBatch \/ EndOfInput \/ StopWorkers
    PROVE  IInv'
<1> USE DEF Goto, readerVars, contextVars, workerVars
<1>1. /\ UNCHANGED <<ring, worker, bulk, pos, received, reported_drop, dispatched, dropped, processed, online>>
      /\ turn' \in {turn, 1}
      /\ batch' \in BOOLEAN /\ is_exiting' \in BOOLEAN /\ break_loop' \in BOOLEAN
      /\ \/ reader' = reader /\ turn' = turn
         \/ /\ reader \in {"loop", "dispatch", "stop"}
            /\ reader' \in {"loop", "dispatch", "stop", "break"}
  <2> USE DEF IInv, TypeOK
  <2>1. CASE Signals
    BY <2>1 DEF Signals, Interrupt, Restart
  <2>2. CASE CallDispatch
    BY <2>2 DEF CallDispatch
  <2>3. CASE BreakDispatch
    BY <2>3 DEF BreakDispatch
  <2>4. CASE EndBatch \/ EndOfInput
    BY <2>4 DEF EndBatch, EndOfInput
  <2>5. CASE StopWorkers
    BY <2>5 DEF StopWorkers
  <2> QED
    BY <2>1, <2>2, <2>3, <2>4, <2>5
<1>2. TypeOK'
  BY <1>1, WorkersType DEF IInv, TypeOK
<1>3. BreakIsLast'
  BY <1>1 DEF IInv, BreakIsLast
<1>4. \A w \in Workers : HasBreak(w)' = HasBreak(w) /\ Backlog(w)' = Backlog(w) /\ InHand(w)' = InHand(w)
  BY <1>1 DEF HasBreak, Backlog, InHand
<1>5. WorkerInv'
  BY <1>1, <1>4 DEF IInv, WorkerInv
<1>6. StopInv'
  BY <1>1, <1>4 DEF IInv, StopInv
<1>7. CountInv'
  BY <1>1, <1>4 DEF IInv, CountInv
<1> QED
  BY <1>2, <1>3, <1>5, <1>6, <1>7 DEF IInv
\* A packet is in the reader's hands and counted as dispatched.
LEMMA GotPacketStep == IInv /\ GotPacket => IInv'
<1> SUFFICES ASSUME IInv, GotPacket PROVE IInv'
  OBVIOUS
<1> USE DEF contextVars, workerVars
<1>1. PICK w \in Workers : turn' = w /\ dispatched' = [dispatched EXCEPT ![w] = @ + 1]
  BY SelectedWorkers DEF GotPacket
<1>2. /\ UNCHANGED <<ring, worker, bulk, pos, received, reported_drop, dropped, processed,
                     online, is_exiting, break_loop>>
      /\ reader = "dispatch" /\ reader' = "push" /\ batch' = TRUE
  BY DEF GotPacket
<1>3. TypeOK'
  <2>1. dispatched' \in [Workers -> Nat]
    BY <1>1 DEF IInv, TypeOK
  <2> QED
    BY <1>1, <1>2, <2>1 DEF IInv, TypeOK
<1>4. \A v \in Workers : HasBreak(v)' = HasBreak(v) /\ Backlog(v)' = Backlog(v)
  BY <1>2 DEF HasBreak, Backlog
<1>5. \A v \in Workers : InHand(v) = 0 /\ InHand(v)' = IF v = w THEN 1 ELSE 0
  BY <1>1, <1>2 DEF InHand
<1>6. BreakIsLast' /\ WorkerInv' /\ StopInv'
  BY <1>2, <1>4 DEF IInv, BreakIsLast, WorkerInv, StopInv
<1>7. CountInv'
  <2> SUFFICES ASSUME NEW v \in Workers
               PROVE  dispatched'[v] = processed[v] + dropped[v] + Backlog(v) + InHand(v)' /\ (~online => dropped[v] = 0)
    BY <1>2, <1>4 DEF CountInv
  <2>1. dispatched[v] = processed[v] + dropped[v] + Backlog(v) + InHand(v) /\ (~online => dropped[v] = 0)
    BY <1>2 DEF IInv, CountInv
  <2>2. dispatched'[v] = IF v = w THEN dispatched[v] + 1 ELSE dispatched[v]
    BY <1>1 DEF IInv, TypeOK
  <2>3. dispatched[v] \in Nat /\ processed[v] \in Nat /\ dropped[v] \in Nat /\ Backlog(v) \in Int
    BY WorkerTypes DEF IInv
  <2> QED
    BY <1>5, <2>1, <2>2, <2>3
<1> QED
  BY <1>3, <1>6, <1>7 DEF IInv

\* What appending to a ring without dummy packet does: the shape of rings
\* is kept, and the ring has the dummy packet if that is what was appended.
LEMMA PushEffect ==
    ASSUME TypeOK, BreakIsLast, NEW w \in Workers, ~HasBreak(w), NEW e \in {Pkt, Break}, Push(w, e)
    PROVE  /\ ring' \in [Workers -> Seq({Pkt, Break})]
           /\ BreakIsLast'
           /\ \A v \in Workers : Len(ring'[v]) = IF v = w THEN Len(ring[v]) + 1 ELSE Len(ring[v])
           /\ \A v \in Workers : HasBreak(v)' <=> IF v = w THEN e = Break ELSE HasBreak(v)
<1> DEFINE s == ring[w]
           t == Append(s, e)
           n == Len(s)
<1>1. /\ s \in Seq({Pkt, Break}) /\ n \in Nat
      /\ \A k \in 1 .. n - 1 : s[k] = Pkt
      /\ n > 0 => s[n] = Pkt
  BY WorkerTypes DEF BreakIsLast, HasBreak
<1> HIDE DEF s
<1>2. t \in Seq({Pkt, Break}) /\ Len(t) = n + 1 /\ t[n + 1] = e /\ \A k \in 1 .. n : t[k] = s[k]
  BY <1>1
<1>3. ring'[w] = t /\ (\A v \in Workers : v # w => ring'[v] = ring[v])
  BY DEF TypeOK, Push, s
<1> HIDE DEF n, t
<1>4. ring' \in [Workers -> Seq({Pkt, Break})]
  BY <1>2, <1>3 DEF TypeOK, Push, s, t
<1>5. \A k \in 1 .. Len(t) - 1 : t[k] = Pkt
  BY <1>1, <1>2
<1>6. BreakIsLast'
  BY <1>3, <1>5 DEF BreakIsLast
<1>7. \A v \in Workers : Len(ring'[v]) = IF v = w THEN Len(ring[v]) + 1 ELSE Len(ring[v])
  BY <1>2, <1>3 DEF n, s
<1>8. \A v \in Workers : HasBreak(v)' <=> IF v = w THEN e = Break ELSE HasBreak(v)
  BY <1>1, <1>2, <1>3 DEF HasBreak
<1> QED
  BY <1>4, <1>6, <1>7, <1>8

\* What giving back a bulk does to a ring whose worker has not passed the
\* dummy packet.
LEMMA TailEffect ==
    ASSUME TypeOK, BreakIsLast, NEW w \in Workers,
           bulk[w] <= Len(ring[w]), HasBreak(w) => bulk[w] < Len(ring[w]), UpdateTail(w)
    PROVE  /\ ring' \in [Workers -> Seq({Pkt, Break})]
           /\ BreakIsLast'
           /\ \A v \in Workers : Len(ring'[v]) = IF v = w THEN Len(ring[v]) - bulk[v] ELSE Len(ring[v])
           /\ \A v \in Workers : HasBreak(v)' <=> HasBreak(v)
<1> DEFINE s == ring[w]
           n == Len(s)
           b == bulk[w]
           t == SubSeq(s, b + 1, n)
<1>1. /\ s \in Seq({Pkt, Break}) /\ n \in Nat /\ b \in Nat /\ b <= n
      /\ \A k \in 1 .. n - 1 : s[k] = Pkt
      /\ HasBreak(w) <=> n > 0 /\ s[n] = Break
      /\ HasBreak(w) => b < n
  BY WorkerTypes DEF BreakIsLast, HasBreak
<1>2. ring'[w] = t /\ (\A v \in Workers : v # w => ring'[v] = ring[v])
  BY DEF TypeOK, UpdateTail
<1> HIDE DEF s, n, b
<1>3. t \in Seq({Pkt, Break}) /\ Len(t) = n - b /\ \A k \in 1 .. n - b : t[k] = s[b + k]
  BY <1>1 DEF n
<1>4. ring' \in [Workers -> Seq({Pkt, Break})]
  BY <1>2, <1>3 DEF TypeOK, UpdateTail, s, n, b
<1> HIDE DEF t
<1>5. \A k \in 1 .. Len(t) - 1 : t[k] = Pkt
  <2> SUFFICES ASSUME NEW k \in 1 .. Len(t) - 1 PROVE t[k] = Pkt
    OBVIOUS
  <2>1. k \in 1 .. n - b /\ b + k \in 1 .. n - 1
    BY <1>1, <1>3
  <2> QED
    BY <1>1, <1>3, <2>1
<1>6. BreakIsLast'
  BY <1>2, <1>5 DEF BreakIsLast
<1>7. \A v \in Workers : Len(ring'[v]) = IF v = w THEN Len(ring[v]) - bulk[v] ELSE Len(ring[v])
  BY <1>2, <1>3 DEF n, s, b
<1>8. HasBreak(w)' <=> HasBreak(w)
  <2>1. HasBreak(w)' <=> Len(t) > 0 /\ t[Len(t)] = Break
    BY <1>2 DEF HasBreak
  <2>2. CASE b < n
    <3>1. Len(t) \in 1 .. n - b /\ t[Len(t)] = s[n]
      BY <1>1, <1>3, <2>2
    <3> QED
      BY <1>1, <2>1, <2>2, <3>1
  <2>3. CASE b = n
    BY <1>1, <1>3, <2>1, <2>3
  <2> QED
    BY <1>1, <2>2, <2>3
<1>9. \A v \in Workers : HasBreak(v)' <=> HasBreak(v)
  BY <1>2, <1>8 DEF HasBreak
<1> QED
  BY <1>4, <1>6, <1>7, <1>9
\* A packet goes from the reader's hands into the ring of its worker.
LEMMA PushPacketStep == IInv /\ PushPacket => IInv'
<1> SUFFICES ASSUME IInv, PushPacket PROVE IInv'
  OBVIOUS
<1>1. /\ UNCHANGED <<turn, batch, worker, bulk, pos, reported_drop, dispatched, dropped, processed,
                     online, is_exiting, break_loop>>
      /\ reader = "push" /\ reader' = "dispatch" /\ received' = received + 1 /\ Push(turn, Pkt)
  BY DEF PushPacket, contextVars, workerVars
<1>2. TypeOK /\ BreakIsLast /\ turn \in Workers /\ Pkt \in {Pkt, Break} /\ Pkt # Break
  BY DEF IInv, TypeOK, Pkt, Break
<1>3. \A v \in Workers : ~HasBreak(v)
  BY <1>1 DEF IInv, StopInv
<1>4. /\ ring' \in [Workers -> Seq({Pkt, Break})]
      /\ BreakIsLast'
      /\ \A v \in Workers : Len(ring'[v]) = IF v = turn THEN Len(ring[v]) + 1 ELSE Len(ring[v])
      /\ \A v \in Workers : ~HasBreak(v)'
  BY <1>1, <1>2, <1>3, PushEffect
<1>5. TypeOK'
  <2>1. received' \in Nat
    BY <1>1, <1>2 DEF TypeOK
  <2> QED
    BY <1>1, <1>2, <1>4, <2>1 DEF TypeOK
<1>6. WorkerInv'
  BY <1>1, <1>2, <1>3, <1>4, WorkerTypes DEF IInv, WorkerInv
<1>7. StopInv'
  BY <1>1, <1>4 DEF IInv, StopInv
<1>8. CountInv'
  <2> SUFFICES ASSUME NEW v \in Workers
               PROVE  dispatched[v] = processed[v] + dropped[v] + Backlog(v)' + InHand(v)' /\ (~online => dropped[v] = 0)
    BY <1>1 DEF CountInv
  <2>1. /\ dispatched[v] \in Nat /\ processed[v] \in Nat /\ dropped[v] \in Nat
        /\ Len(ring[v]) \in Nat /\ pos[v] \in Nat
    BY <1>2, WorkerTypes
  <2>2. dispatched[v] = processed[v] + dropped[v] + Backlog(v) + InHand(v) /\ (~online => dropped[v] = 0)
    BY <1>1 DEF IInv, CountInv
  <2>3. Backlog(v) = Len(ring[v]) - pos[v] /\ Backlog(v)' = Len(ring'[v]) - pos[v]
    BY <1>1, <1>3, <1>4 DEF Backlog
  <2>4. InHand(v) = (IF v = turn THEN 1 ELSE 0) /\ InHand(v)' = 0
    BY <1>1 DEF InHand
  <2>5. Len(ring'[v]) = IF v = turn THEN Len(ring[v]) + 1 ELSE Len(ring[v])
    BY <1>4
  <2>6. Backlog(v) \in Int /\ Backlog(v)' = Backlog(v) + InHand(v)
    BY <2>1, <2>3, <2>4, <2>5
  <2> QED
    BY <2>1, <2>2, <2>4, <2>6
<1> QED
  BY <1>4, <1>5, <1>6, <1>7, <1>8 DEF IInv

\* A packet goes from the reader's hands into the drop counter; only a live
\* capture drops.
LEMMA DropPacketStep == IInv /\ DropPacket => IInv'
<1> SUFFICES ASSUME IInv, DropPacket PROVE IInv'
  OBVIOUS
<1>1. /\ UNCHANGED <<turn, batch, ring, worker, bulk, pos, reported_drop, dispatched, processed,
                     online, is_exiting, break_loop>>
      /\ reader = "push" /\ reader' = "dispatch" /\ received' = received + 1
      /\ online /\ dropped' = [dropped EXCEPT ![turn] = @ + 1]
  BY DEF DropPacket, contextVars, workerVars
<1>2. TypeOK /\ turn \in Workers
  BY DEF IInv, TypeOK
<1>3. \A v \in Workers : (HasBreak(v)' <=> HasBreak(v)) /\ Backlog(v)' = Backlog(v)
  BY <1>1 DEF HasBreak, Backlog
<1>4. TypeOK'
  <2>1. received' \in Nat /\ dropped' \in [Workers -> Nat]
    BY <1>1, <1>2 DEF TypeOK
  <2> QED
    BY <1>1, <1>2, <2>1 DEF TypeOK
<1>5. BreakIsLast' /\ WorkerInv' /\ StopInv'
  BY <1>1, <1>3 DEF IInv, BreakIsLast, WorkerInv, StopInv
<1>6. CountInv'
  <2> SUFFICES ASSUME NEW v \in Workers
               PROVE  dispatched[v] = processed[v] + dropped'[v] + Backlog(v) + InHand(v)'
    BY <1>1, <1>3 DEF CountInv
  <2>1. /\ dispatched[v] \in Nat /\ processed[v] \in Nat /\ dropped[v] \in Nat
        /\ Backlog(v) \in Int
    BY <1>2, WorkerTypes
  <2>2. dispatched[v] = processed[v] + dropped[v] + Backlog(v) + InHand(v)
    BY <1>1 DEF IInv, CountInv
  <2>3. InHand(v) = (IF v = turn THEN 1 ELSE 0) /\ InHand(v)' = 0
    BY <1>1 DEF InHand
  <2>4. dropped'[v] = IF v = turn THEN dropped[v] + 1 ELSE dropped[v]
    BY <1>1, <1>2 DEF TypeOK
  <2> QED
    BY <2>1, <2>2, <2>3, <2>4
<1> QED
  BY <1>4, <1>5, <1>6 DEF IInv

\* The dummy packet goes into the ring of the worker whose turn it is, which
\* has none yet.
LEMMA PushBreakStep == IInv /\ PushBreak => IInv'
<1> SUFFICES ASSUME IInv, PushBreak PROVE IInv'
  OBVIOUS
<1>1. /\ UNCHANGED <<batch, worker, bulk, pos, received, reported_drop, dispatched, dropped, processed,
                     online, is_exiting, break_loop>>
      /\ reader = "break" /\ Push(turn, Break)
      /\ \/ turn = Threads /\ reader' = "join" /\ turn' = 1
         \/ turn # Threads /\ reader' = "break" /\ turn' = turn + 1
  BY DEF PushBreak, Goto, contextVars, workerVars
<1>2. TypeOK /\ BreakIsLast /\ turn \in Workers /\ Break \in {Pkt, Break}
  BY DEF IInv, TypeOK
<1>3. turn \in Nat /\ \A v \in Workers : HasBreak(v) => v < turn
  BY <1>1, <1>2, WorkersType DEF IInv, StopInv
<1>4. /\ ring' \in [Workers -> Seq({Pkt, Break})]
      /\ BreakIsLast'
      /\ \A v \in Workers : Len(ring'[v]) = IF v = turn THEN Len(ring[v]) + 1 ELSE Len(ring[v])
      /\ \A v \in Workers : HasBreak(v)' <=> v = turn \/ HasBreak(v)
  BY <1>1, <1>2, <1>3, PushEffect
<1>5. TypeOK'
  BY <1>1, <1>2, <1>4, WorkersType DEF TypeOK
<1>6. WorkerInv'
  <2> SUFFICES ASSUME NEW v \in Workers
               PROVE  /\ worker[v] = "poll" => bulk[v] = 0 /\ pos[v] = 0
                      /\ worker[v] = "bulk" =>
                            /\ bulk[v] >= 1 /\ bulk[v] <= Len(ring'[v])
                            /\ pos[v] <= bulk[v]
                            /\ HasBreak(v)' => pos[v] < Len(ring'[v])
                      /\ worker[v] = "stopped" => HasBreak(v)' /\ pos[v] + 1 = Len(ring'[v])
    BY <1>1 DEF WorkerInv
  <2>1. Len(ring[v]) \in Nat /\ pos[v] \in Nat /\ bulk[v] \in Nat
    BY <1>2, WorkerTypes
  <2>2. CASE v = turn
    BY <1>1, <1>3, <1>4, <2>1, <2>2 DEF IInv, WorkerInv
  <2>3. CASE v # turn
    BY <1>1, <1>3, <1>4, <2>1, <2>3 DEF IInv, WorkerInv
  <2> QED
    BY <2>2, <2>3
<1>7. StopInv'
  <2> SUFFICES ASSUME NEW v \in Workers, HasBreak(v)'
               PROVE  reader' = "join" \/ (reader' = "break" /\ v < turn')
    <3>1. reader' \in {"join", "break"}
      BY <1>1
    <3>2. \A v \in Workers : reader' = "join" => ~(v < turn')
      BY <1>1, WorkersType
    <3> QED
      BY <3>1, <3>2 DEF StopInv
  <2>1. v \in Nat /\ (v = turn \/ v < turn)
    BY <1>3, <1>4, WorkersType
  <2> QED
    BY <1>1, <1>3, <2>1
<1>8. CountInv'
  <2> SUFFICES ASSUME NEW v \in Workers
               PROVE  dispatched[v] = processed[v] + dropped[v] + Backlog(v)' + InHand(v)' /\ (~online => dropped[v] = 0)
    BY <1>1 DEF CountInv
  <2>1. Len(ring[v]) \in Nat /\ pos[v] \in Nat
    BY <1>2, WorkerTypes
  <2>2. dispatched[v] = processed[v] + dropped[v] + Backlog(v) + InHand(v) /\ (~online => dropped[v] = 0)
    BY <1>1 DEF IInv, CountInv
  <2>3. Backlog(v)' = Backlog(v)
    <3>1. CASE v = turn
      <4>1. Len(ring'[v]) = Len(ring[v]) + 1 /\ HasBreak(v)' /\ ~HasBreak(v) /\ pos'[v] = pos[v]
        BY <1>1, <1>3, <1>4, <3>1
      <4> QED
        BY <2>1, <4>1 DEF Backlog
    <3>2. CASE v # turn
      BY <1>1, <1>4, <3>2 DEF Backlog
    <3> QED
      BY <3>1, <3>2
  <2>4. InHand(v) = 0 /\ InHand(v)' = 0
    BY <1>1 DEF InHand
  <2> QED
    BY <2>2, <2>3, <2>4
<1> QED
  BY <1>4, <1>5, <1>6, <1>7, <1>8 DEF IInv
\* A worker is joined.
LEMMA JoinStep == IInv /\ Join => IInv'
<1> SUFFICES ASSUME IInv, Join PROVE IInv'
  OBVIOUS
<1>1. /\ UNCHANGED <<batch, ring, worker, bulk, pos, received, reported_drop, dispatched, dropped, processed,
                     online, is_exiting, break_loop>>
      /\ reader = "join" /\ worker[turn] = "stopped"
      /\ \/ turn = Threads /\ reader' = "joined" /\ turn' = turn
         \/ turn # Threads /\ reader' = "join" /\ turn' = turn + 1
  BY DEF Join, Goto, contextVars, workerVars
<1>2. TypeOK /\ turn \in Workers /\ turn \in Nat
  BY WorkersType DEF IInv, TypeOK
<1>3. \A v \in Workers : (HasBreak(v)' <=> HasBreak(v)) /\ Backlog(v)' = Backlog(v) /\ InHand(v)' = InHand(v)
  BY <1>1 DEF HasBreak, Backlog, InHand
<1>4. TypeOK'
  BY <1>1, <1>2, WorkersType DEF TypeOK
<1>5. BreakIsLast' /\ WorkerInv'
  BY <1>1, <1>3 DEF IInv, BreakIsLast, WorkerInv
<1>6. StopInv'
  <2> SUFFICES ASSUME NEW v \in Workers
               PROVE  (reader' = "join" /\ v < turn') \/ reader' = "joined" => worker[v] = "stopped"
    BY <1>1, <1>3 DEF StopInv
  <2>1. v \in Nat /\ v <= Threads /\ (v < turn => worker[v] = "stopped")
    BY <1>1, WorkersType DEF IInv, StopInv
  <2> QED
    BY <1>1, <1>2, <2>1
<1>7. CountInv'
  BY <1>1, <1>3 DEF IInv, CountInv
<1> QED
  BY <1>4, <1>5, <1>6, <1>7 DEF IInv

\* The rings are freed; nothing but dummy packets was left in them.
LEMMA ReleaseStep == IInv /\ Release => IInv'
<1> SUFFICES ASSUME IInv, Release PROVE IInv'
  OBVIOUS
<1>1. /\ UNCHANGED <<turn, batch, worker, bulk, pos, received, reported_drop, dispatched, dropped, processed,
                     online, is_exiting, break_loop>>
      /\ reader = "joined" /\ reader' = "released"
      /\ ring' = [w \in Workers |-> <<>>]
  BY DEF Release, Goto, contextVars, workerVars
<1>2. TypeOK'
  <2>1. <<>> \in Seq({Pkt, Break})
    OBVIOUS
  <2>2. ring' \in [Workers -> Seq({Pkt, Break})]
    BY <1>1, <2>1
  <2> QED
    BY <1>1, <2>2 DEF IInv, TypeOK
<1>3. \A w \in Workers : ring'[w] = <<>> /\ Len(ring'[w]) = 0 /\ ~HasBreak(w)' /\ worker[w] = "stopped"
  BY <1>1 DEF HasBreak, IInv, StopInv
<1>4. BreakIsLast'
  BY <1>3 DEF BreakIsLast
<1>5. WorkerInv' /\ StopInv'
  BY <1>1, <1>3 DEF WorkerInv, StopInv
<1>6. CountInv'
  <2> SUFFICES ASSUME NEW w \in Workers
               PROVE  dispatched[w] = processed[w] + dropped[w] /\ (~online => dropped[w] = 0)
    BY <1>1 DEF CountInv
  <2>1. /\ dispatched[w] \in Nat /\ processed[w] \in Nat /\ dropped[w] \in Nat
        /\ Len(ring[w]) \in Nat /\ pos[w] \in Nat
    BY WorkerTypes DEF IInv
  <2>2. dispatched[w] = processed[w] + dropped[w] + Backlog(w) + InHand(w) /\ (~online => dropped[w] = 0)
    BY <1>1 DEF IInv, CountInv
  <2>3. HasBreak(w) /\ pos[w] + 1 = Len(ring[w])
    BY <1>1, <1>3 DEF IInv, WorkerInv
  <2>4. Backlog(w) = 0
    BY <2>1, <2>3 DEF Backlog
  <2>5. InHand(w) = 0
    BY <1>1 DEF InHand
  <2> QED
    BY <2>1, <2>2, <2>4, <2>5
<1> QED
  BY <1>2, <1>4, <1>5, <1>6 DEF IInv

\* A worker takes a bulk.
LEMMA PopBulkStep == ASSUME NEW w \in Workers PROVE IInv /\ PopBulk(w) => IInv'
<1> SUFFICES ASSUME IInv, PopBulk(w) PROVE IInv'
  OBVIOUS
<1>1. /\ UNCHANGED <<reader, turn, batch, ring, received, reported_drop, dispatched, dropped, processed,
                     online, is_exiting, break_loop>>
      /\ worker[w] = "poll"
      /\ pos' = [pos EXCEPT ![w] = 0] /\ worker' = [worker EXCEPT ![w] = "bulk"]
  BY DEF PopBulk, readerVars, contextVars
<1>2. PICK n \in 1 .. Len(ring[w]) : bulk' = [bulk EXCEPT ![w] = n]
  BY DEF PopBulk
<1>3. TypeOK /\ bulk[w] = 0 /\ pos[w] = 0 /\ Len(ring[w]) \in Nat /\ n \in Nat
  BY <1>1, WorkerTypes DEF IInv, WorkerInv
<1>4. pos' = pos
  BY <1>1, <1>3 DEF TypeOK
<1>5. TypeOK'
  <2>1. bulk' \in [Workers -> Nat] /\ worker' \in [Workers -> {"poll", "bulk", "stopped"}]
    BY <1>1, <1>2, <1>3 DEF TypeOK
  <2> QED
    BY <1>1, <1>3, <1>4, <2>1 DEF TypeOK
<1>6. \A v \in Workers : (HasBreak(v)' <=> HasBreak(v)) /\ Backlog(v)' = Backlog(v) /\ InHand(v)' = InHand(v)
  BY <1>1, <1>4 DEF HasBreak, Backlog, InHand
<1>7. \A v \in Workers : /\ v # w => worker'[v] = worker[v] /\ bulk'[v] = bulk[v]
                         /\ v = w => worker'[v] = "bulk" /\ bulk'[v] = n
  BY <1>1, <1>2, <1>3 DEF TypeOK
<1>8. BreakIsLast' /\ CountInv'
  BY <1>1, <1>6 DEF IInv, BreakIsLast, CountInv
<1>9. WorkerInv'
  <2> SUFFICES ASSUME NEW v \in Workers
               PROVE  /\ worker'[v] = "poll" => bulk'[v] = 0 /\ pos[v] = 0
                      /\ worker'[v] = "bulk" =>
                            /\ bulk'[v] >= 1 /\ bulk'[v] <= Len(ring[v])
                            /\ pos[v] <= bulk'[v]
                            /\ HasBreak(v) => pos[v] < Len(ring[v])
                      /\ worker'[v] = "stopped" /\ reader # "released" => HasBreak(v) /\ pos[v] + 1 = Len(ring[v])
    BY <1>1, <1>4, <1>6 DEF WorkerInv
  <2>1. CASE v = w
    BY <1>2, <1>3, <1>7, <2>1
  <2>2. CASE v # w
    BY <1>7, <2>2 DEF IInv, WorkerInv
  <2> QED
    BY <2>1, <2>2
<1>10. StopInv'
  BY <1>1, <1>6, <1>7 DEF IInv, StopInv
<1> QED
  BY <1>5, <1>8, <1>9, <1>10 DEF IInv
\* A worker processes an element of its bulk that is not the dummy packet.
ProcessesOne(w) ==
    /\ worker[w] = "bulk" /\ pos[w] + 1 <= bulk[w]
    /\ HasBreak(w) => pos[w] + 1 < Len(ring[w])
    /\ processed' = [processed EXCEPT ![w] = @ + 1]
    /\ pos' = [pos EXCEPT ![w] = @ + 1]
    /\ UNCHANGED <<worker, bulk, readerVars, contextVars, ring>>

\* One fewer is waiting then and one more is counted.
LEMMA ProcessesOneStep ==
    ASSUME NEW w \in Workers, IInv, ProcessesOne(w)
    PROVE  IInv'
<1>1. /\ UNCHANGED <<reader, turn, batch, worker, bulk, ring, received, reported_drop, dispatched, dropped,
                     online, is_exiting, break_loop>>
      /\ processed' = [processed EXCEPT ![w] = @ + 1]
      /\ pos' = [pos EXCEPT ![w] = @ + 1]
      /\ worker[w] = "bulk" /\ pos[w] + 1 <= bulk[w]
      /\ HasBreak(w) => pos[w] + 1 < Len(ring[w])
  BY DEF ProcessesOne, readerVars, contextVars
<1>2. TypeOK
  BY DEF IInv
<1>3. TypeOK'
  <2>1. processed' \in [Workers -> Nat] /\ pos' \in [Workers -> Nat]
    BY <1>1, <1>2 DEF TypeOK
  <2> QED
    BY <1>1, <1>2, <2>1 DEF TypeOK
<1>4. \A v \in Workers : (HasBreak(v)' <=> HasBreak(v)) /\ InHand(v)' = InHand(v)
  BY <1>1 DEF HasBreak, InHand
<1>5. BreakIsLast' /\ StopInv'
  BY <1>1, <1>4 DEF IInv, BreakIsLast, StopInv
<1>6. \A v \in Workers : /\ v # w => pos'[v] = pos[v] /\ processed'[v] = processed[v]
                         /\ v = w => pos'[v] = pos[v] + 1 /\ processed'[v] = processed[v] + 1
  BY <1>1, <1>2 DEF TypeOK
<1>7. WorkerInv'
  <2> SUFFICES ASSUME NEW v \in Workers
               PROVE  /\ worker[v] = "poll" => bulk[v] = 0 /\ pos'[v] = 0
                      /\ worker[v] = "bulk" =>
                            /\ bulk[v] >= 1 /\ bulk[v] <= Len(ring[v])
                            /\ pos'[v] <= bulk[v]
                            /\ HasBreak(v) => pos'[v] < Len(ring[v])
                      /\ worker[v] = "stopped" /\ reader # "released" => HasBreak(v) /\ pos'[v] + 1 = Len(ring[v])
    BY <1>1, <1>4 DEF WorkerInv
  <2>1. CASE v = w
    <3>1. pos'[v] = pos[v] + 1 /\ worker[v] = "bulk" /\ bulk[v] >= 1 /\ bulk[v] <= Len(ring[v])
      BY <1>1, <1>6, <2>1 DEF IInv, WorkerInv
    <3> QED
      BY <1>1, <2>1, <3>1
  <2>2. CASE v # w
    BY <1>6, <2>2 DEF IInv, WorkerInv
  <2> QED
    BY <2>1, <2>2
<1>8. CountInv'
  <2> SUFFICES ASSUME NEW v \in Workers
               PROVE  /\ reader # "released" => dispatched[v] = processed'[v] + dropped[v] + Backlog(v)' + InHand(v)
                      /\ reader = "released" => dispatched[v] = processed'[v] + dropped[v]
                      /\ ~online => dropped[v] = 0
    BY <1>1, <1>4 DEF CountInv
  <2>1. CASE v # w
    <3>1. Backlog(v)' = Backlog(v) /\ processed'[v] = processed[v]
      BY <1>1, <1>4, <1>6, <2>1 DEF Backlog
    <3> QED
      BY <3>1 DEF IInv, CountInv
  <2>2. CASE v = w
    <3>1. /\ dispatched[v] \in Nat /\ processed[v] \in Nat /\ dropped[v] \in Nat /\ InHand(v) \in Nat
          /\ Len(ring[v]) \in Nat /\ pos[v] \in Nat /\ Backlog(v) \in Int
      BY <1>2, WorkerTypes
    <3>2. reader # "released"
      BY <1>1 DEF IInv, StopInv
    <3>3. dispatched[v] = processed[v] + dropped[v] + Backlog(v) + InHand(v) /\ (~online => dropped[v] = 0)
      BY <3>2 DEF IInv, CountInv
    <3>4. processed'[v] = processed[v] + 1 /\ pos'[v] = pos[v] + 1 /\ ring'[v] = ring[v]
      BY <1>1, <1>6, <2>2
    <3>5. Backlog(v)' = Backlog(v) - 1
      <4>1. (HasBreak(v)' <=> HasBreak(v)) /\ Len(ring'[v]) = Len(ring[v])
        BY <1>4, <3>4
      <4>2. CASE HasBreak(v)
        BY <3>1, <3>4, <4>1, <4>2 DEF Backlog
      <4>3. CASE ~HasBreak(v)
        BY <3>1, <3>4, <4>1, <4>3 DEF Backlog
      <4> QED
        BY <4>2, <4>3
    <3> DEFINE a == processed[v]
               b == dropped[v]
               c == Backlog(v)
               d == InHand(v)
    <3>6. /\ dispatched[v] = a + b + c + d
          /\ a \in Nat /\ b \in Nat /\ c \in Int /\ d \in Nat
          /\ processed'[v] = a + 1 /\ Backlog(v)' = c - 1 /\ dropped[v] = b /\ InHand(v) = d
      BY <3>1, <3>3, <3>4, <3>5
    <3> HIDE DEF a, b, c, d
    <3>7. dispatched[v] = processed'[v] + dropped[v] + Backlog(v)' + InHand(v)
      BY <3>6
    <3> QED
      BY <3>2, <3>3, <3>7
  <2> QED
    BY <2>1, <2>2
<1> QED
  BY <1>3, <1>5, <1>7, <1>8 DEF IInv

\* An element before the last of a bulk is never the dummy packet.
LEMMA ProcessPacketStep == ASSUME NEW w \in Workers PROVE IInv /\ ProcessPacket(w) => IInv'
<1> SUFFICES ASSUME IInv, ProcessPacket(w) PROVE IInv'
  OBVIOUS
<1>1. bulk[w] \in Nat /\ pos[w] \in Nat /\ Len(ring[w]) \in Nat
  BY WorkerTypes DEF IInv
<1>2. worker[w] = "bulk" /\ pos[w] + 1 < bulk[w] /\ bulk[w] <= Len(ring[w])
  BY DEF ProcessPacket, IInv, WorkerInv
<1>3. pos[w] + 1 <= bulk[w] /\ (HasBreak(w) => pos[w] + 1 < Len(ring[w]))
  BY <1>1, <1>2
<1> QED
  BY <1>2, <1>3, ProcessesOneStep DEF ProcessPacket, ProcessesOne

\* The last element of a bulk: the dummy packet ends the worker and is the
\* last of the ring, a packet is processed.
LEMMA LastElementStep == ASSUME NEW w \in Workers PROVE IInv /\ LastElement(w) => IInv'
<1> SUFFICES ASSUME IInv, LastElement(w) PROVE IInv'
  OBVIOUS
<1>1. TypeOK /\ bulk[w] \in Nat /\ pos[w] \in Nat /\ Len(ring[w]) \in Nat
  BY WorkerTypes DEF IInv
<1>2. worker[w] = "bulk" /\ pos[w] + 1 = bulk[w] /\ bulk[w] >= 1 /\ bulk[w] <= Len(ring[w])
  BY DEF LastElement, IInv, WorkerInv
<1>3. CASE ring[w][bulk[w]] # Break
  <2>1. HasBreak(w) => bulk[w] # Len(ring[w])
    BY <1>3 DEF HasBreak
  <2>2. pos[w] + 1 <= bulk[w] /\ (HasBreak(w) => pos[w] + 1 < Len(ring[w]))
    BY <1>1, <1>2, <2>1
  <2> QED
    BY <1>2, <1>3, <2>2, ProcessesOneStep DEF LastElement, ProcessesOne
<1>4. CASE ring[w][bulk[w]] = Break
  <2>1. /\ UNCHANGED <<reader, turn, batch, bulk, pos, ring, received, reported_drop, dispatched, dropped, processed,
                       online, is_exiting, break_loop>>
        /\ worker' = [worker EXCEPT ![w] = "stopped"]
    BY <1>4 DEF LastElement, readerVars, contextVars
  <2>2. bulk[w] = Len(ring[w])
    <3>1. bulk[w] \in 1 .. Len(ring[w]) - 1 => ring[w][bulk[w]] = Pkt
      BY DEF IInv, BreakIsLast
    <3> QED
      BY <1>1, <1>2, <1>4, <3>1 DEF Pkt, Break
  <2>3. HasBreak(w) /\ pos[w] + 1 = Len(ring[w])
    BY <1>1, <1>2, <1>4, <2>2 DEF HasBreak
  <2>4. TypeOK'
    <3>1. worker' \in [Workers -> {"poll", "bulk", "stopped"}]
      BY <1>1, <2>1 DEF TypeOK
    <3> QED
      BY <1>1, <2>1, <3>1 DEF TypeOK
  <2>5. \A v \in Workers : (HasBreak(v)' <=> HasBreak(v)) /\ Backlog(v)' = Backlog(v) /\ InHand(v)' = InHand(v)
    BY <2>1 DEF HasBreak, Backlog, InHand
  <2>6. \A v \in Workers : worker'[v] = IF v = w THEN "stopped" ELSE worker[v]
    BY <1>1, <2>1 DEF TypeOK
  <2>7. BreakIsLast' /\ CountInv'
    BY <2>1, <2>5 DEF IInv, BreakIsLast, CountInv
  <2>8. WorkerInv' /\ StopInv'
    BY <2>1, <2>3, <2>5, <2>6 DEF IInv, WorkerInv, StopInv
  <2> QED
    BY <2>4, <2>7, <2>8 DEF IInv
<1> QED
  BY <1>3, <1>4
\* A worker gives its bulk back: what is left in the ring is what it had not
\* taken, and that is all that was waiting.
LEMMA UpdateTailStep == ASSUME NEW w \in Workers PROVE IInv /\ UpdateTail(w) => IInv'
<1> SUFFICES ASSUME IInv, UpdateTail(w) PROVE IInv'
  OBVIOUS
<1>1. /\ UNCHANGED <<reader, turn, batch, received, reported_drop, dispatched, dropped, processed,
                     online, is_exiting, break_loop>>
      /\ worker[w] = "bulk" /\ pos[w] = bulk[w]
      /\ bulk' = [bulk EXCEPT ![w] = 0] /\ pos' = [pos EXCEPT ![w] = 0]
      /\ worker' = [worker EXCEPT ![w] = "poll"]
  BY DEF UpdateTail, readerVars, contextVars
<1>2. TypeOK /\ BreakIsLast
  BY DEF IInv
<1>3. bulk[w] <= Len(ring[w]) /\ (HasBreak(w) => bulk[w] < Len(ring[w]))
  BY <1>1 DEF IInv, WorkerInv
<1>4. /\ ring' \in [Workers -> Seq({Pkt, Break})]
      /\ BreakIsLast'
      /\ \A v \in Workers : Len(ring'[v]) = IF v = w THEN Len(ring[v]) - bulk[v] ELSE Len(ring[v])
      /\ \A v \in Workers : HasBreak(v)' <=> HasBreak(v)
  BY <1>2, <1>3, TailEffect
<1>5. TypeOK'
  <2>1. /\ bulk' \in [Workers -> Nat] /\ pos' \in [Workers -> Nat]
        /\ worker' \in [Workers -> {"poll", "bulk", "stopped"}]
    BY <1>1, <1>2 DEF TypeOK
  <2> QED
    BY <1>1, <1>2, <1>4, <2>1 DEF TypeOK
<1>6. \A v \in Workers :
          /\ v # w => pos'[v] = pos[v] /\ bulk'[v] = bulk[v] /\ worker'[v] = worker[v] /\ Len(ring'[v]) = Len(ring[v])
          /\ v = w => pos'[v] = 0 /\ bulk'[v] = 0 /\ worker'[v] = "poll"
  BY <1>1, <1>2, <1>4 DEF TypeOK
<1>7. reader # "released"
  BY <1>1 DEF IInv, StopInv
<1>8. WorkerInv'
  <2> SUFFICES ASSUME NEW v \in Workers
               PROVE  /\ worker'[v] = "poll" => bulk'[v] = 0 /\ pos'[v] = 0
                      /\ worker'[v] = "bulk" =>
                            /\ bulk'[v] >= 1 /\ bulk'[v] <= Len(ring'[v])
                            /\ pos'[v] <= bulk'[v]
                            /\ HasBreak(v) => pos'[v] < Len(ring'[v])
                      /\ worker'[v] = "stopped" => HasBreak(v) /\ pos'[v] + 1 = Len(ring'[v])
    BY <1>4 DEF WorkerInv
  <2>1. CASE v = w
    BY <1>6, <2>1
  <2>2. CASE v # w
    BY <1>6, <1>7, <2>2 DEF IInv, WorkerInv
  <2> QED
    BY <2>1, <2>2
<1>9. StopInv'
  <2> SUFFICES ASSUME NEW v \in Workers
               PROVE  /\ HasBreak(v) => reader \in {"join", "joined"} \/ (reader = "break" /\ v < turn)
                      /\ reader = "join" /\ v < turn => worker'[v] = "stopped"
                      /\ reader = "joined" => worker'[v] = "stopped"
    BY <1>1, <1>4, <1>7 DEF StopInv
  <2>1. v # w \/ (reader # "joined" /\ ~(reader = "join" /\ v < turn))
    BY <1>1 DEF IInv, StopInv
  <2> QED
    BY <1>6, <2>1 DEF IInv, StopInv
<1>10. CountInv'
  <2> SUFFICES ASSUME NEW v \in Workers
               PROVE  /\ dispatched[v] = processed[v] + dropped[v] + Backlog(v)' + InHand(v)'
                      /\ ~online => dropped[v] = 0
    BY <1>1, <1>7 DEF CountInv
  <2>1. Len(ring[v]) \in Nat /\ pos[v] \in Nat /\ bulk[v] \in Nat
    BY <1>2, WorkerTypes
  <2>2. dispatched[v] = processed[v] + dropped[v] + Backlog(v) + InHand(v) /\ (~online => dropped[v] = 0)
    BY <1>7 DEF IInv, CountInv
  <2>3. InHand(v)' = InHand(v)
    BY <1>1 DEF InHand
  <2>4. Backlog(v)' = Backlog(v)
    <3>1. HasBreak(v)' <=> HasBreak(v)
      BY <1>4
    <3>2. CASE v = w
      <4>1. Len(ring'[v]) = Len(ring[v]) - pos[v] /\ pos'[v] = 0
        BY <1>1, <1>4, <1>6, <3>2
      <4> QED
        BY <2>1, <3>1, <4>1 DEF Backlog
    <3>3. CASE v # w
      BY <1>6, <3>1, <3>3 DEF Backlog
    <3> QED
      BY <3>2, <3>3
  <2> QED
    BY <2>2, <2>3, <2>4
<1> QED
  BY <1>4, <1>5, <1>8, <1>9, <1>10 DEF IInv

\* Every step of the capture preserves the invariant.
LEMMA StepIInv == IInv /\ [Next]_vars => IInv'
<1> SUFFICES ASSUME IInv, [Next]_vars PROVE IInv'
  OBVIOUS
<1>1. CASE Signals
  BY <1>1, IdleStep
<1>2. CASE Arrivals
  BY <1>2, GotPacketStep DEF Arrivals
<1>3. CASE Reader
  BY <1>3, IdleStep, PushPacketStep, DropPacketStep, PushBreakStep, JoinStep, ReleaseStep DEF Reader
<1>4. ASSUME NEW w \in Workers, Worker(w) PROVE IInv'
  BY <1>4, PopBulkStep, ProcessPacketStep, LastElementStep, UpdateTailStep DEF Worker
<1>5. CASE UNCHANGED vars
  <2>1. UNCHANGED <<reader, turn, batch, ring, worker, bulk, pos, received, reported_drop, dispatched, dropped,
                    processed, online, is_exiting, break_loop>>
    BY <1>5 DEF vars, readerVars, contextVars, workerVars
  <2> QED
    BY <2>1 DEF IInv, TypeOK, BreakIsLast, WorkerInv, StopInv, CountInv, HasBreak, Backlog, InHand
<1> QED
  BY <1>1, <1>2, <1>3, <1>4, <1>5 DEF Next

\* The inductive invariant holds in every state of every capture.
THEOREM PipelineInvariant == Spec => []IInv
BY InitIInv, StepIInv, PTL DEF Spec
-----------------------------------------------------------------------------
(* What it implies.                                                        *)

\* The capture never leaves its types.
THEOREM PipelineTypeOK == Spec => []TypeOK
<1>1. IInv => TypeOK
  BY DEF IInv
<1> QED
  BY <1>1, PipelineInvariant, PTL

\* The dummy packet is never anywhere but at the end of a ring: the worker,
\* which looks at the last element of a bulk only, cannot miss it.
THEOREM DummyPacketIsLast == Spec => []BreakIsLast
<1>1. IInv => BreakIsLast
  BY DEF IInv
<1> QED
  BY <1>1, PipelineInvariant, PTL

\* In a state of the invariant Waiting is arithmetic, or the rings are gone.
LEMMA WaitingCount ==
    ASSUME IInv, NEW w \in Workers
    PROVE  /\ reader # "released" => Waiting(w) = Backlog(w)
           /\ reader = "released" => Waiting(w) = 0
<1>1. TypeOK /\ BreakIsLast /\ Len(ring[w]) \in Nat /\ pos[w] \in Nat /\ bulk[w] \in Nat
      /\ worker[w] \in {"poll", "bulk", "stopped"}
  BY WorkerTypes DEF IInv
<1>2. CASE reader # "released"
  <2>1. pos[w] <= Len(ring[w]) /\ (HasBreak(w) => pos[w] < Len(ring[w]))
    BY <1>1, <1>2 DEF IInv, WorkerInv, HasBreak
  <2> QED
    BY <1>1, <1>2, <2>1, WaitingIsBacklog
<1>3. CASE reader = "released"
  <2>1. ring[w] = <<>> /\ Len(ring[w]) = 0
    BY <1>3 DEF IInv, StopInv
  <2>2. {k \in pos[w] + 1 .. Len(ring[w]) : ring[w][k] = Pkt} = {}
    BY <1>1, <2>1
  <2>3. Waiting(w) = 0
    BY <2>2, FS_EmptySet DEF Waiting
  <2> QED
    BY <1>3, <2>3
<1> QED
  BY <1>2, <1>3

\* Between the two threads no packet is lost, none is processed twice and
\* none is counted twice, whatever the sizes and the interleaving.
THEOREM EveryPacketAccounted == Spec => []Accounting
<1>1. IInv => Accounting
  <2> SUFFICES ASSUME IInv, NEW w \in Workers
               PROVE  dispatched[w] = processed[w] + dropped[w] + Waiting(w) + InHand(w)
    BY DEF Accounting
  <2>1. CASE reader # "released"
    BY <2>1, WaitingCount DEF IInv, CountInv
  <2>2. CASE reader = "released"
    <3>1. Waiting(w) = 0 /\ InHand(w) = 0 /\ dispatched[w] = processed[w] + dropped[w]
      BY <2>2, WaitingCount DEF IInv, CountInv, InHand
    <3>2. processed[w] \in Nat /\ dropped[w] \in Nat
      BY WorkerTypes DEF IInv
    <3> QED
      BY <3>1, <3>2
  <2> QED
    BY <2>1, <2>2
<1> QED
  BY <1>1, PipelineInvariant, PTL

\* A worker stops with an empty backlog, the rings are freed after all have
\* stopped, and a trace file has then been processed to its last packet.
THEOREM CaptureStopsCleanly == Spec => []CleanStop
<1>1. IInv => CleanStop
  <2> SUFFICES ASSUME IInv PROVE CleanStop
    OBVIOUS
  <2>1. ASSUME NEW w \in Workers, worker[w] = "stopped" PROVE Waiting(w) = 0
    <3>1. CASE reader = "released"
      BY <3>1, WaitingCount
    <3>2. CASE reader # "released"
      <4>1. Len(ring[w]) \in Nat /\ pos[w] \in Nat
        BY WorkerTypes DEF IInv
      <4>2. HasBreak(w) /\ pos[w] + 1 = Len(ring[w])
        BY <2>1, <3>2 DEF IInv, WorkerInv
      <4>3. Backlog(w) = 0
        BY <4>1, <4>2 DEF Backlog
      <4> QED
        BY <3>2, <4>3, WaitingCount
    <3> QED
      BY <3>1, <3>2
  <2>2. ASSUME reader = "released", NEW w \in Workers
        PROVE  /\ worker[w] = "stopped" /\ dispatched[w] = processed[w] + dropped[w]
               /\ ~online => dispatched[w] = processed[w]
    <3>1. processed[w] \in Nat
      BY WorkerTypes DEF IInv
    <3> QED
      BY <2>2, <3>1 DEF IInv, StopInv, CountInv
  <2> QED
    BY <2>1, <2>2 DEF CleanStop
<1> QED
  BY <1>1, PipelineInvariant, PTL
=============================================================================
