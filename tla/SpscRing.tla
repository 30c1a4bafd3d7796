------------------------------ MODULE SpscRing ------------------------------
(***************************************************************************)
(* The lock-free single-producer-single-consumer ring through which the    *)
(* packet reader feeds one worker thread                                   *)
(* (modules/packet_capture/pcap: lock_free_spsc_ring, data_spsc_ring).     *)
(*                                                                         *)
(* Two arrays of _size slots: fifo_data holds the packets, fifo_index the  *)
(* slot numbers pushed through the index queue.  _head is written by the   *)
(* producer only, _tail by the consumer only; each side keeps a cached,    *)
(* possibly stale, copy of the other's cursor and reloads it only when the *)
(* cached value says "full" or "empty".  A step is one access to memory    *)
(* that the other thread can observe.  Cursor loads and stores are the     *)
(* __sync builtins; like the x86-64 build, the model keeps a store to a    *)
(* slot before the later store to _head.                                   *)
(***************************************************************************)
EXTENDS Integers, Sequences

CONSTANTS
    Size,       \* "size" given to data_spsc_ring_init
    Packet,     \* the packets
    None        \* the content of memory nobody has written

ASSUME SizeAssumption == Size \in Nat \ {0}
ASSUME NoneAssumption == None \notin Packet

VARIABLES
    head,           \* _fifo_index->_head
    tail,           \* _fifo_index->_tail
    cached_head,    \* the consumer's copy of _head
    cached_tail,    \* the producer's copy of _tail
    fifo_index,     \* _fifo_index->_data
    fifo_data,      \* _data, the packet slots
    producer,       \* where the producer is
    consumer,       \* where the consumer is
    bulk,           \* number of elements the last pop_bulk returned
    pos,            \* number of those the consumer has read
    val,            \* the index queue_pop has taken out
    delivered       \* the packet the consumer was handed last

producerVars == <<head, cached_tail, fifo_index, fifo_data, producer>>
consumerVars == <<tail, cached_head, consumer, bulk, pos, val, delivered>>
vars == <<producerVars, consumerVars>>

\* data_spsc_ring_init allocates two slots more than asked for.
RingSize == Size + 2

Slots == 0 .. RingSize - 1

\* An index cell that has been allocated and never written.
Garbage == RingSize

Init ==
    /\ head = 0 /\ tail = 0
    /\ cached_head = 0 /\ cached_tail = 0
    /\ fifo_index = [s \in Slots |-> Garbage]
    /\ fifo_data = [s \in Slots |-> None]
    /\ producer = "idle" /\ consumer = "idle"
    /\ bulk = 0 /\ pos = 0 /\ val = 0
    /\ delivered = None
-----------------------------------------------------------------------------
(* The producer: get_tmp_element, fill the slot, push_tmp_element.         *)

\* The slot after head is written before anybody asks whether there is room.
GetTmpElement(p) ==
    /\ producer = "idle"
    /\ fifo_data' = [fifo_data EXCEPT ![head] = p]
    /\ producer' = "push"
    /\ UNCHANGED <<head, cached_tail, fifo_index, consumerVars>>

\* Mutant: the test leaves one slot instead of three.
LooksFullLate(t) == (head + 1) % RingSize = t

\* queue_push's test for a full ring, against a given value of the tail.
LooksFull(t) == (head + 3) % RingSize = t

PushCached ==
    /\ producer = "push"
    /\ ~LooksFull(cached_tail)
    /\ producer' = "store_index"
    /\ UNCHANGED <<head, cached_tail, fifo_index, fifo_data, consumerVars>>

\* Mutant: the tail is reloaded, the test is not repeated.
PushReloadUntested ==
    /\ producer = "push"
    /\ LooksFull(cached_tail)
    /\ cached_tail' = tail
    /\ producer' = "store_index"
    /\ UNCHANGED <<head, fifo_index, fifo_data, consumerVars>>

PushReload ==
    /\ producer = "push"
    /\ LooksFull(cached_tail)
    /\ cached_tail' = tail
    /\ producer' = IF LooksFull(tail) THEN "full" ELSE "store_index"
    /\ UNCHANGED <<head, fifo_index, fifo_data, consumerVars>>

StoreIndex ==
    /\ producer = "store_index"
    /\ fifo_index' = [fifo_index EXCEPT ![head] = head]
    /\ producer' = "store_head"
    /\ UNCHANGED <<head, cached_tail, fifo_data, consumerVars>>

\* Mutant: the head does not wrap.
StoreHeadNoWrap ==
    /\ producer = "store_head"
    /\ head' = head + 1
    /\ producer' = "idle"
    /\ UNCHANGED <<cached_tail, fifo_index, fifo_data, consumerVars>>

StoreHead ==
    /\ producer = "store_head"
    /\ head' = (head + 1) % RingSize
    /\ producer' = "idle"
    /\ UNCHANGED <<cached_tail, fifo_index, fifo_data, consumerVars>>

\* QUEUE_FULL: the caller tries again (offline, and for the stop packet) ...
RetryPush ==
    /\ producer = "full"
    /\ producer' = "push"
    /\ UNCHANGED <<head, cached_tail, fifo_index, fifo_data, consumerVars>>

\* ... or gives the packet up (online).
DropPacket ==
    /\ producer = "full"
    /\ producer' = "idle"
    /\ UNCHANGED <<head, cached_tail, fifo_index, fifo_data, consumerVars>>
-----------------------------------------------------------------------------
(* The consumer.                                                           *)

\* Mutant: the copy of the head is never reloaded.
KnownHeadStale == cached_head

\* The head the consumer works with: its copy, reloaded if it says "empty".
KnownHead == IF cached_head = tail THEN head ELSE cached_head

\* Mutant: everything up to the head, across the end of the array.
BulkLengthAcross(h) == IF h > tail THEN h - tail ELSE RingSize - tail + h

\* queue_pop_bulk returns the contiguous part only, up to the array's end.
BulkLength(h) == IF h > tail THEN h - tail ELSE RingSize - tail

PopBulk ==
    /\ consumer = "idle"
    /\ cached_head' = KnownHead
    /\ KnownHead # tail
    /\ bulk' = BulkLength(KnownHead)
    /\ pos' = 0
    /\ consumer' = "bulk"
    /\ UNCHANGED <<tail, val, delivered, producerVars>>

\* data_spsc_ring_get_data: no modulo, the index must stay inside the array.
ReadBulk ==
    /\ consumer = "bulk"
    /\ pos < bulk
    /\ delivered' = fifo_data[fifo_index[tail + pos]]
    /\ pos' = pos + 1
    /\ UNCHANGED <<tail, cached_head, consumer, bulk, val, producerVars>>

\* Mutant: the last packet of the bulk, checked after the loop, is forgotten.
UpdateTailShort ==
    /\ consumer = "bulk"
    /\ pos = bulk
    /\ tail' = (tail + bulk - 1) % RingSize
    /\ consumer' = "idle"
    /\ bulk' = 0 /\ pos' = 0
    /\ UNCHANGED <<cached_head, val, delivered, producerVars>>

UpdateTail ==
    /\ consumer = "bulk"
    /\ pos = bulk
    /\ tail' = (tail + bulk) % RingSize
    /\ consumer' = "idle"
    /\ bulk' = 0 /\ pos' = 0
    /\ UNCHANGED <<cached_head, val, delivered, producerVars>>

PopTake ==
    /\ consumer = "idle"
    /\ cached_head' = KnownHead
    /\ KnownHead # tail
    /\ val' = fifo_index[tail]
    /\ consumer' = "pop_store"
    /\ UNCHANGED <<tail, bulk, pos, delivered, producerVars>>

\* queue_pop gives the slot back before data_spsc_ring_pop reads its packet.
PopStoreTail ==
    /\ consumer = "pop_store"
    /\ tail' = (tail + 1) % RingSize
    /\ consumer' = "pop_read"
    /\ UNCHANGED <<cached_head, bulk, pos, val, delivered, producerVars>>

PopRead ==
    /\ consumer = "pop_read"
    /\ delivered' = fifo_data[val]
    /\ consumer' = "idle"
    /\ UNCHANGED <<tail, cached_head, bulk, pos, val, producerVars>>
-----------------------------------------------------------------------------
Producer ==
    \/ \E p \in Packet : GetTmpElement(p)
    \/ PushCached \/ PushReload \/ StoreIndex \/ StoreHead
    \/ RetryPush \/ DropPacket

Consumer ==
    \/ PopBulk \/ ReadBulk \/ UpdateTail
    \/ PopTake \/ PopStoreTail \/ PopRead

Next == Producer \/ Consumer

Spec == Init /\ [][Next]_vars

\* A worker never stops polling; nothing is asked of the producer.
FairSpec == Spec /\ WF_vars(Consumer)
-----------------------------------------------------------------------------
TypeOK ==
    /\ head \in Slots /\ tail \in Slots
    /\ cached_head \in Slots /\ cached_tail \in Slots
    /\ fifo_index \in [Slots -> Slots \cup {Garbage}]
    /\ fifo_data \in [Slots -> Packet \cup {None}]
    /\ producer \in {"idle", "push", "store_index", "store_head", "full"}
    /\ consumer \in {"idle", "bulk", "pop_store", "pop_read"}
    /\ bulk \in 0 .. RingSize /\ pos \in 0 .. RingSize
    /\ val \in Slots
    /\ delivered \in Packet \cup {None}

\* Number of slots from a up to, not including, b, going round the ring.
Dist(a, b) == IF b >= a THEN b - a ELSE b - a + RingSize

\* The slots the consumer still has to read.
ConsumerSlots ==
    {s \in Slots :
        \/ consumer = "bulk" /\ tail + pos <= s /\ s < tail + bulk
        \/ consumer \in {"pop_store", "pop_read"} /\ s = val}

\* The slot at head, which get_tmp_element lets the producer overwrite
\* before queue_push has tested for room, is never one that the consumer has
\* been promised and has not read: not in a bulk whose tail is not yet
\* updated, and not the single slot that queue_pop gave back too early.
SlotExclusive == head \notin ConsumerSlots

\* A bulk never runs past the end of the array nor past the producer: the
\* worker indexes tail + i without a modulo.
BulkInBounds ==
    consumer = "bulk" => tail + bulk <= RingSize /\ bulk <= Dist(tail, head)

\* Going round the ring: producer's copy of the tail, tail, consumer's copy
\* of the head, head; at most RingSize - 3 slots in all, and one slot less
\* while the producer is between its test for room and its store to head.
CursorOrder ==
    Dist(cached_tail, tail) + Dist(tail, cached_head) + Dist(cached_head, head)
      <= IF producer \in {"store_index", "store_head"}
         THEN RingSize - 4 ELSE RingSize - 3

\* The index queue only ever carries a slot's own number.
IndexCorrect ==
    /\ \A s \in Slots :
          Dist(tail, s) < Dist(tail, head) => fifo_index[s] = s
    /\ producer = "store_head" => fifo_index[head] = head

\* What the consumer took is behind its own copy of the head.
ConsumerInv ==
    /\ consumer = "bulk" =>
          /\ 1 <= bulk /\ pos <= bulk
          /\ bulk <= Dist(tail, cached_head)
          /\ tail + bulk <= RingSize
    /\ consumer = "pop_store" => cached_head # tail /\ val = tail
    /\ consumer = "pop_read" => Dist(val, tail) = 1

\* The inductive invariant of the ring: why the two reserved slots and the
\* two cached cursors together keep producer and consumer apart.
IInv == TypeOK /\ CursorOrder /\ IndexCorrect /\ ConsumerInv

\* The slot of the next packet to be handed over, and how many wait.
Front ==
    IF consumer = "bulk" THEN tail + pos
    ELSE IF consumer = "pop_read" THEN val ELSE tail

Pending ==
    IF consumer = "bulk" THEN Dist(tail, head) - pos
    ELSE IF consumer = "pop_read" THEN Dist(tail, head) + 1 ELSE Dist(tail, head)

\* The packets in the ring, read from the slots and the cursors.
Contents ==
    [k \in 1 .. Pending |-> fifo_data[(Front + k - 1) % RingSize]]

Fifo == INSTANCE BoundedFifo WITH queue <- Contents, Capacity <- Size

\* Whatever the interleaving and however stale the two cached cursors are,
\* the ring is a FIFO of at most Size packets: no packet is lost,
\* duplicated, reordered or seen before it is complete.
ImplementsFifo == Fifo!Spec

\* A packet accepted by queue_push is handed to the worker: the cached head
\* never hides it forever.
Delivered ==
    \A p \in Packet :
        (\E k \in 1 .. Len(Contents) : Contents[k] = p) ~> (delivered = p)
=============================================================================
