--------------------------- MODULE SpscRingProofs ---------------------------
(***************************************************************************)
(* Proofs about SpscRing, for every ring size and every set of packets.    *)
(***************************************************************************)
EXTENDS SpscRing, SequenceTheorems, TLAPS

\* The only modular arithmetic the ring does: a cursor moved by less than a
\* full turn wraps at most once.
LEMMA ModWrap ==
    ASSUME NEW x \in Int, NEW n \in Nat \ {0}, 0 <= x, x < 2 * n
    PROVE  x % n = IF x < n THEN x ELSE x - n
<1>1. CASE x < n
  BY <1>1
<1>2. CASE x >= n
  <2>1. x - n \in 0 .. n - 1
    BY <1>2
  <2>2. x = n * 1 + (x - n)
    OBVIOUS
  <2> QED
    BY <1>2, <2>1, <2>2
<1> QED
  BY <1>1, <1>2

\* The ring has at least three slots: the code asks for two more than Size.
LEMMA RingSizeType == RingSize \in Nat /\ RingSize >= 3
BY SizeAssumption DEF RingSize

\* StoreHead and queue_pop move a cursor by one slot.
LEMMA NextSlot ==
    ASSUME NEW s \in Slots
    PROVE  (s + 1) % RingSize = IF s = RingSize - 1 THEN 0 ELSE s + 1
<1> DEFINE x == s + 1
<1>1. x \in Int /\ 0 <= x /\ x < 2 * RingSize /\ RingSize \in Nat \ {0}
  BY RingSizeType DEF Slots
<1> HIDE DEF x
<1>2. x % RingSize = IF x < RingSize THEN x ELSE x - RingSize
  BY <1>1, ModWrap
<1> QED
  BY <1>1, <1>2, RingSizeType DEF Slots, x

\* queue_update_tail moves the tail over a bulk that ends inside the array.
LEMMA AfterBulk ==
    ASSUME NEW s \in Slots, NEW n \in Nat, s + n <= RingSize
    PROVE  (s + n) % RingSize = IF s + n = RingSize THEN 0 ELSE s + n
<1> DEFINE x == s + n
<1>1. x \in Int /\ 0 <= x /\ x < 2 * RingSize /\ RingSize \in Nat \ {0}
  BY RingSizeType DEF Slots
<1> HIDE DEF x
<1>2. x % RingSize = IF x < RingSize THEN x ELSE x - RingSize
  BY <1>1, ModWrap
<1> QED
  BY <1>1, <1>2, RingSizeType DEF Slots, x

\* queue_push's test holds exactly when RingSize - 3 slots are in use.
LEMMA FullIsDistance ==
    ASSUME NEW t \in Slots, head \in Slots
    PROVE  LooksFull(t) <=> Dist(t, head) = RingSize - 3
<1> DEFINE x == head + 3
<1>1. x \in Int /\ 0 <= x /\ x < 2 * RingSize /\ RingSize \in Nat \ {0}
  BY RingSizeType DEF Slots
<1> HIDE DEF x
<1>2. x % RingSize = IF x < RingSize THEN x ELSE x - RingSize
  BY <1>1, ModWrap
<1>3. CASE head + 3 < RingSize
  BY <1>1, <1>2, <1>3, RingSizeType DEF Slots, LooksFull, Dist, x
<1>4. CASE head + 3 >= RingSize
  BY <1>1, <1>2, <1>4, RingSizeType DEF Slots, LooksFull, Dist, x
<1> QED
  BY <1>3, <1>4, RingSizeType DEF Slots

\* queue_init establishes the inductive invariant.
LEMMA InitIInv == Init => IInv
BY RingSizeType DEF Init, IInv, TypeOK, CursorOrder, IndexCorrect, ConsumerInv,
   Dist, Slots, Garbage

\* One step of the ring preserves the invariant.
LEMMA StepIInv == IInv /\ [Next]_vars => IInv'
<1> SUFFICES ASSUME IInv, [Next]_vars PROVE IInv'
  OBVIOUS
<1> USE RingSizeType DEF IInv
<1>1. ASSUME NEW p \in Packet, GetTmpElement(p) PROVE IInv'
  BY <1>1 DEF GetTmpElement, consumerVars, TypeOK, CursorOrder, IndexCorrect,
     ConsumerInv, Dist, Slots
<1>2. CASE PushCached
  <2>1. Dist(cached_tail, head) # RingSize - 3
    BY <1>2, FullIsDistance DEF PushCached, TypeOK
  <2> QED
    BY <1>2, <2>1 DEF PushCached, consumerVars, TypeOK, CursorOrder,
       IndexCorrect, ConsumerInv, Dist, Slots
<1>3. CASE PushReload
  <2>1. LooksFull(tail) <=> Dist(tail, head) = RingSize - 3
    BY FullIsDistance DEF TypeOK
  <2> QED
    BY <1>3, <2>1 DEF PushReload, consumerVars, TypeOK, CursorOrder,
       IndexCorrect, ConsumerInv, Dist, Slots
<1>4. CASE StoreIndex
  BY <1>4 DEF StoreIndex, consumerVars, TypeOK, CursorOrder, IndexCorrect,
     ConsumerInv, Dist, Slots
<1>5. CASE StoreHead
  <2>1. head' = IF head = RingSize - 1 THEN 0 ELSE head + 1
    BY <1>5, NextSlot DEF StoreHead, TypeOK
  <2> QED
    BY <1>5, <2>1 DEF StoreHead, consumerVars, TypeOK, CursorOrder,
       IndexCorrect, ConsumerInv, Dist, Slots
<1>6. CASE RetryPush
  BY <1>6 DEF RetryPush, consumerVars, TypeOK, CursorOrder, IndexCorrect,
     ConsumerInv, Dist, Slots
<1>7. CASE DropPacket
  BY <1>7 DEF DropPacket, consumerVars, TypeOK, CursorOrder, IndexCorrect,
     ConsumerInv, Dist, Slots
<1>8. CASE PopBulk
  BY <1>8 DEF PopBulk, KnownHead, BulkLength, producerVars, TypeOK,
     CursorOrder, IndexCorrect, ConsumerInv, Dist, Slots
<1>9. CASE ReadBulk
  <2>1. tail + pos \in Slots /\ fifo_index[tail + pos] = tail + pos
    BY <1>9 DEF ReadBulk, TypeOK, CursorOrder, IndexCorrect, ConsumerInv, Dist, Slots
  <2> QED
    BY <1>9, <2>1 DEF ReadBulk, producerVars, TypeOK, CursorOrder,
       IndexCorrect, ConsumerInv, Dist, Slots
<1>10. CASE UpdateTail
  <2>1. tail' = IF tail + bulk = RingSize THEN 0 ELSE tail + bulk
    BY <1>10, AfterBulk DEF UpdateTail, TypeOK, ConsumerInv
  <2> QED
    BY <1>10, <2>1 DEF UpdateTail, producerVars, TypeOK, CursorOrder,
       IndexCorrect, ConsumerInv, Dist, Slots
<1>11. CASE PopTake
  <2>1. fifo_index[tail] = tail
    BY <1>11 DEF PopTake, KnownHead, TypeOK, CursorOrder, IndexCorrect, Dist, Slots
  <2> QED
    BY <1>11, <2>1 DEF PopTake, KnownHead, producerVars, TypeOK,
       CursorOrder, IndexCorrect, ConsumerInv, Dist, Slots
<1>12. CASE PopStoreTail
  <2>1. tail' = IF tail = RingSize - 1 THEN 0 ELSE tail + 1
    BY <1>12, NextSlot DEF PopStoreTail, TypeOK
  <2> QED
    BY <1>12, <2>1 DEF PopStoreTail, producerVars, TypeOK, CursorOrder,
       IndexCorrect, ConsumerInv, Dist, Slots
<1>13. CASE PopRead
  BY <1>13 DEF PopRead, producerVars, TypeOK, CursorOrder, IndexCorrect,
     ConsumerInv, Dist, Slots
<1>14. CASE UNCHANGED vars
  BY <1>14 DEF vars, producerVars, consumerVars, TypeOK, CursorOrder,
     IndexCorrect, ConsumerInv, Dist, Slots
<1> QED
  BY <1>1, <1>2, <1>3, <1>4, <1>5, <1>6, <1>7, <1>8, <1>9, <1>10, <1>11,
     <1>12, <1>13, <1>14 DEF Next, Producer, Consumer

\* The invariant holds of every behaviour of the ring, whatever its size.
THEOREM RingInvariant == Spec => []IInv
<1> QED
  BY InitIInv, StepIInv, PTL DEF Spec

\* The types of the ring's cursors and slots, for every size.
THEOREM RingTypeOK == Spec => []TypeOK
<1>1. IInv => TypeOK
  BY DEF IInv
<1> QED
  BY <1>1, RingInvariant, PTL

\* The producer's free write at head never touches a slot the consumer has
\* been promised: no packet is overwritten while a worker reads it.
THEOREM RingSlotExclusive == Spec => []SlotExclusive
<1>1. IInv => SlotExclusive
  BY RingSizeType DEF IInv, TypeOK, CursorOrder, ConsumerInv, SlotExclusive,
     ConsumerSlots, Dist, Slots
<1> QED
  BY <1>1, RingInvariant, PTL

\* The worker's loop over a bulk indexes the arrays inside their bounds and
\* only packets that were pushed.
THEOREM RingBulkInBounds == Spec => []BulkInBounds
<1>1. IInv => BulkInBounds
  BY RingSizeType DEF IInv, TypeOK, CursorOrder, ConsumerInv, BulkInBounds,
     Dist, Slots
<1> QED
  BY <1>1, RingInvariant, PTL
-----------------------------------------------------------------------------
(* The ring implements BoundedFifo.                                        *)

\* A function from 1 .. n is a sequence; adding a last element appends it.
LEMMA AppendFunction ==
    ASSUME NEW S, NEW n \in Nat, NEW f \in [1 .. n -> S], NEW g \in [1 .. n + 1 -> S],
           \A k \in 1 .. n : g[k] = f[k]
    PROVE  Len(f) = n /\ g = Append(f, g[n + 1])
<1>1. f \in Seq(S) /\ Len(f) = n
  OBVIOUS
<1>2. g \in Seq(S) /\ Len(g) = n + 1 /\ g[n + 1] \in S
  OBVIOUS
<1>3. Append(f, g[n + 1]) \in Seq(S) /\ Len(Append(f, g[n + 1])) = n + 1
  BY <1>1, <1>2
<1>4. \A k \in 1 .. n + 1 : Append(f, g[n + 1])[k] = g[k]
  BY <1>1, <1>2
<1> QED
  BY <1>1, <1>2, <1>3, <1>4, SeqEqual

\* Shifting a sequence by one takes its head off.
LEMMA TailFunction ==
    ASSUME NEW S, NEW n \in Nat \ {0}, NEW f \in [1 .. n -> S], NEW g \in [1 .. n - 1 -> S],
           \A k \in 1 .. n - 1 : g[k] = f[k + 1]
    PROVE  f # <<>> /\ Head(f) = f[1] /\ g = Tail(f)
<1>1. f \in Seq(S) /\ Len(f) = n
  OBVIOUS
<1>2. g \in Seq(S) /\ Len(g) = n - 1
  OBVIOUS
<1>3. f # <<>> /\ Head(f) = f[1]
  BY <1>1
<1>4. Tail(f) \in Seq(S) /\ Len(Tail(f)) = n - 1
  BY <1>1, <1>3
<1>5. \A k \in 1 .. n - 1 : Tail(f)[k] = g[k]
  BY <1>1
<1> QED
  BY <1>2, <1>3, <1>4, <1>5, SeqEqual

\* The slot of the k-th packet that waits.
Place(k) == IF Front + k - 1 < RingSize THEN Front + k - 1 ELSE Front + k - 1 - RingSize

\* Where the packets that wait are: from Front up to head, which is not one
\* of their slots.
ContentsInv ==
    /\ Pending \in Nat /\ Pending <= Size
    /\ producer = "store_head" => Pending < Size
    /\ Front \in 0 .. RingSize
    /\ Place(Pending + 1) = head
    /\ \A k \in 1 .. Pending : Place(k) \in Slots /\ Place(k) # head
    /\ Contents \in [1 .. Pending -> Packet \cup {None}]
    /\ \A k \in 1 .. Pending : Contents[k] = fifo_data[Place(k)]

\* The invariant of the ring gives the shape of its contents.
LEMMA ContentsShape == IInv => ContentsInv
<1> SUFFICES ASSUME IInv PROVE ContentsInv
  OBVIOUS
<1> USE RingSizeType
<1>1. /\ Pending \in Nat /\ Pending <= RingSize - 2
      /\ producer = "store_head" => Pending < RingSize - 2
      /\ Front \in 0 .. RingSize
      /\ Place(Pending + 1) = head
  BY DEF IInv, TypeOK, CursorOrder, ConsumerInv, Front, Pending, Place, Dist, Slots
<1>2. \A k \in 1 .. Pending : Place(k) \in Slots /\ Place(k) # head
  BY <1>1 DEF IInv, TypeOK, Place, Slots
<1>3. \A k \in 1 .. Pending : (Front + k - 1) % RingSize = Place(k)
  <2> SUFFICES ASSUME NEW k \in 1 .. Pending PROVE (Front + k - 1) % RingSize = Place(k)
    OBVIOUS
  <2> DEFINE x == Front + k - 1
  <2>1. x \in Int /\ 0 <= x /\ x < 2 * RingSize /\ RingSize \in Nat \ {0}
    BY <1>1
  <2>2. Place(k) = IF x < RingSize THEN x ELSE x - RingSize
    BY <1>1 DEF Place
  <2> HIDE DEF x
  <2>3. x % RingSize = IF x < RingSize THEN x ELSE x - RingSize
    BY <2>1, ModWrap
  <2>4. x % RingSize = Place(k)
    BY <2>2, <2>3
  <2> QED
    BY <2>4 DEF x
<1>4. \A k \in 1 .. Pending : Contents[k] = fifo_data[Place(k)]
  BY <1>3 DEF Contents
<1>5. Contents \in [1 .. Pending -> Packet \cup {None}]
  BY <1>2, <1>3 DEF Contents, IInv, TypeOK
<1>6. Pending <= Size /\ (producer = "store_head" => Pending < Size)
  BY <1>1, SizeAssumption DEF RingSize
<1> QED
  BY <1>1, <1>2, <1>4, <1>5, <1>6 DEF ContentsInv
\* The slot at head holds a packet from get_tmp_element on.
HeadFilled == producer # "idle" => fifo_data[head] \in Packet

\* What the refinement needs of a state.
RInv == IInv /\ HeadFilled

\* The invariant of the refinement.
THEOREM RingRefinementInvariant == Spec => []RInv
<1>1. Init => RInv
  BY InitIInv DEF RInv, HeadFilled, Init
<1>2. RInv /\ [Next]_vars => RInv'
  <2> SUFFICES ASSUME RInv, [Next]_vars PROVE HeadFilled'
    BY StepIInv DEF RInv
  <2>1. IInv /\ TypeOK
    BY DEF RInv, IInv
  <2>2. CASE Producer
    BY <2>1, <2>2 DEF RInv, HeadFilled, TypeOK, Producer, GetTmpElement, PushCached, PushReload, StoreIndex,
       StoreHead, RetryPush, DropPacket
  <2>3. CASE Consumer \/ UNCHANGED vars
    <3>1. UNCHANGED producerVars
      BY <2>3 DEF Consumer, PopBulk, ReadBulk, UpdateTail, PopTake, PopStoreTail, PopRead, vars
    <3> QED
      BY <3>1 DEF RInv, HeadFilled, producerVars
  <2> QED
    BY <2>2, <2>3 DEF Next
<1> QED
  BY <1>1, <1>2, PTL DEF Spec

\* A step that moves no packet: same slots, same packets in them.
LEMMA SameContents ==
    ASSUME ContentsInv, ContentsInv', Pending' = Pending,
           \A k \in 1 .. Pending : fifo_data'[Place(k)'] = fifo_data[Place(k)]
    PROVE  Contents' = Contents
BY DEF ContentsInv

\* The slots of the packets do not move when front and number do not.
LEMMA SamePlaces ==
    ASSUME Front' = Front
    PROVE  \A k : Place(k)' = Place(k)
BY DEF Place
\* The invariant, before and after a step, as the refinement uses it.
LEMMA ContentsShapeNext == RInv' => ContentsInv'
<1>1. RInv => ContentsInv
  BY ContentsShape DEF RInv
<1> QED
  BY <1>1, PTL

\* The producer's steps: the packet is put into the queue by the store to
\* head, no other step changes the queue, and the write to the slot at head
\* is a write to no packet that waits.
LEMMA ProducerRefines ==
    ASSUME RInv, RInv', Producer
    PROVE  [Fifo!Next]_(Fifo!vars)
<1> USE RingSizeType
<1>1. ContentsInv /\ ContentsInv' /\ TypeOK
  BY ContentsShape, ContentsShapeNext DEF RInv, IInv
<1>2. UNCHANGED consumerVars
  BY DEF Producer, GetTmpElement, PushCached, PushReload, StoreIndex, StoreHead, RetryPush, DropPacket
<1>3. Front' = Front /\ delivered' = delivered
  BY <1>2 DEF consumerVars, Front
<1>4. \A k : Place(k)' = Place(k)
  BY <1>3, SamePlaces
<1>5. CASE StoreHead
  <2>1. producer = "store_head" /\ UNCHANGED fifo_data
    BY <1>5 DEF StoreHead
  <2>2. Pending' = Pending + 1
    <3>1. head' = IF head = RingSize - 1 THEN 0 ELSE head + 1
      BY <1>1, <1>5, NextSlot DEF StoreHead, TypeOK
    <3>2. Dist(tail, head) < RingSize - 1
      BY <2>1 DEF RInv, IInv, CursorOrder, TypeOK, Dist, Slots
    <3>3. Dist(tail, head)' = Dist(tail, head) + 1
      BY <1>1, <1>2, <3>1, <3>2 DEF consumerVars, TypeOK, Dist, Slots
    <3> QED
      BY <1>1, <1>2, <3>3 DEF consumerVars, Pending, TypeOK, Dist, Slots
  <2> DEFINE f == Contents
             g == Contents'
             n == Pending
             S == Packet \cup {None}
  <2>3. /\ n \in Nat /\ n < Size /\ f \in [1 .. n -> S] /\ g \in [1 .. n + 1 -> S]
        /\ \A k \in 1 .. n : g[k] = f[k]
        /\ g[n + 1] = fifo_data[head]
    BY <1>1, <1>4, <2>1, <2>2 DEF ContentsInv
  <2>4. fifo_data[head] \in Packet
    BY <2>1 DEF RInv, HeadFilled
  <2> HIDE DEF f, g, n, S
  <2>5. Len(f) = n /\ g = Append(f, fifo_data[head])
    BY <2>3, AppendFunction
  <2>6. Fifo!Put(fifo_data[head])
    BY <1>3, <2>3, <2>5 DEF Fifo!Put, f, g
  <2> QED
    BY <2>4, <2>6 DEF Fifo!Next
<1>6. CASE \E p \in Packet : GetTmpElement(p)
  <2>1. PICK p \in Packet : GetTmpElement(p)
    BY <1>6
  <2>2. fifo_data' = [fifo_data EXCEPT ![head] = p] /\ head' = head /\ Pending' = Pending
    BY <1>2, <2>1 DEF GetTmpElement, consumerVars, Pending, Dist
  <2>3. \A k \in 1 .. Pending : fifo_data'[Place(k)'] = fifo_data[Place(k)]
    BY <1>1, <1>4, <2>2 DEF ContentsInv, TypeOK
  <2>4. Contents' = Contents
    BY <1>1, <2>2, <2>3, SameContents
  <2> QED
    BY <1>3, <2>4 DEF Fifo!vars
<1>7. CASE PushCached \/ PushReload \/ StoreIndex \/ RetryPush \/ DropPacket
  <2>1. UNCHANGED <<fifo_data, head>>
    BY <1>7 DEF PushCached, PushReload, StoreIndex, RetryPush, DropPacket
  <2>2. Pending' = Pending
    BY <1>2, <2>1 DEF consumerVars, Pending, Dist
  <2>3. Contents' = Contents
    BY <1>1, <1>4, <2>1, <2>2, SameContents
  <2> QED
    BY <1>3, <2>3 DEF Fifo!vars
<1> QED
  BY <1>5, <1>6, <1>7 DEF Producer
\* A step that hands over the packet at the front and moves on to the next.
LEMMA HandOver ==
    ASSUME ContentsInv, ContentsInv', UNCHANGED fifo_data, Pending \in Nat \ {0},
           Pending' = Pending - 1, delivered' = fifo_data[Place(1)],
           \A k \in 1 .. Pending - 1 : Place(k)' = Place(k + 1)
    PROVE  Fifo!Get
<1> DEFINE f == Contents
           g == Contents'
           n == Pending
           S == Packet \cup {None}
<1>1. /\ n \in Nat \ {0} /\ f \in [1 .. n -> S] /\ g \in [1 .. n - 1 -> S]
      /\ \A k \in 1 .. n - 1 : g[k] = f[k + 1]
      /\ f[1] = delivered'
  BY DEF ContentsInv
<1> HIDE DEF f, g, n, S
<1>2. f # <<>> /\ Head(f) = f[1] /\ g = Tail(f)
  BY <1>1, TailFunction
<1> QED
  BY <1>1, <1>2 DEF Fifo!Get, f, g

\* The consumer's steps: a packet leaves the queue when it is handed to the
\* worker, in order, each once; taking a bulk, updating the tail and giving
\* a slot back early change nothing the two threads agreed on.
LEMMA ConsumerRefines ==
    ASSUME RInv, RInv', Consumer
    PROVE  [Fifo!Next]_(Fifo!vars)
<1> USE RingSizeType
<1>1. ContentsInv /\ ContentsInv' /\ TypeOK /\ IInv
  BY ContentsShape, ContentsShapeNext DEF RInv, IInv
<1>2. UNCHANGED <<head, fifo_data>>
  BY DEF Consumer, PopBulk, ReadBulk, UpdateTail, PopTake, PopStoreTail, PopRead, producerVars
<1>3. CASE ReadBulk
  <2>1. /\ consumer = "bulk" /\ pos < bulk /\ pos' = pos + 1 /\ UNCHANGED <<tail, consumer>>
        /\ delivered' = fifo_data[fifo_index[tail + pos]]
    BY <1>3 DEF ReadBulk
  <2>2. /\ tail + pos \in Slots /\ pos < Dist(tail, head) /\ Dist(tail, tail + pos) = pos
        /\ pos \in Nat /\ tail \in Nat /\ Dist(tail, head) \in Nat
    BY <1>1, <2>1 DEF IInv, TypeOK, CursorOrder, ConsumerInv, Dist, Slots
  <2>3. fifo_index[tail + pos] = tail + pos
    BY <1>1, <2>2 DEF IInv, IndexCorrect
  <2>4. Front = tail + pos /\ Pending = Dist(tail, head) - pos
    BY <2>1 DEF Front, Pending
  <2>5. Front' = tail + pos + 1 /\ Pending' = Dist(tail, head) - (pos + 1)
    BY <1>2, <2>1, <2>2 DEF Front, Pending, Dist
  <2>6. Pending \in Nat \ {0} /\ Pending' = Pending - 1 /\ Place(1) = tail + pos
    BY <2>2, <2>4, <2>5 DEF Place, Slots
  <2>7. \A k \in 1 .. Pending - 1 : Place(k)' = Place(k + 1)
    <3> SUFFICES ASSUME NEW k \in 1 .. Pending - 1 PROVE Place(k)' = Place(k + 1)
      OBVIOUS
    <3>1. k \in Int /\ Front \in Int /\ Front' = Front + 1
      BY <2>2, <2>4, <2>5, <2>6
    <3> QED
      BY <3>1 DEF Place
  <2>8. Fifo!Get
    BY <1>1, <1>2, <2>1, <2>3, <2>6, <2>7, HandOver
  <2> QED
    BY <2>8 DEF Fifo!Next
<1>4. CASE PopRead
  <2>1. /\ consumer = "pop_read" /\ consumer' = "idle" /\ UNCHANGED tail
        /\ delivered' = fifo_data[val]
    BY <1>4 DEF PopRead
  <2>2. /\ val \in Slots /\ tail \in Slots /\ Dist(tail, head) \in Nat
        /\ tail = IF val = RingSize - 1 THEN 0 ELSE val + 1
    BY <1>1, <2>1 DEF IInv, TypeOK, ConsumerInv, Dist, Slots
  <2>3. Front = val /\ Pending = Dist(tail, head) + 1
    BY <2>1 DEF Front, Pending
  <2>4. Front' = tail /\ Pending' = Dist(tail, head)
    BY <1>2, <2>1 DEF Front, Pending, Dist
  <2>5. Pending \in Nat \ {0} /\ Pending' = Pending - 1 /\ Place(1) = val
    BY <2>2, <2>3, <2>4 DEF Place, Slots
  <2>6. \A k \in 1 .. Pending - 1 : Place(k)' = Place(k + 1)
    BY <1>1, <2>2, <2>3, <2>4, <2>5, SizeAssumption DEF Place, Slots, ContentsInv, RingSize
  <2>7. Fifo!Get
    BY <1>1, <1>2, <2>1, <2>5, <2>6, HandOver
  <2> QED
    BY <2>7 DEF Fifo!Next
<1>5. CASE PopBulk \/ UpdateTail \/ PopTake \/ PopStoreTail
  <2>1. delivered' = delivered
    BY <1>5 DEF PopBulk, UpdateTail, PopTake, PopStoreTail
  <2>2. Pending' = Pending /\ \A k \in 1 .. Pending : Place(k)' = Place(k)
    <3>1. CASE PopBulk
      <4>1. Front' = Front /\ Pending' = Pending
        BY <1>1, <1>2, <3>1 DEF PopBulk, Front, Pending, Dist, TypeOK, Slots
      <4> QED
        BY <4>1, SamePlaces
    <3>2. CASE UpdateTail
      <4>1. tail' = IF tail + bulk = RingSize THEN 0 ELSE tail + bulk
        BY <1>1, <3>2, AfterBulk DEF UpdateTail, IInv, TypeOK, ConsumerInv
      <4>2. /\ Front = tail + bulk /\ Pending = Dist(tail, head) - bulk
            /\ Front' = tail' /\ Pending' = Dist(tail', head)
        BY <1>2, <3>2 DEF UpdateTail, Front, Pending, Dist
      <4>3. bulk \in Nat /\ bulk <= Dist(tail, head) /\ tail + bulk <= RingSize /\ tail \in Slots /\ head \in Slots
        BY <1>1, <3>2 DEF UpdateTail, IInv, TypeOK, CursorOrder, ConsumerInv, Dist, Slots
      <4>4. Pending' = Pending
        BY <4>1, <4>2, <4>3 DEF Dist, Slots
      <4>5. \A k \in 1 .. Pending : Place(k)' = Place(k)
        <5>1. Pending \in Nat /\ Pending <= RingSize - 2
          BY <1>1, SizeAssumption DEF ContentsInv, RingSize
        <5>2. Front \in 0 .. RingSize /\ Front' = IF Front = RingSize THEN 0 ELSE Front
          BY <4>1, <4>2, <4>3 DEF Slots
        <5> QED
          BY <5>1, <5>2 DEF Place
      <4> QED
        BY <4>4, <4>5
    <3>3. CASE PopTake
      <4>1. Front' = Front /\ Pending' = Pending
        BY <1>1, <1>2, <3>3 DEF PopTake, Front, Pending, Dist
      <4> QED
        BY <4>1, SamePlaces
    <3>4. CASE PopStoreTail
      <4>1. tail' = IF tail = RingSize - 1 THEN 0 ELSE tail + 1
        BY <1>1, <3>4, NextSlot DEF PopStoreTail, TypeOK
      <4>2. Dist(tail, head) > 0 /\ val = tail
        BY <1>1, <3>4 DEF PopStoreTail, IInv, TypeOK, CursorOrder, ConsumerInv, Dist, Slots
      <4>3. Front' = Front
        BY <3>4, <4>2 DEF PopStoreTail, Front
      <4>4. Pending' = Pending
        BY <1>1, <1>2, <3>4, <4>1, <4>2 DEF PopStoreTail, Pending, Dist, TypeOK, Slots
      <4> QED
        BY <4>3, <4>4, SamePlaces
    <3> QED
      BY <1>5, <3>1, <3>2, <3>3, <3>4
  <2>3. Contents' = Contents
    BY <1>1, <1>2, <2>2, SameContents
  <2> QED
    BY <2>1, <2>3 DEF Fifo!vars
<1> QED
  BY <1>3, <1>4, <1>5 DEF Consumer

\* For every size of the ring and every interleaving, the ring is a bounded
\* first-in-first-out queue.
THEOREM RingImplementsFifo == Spec => ImplementsFifo
<1>1. Init => Fifo!Init
  <2> SUFFICES ASSUME Init PROVE Fifo!Init
    OBVIOUS
  <2>1. Pending = 0 /\ delivered = None
    BY DEF Init, Pending, Dist
  <2>2. Contents = <<>>
    BY <2>1 DEF Contents
  <2> QED
    BY <2>1, <2>2 DEF Fifo!Init
<1>2. RInv /\ RInv' /\ [Next]_vars => [Fifo!Next]_(Fifo!vars)
  <2>1. CASE UNCHANGED vars
    <3>1. Contents' = Contents /\ delivered' = delivered
      BY <2>1 DEF vars, producerVars, consumerVars, Contents, Pending, Front, Dist
    <3> QED
      BY <3>1 DEF Fifo!vars
  <2> QED
    BY <2>1, ProducerRefines, ConsumerRefines DEF Next
<1> QED
  BY <1>1, <1>2, RingRefinementInvariant, PTL DEF Spec, ImplementsFifo, Fifo!Spec
=============================================================================
