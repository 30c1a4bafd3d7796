---------------------------- MODULE BoundedFifo ----------------------------
(***************************************************************************)
(* What a single-producer-single-consumer ring promises to its two users:  *)
(* a first-in-first-out queue of bounded length.  The producer adds a      *)
(* packet at the back while there is room; the consumer is handed the      *)
(* packet at the front, each packet exactly once.  SpscRing implements it. *)
(***************************************************************************)
EXTENDS Naturals, Sequences

CONSTANTS
    Packet,     \* the packets the producer may insert
    None,       \* the content of a slot nobody has written
    Capacity    \* the largest number of packets in the queue

VARIABLES
    queue,      \* accepted and not yet delivered, oldest first
    delivered   \* the packet the consumer was handed last

vars == <<queue, delivered>>

Init ==
    /\ queue = <<>>
    /\ delivered = None

Put(p) ==
    /\ Len(queue) < Capacity
    /\ queue' = Append(queue, p)
    /\ UNCHANGED delivered

Get ==
    /\ queue # <<>>
    /\ delivered' = Head(queue)
    /\ queue' = Tail(queue)

Next == Get \/ \E p \in Packet : Put(p)

Spec == Init /\ [][Next]_vars
=============================================================================
