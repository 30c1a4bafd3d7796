-------------------------------- MODULE TcpRtt --------------------------------
(* The round-trip time of TCP packets (modules/dpi/report/tcp_rtt.c): per     *)
(* direction a list of the packets that wait for their acknowledgement.       *)
EXTENDS Naturals, Sequences

CONSTANT SeqSpace     \* 2^32: sequence and acknowledgement numbers are uint32_t

ASSUME SeqSpaceAssumption == SeqSpace \in Nat \ {0, 1}

Directions == {0, 1}
Opposite(dir) == 1 - dir

\* _new_pkt_node
Node(seq, len, ts) == [seq |-> seq, len |-> len, ts |-> ts]

\* tcp_rtt_init
RttEmpty == [d \in Directions |-> <<>>]

\* tcp_rtt_release, _free_linked_list: the nodes of both directions
RttRelease == RttEmpty

\* expected_ack_number
ExpectedAck(p) == (p.seq + p.len + 1) % SeqSpace

\* Mutant: a retransmission is inserted again, behind the node it repeats
InsertPositionAfter(list, e) ==
    CHOOSE k \in 0..Len(list) :
        /\ \A i \in 1..k : ExpectedAck(list[i]) >= e
        /\ k < Len(list) => ExpectedAck(list[k + 1]) < e

\* the first loop of tcp_rtt_add_packet: how many nodes stay in front
InsertPosition(list, e) ==
    CHOOSE k \in 0..Len(list) :
        /\ \A i \in 1..k : ExpectedAck(list[i]) > e
        /\ k < Len(list) => ExpectedAck(list[k + 1]) <= e

\* part 1: a retransmission only refreshes the time, a new packet is inserted
StorePacket(list, p) ==
    LET k == InsertPosition(list, ExpectedAck(p)) IN
    IF k < Len(list) /\ ExpectedAck(list[k + 1]) = ExpectedAck(p)
    THEN [list EXCEPT ![k + 1].ts = IF @ < p.ts THEN p.ts ELSE @]
    ELSE SubSeq(list, 1, k) \o <<p>> \o SubSeq(list, k + 1, Len(list))

\* part 2: the node whose acknowledgement this is, 0 when there is none
AckedNode(list, ack) ==
    IF \E i \in DOMAIN list : ExpectedAck(list[i]) = ack
    THEN CHOOSE i \in DOMAIN list :
            /\ ExpectedAck(list[i]) = ack
            /\ \A j \in 1..(i - 1) : ExpectedAck(list[j]) # ack
    ELSE 0

\* the last of the nodes from i on that acknowledge one another
LastAcked(list, i) ==
    CHOOSE j \in i..Len(list) :
        /\ \A m \in (i + 1)..j : ExpectedAck(list[m]) = list[m - 1].seq
        /\ j < Len(list) => ExpectedAck(list[j + 1]) # list[j].seq

\* tcp_rtt_add_packet: both lists, the number of packets acknowledged and the time
RttAddPacket(pkts, dir, seq, ack, len, ts) ==
    LET stored == [pkts EXCEPT ![dir] = StorePacket(@, Node(seq, len, ts))]
        other  == stored[Opposite(dir)]
        i == IF ack = 0 THEN 0 ELSE AckedNode(other, ack)
    IN  IF i = 0 THEN [pkts |-> stored, counter |-> 0, usec |-> 0]
        ELSE LET j == LastAcked(other, i)
             IN  [pkts |-> [stored EXCEPT ![Opposite(dir)] =
                               SubSeq(other, 1, i - 1) \o SubSeq(other, j + 1, Len(other))],
                  counter |-> j - i + 1, usec |-> ts - other[i].ts]

\* the list is in strictly descending order of the expected acknowledgement
Descending(list) == \A i, j \in DOMAIN list : i < j => ExpectedAck(list[i]) > ExpectedAck(list[j])
=============================================================================
