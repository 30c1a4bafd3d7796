------------------------------ MODULE MCWorker ------------------------------
(* One configuration per group of features that share state; packets carry    *)
(* the few values that take each handler through its branches.                *)
EXTENDS Worker

MCSessions == {"s1", "s2"}
MCApps == {"unknown", "http", "ssl", "rtp"}
MCSizes == {1, 3}
MCConfs ==
    {{"session", "arp", "frag"}, {"session", "micro"}, {"micro"}, {"session", "web", "ssl", "rtp"},
     {"session", "gtp"}, {"lte"}, {"event", "radius"},
     {"session", "qos", "rtt_sender"}, {"session", "qos", "rtt_captor"}, {"session", "qos", "rtt_prefer_sender"},
     {"http_reconstruct"}, {"ftp_reconstruct"}, {"dump"}, {"security"}, {"security", "forward"}}
Header(options, tsval, tsecr, seq, ack) ==
    [options |-> options, tsval |-> tsval, tsecr |-> tsecr, seq |-> seq, ack |-> ack, len |-> seq % 2,
     retransmission |-> IF seq = 1 THEN 1 ELSE 0, established |-> ack = 1]
MCTcpHeaders ==
    {Header(FALSE, 0, 0, q, a) : q \in 1..3, a \in {1, 3}} \cup {Header(TRUE, v, e, 2, 1) : v \in 1..3, e \in 1..2}
MCRtpValues == {[jitter |-> j, loss |-> l, order |-> l, burst |-> l] : j \in 0..1, l \in 0..1}
MCTeids == 0..3
MCTargets == {"SCTP", "UDP"}
MCPaths == {<<"meta", "eth", "arp">>, <<"meta", "eth", "ip", "sctp">>, <<"meta", "eth", "ip", "udp", "gtp", "ip", "tcp">>}
MCUes == {1, 2}
=============================================================================
