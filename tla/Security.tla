------------------------------- MODULE Security -------------------------------
(* mmt-security in a worker (modules/security/security.c) and the forwarding  *)
(* of packets (modules/security/forward).  A packet is copied and turned into *)
(* a message for the rules.  The rule engine (libmmt_security) is external:   *)
(* it calls back for any rules, one after the other; a satisfied FORWARD rule *)
(* marks the packet and may drop, change or send the copy, and the default    *)
(* action is left for the packets that no such rule has marked.               *)
EXTENDS Integers, Sequences, FiniteSets

CONSTANTS IgnoreRemainFlow,   \* security.ignore-remain-flow
          DefaultAction,      \* forward-packet.default: "FORWARD" or "DROP"
          Targets,            \* forward-packet targets, a subset of {"SCTP", "UDP"}
          NbCopies,           \* forward-packet.nb-copies
          Dpdk,               \* packets are injected with DPDK
          Encapsulation,      \* security.ip-encapsulation-index: 1, 2, or 99 for the last one
          MessageRoom,        \* bytes a message can hold
          Paths,              \* the protocol paths of packets
          MaxSecured,         \* bound on packets
          MaxVerdicts         \* bound on the rules a packet satisfies

ASSUME SecurityAssumption ==
    DefaultAction \in {"FORWARD", "DROP"} /\ Targets \subseteq {"SCTP", "UDP"} /\ NbCopies \in Nat \ {0}

VARIABLES security_at,                \* where _security_packet_handler is: idle, rules, finish
          ipacket,                    \* the path and the flow of the packet in work
          packet_data,                \* the copy: the packet it was made of, and those whose rules changed it
          has_a_satisfied_rule,
          nb_forwarded, nb_dropped,   \* the counters of forward_packet_context_t
          alerted,                    \* flows mmt-security need not look at any more
          alerts,                     \* security reports
          verdicts,                   \* rules the packet in work has satisfied
          secured,                    \* packets seen: the number of the packet in work
          alert_generated,            \* stat.alert_generated of the worker
          decided, defaulted,         \* history: packets with a FORWARD rule, with the default action
          injected                    \* history: the copies sent, [packet in work, data]

forwardvars == <<packet_data, has_a_satisfied_rule, nb_forwarded, nb_dropped, decided, defaulted, injected>>
alertvars == <<alerted, alerts, alert_generated>>
secvars == <<security_at, ipacket, verdicts, secured, forwardvars, alertvars>>

NoData == [of |-> 0, by |-> {}]

\* forward_packet_alloc: nothing copied and nothing forwarded yet
ForwardInit ==
    /\ packet_data = NoData /\ has_a_satisfied_rule = FALSE /\ nb_forwarded = 0 /\ nb_dropped = 0
    /\ decided = {} /\ defaulted = {} /\ injected = {}

\* security_worker_alloc_init: the rules are loaded, no flow is alerted on
SecurityInit ==
    /\ alerted = {} /\ alerts = 0 /\ alert_generated = 0
    /\ ForwardInit
    /\ security_at = "idle" /\ ipacket = [path |-> <<>>, flow |-> "none"] /\ secured = 0 /\ verdicts = 0

\* _find_proto_index: the k-th proto of the path, or the last one, or 0
FindProtoIndex(proto, k, path) ==
    LET at == {i \in DOMAIN path : path[i] = proto}
        kth == {i \in at : Cardinality({j \in at : j <= i}) = k}
    IN  IF at = {} THEN 0
        ELSE IF kth # {} THEN CHOOSE i \in kth : TRUE
        ELSE CHOOSE i \in at : \A j \in at : j <= i

Carries(p, proto) == \E i \in DOMAIN p.path : p.path[i] = proto

\* _extract_data_for_specific_attribute and dpi_message_set_data: what the message gets from
\* the packet.  Session data that does not fit is left out
Elements(p) ==
    {a \in {"ip", "payload", "other"} :
        CASE a = "ip" -> IF Encapsulation = 1 THEN Carries(p, "ip")
                         ELSE FindProtoIndex("ip", Encapsulation, p.path) # 0
          [] a = "payload" -> p.payload # 0 /\ p.payload <= MessageRoom
          [] a = "other" -> p.other}

\* inject_proto_alloc: the protocols a connection is kept for
Injects(p, proto, target) == target \in Targets /\ Carries(p, proto)

\* inject_sctp_send_packet, inject_udp_send_packet: how many of the copies a connection takes
SctpCopies == 0..NbCopies
UdpCopies == 0..NbCopies

\* inject_proto_send_packet: through the connections of the protocols the packet carries
ProtoCopies(p) ==
    {n + m : n \in IF Injects(p, "sctp", "SCTP") THEN SctpCopies ELSE {0},
             m \in IF Injects(p, "udp", "UDP") THEN UdpCopies ELSE {0}}

\* inject_packet_send_packet of libpcap: some copies may fail
PcapCopies == 0..NbCopies

\* inject_packet_send_packet of DPDK: it goes on until every copy is sent
DpdkCopies == {NbCopies}

\* inject_proto_send_packet and _send_packet_to_nic: a connection first, the NIC when it took nothing
SentCopies(p) ==
    IF Dpdk THEN DpdkCopies
    ELSE (ProtoCopies(p) \ {0}) \cup (IF 0 \in ProtoCopies(p) THEN PcapCopies ELSE {})

\* _send_packet_to_nic: n copies of packet_data leave
Send(n) ==
    /\ nb_forwarded' = nb_forwarded + n
    /\ injected' = IF n = 0 THEN injected ELSE injected \cup {[packet |-> secured, data |-> packet_data]}

\* Mutant: the mark of the previous packet stays
BeforeRulesStale ==
    /\ packet_data' = [of |-> secured', by |-> {}]
    /\ UNCHANGED <<has_a_satisfied_rule, nb_forwarded, nb_dropped, decided, defaulted, injected>>

\* forward_packet_on_receiving_packet_before_rule_processing: the mark is reset, the packet copied
BeforeRules ==
    /\ packet_data' = [of |-> secured', by |-> {}]
    /\ has_a_satisfied_rule' = FALSE
    /\ UNCHANGED <<nb_forwarded, nb_dropped, decided, defaulted, injected>>

\* forward_packet_on_receiving_packet_after_rule_processing
AfterRules ==
    /\ IF has_a_satisfied_rule THEN UNCHANGED <<nb_forwarded, nb_dropped, defaulted, injected>>
       ELSE /\ defaulted' = defaulted \cup {secured}
            /\ \/ /\ DefaultAction = "DROP"
                  /\ nb_dropped' = nb_dropped + 1
                  /\ UNCHANGED <<nb_forwarded, injected>>
               \/ /\ DefaultAction = "FORWARD"
                  /\ \E n \in SentCopies(ipacket) :
                        /\ Send(n)
                        /\ nb_dropped' = IF n = 0 THEN nb_dropped + 1 ELSE nb_dropped
    /\ UNCHANGED <<packet_data, has_a_satisfied_rule, decided>>

\* mmt_probe_do_not_forward_packet, of a rule whose action is #drop
DoNotForward == nb_dropped' = nb_dropped + 1 /\ UNCHANGED <<nb_forwarded, injected, packet_data>>

\* mmt_probe_forward_packet: a failure is not counted
Forward == (\E n \in SentCopies(ipacket) : Send(n)) /\ UNCHANGED <<nb_dropped, packet_data>>

\* mmt_probe_set_attribute_number_value: update_ngap_data changes the copy, or cannot
SetAttribute ==
    /\ \/ packet_data' = [packet_data EXCEPT !.by = @ \cup {secured}]
       \/ UNCHANGED packet_data
    /\ UNCHANGED <<nb_forwarded, nb_dropped, injected>>

\* what the embedded function of a rule does with the packet: one of these calls, or none
RuleAction ==
    \/ DoNotForward \/ Forward \/ SetAttribute
    \/ UNCHANGED <<nb_forwarded, nb_dropped, injected, packet_data>>

\* _print_security_verdict of a FORWARD rule: forward_packet_mark_being_satisfied, no report; its
\* action.  Without forwarding there is no context to mark or to act on
ForwardVerdict(forwarding) ==
    /\ IF forwarding
       THEN /\ has_a_satisfied_rule' = TRUE
            /\ decided' = decided \cup {secured}
            /\ RuleAction
            /\ UNCHANGED defaulted
       ELSE UNCHANGED forwardvars
    /\ UNCHANGED alertvars

\* _print_security_verdict of any other rule: a report, and the flow is known to mmt-security
AlertVerdict ==
    /\ alerts' = alerts + 1
    /\ alerted' = alerted \cup {ipacket.flow}
    /\ UNCHANGED <<alert_generated, forwardvars>>

\* mmt_sec_process calls back: another rule is satisfied
Verdict(forwarding) ==
    /\ security_at = "rules" /\ verdicts < MaxVerdicts
    /\ verdicts' = verdicts + 1
    /\ ForwardVerdict(forwarding) \/ AlertVerdict
    /\ UNCHANGED <<security_at, ipacket, secured>>

\* _security_packet_handler, up to mmt_sec_process: a flow that may be ignored, or a packet
\* without anything for the message, goes straight to the end
SecurityPacket(flow, forwarding) ==
    \E path \in Paths, payload \in 0..2, other \in BOOLEAN :
        LET p == [path |-> path, payload |-> payload, other |-> other] IN
        /\ secured < MaxSecured
        /\ secured' = secured + 1
        /\ ipacket' = [path |-> path, flow |-> flow]
        /\ IF forwarding THEN BeforeRules ELSE UNCHANGED forwardvars
        /\ security_at' = IF (IgnoreRemainFlow /\ flow \in alerted) \/ Elements(p) = {} THEN "finish" ELSE "rules"
        /\ verdicts' = 0
        /\ UNCHANGED alertvars

\* _security_packet_handler, after the rules
SecurityFinish(forwarding) ==
    /\ security_at # "idle" /\ security_at' = "idle"
    /\ IF forwarding THEN AfterRules ELSE UNCHANGED forwardvars
    /\ UNCHANGED <<ipacket, verdicts, secured, alertvars>>

\* forward_packet_release: the context of the packet in work is freed
ForwardRelease ==
    /\ has_a_satisfied_rule' = FALSE /\ packet_data' = NoData
    /\ UNCHANGED <<nb_forwarded, nb_dropped, decided, defaulted, injected>>

\* security_worker_release: the forwarding first, then the rules, whose count of alerts is kept
SecurityRelease(used, forwarding) ==
    /\ IF used /\ forwarding THEN ForwardRelease ELSE UNCHANGED forwardvars
    /\ alert_generated' = IF used THEN alerts ELSE 0
    /\ UNCHANGED <<security_at, ipacket, verdicts, secured, alerted, alerts>>
=============================================================================
