-------------------------------- MODULE Worker --------------------------------
(* A worker and everything it does with a packet (worker.c, dpi.c): dump it,  *)
(* count it in its session, handle its attributes, rebuild files, look for    *)
(* threats and forward it; then its periods, the end of sessions and the way  *)
(* it is stopped and released.  A configuration is a set of features.         *)
EXTENDS SessionReport, HttpReconstruct, PcapDump, Security, AttributeReports

CONSTANT Confs       \* the configurations

ASSUME ConfsAssumption == \A c \in Confs : GtpAlone(c)

\* packet_session_t: what is kept to rebuild files is part of a session
ASSUME SessionsAssumption == HttpSessions = Sessions

VARIABLE phase       \* of the worker: run, stopped, closed

vars == <<svars, hvars, dvars, secvars, avars, phase>>

Init ==
    /\ conf \in Confs
    /\ SessionInit /\ HttpInit /\ DumpStart /\ SecurityInit /\ AttributeInit
    /\ phase = "run"

\* what the packets of a session can carry, as far as a handler is registered for it.  DPI
\* finds one application per session
Carried(s) ==
    {<<"plain", "unknown">>}
    \cup (IF Handled("web") THEN {<<"request", "http">>, <<"response", "http">>} ELSE {})
    \cup (IF Handled("ssl") THEN {<<"server_name", "ssl">>} ELSE {})
    \cup (IF Handled("rtp") THEN {<<"rtp", "rtp">>} ELSE {})

PacketsOf(s) ==
    {[dir |-> d, size |-> z, what |-> w[1], app |-> w[2], headers |-> h, rtp |-> r, teid |-> t, tcp |-> x] :
        d \in IF On("session") \/ On("micro") THEN Directions ELSE {0},
        z \in IF On("micro") THEN Sizes ELSE {1},
        w \in {c \in Carried(s) : app[s] \in {"unknown", c[2]} \/ c[2] = "unknown"},
        h \in IF Handled("web") \/ Handled("ssl") THEN {{}, {"host"}} ELSE {{}},
        r \in IF Handled("rtp") THEN RtpValues ELSE {0},
        t \in IF Handled("gtp") THEN Teids ELSE {0},
        x \in IF On("qos") THEN {{t} : t \in TcpHeaders} ELSE {{}}}

Captured == SumFunction([s \in Sessions |-> Total(cnt[s])])
Bound == IF On("qos") THEN MaxTcpPackets ELSE IF On("http_reconstruct") THEN MaxHttp ELSE MaxPackets

\* a packet of a session goes through every handler that is registered
Packet(s) ==
    /\ phase = "run" /\ Captured < Bound
    /\ \E p \in PacketsOf(s) : ReceivePacket(s, p)
    /\ IF On("dump") THEN \E ts \in (newest - Jitter)..MaxTime, path \in Paths : DumpPacket(ts, path, {"ip", "udp"})
                     ELSE UNCHANGED dvars
    /\ IF Handled("http_reconstruct") THEN HttpAttribute(s)
       ELSE IF Handled("ftp_reconstruct") THEN FtpPacket(s) ELSE UNCHANGED hvars
    /\ IF On("security") THEN SecurityPacket(s, On("forward")) ELSE UNCHANGED secvars
    /\ UNCHANGED <<avars, phase>>

\* the rule engine calls back, or has done with the packet
SecurityStep ==
    /\ Verdict(On("forward")) \/ SecurityFinish(On("forward"))
    /\ UNCHANGED <<svars, hvars, dvars, avars, phase>>

\* a packet without session
NoSessionPacket ==
    /\ phase = "run"
    /\ \E k \in {"arp", "frag"} : On(k) /\ arp[k] + arp_sent[k] < MaxArp /\ ReceiveNoSession(k)
    /\ UNCHANGED <<hvars, dvars, secvars, avars, phase>>

\* an attribute of an event, RADIUS or LTE report
AttributeSeen ==
    /\ phase = "run"
    /\ \E k \in {"event", "radius", "lte"} : Handled(k) /\ Attribute(k)
    /\ UNCHANGED <<svars, hvars, dvars, secvars, phase>>

\* worker_on_timer_stat_period
TimerStatPeriod ==
    /\ phase = "run" /\ periods < MaxPeriods
    /\ StatPeriod
    /\ UNCHANGED <<handlers, hvars, dvars, secvars, avars, phase>>

\* a session times out, or worker_release closes DPI, which ends every session left
SessionEnds(s) ==
    /\ phase \in {"run", "stopped"}
    /\ EndSession(s)
    /\ HttpEndSession(s)
    /\ UNCHANGED <<dvars, secvars, avars, phase>>

\* worker_on_stop: security_worker_release, then dpi_close with its last period
OnStop ==
    /\ phase = "run"
    /\ SecurityRelease(On("security"), On("forward"))
    /\ StatPeriod
    /\ CloseHandlers
    /\ phase' = "stopped"
    /\ UNCHANGED <<hvars, dvars, avars>>

\* worker_release, after mmt_close_handler
Release ==
    /\ phase = "stopped" /\ live = {}
    /\ ReleaseReports
    /\ DumpStop
    /\ phase' = "closed"
    /\ UNCHANGED <<hvars, secvars, avars>>

\* a worker does nothing else before it has done with a packet
Next ==
    \/ /\ security_at = "idle"
       /\ \/ \E s \in Sessions : Packet(s) \/ SessionEnds(s)
          \/ NoSessionPacket \/ AttributeSeen \/ TimerStatPeriod
          \/ OnStop \/ Release
    \/ SecurityStep

Spec == Init /\ [][Next]_vars

(* The states of a worker: no handler finds a session of another application  *)
(* (MY_MISTAKE in session_report_{web,ssl,rtp}.c), the array of the TEIDs of  *)
(* a GTP session is not overrun (_gtp_update_teid), and a complete            *)
(* quality-of-service triple is reported at once (_got_data).                 *)
TypeOK ==
    /\ phase \in {"run", "stopped", "closed"}
    /\ live \subseteq Sessions
    /\ \A s \in Sessions :
          /\ stat[s].app_type \in {"null", "IP", "WEB", "SSL", "RTP", "GTP"}
          /\ stat[s].app.kind = "gtp" => Len(stat[s].app.teids) <= MaxTeids
    /\ periods <= MaxPeriods + 1
    /\ qos.qci = 0 \/ qos.ue_id = 0 \/ qos.teid = 0
    /\ nb_dropped \in Nat /\ nb_forwarded \in Nat
-----------------------------------------------------------------------------
(* When a worker is released, every packet of every session was reported      *)
(* exactly once: in the session's own reports (periods, HTTP requests, end)   *)
(* or in the micro flows of its application, and ARP packets and fragments    *)
(* in the no-session reports ("a session statistic is processed as either     *)
(* micro-flow or normal-flow", dpi.c).  Not with web and micro-flow reports   *)
(* together, where _web_method_handle reports a flow that may end as micro.   *)
TrafficOnce ==
    phase = "closed" =>
        /\ On("session") /\ ~(On("web") /\ On("micro")) =>
             \A s \in Sessions : sent[s] + counted[s] = Total(cnt[s])
        /\ micro_sent = SumFunction(counted)
        /\ arp = [arp |-> 0, frag |-> 0]

(* The list of unacknowledged packets stays sorted in strictly descending     *)
(* order and keeps what was stored and not yet acknowledged, whatever the     *)
(* wrap-around of sequence numbers and the retransmissions                    *)
(* (tcp_rtt_add_packet; "The list is sorted by descending order").            *)
RttSorted ==
    \A s \in live, d \in Directions :
        /\ Descending(stat[s].pkts[d])
        /\ Len(stat[s].pkts[d]) = stat[s].stored[d]

(* Every file opened for HTTP data is closed and reported exactly once, by    *)
(* the end of the message, the next request or the end of the session, and    *)
(* the file of the last report under a name is there, decoded if the report   *)
(* says success and as received if it says corrupted.                         *)
HttpOnce ==
    /\ \A i, j \in DOMAIN reports : reports[i].id = reports[j].id => i = j
    /\ phase = "closed" => Len(reports) = opened
    /\ \A i \in DOMAIN reports :
          (\A j \in DOMAIN reports : reports[j].name = reports[i].name => j <= i) =>
              /\ reports[i].status = "success" => <<reports[i].name, "plain">> \in disk
              /\ reports[i].status = "corrupted" => <<reports[i].name, "gzip">> \in disk

(* Every packet is decided on once, by the FORWARD rules it satisfies or by   *)
(* the default action and never by both, and a copy that leaves the probe is  *)
(* one of the packet in work, changed by no rule but those it satisfied:      *)
(* neither the mark nor the bytes of one packet reach the next, however many  *)
(* rules call back (forward_packet_on_receiving_packet_before/after_rule_     *)
(* processing, mmt_probe_forward_packet, mmt_probe_set_attribute_number_value)*)
ForwardedIntact ==
    On("forward") =>
        /\ decided \cap defaulted = {}
        /\ security_at = "idle" => decided \cup defaulted = 1 .. secured
        /\ \A c \in injected : c.data.of = c.packet /\ c.data.by \subseteq decided \cap {c.packet}

(* No dump file is opened a second time, which would erase it, although       *)
(* timestamps can run back by up to a period and files may fail to open       *)
(* (pcap_dump_callback_on_receiving_packet).                                  *)
DumpNoOverwrite == \A i, j \in DOMAIN names : names[i] = names[j] => i = j
=============================================================================
