---------------------------- MODULE SessionReport ----------------------------
(* The statistics of a worker's sessions: modules/dpi/dpi.c, the session,     *)
(* micro-flow and no-session reports of modules/dpi/report.  A session is     *)
(* reported at every period, when a second HTTP request is seen in it and     *)
(* when it ends; small sessions are not reported but added up per application *)
(* (micro flows).  The DPI library (mmt-dpi) keeps the counters of a session  *)
(* and calls the handlers; it is external.                                    *)
EXTENDS AppStat, TcpRtt, FiniteSets, FiniteSetsExt

CONSTANTS Sessions, Apps,
          Sizes,              \* the sizes a packet can have
          ByteThreshold, PacketThreshold,                  \* micro-flow thresholds
          ReportBytes, ReportPackets, ReportFlows,         \* limits of a micro-flow report
          TcpHeaders, RtpValues, Teids,                    \* what packets carry
          MaxPackets, MaxTcpPackets, MaxArp, MaxPeriods    \* bounds

\* sizes and thresholds are unsigned, every application has its micro flows, and the numbers of
\* a TCP header are uint32_t
ASSUME SessionAssumption ==
    /\ MaxPeriods \in Nat /\ ByteThreshold \in Nat /\ PacketThreshold \in Nat /\ Sizes \subseteq Nat
    /\ IsFiniteSet(Sessions) /\ IsFiniteSet(Apps) /\ {"unknown", "http", "ssl", "rtp"} \subseteq Apps
    /\ \A t \in TcpHeaders : {t.seq, t.ack, t.len, t.tsval, t.tsecr} \subseteq 0 .. SeqSpace - 1

VARIABLES conf,         \* the enabled features and compiled modules
          handlers,     \* the features whose attribute handlers DPI calls
          live,         \* sessions DPI holds
          cnt,          \* DPI's counters of each session
          app,          \* the application of each session, once DPI knows it
          stat,         \* session_stat_t of each session
          micro,        \* micro_flow_stats_t of each application
          arp,          \* proto_statistics_t of ARP and of fragmented IP
          periods,      \* stat_periods_index
          sent, counted, micro_sent, arp_sent    \* what reports said so far

svars == <<conf, handlers, live, cnt, app, stat, micro, arp, periods, sent, counted, micro_sent, arp_sent>>

On(f) == f \in conf
Handled(f) == f \in handlers

NoCount == [ul |-> 0, dl |-> 0, bytes |-> 0]
NoRtt == [counter |-> 0, min |-> 0, max |-> 0]
NoMicro == [flows_nb |-> 0, ul |-> 0, dl |-> 0, bytes |-> 0]
NoStat == [app_type |-> "null", app |-> NoApp, ul |-> 0, dl |-> 0, bytes |-> 0,
           pkts |-> RttEmpty, rtt |-> [d \in Directions |-> NoRtt], retransmission |-> 0,
           tcp |-> "none", printed |-> {}, stored |-> [d \in Directions |-> 0]]

Total(c) == c.ul + c.dl

AppReports == {"web", "ssl", "rtp", "gtp"}
OtherReports == {"radius", "lte", "http_reconstruct", "ftp_reconstruct"}

\* dpi_register_conditional_handler, dpi_unregister_conditional_handler: a table of handlers
RegisterConditional(h, table) == h \cup table
UnregisterConditional(h, table) == h \ table

\* dpi_register_attribute, dpi_unregister_attribute: the attributes of an event report
RegisterEvent(h) == IF On("event") THEN h \cup {"event"} ELSE h
UnregisterEvent(h) == IF On("event") THEN h \ {"event"} ELSE h

\* session_report_register, session_report_unregister: the tables of the applications
SessionRegister(h) == IF On("session") THEN RegisterConditional(h, AppReports \cap conf) ELSE h
SessionUnregister(h) == IF On("session") THEN UnregisterConditional(h, AppReports \cap conf) ELSE h

\* dpi_alloc_init: every report that is enabled registers its handlers
SessionInit ==
    /\ handlers = RegisterConditional(SessionRegister(RegisterEvent({})), OtherReports \cap conf)
    /\ live = {}
    /\ cnt = [s \in Sessions |-> NoCount]
    /\ app = [s \in Sessions |-> "unknown"]
    /\ stat = [s \in Sessions |-> NoStat]
    /\ micro = [a \in Apps |-> NoMicro]
    /\ arp = [arp |-> 0, frag |-> 0]
    /\ periods = 0
    /\ sent = [s \in Sessions |-> 0]
    /\ counted = [s \in Sessions |-> 0]
    /\ micro_sent = 0
    /\ arp_sent = [arp |-> 0, frag |-> 0]
-----------------------------------------------------------------------------
\* session_report_callback_on_starting_session of an IP or IPv6 session
StartStat == [NoStat EXCEPT !.app_type = "IP"]

\* Mutant: the download counter is not remembered
RememberPackets(st, c) ==
    [st EXCEPT !.ul = c.ul, !.bytes = c.bytes,
               !.rtt = [d \in Directions |-> NoRtt], !.retransmission = 0]

\* the end of _print_ip_session_report: remember the counters, forget the RTT
Remember(st, c) ==
    [st EXCEPT !.ul = c.ul, !.dl = c.dl, !.bytes = c.bytes,
               !.rtt = [d \in Directions |-> NoRtt], !.retransmission = 0]

\* the times that are reported once, as soon as they are known
PrintTcpTimes(st) ==
    [st EXCEPT !.printed = @ \cup (CASE st.tcp = "none" -> {}
                                     [] st.tcp = "established" -> {"handshake"}
                                     [] st.tcp = "data" -> {"handshake", "app_response"})]

\* session_report_do_report: nothing without new packets
NewPackets(st, c) == Total(c) - (st.ul + st.dl)
DoReport(st, c) ==
    IF NewPackets(st, c) = 0 THEN st ELSE Remember(PrintApp(PrintTcpTimes(st)), c)

\* rtt_base: the numbers that stand for sequence and acknowledgement, 0 when absent
RttNumbers(t) ==
    LET sender == (On("rtt_sender") \/ On("rtt_prefer_sender")) /\ t.options
        seq == IF sender THEN t.tsval ELSE 0
        ack == IF sender THEN (t.tsecr + 1) % SeqSpace ELSE 0
    IN  CASE On("rtt_sender") -> [seq |-> seq, ack |-> ack, len |-> 0]
          [] ~On("rtt_sender") /\ On("rtt_captor") -> [seq |-> t.seq, ack |-> t.ack, len |-> t.len]
          [] OTHER -> [seq |-> IF seq = 0 THEN t.seq ELSE seq,
                       ack |-> IF ack = 0 THEN t.ack ELSE ack, len |-> 0]

\* the RTT of the opposite direction; a minimum of 0 counts as unset
AddRtt(r, counter, usec) ==
    [counter |-> r.counter + counter,
     max |-> IF r.max < usec THEN usec ELSE r.max,
     min |-> IF r.min = 0 \/ r.min > usec THEN usec ELSE r.min]

\* the connection is established, then its first data packet comes
TcpProgress(st, t) ==
    CASE st.tcp = "none" -> IF t.established THEN "established" ELSE "none"
      [] OTHER -> "data"

\* session_report_callback_on_receiving_packet of a TCP packet t
ReceiveTcp(st, dir, t, now) ==
    LET n == RttNumbers(t)
        r == IF n.seq # 0 /\ n.ack # 0 THEN RttAddPacket(st.pkts, dir, n.seq, n.ack, n.len, now)
             ELSE [pkts |-> st.pkts, counter |-> 0, usec |-> 0]
        other == Opposite(dir)
    IN  [st EXCEPT !.pkts = r.pkts,
                   !.rtt[other] = IF r.counter = 0 THEN @ ELSE AddRtt(@, r.counter, r.usec),
                   !.stored[dir] = @ + Len(r.pkts[dir]) - Len(st.pkts[dir]),
                   !.stored[other] = @ - r.counter,
                   !.retransmission = @ + t.retransmission,
                   !.tcp = TcpProgress(st, t)]
-----------------------------------------------------------------------------
\* is_micro_flow
IsMicro(c) == ByteThreshold >= c.bytes \/ PacketThreshold >= Total(c)

\* the limits of micro_flow_report__update: downloaded packets count twice, uploaded ones do not
MicroFull(m) == m.bytes > ReportBytes \/ m.dl + m.dl > ReportPackets \/ m.flows_nb > ReportFlows

\* micro_flow_report__update
MicroUpdate(a, c) ==
    LET m == [flows_nb |-> micro[a].flows_nb + 1, ul |-> micro[a].ul + c.ul,
              dl |-> micro[a].dl + c.dl, bytes |-> micro[a].bytes + c.bytes]
    IN  IF MicroFull(m) THEN /\ micro' = [micro EXCEPT ![a] = NoMicro]
                             /\ micro_sent' = micro_sent + Total(m)
                        ELSE /\ micro' = [micro EXCEPT ![a] = m]
                             /\ UNCHANGED micro_sent

\* micro_flow_report_release: report the rest
MicroRelease ==
    /\ micro_sent' = micro_sent + SumFunction([a \in Apps |-> Total(micro[a])])
    /\ micro' = [a \in Apps |-> NoMicro]

\* no_session_report: what was seen since the last period, if anything, and reset
NoSessionReport ==
    LET reported == [k \in DOMAIN arp |-> IF On(k) THEN arp[k] ELSE 0] IN
    /\ arp_sent' = [k \in DOMAIN arp |-> arp_sent[k] + reported[k]]
    /\ arp' = [k \in DOMAIN arp |-> arp[k] - reported[k]]
-----------------------------------------------------------------------------
\* the handlers of a request, in the order in which they were registered: the URI, the
\* method (which reports the previous request of the session), the other headers
WebRequest(st, c, headers) ==
    LET uri == WebHeaders(WebSession(st), {"uri"})
        new == IF "host" \in uri.app.seen THEN [DoReport(uri, c) EXCEPT !.app = WebReset] ELSE uri
    IN  IF WebSession(st).app_type = "exit" THEN WebSession(st) ELSE WebHeaders(WebMethod(new), headers)

WebReply(st) ==
    IF WebSession(st).app_type = "exit" THEN WebSession(st)
    ELSE WebXcdn(WebHeaders(WebResponse(WebSession(st)), {"content_type", "content_len"}), TRUE)

\* the application handlers that session_report_register has registered
AppHandlers(st, c, p) ==
    CASE Handled("web") /\ p.what = "request" -> WebRequest(st, c, p.headers)
      [] Handled("web") /\ p.what = "response" -> WebReply(st)
      [] Handled("ssl") /\ p.what = "server_name" -> SslServerName(st, "host" \in p.headers)
      [] Handled("rtp") /\ p.what = "rtp" -> RtpPacket(st, p.rtp)
      [] OTHER -> st

\* what _web_method_handle reports before the packet is done with
ReportedByRequest(st, c, p) ==
    IF Handled("web") /\ p.what = "request" /\ st.app.kind = "web" /\ "host" \in WebSession(st).app.seen
    THEN NewPackets(st, c) ELSE 0

\* _create_session, by _starting_session_handler or by _packet_handler
OpenedStat(s) == IF s \in live THEN stat[s] ELSE StartStat

\* DPI counts the packet, then calls the handlers: the session is created, attributes are
\* handled, _packet_handler comes last
ReceivePacket(s, p) ==
    LET c == [ul |-> cnt[s].ul + (1 - p.dir), dl |-> cnt[s].dl + p.dir, bytes |-> cnt[s].bytes + p.size]
        new == OpenedStat(s)
        gtp == IF Handled("gtp") THEN GtpIpSrc(new, 4, p.teid) ELSE new
        handled == AppHandlers(gtp, c, p)
        now == SumFunction([x \in Sessions |-> Total(cnt[x])]) + 1
    IN  /\ s \in live \/ Total(cnt[s]) = 0
        /\ live' = live \cup {s}
        /\ cnt' = [cnt EXCEPT ![s] = c]
        /\ app' = [app EXCEPT ![s] = IF @ = "unknown" THEN p.app ELSE @]
        /\ sent' = [sent EXCEPT ![s] = @ + ReportedByRequest(gtp, c, p)]
        /\ stat' = [stat EXCEPT ![s] = IF On("session") /\ On("qos") /\ p.tcp # {}
                                       THEN ReceiveTcp(handled, p.dir, CHOOSE t \in p.tcp : TRUE, now)
                                       ELSE handled]
        /\ UNCHANGED <<conf, handlers, micro, arp, periods, counted, micro_sent, arp_sent>>

\* a packet without session: ARP, or a fragment of an IP packet
ReceiveNoSession(k) ==
    /\ arp' = [arp EXCEPT ![k] = @ + 1]
    /\ UNCHANGED <<conf, handlers, live, cnt, app, stat, micro, periods, sent, counted, micro_sent, arp_sent>>

IsMicroSession(s) == On("micro") /\ IsMicro(cnt[s])

\* _period_session_report: the sessions it reports on
PeriodSessions == IF On("session") THEN {s \in live : ~IsMicroSession(s)} ELSE {}

\* the end of dpi_close: nobody handles attributes any more
CloseHandlers ==
    handlers' = UnregisterConditional(UnregisterEvent(SessionUnregister(handlers)), OtherReports \cap conf)

\* dpi_callback_on_stat_period; what it leaves of the handlers is up to its caller
StatPeriod ==
    LET due == PeriodSessions IN
    /\ periods' = periods + 1
    /\ NoSessionReport
    /\ stat' = [s \in Sessions |-> IF s \in due THEN DoReport(stat[s], cnt[s]) ELSE stat[s]]
    /\ sent' = [s \in Sessions |-> IF s \in due THEN sent[s] + NewPackets(stat[s], cnt[s]) ELSE sent[s]]
    /\ UNCHANGED <<conf, live, cnt, app, micro, counted, micro_sent>>

\* session_report_callback_on_ending_session: what it keeps about packets is freed
EndStat == [NoStat EXCEPT !.pkts = RttRelease]

\* _ending_session_handler: the session has timed out, or DPI is being closed
EndSession(s) ==
    /\ s \in live
    /\ live' = live \ {s}
    /\ IF IsMicroSession(s)
       THEN MicroUpdate(app[s], cnt[s]) /\ counted' = [counted EXCEPT ![s] = @ + Total(cnt[s])]
       ELSE UNCHANGED <<micro, micro_sent, counted>>
    /\ sent' = IF On("session") /\ ~IsMicroSession(s)
               THEN [sent EXCEPT ![s] = @ + NewPackets(stat[s], cnt[s])] ELSE sent
    /\ stat' = IF On("session") THEN [stat EXCEPT ![s] = EndStat] ELSE stat
    /\ UNCHANGED <<conf, handlers, cnt, app, arp, periods, arp_sent>>

\* dpi_release, the statistics
ReleaseReports ==
    /\ IF On("micro") THEN MicroRelease ELSE UNCHANGED <<micro, micro_sent>>
    /\ UNCHANGED <<conf, handlers, live, cnt, app, stat, arp, periods, sent, counted, arp_sent>>
=============================================================================
