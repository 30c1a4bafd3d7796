------------------------------- MODULE AppStat -------------------------------
(* What a session report says about the application of a session: web, SSL,   *)
(* RTP or GTP (modules/dpi/report/session_report_{web,ssl,rtp,gtp}.c).        *)
(* session_stat_t holds a type and a union of pointers; every handler that    *)
(* DPI calls tests the type before it takes the pointer for its own, and ends *)
(* the probe when the type is another one ("Impossible: stat_type must be").  *)
EXTENDS Naturals, Sequences

CONSTANTS MaxTeids,   \* MAX_NB_TEID (6)
          U8          \* 2^8: request_nb and transaction_indicator are uint8_t

ASSUME AppStatAssumption == MaxTeids \in Nat \ {0} /\ U8 \in Nat \ {0}

\* apps: the null pointer, and what each kind points to.  Strings are kept as "seen"
NoApp == [kind |-> "null"]
WebReset == [kind |-> "web", seen |-> {}, cdn |-> FALSE, requested |-> FALSE, responded |-> FALSE,
             request_nb |-> 0, transaction_indicator |-> 0]
SslReset == [kind |-> "ssl", hostname |-> FALSE]
RtpReset == [kind |-> "rtp", packets_nb |-> 0, jitter |-> 0, lost |-> 0, bursts |-> 0, order_error |-> 0]
GtpReset == [kind |-> "gtp", ip_version |-> 0, teids |-> <<>>]

\* conf_validate: GTP reports exclude the reports on the applications above IP
GtpAlone(c) == ~("gtp" \in c /\ c \cap {"web", "ssl", "rtp", "ftp"} # {})

\* MY_MISTAKE and ABORT: the process exits
Impossible(st) == [st EXCEPT !.app_type = "exit"]

\* _get_packet_session of session_report_web.c
WebSession(st) ==
    IF st.app_type \notin {"IP", "WEB"} THEN Impossible(st)
    ELSE [st EXCEPT !.app_type = "WEB", !.app = IF @ = NoApp THEN WebReset ELSE @]

\* _web_method_handle, after the report of the previous request
WebMethod(st) ==
    [st EXCEPT !.app.request_nb = (@ + 1) % U8, !.app.transaction_indicator = 1,
               !.app.seen = @ \cup {"method"}, !.app.requested = TRUE]

\* _web_response_handle
WebResponse(st) ==
    [st EXCEPT !.app.transaction_indicator = 0, !.app.seen = @ \cup {"response"}, !.app.responded = TRUE]

\* _web_referer_handle, _web_uri_handle, _web_content_len_handle, _web_host_handle,
\* _content_type_handle: the string is remembered (the last two keep the first one)
WebHeaders(st, names) == [st EXCEPT !.app.seen = @ \cup names]

\* _web_xcdn_seen_handle
WebXcdn(st, cdn) == [st EXCEPT !.app.cdn = cdn]

\* print_web_report
PrintWeb(st) ==
    [st EXCEPT !.app.responded = FALSE, !.app.transaction_indicator = (@ + 1) % U8]

\* _ssl_server_name_handle
SslServerName(st, named) ==
    IF st.app_type \notin {"IP", "SSL"} THEN Impossible(st)
    ELSE LET new == IF st.app = NoApp THEN [st EXCEPT !.app_type = "SSL", !.app = SslReset] ELSE st
         IN  IF named THEN [new EXCEPT !.app.hostname = TRUE] ELSE new

\* _get_packet_session of session_report_rtp.c
RtpSession(st) ==
    IF st.app_type \notin {"IP", "RTP"} THEN Impossible(st)
    ELSE [st EXCEPT !.app_type = "RTP", !.app = IF @ = NoApp THEN RtpReset ELSE @]

\* _rtp_version_handle, _rtp_jitter_handle, _rtp_loss_handle, _rtp_error_order_handle,
\* _rtp_burst_loss_handle, on the values v that one packet has
RtpPacket(st, v) ==
    IF RtpSession(st).app_type = "exit" THEN RtpSession(st)
    ELSE [RtpSession(st) EXCEPT !.app.packets_nb = @ + 1,
                                !.app.jitter = IF v.jitter > @ THEN v.jitter ELSE @,
                                !.app.lost = @ + v.loss, !.app.order_error = @ + v.order,
                                !.app.bursts = @ + v.burst]

\* print_rtp_report
PrintRtp(st) == [st EXCEPT !.app = RtpReset]

\* _get_gtp_session_data: no test of the type, the pointer decides
GtpSession(st) ==
    IF st.app = NoApp THEN [st EXCEPT !.app_type = "GTP", !.app = GtpReset] ELSE st

\* _gtp_update_ip: the addresses of the first packet stay
GtpUpdateIp(a, version) == [a EXCEPT !.ip_version = IF @ = 0 THEN version ELSE @]

\* Mutant: the end of the array is not looked at
GtpUpdateTeidUnbounded(a, teid) ==
    IF teid = 0 \/ teid \in {a.teids[i] : i \in DOMAIN a.teids} THEN a
    ELSE [a EXCEPT !.teids = Append(@, teid)]

\* _gtp_update_teid: a new TEID is added while there is room
GtpUpdateTeid(a, teid) ==
    IF teid = 0 \/ teid \in {a.teids[i] : i \in DOMAIN a.teids} \/ Len(a.teids) = MaxTeids
    THEN a
    ELSE [a EXCEPT !.teids = Append(@, teid)]

\* _gtp_ip_src_handle
GtpIpSrc(st, version, teid) ==
    [GtpSession(st) EXCEPT !.app = GtpUpdateTeid(GtpUpdateIp(@, version), teid)]

\* print_ssl_report and print_gtp_report only read
PrintSsl(st) == st
PrintGtp(st) == st

\* the switch over app_type in _print_ip_session_report
PrintApp(st) ==
    CASE st.app_type = "WEB" -> PrintWeb(st)
      [] st.app_type = "SSL" -> PrintSsl(st)
      [] st.app_type = "RTP" -> PrintRtp(st)
      [] st.app_type = "GTP" -> PrintGtp(st)
      [] OTHER -> st
=============================================================================
