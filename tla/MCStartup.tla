----------------------------- MODULE MCStartup -----------------------------
(* A few builds, files, command lines and updates that together take every    *)
(* check of the start-up both ways.                                           *)
EXTENDS Startup

MCNumbers ==
    ("0" :> 0) @@ ("1" :> 1) @@ ("2" :> 2) @@ ("3" :> 3) @@ ("5" :> 5) @@ ("10" :> 10) @@ ("15" :> 15) @@ ("60" :> 60) @@ ("600" :> 600)
    @@ ("1000" :> 1000) @@ ("1500" :> 1500) @@ ("5000" :> 5000) @@ ("6379" :> 6379) @@ ("9092" :> 9092)
    @@ ("10000" :> 10000) @@ ("27017" :> 27017) @@ ("65535" :> 65535) @@ ("65538" :> 65538) @@ ("70000" :> 70000)
    @@ ("262144" :> 262144)
MCLists == ("" :> {}) @@ ("kafka,redis" :> {"kafka", "redis"})
MCLengths == ("true" :> 4) @@ ("false" :> 5) @@ ("2" :> 1) @@ ("65538" :> 5) @@ ("CAPTOR" :> 6) @@ ("yes" :> 3) @@ ("" :> 0)
             @@ ("kafka,redis" :> 11) @@ ("eth1" :> 4)
MCSlashed == {"/tmp/"}

File(given) == [readable |-> TRUE, given |-> given, reconstruct |-> {"ftp", "http"}, events |-> <<>>,
                targets |-> [protocols |-> <<>>, hosts |-> <<>>, ports |-> <<>>]]
Missing == [File(<<>>) EXCEPT !.readable = FALSE]
Periods == ("stats-period" :> "1") @@ ("output.cache-period" :> "2")
Online == Periods @@ ("dynamic-config.enable" :> "true") @@ ("session-report.enable" :> "true") @@ ("session-report.gtp" :> "true")
          @@ ("thread-nb" :> "0") @@ ("micro-flows.byte-threshold" :> "0") @@ ("session-timeout.live-session-timeout" :> "70000")
          @@ ("security.rules-mask" :> "mask") @@ ("output.format" :> "json") @@ ("security.ip-encapsulation-index" :> "60") @@ ("file-output.output-dir" :> "/tmp")
Good == File(Online)
Quiet == File(("dynamic-config.enable" :> "false") @@ Online)
Dpdk == File(("dynamic-config.enable" :> "false") @@ ("dpdk-option" :> "eal") @@ Online)
Targets(protocols, n) == [protocols |-> protocols, hosts |-> [i \in 1..n |-> "h"], ports |-> [i \in 1..n |-> "1"]]

O(flag, ident, text) == [flag |-> flag, ident |-> ident, text |-> text]
X(ident, text) == O("X", ident, text)
L(ident, text) == [ident |-> ident, text |-> text, eq |-> TRUE]
M(lines) == [braces |-> TRUE, newline |-> TRUE, lines |-> lines]

Paid(days) == [exists |-> TRUE, short |-> FALSE, truncated |-> FALSE, sum |-> TRUE, macs |-> {"m1"}, days |-> days]
MCMacs == {"m1", "m2"}
MCLicenses == {Paid(30), Paid(5), Paid(0), [Paid(30) EXCEPT !.exists = FALSE], [Paid(30) EXCEPT !.sum = FALSE],
               [Paid(30) EXCEPT !.short = TRUE], [Paid(30) EXCEPT !.macs = {"m3"}]}

AllModules == {"TCP_REASSEMBLY", "FTP_RECONSTRUCT", "HTTP_RECONSTRUCT", "FORWARD_PACKET", "SECURITY", "PCAP_DUMP"}
Full == [capture |-> "PCAP", modules |-> AllModules]
Only(capture, modules) == [capture |-> capture, modules |-> modules]
Call(build, user, files, options, license) ==
    [build |-> build, user |-> user, files |-> files, options |-> options, license |-> license]
One(file, options) == Call(Full, TRUE, <<file, Missing>>, options, Paid(30))
MCLaunches ==
    \* updates
    {One(Good, o) : o \in {<<>>, <<X("session-report.gtp", "false"), X("thread-nb", "1")>>}}
    \* which file is read, and files that are refused
    \cup {Call(Full, FALSE, <<Missing, Quiet>>, <<>>, Paid(30)), Call(Full, FALSE, <<Missing, Missing>>, <<>>, Paid(30)), One(Missing, <<>>),
     One(File("input.mode" :> "live"), <<>>), One([Quiet EXCEPT !.reconstruct = {}], <<>>), One([Quiet EXCEPT !.reconstruct = {"ftp"}], <<>>),
     One([Quiet EXCEPT !.reconstruct = {"ftp"}],
         <<X("reconstruct-data.http.enable", "true"), X("enable-tcp-reassembly", "true"), X("enable-ip-defragmentation", "true")>>),
     One([Quiet EXCEPT !.reconstruct = {"ftp"}], <<X("reconstruct-data.http.output-dir", "eth1")>>),
     One([Quiet EXCEPT !.events = <<[dotted |-> FALSE]>>], <<>>), One([Quiet EXCEPT !.targets = Targets(<<"TCP">>, 1)], <<>>),
     One([Quiet EXCEPT !.targets = Targets(<<"UDP">>, 2)], <<>>), One([Quiet EXCEPT !.targets = Targets(<<"SCTP">>, 1)], <<>>)}
    \* options
    \cup {One(Quiet, o) : o \in
            {<<O("h", "", "")>>, <<O("t", "", "trace"), X("probe-id", "2")>>, <<O("t", "", "trace"), O("i", "", "eth1")>>,
             <<X("session-report.http", "true"), X("session-report.gtp", "false")>>, <<X("session-report.http", "true")>>,
             <<X("stats-period", "65538"), X("stats-period", "3")>>, <<X("unknown", "1")>>, <<X("system-report.output-channel", "file")>>,
             <<X("micro-flows.output-channel", "kafka,redis"), X("dump-pcap.protocols", "http"), X("session-report.rtt-base", "")>>,
             <<X("behaviour.enable", "true"), X("session-report.enable", "false")>>, <<X("enable-tcp-reassembly", "true")>>,
             <<X("reconstruct-data.http.enable", "true")>>, <<X("security.rules-mask", "eth1")>>, <<X("security.exclude-rules", "eth1")>>,
             <<X("license", "eth1")>>, <<X("forward-packet.enable", "true")>>,
             <<X("forward-packet.enable", "true"), X("security.enable", "true")>>, <<X("thread-nb", "2"), X("output.format", "JSON")>>}}
    \* captures and licenses
    \cup {Call(Only(c, {}), TRUE, <<f, Missing>>, o, Paid(30)) : c \in {"STREAM", "DPDK"}, f \in {Quiet, Dpdk}, o \in
            {<<>>, <<O("t", "", "trace"), X("thread-nb", "1"), X("thread-queue", "262144")>>, <<O("t", "", "trace")>>,
             <<X("thread-nb", "1"), X("thread-queue", "3")>>, <<X("dpdk-option", "eth1")>>}}
    \cup {Call(Only("PCAP", {"LICENSE"}), TRUE, <<Quiet, Missing>>, <<O("t", "", "trace")>>, l) : l \in MCLicenses}

MCMessages ==
    {M(<<L("session-report.http", "true"), L("stats-period", "2")>>), M(<<L("session-report.rtt-base", "CAPTOR"), L("thread-nb", "2"), L("input.source", "eth1")>>),
     M(<<L("session-report.http", "false"), L("session-report.ssl", "yes")>>), M(<<L("probe-id", "65538"), L("micro-flows.output-channel", "kafka,redis")>>),
     M(<<L("dynamic-config.enable", "false")>>), M(<<L("input.source", "")>>), M(<<L("unknown", "2")>>), M(<<>>),
     [M(<<L("probe-id", "2")>>) EXCEPT !.braces = FALSE], [M(<<L("probe-id", "2")>>) EXCEPT !.newline = FALSE],
     [braces |-> TRUE, newline |-> TRUE, lines |-> <<[L("probe-id", "2") EXCEPT !.eq = FALSE]>>],
     M(<<L("input.source", "kafka,redis"), L("input.source", "kafka,redis"), L("input.source", "eth1")>>), M(<<L("system-report.output-channel", "eth1")>>),
     M(<<L("stats-period", "2"), L("security.exclude-rules", "eth1")>>), M(<<L("security.rules-mask", "eth1")>>), M(<<L("license", "eth1")>>)}
=============================================================================
