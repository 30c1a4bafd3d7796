--------------------------- MODULE Configuration ---------------------------
(* The configuration of MMT-Probe (configure.c, configure_override.{h,c}):    *)
(* loading it from a file with libconfuse, overriding one parameter of it     *)
(* from the command line or from a control client, validating it.             *)
(* A configuration is a function from parameter names ("block.option") to     *)
(* values.  Texts are opaque: Numbers, Lists and Lengths say what the texts   *)
(* of an instance mean as a number, as a list, and how long they are.         *)
EXTENDS Integers, Sequences, FiniteSets, SequencesExt

CONSTANTS Numbers,  \* [the texts that are numbers -> their values]
          Lists,    \* [the texts that are lists -> the names listed]
          Lengths,  \* [texts -> strlen]
          Slashed   \* the texts that end with "/"

U16 == 65536            \* uint16_t
Int32Max == 2147483647  \* INT32_MAX

Null == "NULL"          \* a string that is not there: the pointer, which no text of an instance is

\* atoi, atol: 0 for what is not a number
Atoi(text) == IF text \in DOMAIN Numbers THEN Numbers[text] ELSE 0
ListOf(text) == IF text \in DOMAIN Lists THEN Lists[text] ELSE {text}
\* parsing yields the set of the value, empty when the text has none
The(values) == CHOOSE v \in values : TRUE

\* conf_parse_forward_default_action
ParseAction(text) == {text} \cap {"FORWARD", "DROP"}

\* conf_parse_input_mode
ParseInputMode(text) == {text} \cap {"ONLINE", "OFFLINE"}

\* conf_parse_rtt_base
ParseRttBase(text) == {text} \cap {"PREFER_SENDER", "SENDER", "CAPTOR"}

\* conf_parse_output_format: case does not matter, nothing means CSV
ParseOutputFormat(text) ==
    {f \in {"CSV", "JSON"} : text \in IF f = "CSV" THEN {"", "CSV", "csv"} ELSE {"JSON", "json"}}

\* _conf_parse_socket_type
ParseSocketType(text) == {text} \cap {"UNIX", "INTERNET", "BOTH"}

\* _conf_parse_ip_encapsulation_index: at most LAST (16), at least FIRST (1)
ParseEncapsulation(text) ==
    LET n == CASE text = "FIRST" -> 1 [] text = "LAST" -> 16 [] OTHER -> Atoi(text)
    IN  {IF n > 16 THEN 16 ELSE n : x \in {y \in {n} : y >= 1}}

\* _cfg_get_dir: a directory read from the file ends with "/"
GetDir(text) == IF text = Null \/ text \in Slashed THEN text ELSE text \o "/"

\* _parse_output_channel, conf_parse_output_channel: the file is always a channel
ParseOutputChannel(text) ==
    {"file"} \cup (ListOf(text) \cap {"file", "kafka", "redis", "mongodb", "socket"})

\* conf_parse_list
ParseList(text) == ListOf(text)

(***************************************************************************)
(* The options of the file: block and option, type, default text.         *)
(***************************************************************************)
B(block, names) == {<<block \o "." \o n[1], n[2], n[3]>> : n \in names}
Enable == <<"enable", "bool", "false">>
Channel == <<"output-channel", "channels", "">>

\* _load_cfg_from_file: the blocks up to forward-packet
ReportOptions ==
    B("micro-flows", {Enable, Channel, <<"packet-threshold", "int", "10">>, <<"byte-threshold", "int", "5">>,
        <<"report-packet-count", "int", "10000">>, <<"report-byte-count", "int", "5000">>, <<"report-flow-count", "int", "1000">>})
    \cup B("session-timeout", {<<"default-session-timeout", "int", "60">>, <<"long-session-timeout", "int", "600">>,
        <<"short-session-timeout", "int", "15">>, <<"live-session-timeout", "int", "1500">>})
    \cup B("redis-output", {Enable, <<"hostname", "str", "localhost">>, <<"channel", "str", "report">>, <<"port", "int", "6379">>})
    \cup B("kafka-output", {Enable, <<"hostname", "str", "localhost">>, <<"topic", "str", "report">>, <<"port", "int", "9092">>})
    \cup B("mongodb-output", {Enable, <<"hostname", "str", "localhost">>, <<"port", "int", "27017">>, <<"database", "str", "mmt-data">>,
        <<"collection", "str", "reports">>, <<"limit-size", "int", "0">>})
    \cup B("dynamic-config", {Enable, <<"descriptor", "str", "">>})
    \cup B("file-output", {Enable, <<"output-file", "str", Null>>, <<"output-dir", "dir", Null>>, <<"retain-files", "int", "0">>,
        <<"sample-file", "bool", "true">>})
    \cup B("behaviour", {Enable, <<"output-file", "str", Null>>, <<"output-dir", "dir", Null>>, <<"retain-files", "int", "0">>})
    \cup B("dump-pcap", {Enable, <<"output-dir", "dir", Null>>, <<"protocols", "list", "">>, <<"period", "int", "0">>,
        <<"retain-files", "int", "0">>, <<"snap-len", "int", "0">>})
    \cup B("forward-packet", {Enable, <<"output-nic", "str", Null>>, <<"snap-len", "int", "0">>, <<"nb-copies", "int", "1">>,
        <<"promisc", "int", "0">>, <<"default", "action", "FORWARD">>})

\* _load_cfg_from_file: the other blocks
OtherOptions ==
    B("security", {Enable, Channel, <<"report-rule-description", "bool", "true">>, <<"thread-nb", "int", "0">>,
        <<"rules-mask", "str", Null>>, <<"exclude-rules", "str", Null>>, <<"ignore-remain-flow", "bool", "false">>,
        <<"ip-encapsulation-index", "encapsulation", "unset">>, <<"input.max-message-size", "int", "0">>,
        <<"security.max-instances", "int", "0">>, <<"security.smp.ring-size", "int", "0">>})
    \cup B("system-report", {Enable, Channel, <<"period", "int", "0">>})
    \cup UNION {B("reconstruct-data." \o t, {Enable, Channel, <<"output-dir", "dir", Null>>}) : t \in {"ftp", "http"}}
    \cup B("radius-report", {Enable, Channel, <<"message-id", "int", "0">>})
    \cup B("socket-output", {Enable, <<"type", "sockettype", "BOTH">>, <<"port", "int", "0">>, <<"hostname", "str", "localhost">>,
        <<"descriptor", "str", "/tmp/probe-output.sock">>})
    \cup B("session-report", {Enable, Channel, <<"rtt-base", "rtt", "SENDER">>}
        \cup {<<n, "bool", "false">> : n \in {"ftp", "rtp", "http", "ssl", "gtp"}})
    \cup B("input", {<<"mode", "mode", "ONLINE">>, <<"source", "str", "">>, <<"snap-len", "int", "65535">>})
    \cup B("output", {<<"format", "format", "CSV">>, <<"cache-max", "int", "1000">>, <<"cache-period", "int", "5">>})
    \cup {<<"enable-proto-without-session-report", "bool", "false">>, <<"enable-ip-fragmentation-report", "bool", "false">>,
          <<"enable-ip-defragmentation", "bool", "false">>, <<"enable-tcp-reassembly", "bool", "false">>,
          <<"stats-period", "int", "5">>, <<"thread-nb", "int", "1">>, <<"thread-queue", "int", "0">>, <<"probe-id", "int", "0">>,
          <<"stack-type", "int", "1">>, <<"license", "str", Null>>, <<"dpdk-option", "str", Null>>}

Options == ReportOptions \cup OtherOptions
Parameters == {o[1] : o \in Options}
TypeTable == [p \in Parameters |-> (CHOOSE o \in Options : o[1] = p)[2]]
DefaultTable == [p \in Parameters |-> (CHOOSE o \in Options : o[1] = p)[3]]

\* numbers are whole numbers, texts have a length, and the defaults of numbers are numbers
ASSUME ConfigurationAssumption ==
    /\ \A t \in DOMAIN Numbers : Numbers[t] \in Int
    /\ \A t \in DOMAIN Lengths : Lengths[t] \in Nat
    /\ \A p \in Parameters : TypeTable[p] = "int" => DefaultTable[p] \in DOMAIN Numbers

\* the fields of probe_conf_t that are uint16_t
Narrow == {"thread-nb", "input.snap-len", "output.cache-period", "stats-period", "file-output.retain-files",
           "behaviour.retain-files", "mongodb-output.port", "kafka-output.port", "redis-output.port", "socket-output.port",
           "dump-pcap.period", "dump-pcap.retain-files", "dump-pcap.snap-len", "forward-packet.snap-len",
           "forward-packet.promisc", "system-report.period", "security.thread-nb", "radius-report.message-id"}
Narrowed(p, n) == IF p \in Narrow THEN n % U16 ELSE n

\* libconfuse: the value of the text of an option
FileValues(type, text) ==
    CASE type = "bool" -> {text = "true" : x \in {text} \cap {"true", "false"}}
      [] type = "int" -> {Numbers[x] : x \in {text} \cap DOMAIN Numbers}
      [] type = "str" -> {text}
      [] type = "dir" -> {GetDir(text)}
      [] type = "channels" -> {ParseOutputChannel(text)}
      [] type = "list" -> {ParseList(text)}
      [] type = "mode" -> ParseInputMode(text)
      [] type = "rtt" -> ParseRttBase(text)
      [] type = "format" -> ParseOutputFormat(text)
      [] type = "sockettype" -> ParseSocketType(text)
      [] type = "action" -> ParseAction(text)
      [] type = "encapsulation" -> IF text = "unset" THEN {0} ELSE ParseEncapsulation(text)

(***************************************************************************)
(* A file: is it readable, the options it gives, the titles of its         *)
(* reconstruct-data blocks, whether each of its events names an attribute  *)
(* as proto.att, and the three lists of forward targets.                   *)
(***************************************************************************)
Text(file, p) == IF p \in DOMAIN file.given THEN file.given[p] ELSE DefaultTable[p]

\* _load_cfg_from_file: is the file read and parsed?
Parsed(file) ==
    file.readable /\ \A p \in DOMAIN file.given : FileValues(TypeTable[p], file.given[p]) # {}

\* _cfg_getint: out of range, or zero, is replaced by the default
GetInt(file, p) ==
    LET n == Numbers[Text(file, p)]
    IN  IF n < 0 \/ n > 60000 \/ n = 0 THEN Numbers[DefaultTable[p]] ELSE n

\* _parse_session_timeout_block
Timeouts == {p \in Parameters : \E t \in {"default", "live", "long", "short"} : p = "session-timeout." \o t \o "-session-timeout"}

\* _parse_input_source: a snap length of 0 is the largest one
SnapLen(n) == IF n = 0 THEN U16 - 1 ELSE n

\* _parse_forward_packet
TargetsRefused(targets) ==
    \/ Len(targets.hosts) # Len(targets.protocols)
    \/ Len(targets.ports) # Len(targets.protocols)
    \/ \E i \in DOMAIN targets.protocols : targets.protocols[i] \notin {"SCTP", "UDP"}

\* _parse_reconstruct_data_block: a title that is missing leaves a null pointer
ReconstructMissing(file, title) == title \notin file.reconstruct

\* _parse_event_block, _parse_attributes_helper, _parse_dpi_protocol_attribute:
\* the scan for "." has no end in a text that has none
EventRunsAway(file) == \E i \in DOMAIN file.events : ~file.events[i].dotted

\* numbers, as the parsers of the blocks store them
LoadedInt(file, p) == Narrowed(p, Numbers[Text(file, p)])

\* conf_load_from_file: a system-report period of 0 means 5 seconds
SystemPeriod(n) == IF n = 0 THEN 5 ELSE n

\* Boolean values, strings, directories, lists and enumerations
LoadedOther(file, p) == The(FileValues(TypeTable[p], Text(file, p)))

\* the value one option gets in conf_load_from_file and the functions it calls
Loaded(file, p) ==
    CASE p \in Timeouts -> GetInt(file, p)
      [] p = "input.snap-len" -> SnapLen(LoadedInt(file, p))
      [] p = "system-report.period" -> SystemPeriod(LoadedInt(file, p))
      [] TypeTable[p] = "int" /\ p \notin Timeouts \cup {"input.snap-len", "system-report.period"} -> LoadedInt(file, p)
      [] OTHER -> LoadedOther(file, p)

\* conf_load_from_file: outputs.is_enable is computed here and never again
LoadFromFile(file) ==
    CASE ~Parsed(file) -> [result |-> "null"]
      [] Parsed(file) /\ EventRunsAway(file) -> [result |-> "crash"]
      [] Parsed(file) /\ ~EventRunsAway(file) /\ (TargetsRefused(file.targets) \/ file.reconstruct = {}) -> [result |-> "abort"]
      [] OTHER -> [result |-> "ok",
                   conf |-> [p \in Parameters |-> Loaded(file, p)],
                   outputs |-> \E o \in {"file", "mongodb", "redis", "kafka", "socket"} : Loaded(file, o \o "-output.enable"),
                   null |-> {t \in {"ftp", "http"} : ReconstructMissing(file, t)}]

(***************************************************************************)
(* Overriding one parameter (configure_override.c).                        *)
(***************************************************************************)
\* the #ifdef around the identities of a block: what must be compiled for them to exist
Always == "always"
GuardOf(block) ==
    CASE block = "mongodb-output" -> "MONGODB" [] block = "kafka-output" -> "KAFKA" [] block = "redis-output" -> "REDIS"
      [] block = "socket-output" -> "SOCKET" [] block = "dump-pcap" -> "PCAP_DUMP" [] block = "forward-packet" -> "FORWARD_PACKET"
      [] block = "security" -> "SECURITY" [] block = "reconstruct-data.ftp" -> "FTP_RECONSTRUCT"
      [] block = "reconstruct-data.http" -> "HTTP_RECONSTRUCT" [] OTHER -> Always
I(block, type, names) == {<<block \o "." \o n, type, GuardOf(block)>> : n \in names}

\* DECLARE_CONF_ATT: the identities, their types and their guards; three names differ
\* from the names of the options
Identities ==
    {<<"no-support", "NO_SUPPORT", Always>>, <<"license", "CHAR_STAR", "LICENSE">>, <<"dpdk-option", "CHAR_STAR", "DPDK">>,
     <<"enable-tcp-reassembly", "BOOL", "TCP_REASSEMBLY">>}
    \cup {<<n, "UINT32_T", Always>> : n \in {"probe-id", "stack-type", "thread-queue"}}
    \cup {<<n, "UINT16_T", Always>> : n \in {"stats-period", "thread-nb"}}
    \cup {<<n, "BOOL", Always>> : n \in {"enable-proto-without-session-report", "enable-ip-fragmentation-report",
                                         "enable-ip-defragmentation"}}
    \cup UNION {I(b, "BOOL", {"enable"}) : b \in
            {"dynamic-config", "file-output", "mongodb-output", "kafka-output", "redis-output", "socket-output", "dump-pcap",
             "forward-packet", "system-report", "behaviour", "security", "reconstruct-data.ftp", "reconstruct-data.http",
             "micro-flows", "session-report", "radius-report"}}
    \cup I("dynamic-config", "CHAR_STAR", {"descriptor"})
    \cup I("input", "UINT16_T", {"mode", "snap-len"}) \cup I("input", "CHAR_STAR", {"source"})
    \cup I("output", "UINT16_T", {"format"}) \cup I("output", "UINT32_T", {"cache-max", "cache-period"})
    \cup I("file-output", "CHAR_STAR", {"output-file", "output-dir"}) \cup I("file-output", "BOOL", {"sample-file"})
    \cup I("file-output", "UINT16_T", {"retain-files"})
    \cup I("mongodb-output", "CHAR_STAR", {"hostnam", "collection", "database"}) \cup I("mongodb-output", "UINT16_T", {"port"})
    \cup I("mongodb-output", "UINT32_T", {"limit-size"})
    \cup I("kafka-output", "CHAR_STAR", {"hostname", "topic"}) \cup I("kafka-output", "UINT16_T", {"port"})
    \cup I("redis-output", "CHAR_STAR", {"hostname", "channel"}) \cup I("redis-output", "UINT16_T", {"port"})
    \cup I("socket-output", "CHAR_STAR", {"hostname", "descriptor"}) \cup I("socket-output", "UINT16_T", {"type", "port"})
    \cup I("dump-pcap", "CHAR_STAR", {"output-dir"}) \cup I("dump-pcap", "LIST", {"protocols"})
    \cup I("dump-pcap", "UINT16_T", {"period", "retain-files", "snap-len"})
    \cup I("forward-packet", "CHAR_STAR", {"output-nic"}) \cup I("forward-packet", "UINT16_T", {"snap-len", "promisc"})
    \cup I("forward-packet", "UINT32_T", {"nb-copies"})
    \cup I("system-report", "UINT16_T", {"period"}) \cup I("system-report", "CHAR_STAR", {"output-channel"})
    \cup I("behaviour", "CHAR_STAR", {"output-dir", "output-file"}) \cup I("behaviour", "UINT16_T", {"retain-files"})
    \cup I("security", "UINT16_T", {"thread-nb"}) \cup I("security", "CHAR_STAR", {"exclude-rules", "rules-mask"})
    \cup I("security", "LIST", {"output-channel"}) \cup I("security", "BOOL", {"report-rule-description", "ignore-remain-flow"})
    \cup I("reconstruct-data.ftp", "CHAR_STAR", {"output-dir"}) \cup I("reconstruct-data.http", "CHAR_STAR", {"output-dir"})
    \cup I("micro-flows", "UINT32_T", {"packet-threshold", "byte-threshold", "report-packet-count", "report-bytes-count", "report-flows-count"})
    \cup I("micro-flows", "LIST", {"output-channel"})
    \cup I("session-report", "BOOL", {"ftp", "http", "rtp", "gtp", "ssl"}) \cup I("session-report", "UINT16_T", {"rtt-base"})
    \cup I("session-report", "LIST", {"output-channel"})
    \cup I("radius-report", "UINT16_T", {"message-id"}) \cup I("radius-report", "LIST", {"output-channel"})

Idents == {i[1] : i \in Identities}
DataTypes == [n \in Idents |-> (CHOOSE i \in Identities : i[1] = n)[2]]
Guards == [n \in Idents |-> (CHOOSE i \in Identities : i[1] = n)[3]]

\* conf_get_ident_attribute_field: the parameter an identity stands for
Field(ident) ==
    CASE ident = "mongodb-output.hostnam" -> "mongodb-output.hostname"
      [] ident = "micro-flows.report-bytes-count" -> "micro-flows.report-byte-count"
      [] ident = "micro-flows.report-flows-count" -> "micro-flows.report-flow-count"
      [] OTHER -> ident

\* conf_get_identity_from_string, in the table of this build
Known(ident, build) == ident \in Idents /\ Guards[ident] \in build.modules \cup {Always, build.capture}

\* conf_validate_data_value: is the text refused?  One that should be a number is not:
\* the reason is written and 0, which means no error, is returned
RefusedText(ident, text) ==
    \/ ident = "input.mode" /\ ParseInputMode(text) = {}
    \/ DataTypes[ident] = "BOOL" /\ text \notin {"true", "false"}

\* the enumerations that are overridden by number
EnumOf(p, n) ==
    CASE p = "output.format" -> IF n \in 0..1 THEN <<"CSV", "JSON">>[n + 1] ELSE "other"
      [] p = "socket-output.type" -> IF n \in 0..2 THEN <<"BOTH", "UNIX", "INTERNET">>[n + 1] ELSE "other"
      [] OTHER -> n

\* the value that _override_element_by_ident stores, if any: of the lists only
\* output channels are handled
Overriding(ident, text) ==
    CASE ident = "input.mode" -> ParseInputMode(text)
      [] ident = "session-report.rtt-base" -> ParseRttBase(text)
      [] DataTypes[ident] = "BOOL" -> {text = "true"}
      [] DataTypes[ident] \in {"UINT16_T", "UINT32_T"} /\ ident \notin {"input.mode", "session-report.rtt-base"} ->
            {EnumOf(Field(ident), Narrowed(Field(ident), Atoi(text)))}
      [] DataTypes[ident] = "CHAR_STAR" -> {text}
      [] DataTypes[ident] = "LIST" /\ ident # "dump-pcap.protocols" -> {ParseOutputChannel(text)}
      [] OTHER -> {}

\* _override_element_by_ident
OverrideByIdent(conf, ident, text) ==
    IF Overriding(ident, text) = {} THEN conf
    ELSE [conf EXCEPT ![Field(ident)] = The(Overriding(ident, text))]

\* conf_override_element_by_id, conf_get_identity_from_id: the name stands for its number
OverrideById(conf, id, text) == IF id \in Idents THEN OverrideByIdent(conf, id, text) ELSE conf

\* _override_element_by_ident reads an address that is none.  A string is compared with the
\* new one before it is replaced, also when there is no string; system-report.output-channel is
\* declared a string and is an enumeration; and the directory of a missing reconstruct-data
\* block is behind a null pointer.  No override makes a string null, and one of a null string
\* is the end: the strings that are null before several overrides are null before each
BadPointer(m, ident) ==
    \/ ident = "system-report.output-channel"
    \/ ident \in Idents /\ DataTypes[ident] = "CHAR_STAR" /\ m.conf[Field(ident)] = Null
    \/ \E t \in m.null : ident = "reconstruct-data." \o t \o ".output-dir"

\* _override_element_by_ident: "enable" is the first field of a missing block, its address is
\* null, and a null address is taken for a parameter that is not supported
NotSupported(m, ident) == \E t \in m.null : ident = "reconstruct-data." \o t \o ".enable"

(***************************************************************************)
(* conf_validate.  build: the capture and the modules that are compiled.   *)
(***************************************************************************)
\* the parameter that enables the reports on one kind of sessions
SessionReport(name) == "session-report." \o name

\* is_power_of_two, of a uint32_t: 2^31 is INT32_MAX + 1
PowerOfTwo(n) == n \in {2^i : i \in 0..30} \/ n - 1 = Int32Max

\* the errors that conf_validate counts
Errors(conf, build) ==
    {e \in {"gtp", "behaviour", "reassembly", "ftp", "http", "offline", "no thread", "queue"} :
        CASE e = "gtp" -> /\ conf["session-report.enable"] /\ conf[SessionReport("gtp")]
                          /\ \E a \in {"http", "ssl", "ftp", "rtp"} : conf[SessionReport(a)]
          [] e = "behaviour" -> conf["behaviour.enable"] /\ ~conf["session-report.enable"]
          [] e = "reassembly" -> /\ "TCP_REASSEMBLY" \in build.modules
                                 /\ conf["enable-tcp-reassembly"] /\ ~conf["enable-ip-defragmentation"]
          [] e = "ftp" -> /\ "FTP_RECONSTRUCT" \in build.modules
                          /\ ~conf["enable-tcp-reassembly"] /\ conf["reconstruct-data.ftp.enable"]
          [] e = "http" -> /\ "HTTP_RECONSTRUCT" \in build.modules
                           /\ ~conf["enable-tcp-reassembly"] /\ conf["reconstruct-data.http.enable"]
          [] e = "offline" -> build.capture = "DPDK" /\ conf["input.mode"] = "OFFLINE"
          [] e = "no thread" -> build.capture = "DPDK" /\ conf["thread-nb"] = 0
          [] e = "queue" -> build.capture = "DPDK" /\ ~PowerOfTwo(conf["thread-queue"])}

\* the assertions on packet forwarding
ForwardAsserted(conf, build) ==
    ("FORWARD_PACKET" \in build.modules /\ conf["forward-packet.enable"])
        => ("SECURITY" \in build.modules /\ conf["security.enable"] /\ conf["forward-packet.nb-copies"] > 0)

\* conf_validate: with no reassembly, the enabling of a reconstruction is read through a null pointer
NullRead(conf, null, build) ==
    /\ ~conf["enable-tcp-reassembly"]
    /\ \/ "ftp" \in null /\ "FTP_RECONSTRUCT" \in build.modules
       \/ "http" \in null /\ "HTTP_RECONSTRUCT" \in build.modules

\* the defaults that conf_validate fills in
Normalised(conf) ==
    [conf EXCEPT !["micro-flows.report-byte-count"] = IF @ = 0 THEN Int32Max ELSE @,
                 !["micro-flows.byte-threshold"] = IF @ = 0 THEN Int32Max ELSE @,
                 !["dump-pcap.period"] = IF @ = 0 THEN 3600 ELSE @]
=============================================================================
